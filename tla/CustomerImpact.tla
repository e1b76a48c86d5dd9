--------------------------- MODULE CustomerImpact ---------------------------
(***************************************************************************)
(* The customer-impact answer of CustomerImpactService.ts: one Log         *)
(* Analytics query and one inventory read, started together and both       *)
(* allowed to fail, make a status; the answer is kept for a while, counted *)
(* from the START of its collection, and requests that come while one is   *)
(* collected share it.                                                     *)
(*                                                                         *)
(* Time is a tick; every moment is kept as its age, up to Horizon, which   *)
(* stands for longer ago.  Of the synthetic transactions the log holds the *)
(* model keeps the last success and the last critical failure (stage       *)
(* persistence or ingress).  Other failures, their share and the latency   *)
(* are choices at the moment of the query.  Rows may reach the log late.   *)
(***************************************************************************)
EXTENDS Integers

CONSTANTS
    Window,     \* queryWindowMinutes
    Freshness,  \* freshnessMs
    TTL,        \* CUSTOMER_IMPACT_CACHE_MS
    MaxQuery,   \* how long a query or an inventory read takes at most
    Horizon,    \* the age from which on ages are not told apart
    Nothing     \* no answer, no collection

\* An answer is at most MaxAge old when it is given: it comes from the cache
\* or from the collection that has just ended.
MaxAge == IF TTL - 1 > MaxQuery THEN TTL - 1 ELSE MaxQuery

ASSUME ImpactAssumption ==
    /\ {Window, Freshness, TTL, MaxQuery, Horizon} \subseteq Nat
    /\ 0 < TTL /\ Freshness < Window
    /\ Window <= Horizon /\ Freshness + MaxAge < Horizon

Ages == 0..Horizon
Earlier(a, b) == IF a < b THEN a ELSE b
Older(age) == IF age = Horizon THEN Horizon ELSE age + 1

VARIABLES
    okAge,        \* the last success the log holds
    badAge,       \* the last critical failure it holds
    unrecovered,  \* history: since when the log holds a critical failure that
                  \* is in the window and that no later success has ended
    flight,       \* inFlight: the collection under way
    cached,       \* cachedResult
    told          \* history: the status that the last step has answered

impactVars == <<okAge, badAge, unrecovered, flight, cached, told>>
world == <<okAge, badAge, unrecovered>>

Statuses == {"healthy", "degraded", "critical", "unknown", "no-data"}

Telemetry == [data : {"pending", "unavailable", "no-data", "failing"}]
    \cup [data : {"available"}, lastSuccess : Ages, unended : BOOLEAN, slo : {"met", "slow", "low"}]
ImpactAnswers == [age : 0..MaxAge, status : Statuses, lastSuccess : Ages, rateMet : BOOLEAN]
Collections == [age : 0..MaxQuery, telemetry : Telemetry,
                inventory : {"pending", "impact", "clear", "unavailable"}]

ASSUME NothingAssumption ==
    Nothing \notin Statuses /\ Nothing \notin ImpactAnswers /\ Nothing \notin Collections

ImpactTypeOK ==
    /\ okAge \in Ages /\ badAge \in Ages /\ unrecovered \in Ages
    /\ flight \in Collections \cup {Nothing} /\ cached \in ImpactAnswers \cup {Nothing}
    /\ told \in Statuses \cup {Nothing}

-----------------------------------------------------------------------------
\* A faulty test that lets any success in the window end a failure.
NeverRecover == FALSE
\* requiresFunctionalRecovery, of what the log holds.
requiresFunctionalRecovery == badAge < Window /\ okAge >= badAge

\* telemetryFromRows: no run in the window, runs that all failed (the status
\* asks no more of them), or a last success.  "unavailable" is a query that
\* failed, timed out or lacked a count.
telemetryFromRows ==
    {[data |-> "unavailable"]} \cup
    IF okAge < Window
    THEN [data : {"available"}, lastSuccess : {okAge}, slo : {"met", "slow", "low"},
          unended : {requiresFunctionalRecovery}]
    ELSE [data : IF badAge < Window THEN {"failing"} ELSE {"no-data", "failing"}]

\* Ages count from now, the code compares with the start of the collection.
isFresh(c) == c.telemetry.lastSuccess - c.age <= Freshness

deriveCustomerImpactStatus(c) ==
    IF c.inventory = "impact" THEN "critical"
    ELSE CASE c.telemetry.data = "unavailable" -> "unknown"
           [] c.telemetry.data = "no-data" -> "no-data"
           [] c.telemetry.data = "failing" -> "critical"
           [] c.telemetry.data = "available" ->
                 IF ~isFresh(c) \/ c.telemetry.unended THEN "critical"
                 ELSE IF c.inventory = "unavailable" THEN "unknown"
                 ELSE IF c.telemetry.slo = "met" THEN "healthy" ELSE "degraded"

\* The answer, as far as its readers tell answers apart.
ImpactAnswer(c) ==
    LET status == deriveCustomerImpactStatus(c)
        good == status \in {"healthy", "degraded"}
    IN  [age |-> c.age, status |-> status,
         lastSuccess |-> IF good THEN c.telemetry.lastSuccess ELSE Horizon,
         rateMet |-> good /\ c.telemetry.slo # "low"]

ImpactInit ==
    /\ okAge = Horizon /\ badAge = Horizon /\ unrecovered = 0
    /\ flight = Nothing /\ cached = Nothing /\ told = Nothing

StillCached == IF cached = Nothing THEN FALSE ELSE cached.age < TTL

\* GET /api/customer-impact: from the cache, shared, or a collection begins.
getCustomerImpact ==
    /\ flight' = IF StillCached \/ flight # Nothing THEN flight
                 ELSE [age |-> 0, telemetry |-> [data |-> "pending"], inventory |-> "pending"]
    /\ told' = IF StillCached THEN cached.status ELSE Nothing
    /\ UNCHANGED <<world, cached>>

QueryEnds ==
    /\ flight # Nothing /\ flight.telemetry.data = "pending"
    /\ \E t \in telemetryFromRows : flight' = [flight EXCEPT !.telemetry = t]
    /\ told' = Nothing
    /\ UNCHANGED <<world, cached>>

\* detectScenarioImpact finds a break scenario of the ingestion path, or none.
InventoryEnds ==
    /\ flight # Nothing /\ flight.inventory = "pending"
    /\ \E i \in {"unavailable", "impact", "clear"} :
          flight' = [flight EXCEPT !.inventory = i]
    /\ told' = Nothing
    /\ UNCHANGED <<world, cached>>

\* A faulty store that counts the lifetime from the end of the collection.
StoredFromEnd(answer) == [answer EXCEPT !.age = 0]
Stored(answer) == answer

collectCustomerImpact ==
    /\ flight # Nothing
    /\ flight.telemetry.data # "pending" /\ flight.inventory # "pending"
    /\ cached' = Stored(ImpactAnswer(flight))
    /\ told' = deriveCustomerImpactStatus(flight)
    /\ flight' = Nothing
    /\ UNCHANGED world

-----------------------------------------------------------------------------
(***************************************************************************)
(* What happens meanwhile.                                                 *)
(***************************************************************************)
\* A row reaches the log, up to MaxQuery late.  A success may also be the
\* second attempt of a run that had failed: that failure is no failure then.
RowArrives ==
    /\ \E age \in 0..MaxQuery :
          \/ okAge' = Earlier(okAge, age) /\ badAge' \in {badAge, Horizon}
          \/ badAge' = Earlier(badAge, age) /\ UNCHANGED okAge
    /\ unrecovered' = IF badAge' < Window /\ okAge' >= badAge' THEN unrecovered ELSE 0
    /\ UNCHANGED <<flight, cached>>
    /\ told' = Nothing

\* An answer beyond its lifetime is never read again.
Aged(answer) ==
    IF answer = Nothing THEN Nothing
    ELSE IF answer.age + 1 >= TTL THEN Nothing
    ELSE [answer EXCEPT !.age = @ + 1, !.lastSuccess = Older(@)]

AgedTelemetry(t) ==
    IF t.data = "available" THEN [t EXCEPT !.lastSuccess = Older(@)] ELSE t

\* One tick passes, unless a collection has reached its time limit.
ImpactTick ==
    /\ flight # Nothing => flight.age < MaxQuery
    /\ okAge' = Older(okAge) /\ badAge' = Older(badAge)
    /\ unrecovered' = IF Older(badAge) < Window /\ okAge >= badAge THEN Older(unrecovered) ELSE 0
    /\ flight' = IF flight = Nothing THEN Nothing
                 ELSE [flight EXCEPT !.age = @ + 1, !.telemetry = AgedTelemetry(@)]
    /\ cached' = Aged(cached)
    /\ told' = Nothing

ImpactNext ==
    \/ getCustomerImpact \/ QueryEnds \/ InventoryEnds \/ collectCustomerImpact
    \/ RowArrives \/ ImpactTick

ImpactSpec == ImpactInit /\ [][ImpactNext]_impactVars

-----------------------------------------------------------------------------
(***************************************************************************)
(* Properties.                                                             *)
(***************************************************************************)
\* "healthy" is never said without a success that was fresh when the
\* collection began, however long ago that was.
HealthyIsRecent ==
    told = "healthy" => okAge <= Freshness + MaxAge

\* A critical failure that no success has ended is shown at the latest when
\* the log has held it for as long as an answer is reused.
FailureIsShown ==
    told \in {"healthy", "degraded"} => unrecovered <= MaxAge
=============================================================================
