--------------------------- MODULE MitigationProofs ---------------------------
(***************************************************************************)
(* Proofs about the Review-mode mitigation and the evidence it rests on,   *)
(* for any limits, lifetimes, keys and lengths.  Four parts:               *)
(*                                                                         *)
(*   CustomerImpact.  However long an answer was collected and kept, it is *)
(*     healthy only on a recent success, and it does not hide a failure    *)
(*     for longer than it is kept.  The log moves on meanwhile: the        *)
(*     invariant compares the two.  The last success of the log is never   *)
(*     older than the one of the answer, which ages with it, and a failure *)
(*     that the answer has not seen is not older than the answer.          *)
(*   ReviewModeMitigation.  What a derived state says of the world.        *)
(*   EvidenceCache.  The same bound through the second cache.              *)
(*   MitigationCommand.  The scan of a command against kubectl.            *)
(***************************************************************************)
EXTENDS MCReviewModeMitigation, FiniteSetTheorems, SequenceTheorems, WellFoundedInduction, TLAPS

-----------------------------------------------------------------------------
Good == {"healthy", "degraded"}
Data == {"pending", "unavailable", "no-data", "failing", "available"}

WorldInv ==
    /\ okAge \in Ages /\ badAge \in Ages /\ unrecovered \in Ages
    /\ unrecovered = 0 \/ requiresFunctionalRecovery

FlightInv ==
    flight # Nothing =>
        /\ flight = [age |-> flight.age, telemetry |-> flight.telemetry, inventory |-> flight.inventory]
        /\ flight.age \in 0..MaxQuery
        /\ flight.telemetry.data \in Data
        /\ flight.telemetry.data = "available" =>
              /\ flight.telemetry = [data |-> "available", lastSuccess |-> flight.telemetry.lastSuccess,
                                     slo |-> flight.telemetry.slo, unended |-> flight.telemetry.unended]
              /\ flight.telemetry.lastSuccess \in Ages /\ okAge <= flight.telemetry.lastSuccess
              /\ ~ flight.telemetry.unended => unrecovered <= flight.age

CachedInv ==
    cached # Nothing =>
        /\ cached = [age |-> cached.age, status |-> cached.status,
                     lastSuccess |-> cached.lastSuccess, rateMet |-> cached.rateMet]
        /\ cached.age \in 0..MaxAge
        /\ cached.lastSuccess \in Ages
        /\ cached.status \in Good =>
              /\ okAge <= cached.lastSuccess /\ cached.lastSuccess <= Freshness + cached.age
              /\ unrecovered <= cached.age

ToldInv ==
    told \in Good => okAge <= Freshness + MaxAge /\ unrecovered <= MaxAge

ImpactInv == WorldInv /\ FlightInv /\ CachedInv /\ ToldInv

\* The limits, as numbers.
LEMMA Limits ==
  /\ {Window, Freshness, TTL, MaxQuery, Horizon, MaxAge} \subseteq Nat
  /\ 0 < TTL /\ TTL - 1 <= MaxAge /\ MaxQuery <= MaxAge
  /\ Window <= Horizon /\ Freshness + MaxAge < Horizon
  BY ImpactAssumption DEF MaxAge

LEMMA NothingIsNotGood == Nothing \notin Good
  BY NothingAssumption DEF Good, Statuses

LEMMA OlderIs ==
  ASSUME NEW age \in Ages
  PROVE  /\ Older(age) \in Ages /\ age <= Older(age) /\ Older(age) <= age + 1
         /\ age < Horizon => Older(age) = age + 1
  BY Limits DEF Ages, Older

LEMMA InitImpactInv == ImpactInit => ImpactInv
  BY Limits, NothingIsNotGood DEF ImpactInit, ImpactInv, WorldInv, FlightInv, CachedInv, ToldInv, Ages

LEMMA ImpactUnchanged ==
  ASSUME ImpactInv, UNCHANGED impactVars
  PROVE  ImpactInv'
  BY DEF ImpactInv, WorldInv, FlightInv, CachedInv, ToldInv, impactVars, requiresFunctionalRecovery

-----------------------------------------------------------------------------
LEMMA GetKeeps ==
  ASSUME ImpactInv, getCustomerImpact
  PROVE  ImpactInv'
  <1>1. WorldInv' /\ CachedInv'
    BY DEF ImpactInv, WorldInv, CachedInv, getCustomerImpact, world, requiresFunctionalRecovery
  <1>2. FlightInv'
    BY Limits DEF ImpactInv, FlightInv, getCustomerImpact, world, Data
  <1>3. ToldInv'
    <2>1. CASE StillCached
      BY <2>1, Limits DEF StillCached, ImpactInv, CachedInv, ToldInv, getCustomerImpact, world, WorldInv, Ages
    <2>2. CASE ~ StillCached
      BY <2>2, NothingIsNotGood DEF ToldInv, getCustomerImpact
    <2> QED
      BY <2>1, <2>2
  <1> QED
    BY <1>1, <1>2, <1>3 DEF ImpactInv

\* The query reads the log as it is now.
LEMMA QueryEndsKeeps ==
  ASSUME ImpactInv, QueryEnds
  PROVE  ImpactInv'
  <1>1. PICK t \in telemetryFromRows : flight' = [flight EXCEPT !.telemetry = t]
    BY DEF QueryEnds
  <1>2. WorldInv' /\ CachedInv' /\ ToldInv'
    BY NothingIsNotGood DEF ImpactInv, WorldInv, CachedInv, ToldInv, QueryEnds, world, requiresFunctionalRecovery
  <1>3. t.data = "available" =>
            /\ t = [data |-> "available", lastSuccess |-> okAge, slo |-> t.slo,
                    unended |-> requiresFunctionalRecovery]
    BY DEF telemetryFromRows
  <1>4. /\ flight # Nothing /\ flight.age \in 0..MaxQuery
        /\ flight' = [age |-> flight.age, telemetry |-> t, inventory |-> flight.inventory]
    BY <1>1 DEF QueryEnds, ImpactInv, FlightInv
  <1>5. UNCHANGED <<okAge, badAge, unrecovered>>
    BY DEF QueryEnds, world
  <1>6. okAge \in Ages /\ (~ requiresFunctionalRecovery => unrecovered = 0)
    BY DEF ImpactInv, WorldInv
  <1>7. FlightInv'
    <2>1. t.data = "available" => /\ t.lastSuccess = okAge
                                  /\ t.unended = requiresFunctionalRecovery
      BY <1>3
    <2>2. t.data = "available" =>
             t = [data |-> "available", lastSuccess |-> t.lastSuccess, slo |-> t.slo, unended |-> t.unended]
      BY <1>3, <2>1
    <2>3. ASSUME t.data = "available"
          PROVE  /\ t.lastSuccess \in Ages /\ okAge <= t.lastSuccess
                 /\ ~ t.unended => unrecovered <= flight.age
      BY <1>4, <1>6, <2>1, <2>3, Limits DEF Ages
    <2>4. t.data \in Data
      BY DEF telemetryFromRows, Data
    <2>5. flight'.age = flight.age /\ flight'.telemetry = t /\ flight'.inventory = flight.inventory
      BY <1>4
    <2> QED
      BY <1>4, <1>5, <2>2, <2>3, <2>4, <2>5 DEF FlightInv
  <1> QED
    BY <1>2, <1>7 DEF ImpactInv

LEMMA InventoryEndsKeeps ==
  ASSUME ImpactInv, InventoryEnds
  PROVE  ImpactInv'
  <1>1. WorldInv' /\ CachedInv' /\ ToldInv'
    BY NothingIsNotGood DEF ImpactInv, WorldInv, CachedInv, ToldInv, InventoryEnds, world, requiresFunctionalRecovery
  <1>2. PICK i : flight' = [flight EXCEPT !.inventory = i]
    BY DEF InventoryEnds
  <1>3. /\ flight'.age = flight.age /\ flight'.telemetry = flight.telemetry /\ flight'.inventory = i
        /\ flight' = [age |-> flight.age, telemetry |-> flight.telemetry, inventory |-> i]
    BY <1>2 DEF InventoryEnds, ImpactInv, FlightInv
  <1>4. FlightInv'
    BY <1>3 DEF InventoryEnds, world, ImpactInv, FlightInv
  <1> QED
    BY <1>1, <1>4 DEF ImpactInv

\* A good status is given to fresh telemetry without an unended failure.
LEMMA GoodStatus ==
  ASSUME NEW c, c.telemetry.data \in Data \ {"pending"},
         deriveCustomerImpactStatus(c) \in Good
  PROVE  c.telemetry.data = "available" /\ isFresh(c) /\ ~ c.telemetry.unended
  <1>1. c.inventory # "impact"
    BY DEF deriveCustomerImpactStatus, Good
  <1>2. c.telemetry.data # "unavailable" /\ c.telemetry.data # "no-data" /\ c.telemetry.data # "failing"
    BY <1>1 DEF deriveCustomerImpactStatus, Good
  <1>3. c.telemetry.data = "available"
    BY <1>2 DEF Data
  <1>4. ~ (~ isFresh(c) \/ c.telemetry.unended)
    BY <1>1, <1>3 DEF deriveCustomerImpactStatus, Good
  <1> QED
    BY <1>3, <1>4

LEMMA CollectKeeps ==
  ASSUME ImpactInv, collectCustomerImpact
  PROVE  ImpactInv'
  <1>1. PICK c : c = flight
    OBVIOUS
  <1>2. PICK status : status = deriveCustomerImpactStatus(c)
    OBVIOUS
  <1>3. PICK answer : answer = ImpactAnswer(c)
    OBVIOUS
  <1>4. /\ cached' = answer /\ told' = status /\ flight' = Nothing
        /\ UNCHANGED <<okAge, badAge, unrecovered>> /\ flight # Nothing
    BY <1>1, <1>2, <1>3 DEF collectCustomerImpact, Stored, world
  <1>5. c.age \in 0..MaxQuery /\ c.age \in 0..MaxAge
    BY <1>1, <1>4, Limits DEF ImpactInv, FlightInv
  <1>6. status \in Good =>
            /\ c.telemetry.lastSuccess \in Ages /\ okAge <= c.telemetry.lastSuccess
            /\ c.telemetry.lastSuccess <= Freshness + c.age /\ unrecovered <= c.age
    <2> SUFFICES ASSUME status \in Good
                 PROVE  /\ c.telemetry.lastSuccess \in Ages /\ okAge <= c.telemetry.lastSuccess
                        /\ c.telemetry.lastSuccess <= Freshness + c.age /\ unrecovered <= c.age
      OBVIOUS
    <2>1. c.telemetry.data = "available" /\ isFresh(c) /\ ~ c.telemetry.unended
      BY <1>1, <1>2, <1>4, GoodStatus DEF collectCustomerImpact, ImpactInv, FlightInv
    <2>2. /\ c.telemetry.lastSuccess \in Ages /\ okAge <= c.telemetry.lastSuccess
          /\ unrecovered <= c.age
      BY <1>1, <1>4, <2>1 DEF ImpactInv, FlightInv
    <2>3. c.telemetry.lastSuccess - c.age <= Freshness
      BY <2>1 DEF isFresh
    <2>4. c.telemetry.lastSuccess <= Freshness + c.age
      BY <1>5, <2>2, <2>3, Limits DEF Ages
    <2> QED
      BY <2>2, <2>4
  <1>7. /\ answer = [age |-> c.age, status |-> status, rateMet |-> answer.rateMet,
                     lastSuccess |-> IF status \in Good THEN c.telemetry.lastSuccess ELSE Horizon]
    BY <1>2, <1>3 DEF ImpactAnswer, Good
  <1>8. /\ answer.age = c.age /\ answer.status = status
        /\ answer.lastSuccess = IF status \in Good THEN c.telemetry.lastSuccess ELSE Horizon
        /\ answer = [age |-> answer.age, status |-> answer.status,
                     lastSuccess |-> answer.lastSuccess, rateMet |-> answer.rateMet]
    BY <1>7
  <1>9. WorldInv'
    BY <1>4 DEF ImpactInv, WorldInv, requiresFunctionalRecovery
  <1>10. FlightInv'
    BY <1>4 DEF FlightInv
  <1>11. CachedInv'
    <2>1. answer.lastSuccess \in Ages
      BY <1>6, <1>8, Limits DEF Ages
    <2> QED
      BY <1>4, <1>5, <1>6, <1>8, <2>1 DEF CachedInv
  <1>12. ToldInv'
    BY <1>4, <1>5, <1>6, Limits DEF ToldInv, ImpactInv, WorldInv, Ages
  <1> QED
    BY <1>9, <1>10, <1>11, <1>12 DEF ImpactInv

-----------------------------------------------------------------------------
(***************************************************************************)
(* What happens meanwhile.                                                 *)
(***************************************************************************)

\* A row makes the last success younger, and begins no failure in the past.
LEMMA RowArrivesKeeps ==
  ASSUME ImpactInv, RowArrives
  PROVE  ImpactInv'
  <1>1. PICK age \in 0..MaxQuery :
           \/ okAge' = Earlier(okAge, age) /\ badAge' \in {badAge, Horizon}
           \/ badAge' = Earlier(badAge, age) /\ UNCHANGED okAge
    BY DEF RowArrives
  <1>2. okAge \in Ages /\ badAge \in Ages /\ unrecovered \in Ages
    BY DEF ImpactInv, WorldInv
  <1>3. okAge' \in Ages /\ badAge' \in Ages /\ okAge' <= okAge
    BY <1>1, <1>2, Limits DEF Ages, Earlier
  <1>4. unrecovered' \in Ages /\ unrecovered' <= unrecovered
    BY <1>2, Limits DEF RowArrives, Ages
  <1>5. WorldInv'
    BY <1>3, <1>4 DEF RowArrives, WorldInv, requiresFunctionalRecovery
  <1>6. FlightInv'
    BY <1>2, <1>3, <1>4, Limits DEF RowArrives, ImpactInv, FlightInv, Ages
  <1>7. CachedInv'
    BY <1>2, <1>3, <1>4, Limits DEF RowArrives, ImpactInv, CachedInv, Ages
  <1>8. ToldInv'
    BY NothingIsNotGood DEF RowArrives, ToldInv
  <1> QED
    BY <1>5, <1>6, <1>7, <1>8 DEF ImpactInv

\* The answer ages with the log.
LEMMA TickKeeps ==
  ASSUME ImpactInv, ImpactTick
  PROVE  ImpactInv'
  <1>1. okAge \in Ages /\ badAge \in Ages /\ unrecovered \in Ages
    BY DEF ImpactInv, WorldInv
  <1>2. okAge' \in Ages /\ badAge' \in Ages /\ okAge' = Older(okAge) /\ badAge' = Older(badAge)
    BY <1>1, OlderIs DEF ImpactTick
  <1>3. unrecovered' \in Ages /\ unrecovered' <= unrecovered + 1
    BY <1>1, OlderIs, Limits DEF ImpactTick, Ages
  <1>4. \A last \in Ages : okAge <= last => Older(last) \in Ages /\ okAge' <= Older(last)
    BY <1>1, <1>2, Limits DEF Ages, Older
  <1>5. WorldInv'
    <2>1. CASE Older(badAge) < Window /\ okAge >= badAge
      <3>1. okAge' >= badAge' /\ badAge' < Window
        BY <1>1, <1>2, <2>1, Limits DEF Ages, Older
      <3> QED
        BY <1>2, <1>3, <3>1 DEF WorldInv, requiresFunctionalRecovery
    <2>2. CASE ~ (Older(badAge) < Window /\ okAge >= badAge)
      BY <1>2, <1>3, <2>2 DEF ImpactTick, WorldInv
    <2> QED
      BY <2>1, <2>2
  <1>6. FlightInv'
    <2>1. CASE flight = Nothing
      BY <2>1 DEF ImpactTick, FlightInv
    <2>2. CASE flight # Nothing
      <3>1. PICK t : t = flight.telemetry
        OBVIOUS
      <3>2. PICK u : u = AgedTelemetry(t)
        OBVIOUS
      <3>3. /\ flight.age \in 0..MaxQuery /\ flight.age < MaxQuery
            /\ flight' = [age |-> flight.age + 1, telemetry |-> u, inventory |-> flight.inventory]
        BY <2>2, <3>1, <3>2 DEF ImpactTick, ImpactInv, FlightInv
      <3>4. flight'.age = flight.age + 1 /\ flight'.telemetry = u /\ flight'.inventory = flight.inventory
        BY <3>3
      <3>5. ASSUME u.data = "available"
            PROVE  /\ u = [data |-> "available", lastSuccess |-> u.lastSuccess,
                           slo |-> u.slo, unended |-> u.unended]
                   /\ u.lastSuccess \in Ages /\ okAge' <= u.lastSuccess
                   /\ ~ u.unended => unrecovered' <= flight.age + 1
        <4>1. t.data = "available"
          BY <3>2, <3>5 DEF AgedTelemetry
        <4>2. /\ t = [data |-> "available", lastSuccess |-> t.lastSuccess, slo |-> t.slo, unended |-> t.unended]
              /\ t.lastSuccess \in Ages /\ okAge <= t.lastSuccess
              /\ ~ t.unended => unrecovered <= flight.age
          BY <2>2, <3>1, <4>1 DEF ImpactInv, FlightInv
        <4>3. u = [data |-> "available", lastSuccess |-> Older(t.lastSuccess), slo |-> t.slo, unended |-> t.unended]
          BY <3>2, <4>1, <4>2 DEF AgedTelemetry
        <4>4. u.lastSuccess = Older(t.lastSuccess) /\ u.unended = t.unended /\ u.slo = t.slo
          BY <4>3
        <4>5. u.lastSuccess \in Ages /\ okAge' <= u.lastSuccess
          BY <1>4, <4>2, <4>4
        <4>6. ~ u.unended => unrecovered' <= flight.age + 1
          BY <1>1, <1>3, <3>3, <4>2, <4>4, Limits DEF Ages
        <4> QED
          BY <4>3, <4>4, <4>5, <4>6
      <3>6. flight'.age \in 0..MaxQuery /\ u.data \in Data
        <4>1. u.data = t.data
          BY <3>2 DEF AgedTelemetry
        <4> QED
          BY <2>2, <3>1, <3>3, <3>4, <4>1, Limits DEF ImpactInv, FlightInv
      <3> QED
        BY <3>3, <3>4, <3>5, <3>6 DEF FlightInv
    <2> QED
      BY <2>1, <2>2
  <1>7. CachedInv'
    <2>1. CASE cached' = Nothing
      BY <2>1 DEF CachedInv
    <2>2. CASE cached' # Nothing
      <3>1. /\ cached # Nothing /\ cached.age + 1 < TTL
            /\ cached' = [cached EXCEPT !.age = @ + 1, !.lastSuccess = Older(@)]
        <4>1. cached # Nothing /\ ~ cached.age + 1 >= TTL
          BY <2>2 DEF ImpactTick, Aged
        <4> QED
          BY <4>1, Limits DEF ImpactTick, Aged, ImpactInv, CachedInv
      <3>2. /\ cached' = [age |-> cached.age + 1, status |-> cached.status,
                          lastSuccess |-> Older(cached.lastSuccess), rateMet |-> cached.rateMet]
        BY <3>1 DEF ImpactInv, CachedInv
      <3>3. /\ cached'.age = cached.age + 1 /\ cached'.status = cached.status
            /\ cached'.lastSuccess = Older(cached.lastSuccess) /\ cached'.rateMet = cached.rateMet
        BY <3>2
      <3>4. /\ cached.age \in 0..MaxAge /\ cached.lastSuccess \in Ages
            /\ cached.status \in Good =>
                  /\ okAge <= cached.lastSuccess /\ cached.lastSuccess <= Freshness + cached.age
                  /\ unrecovered <= cached.age
        BY <3>1 DEF ImpactInv, CachedInv
      <3>5. cached.age + 1 \in 0..MaxAge
        BY <3>1, <3>4, Limits
      <3>6. Older(cached.lastSuccess) \in Ages /\ Older(cached.lastSuccess) <= cached.lastSuccess + 1
        BY <3>4, OlderIs
      <3>7. cached.status \in Good =>
               /\ okAge' <= Older(cached.lastSuccess)
               /\ Older(cached.lastSuccess) <= Freshness + (cached.age + 1)
               /\ unrecovered' <= cached.age + 1
        BY <1>1, <1>3, <1>4, <3>4, <3>6, Limits DEF Ages
      <3> QED
        BY <3>2, <3>3, <3>5, <3>6, <3>7 DEF CachedInv
    <2> QED
      BY <2>1, <2>2
  <1>8. ToldInv'
    BY NothingIsNotGood DEF ImpactTick, ToldInv
  <1> QED
    BY <1>5, <1>6, <1>7, <1>8 DEF ImpactInv

-----------------------------------------------------------------------------
LEMMA StepImpactInv == ImpactInv /\ [ImpactNext]_impactVars => ImpactInv'
  BY GetKeeps, QueryEndsKeeps, InventoryEndsKeeps, CollectKeeps, RowArrivesKeeps, TickKeeps,
     ImpactUnchanged DEF ImpactNext

LEMMA ImpactInvariance == ImpactSpec => []ImpactInv
  BY InitImpactInv, StepImpactInv, PTL DEF ImpactSpec

\* "healthy" rests on a success that was fresh one answer's age ago.
THEOREM HealthIsRecent == ImpactSpec => []HealthyIsRecent
  <1>1. ImpactInv => HealthyIsRecent
    BY DEF ImpactInv, ToldInv, HealthyIsRecent, Good
  <1> QED
    BY <1>1, ImpactInvariance, PTL

\* No answer hides an unended failure for longer than an answer is reused.
THEOREM FailureIsNotHidden == ImpactSpec => []FailureIsShown
  <1>1. ImpactInv => FailureIsShown
    BY DEF ImpactInv, ToldInv, FailureIsShown, Good
  <1> QED
    BY <1>1, ImpactInvariance, PTL

-----------------------------------------------------------------------------
(***************************************************************************)
(* ReviewModeMitigation, for any length of the history and any limits.     *)
(* Of the world it is enough that no two events have one time; of the      *)
(* history, that every reading says what the Deployment was at its time:   *)
(* a change comes later than all that has been read.                       *)
(***************************************************************************)
Readings == [at : 1..MaxTime, replicas : 0..1]

EventsInv ==
    /\ now \in 1..MaxTime /\ changes \subseteq 1..now /\ events \subseteq Event
    /\ running \in Commands \cup {"none"}
    /\ \A e \in events : e.at <= now
    /\ \A e, f \in events : e.at = f.at => e = f

HistoryInv ==
    /\ history \in Seq(Readings)
    /\ \A o \in Range(history) : o.at <= now /\ o.replicas = ReplicasAt(o.at)

ReviewInv == EventsInv /\ HistoryInv /\ ResolvedIsTrue /\ CompleteTelemetryCatchesBypass

\* A set of natural numbers has a least one.
LEMMA LeastNatural ==
  ASSUME NEW S \in SUBSET Nat, S # {}
  PROVE  \E m \in S : \A n \in S : m <= n
  <1>1. PICK m \in S : \A n \in S : <<n, m>> \notin OpToRel(<, Nat)
    BY WFMin, NatLessThanWellFounded, Zenon
  <1>2. \A n \in S : ~ n < m
    BY <1>1, Zenon DEF OpToRel
  <1> QED BY <1>2

LEMMA EventTimes == \A e \in Event : e.at \in 1..MaxTime
  BY DEF Event

\* Rows there are have a latest and an earliest one.
LEMMA HasLatest ==
  ASSUME NEW rows \in SUBSET Event, rows # {}
  PROVE  Latest(rows) \in rows /\ \A f \in rows : f.at <= Latest(rows).at
  <1> DEFINE left == {MaxTime - e.at : e \in rows}
  <1>1. left \in SUBSET Nat /\ left # {}
    BY EventTimes, MitigationAssumption
  <1>2. PICK m \in left : \A n \in left : m <= n
    <2> HIDE DEF left
    <2> QED BY <1>1, LeastNatural
  <1>3. PICK e \in rows : m = MaxTime - e.at
    BY <1>2
  <1>4. \A f \in rows : f.at <= e.at
    <2> SUFFICES ASSUME NEW f \in rows PROVE f.at <= e.at
      OBVIOUS
    <2>1. MaxTime - e.at <= MaxTime - f.at
      BY <1>2, <1>3
    <2> QED BY <2>1, EventTimes, MitigationAssumption
  <1> QED BY <1>4 DEF Latest

LEMMA HasEarliest ==
  ASSUME NEW rows \in SUBSET Event, rows # {}
  PROVE  Earliest(rows) \in rows /\ \A f \in rows : Earliest(rows).at <= f.at
  <1> DEFINE times == {e.at : e \in rows}
  <1>1. times \in SUBSET Nat /\ times # {}
    BY EventTimes
  <1>2. PICK m \in times : \A n \in times : m <= n
    <2> HIDE DEF times
    <2> QED BY <1>1, LeastNatural
  <1>3. PICK e \in rows : m = e.at
    BY <1>2
  <1>4. \A f \in rows : e.at <= f.at
    BY <1>2, <1>3
  <1> QED BY <1>4 DEF Earliest

LEMMA ReplicasBounded ==
  ASSUME EventsInv, NEW t
  PROVE  ReplicasAt(t) \in 0..1
  <1>1. IsFiniteSet(1..now)
    BY FS_Interval DEF EventsInv
  <1>2. {c \in changes : c <= t} \subseteq 1..now
    BY DEF EventsInv
  <1>3. Cardinality({c \in changes : c <= t}) \in Nat
    BY <1>1, <1>2, FS_Subset, FS_CardinalityType
  <1> QED BY <1>3 DEF ReplicasAt

-----------------------------------------------------------------------------
\* What has to be so when the decision table ends in "verification-passed".
LEMMA PassedRests ==
  ASSUME EventsInv, NEW rows \in SUBSET events, NEW after, NEW probes, NEW at,
         Derive(rows, after, probes, at) = "verification-passed"
  PROVE  /\ ~ PrecedesApproval(rows)
         /\ Decisions(rows) # {} /\ Latest(Decisions(rows)).what = "approved"
         /\ Ends(rows) # {} /\ Latest(Ends(rows)).what = "restore" /\ Latest(Ends(rows)).result = "ok"
         /\ \A p \in probes : p.status = "pass" /\ p.at > Latest(Ends(rows)).at
  <1>1. PICK decision : decision = Latest(Decisions(rows))
    OBVIOUS
  <1>2. PICK end : end = Latest(Ends(rows))
    OBVIOUS
  <1>3. PICK mutation : mutation = IF Decisions(rows) # {} THEN Mutation(PreDecision(decision.at), after) ELSE "unknown"
    OBVIOUS
  <1>4. PICK latest : latest = IF Starts(rows) \cup Ends(rows) # {}
            THEN Max({decision.at, (IF Ends(rows) # {} THEN end ELSE Earliest(Starts(rows))).at})
            ELSE decision.at
    OBVIOUS
  <1>5. DeniedState(decision, mutation, at) # "verification-passed"
    BY DEF DeniedState
  <1>6. /\ ~ PrecedesApproval(rows) /\ Decisions(rows) # {} /\ decision.what = "approved"
        /\ Ends(rows) # {} /\ end.result # "blocked" /\ end.result # "failed"
        /\ VerifiedState(end, probes, mutation, latest, at) = "verification-passed"
    <2>1. ~ PrecedesApproval(rows)
      BY DEF Derive
    <2>2. Decisions(rows) # {} /\ decision.what = "approved"
      BY <1>1, <1>3, <1>5, <2>1 DEF Derive
    <2>3. Ends(rows) # {} /\ end.result # "blocked" /\ end.result # "failed"
      BY <1>1, <1>2, <2>1, <2>2 DEF Derive
    <2>4. VerifiedState(end, probes, mutation, latest, at) = "verification-passed"
      BY <1>1, <1>2, <1>3, <1>4, <2>1, <2>2, <2>3 DEF Derive
    <2> QED BY <2>1, <2>2, <2>3, <2>4
  <1>7. /\ PostDates(probes, end) /\ (\A p \in probes : p.status = "pass") /\ end.what # "rollback"
    BY <1>6 DEF VerifiedState
  <1>8. end \in Event /\ end.kind = "end"
    <2>1. Ends(rows) \in SUBSET Event
      BY DEF Ends, EventsInv
    <2>2. end \in Ends(rows)
      BY <1>2, <1>6, <2>1, HasLatest
    <2> QED BY <2>1, <2>2 DEF Ends
  <1>9. end.what \in Commands /\ end.result \in Results
    BY <1>8 DEF Event
  <1>10. end.what = "restore" /\ end.result = "ok"
    BY <1>6, <1>7, <1>9 DEF Commands, Results
  <1> QED
    BY <1>1, <1>2, <1>6, <1>7, <1>10 DEF PostDates

\* "denied" rests on a rejection and on readings before and after it that agree.
LEMMA DeniedRests ==
  ASSUME NEW rows, NEW after, NEW probes, NEW at,
         Derive(rows, after, probes, at) = "denied"
  PROVE  /\ Decisions(rows) # {}
         /\ PreDecision(Latest(Decisions(rows)).at) # {} /\ after # {}
         /\ \A o \in PreDecision(Latest(Decisions(rows)).at), p \in after : o.replicas = p.replicas
  <1>1. PICK decision : decision = Latest(Decisions(rows))
    OBVIOUS
  <1>2. PICK mutation : mutation = IF Decisions(rows) # {} THEN Mutation(PreDecision(decision.at), after) ELSE "unknown"
    OBVIOUS
  <1>3. \A end, latest : VerifiedState(end, probes, mutation, latest, at) # "denied"
    BY DEF VerifiedState
  <1>4. ~ PrecedesApproval(rows)
    BY DEF Derive
  <1>5. Decisions(rows) # {} /\ decision.what = "rejected"
    BY <1>1, <1>2, <1>3, <1>4 DEF Derive
  <1>6. DeniedState(decision, mutation, at) = "denied"
    BY <1>1, <1>2, <1>4, <1>5 DEF Derive
  <1>7. mutation = "unchanged"
    BY <1>6 DEF DeniedState
  <1> QED
    BY <1>1, <1>2, <1>5, <1>7 DEF Mutation

-----------------------------------------------------------------------------
\* Time passes: no verdict stands, and what is new is of a later time.
LEMMA TickKeepsReview ==
  ASSUME ReviewInv, Tick, running' \in Commands \cup {"none"},
         changes' \in {changes, changes \cup {now + 1}},
         events' = events \/ \E e \in Event : e.at = now + 1 /\ events' = events \cup {e}
  PROVE  ReviewInv'
  <1>1. now \in 1..MaxTime /\ now' = now + 1 /\ now' \in 1..MaxTime
    BY MitigationAssumption DEF Tick, ReviewInv, EventsInv
  <1>2. EventsInv'
    <2>1. changes' \subseteq 1..now'
      BY <1>1 DEF ReviewInv, EventsInv
    <2>2. \A e \in events : e.at \in 1..now
      BY EventTimes DEF ReviewInv, EventsInv
    <2>3. /\ events' \subseteq Event
          /\ \A e \in events' : e.at <= now'
          /\ \A e, f \in events' : e.at = f.at => e = f
      <3>1. CASE events' = events
        BY <3>1, <1>1, <2>2 DEF ReviewInv, EventsInv
      <3>2. CASE \E e \in Event : e.at = now + 1 /\ events' = events \cup {e}
        BY <3>2, <1>1, <2>2 DEF ReviewInv, EventsInv
      <3> QED BY <3>1, <3>2
    <2> QED BY <1>1, <2>1, <2>3 DEF EventsInv
  <1>3. HistoryInv'
    <2>1. history' = history
      BY DEF Tick
    <2>2. ASSUME NEW o \in Range(history)
          PROVE  o.at <= now' /\ o.replicas = ReplicasAt(o.at)'
      <3>1. o.at \in 1..MaxTime /\ o.at <= now /\ o.replicas = ReplicasAt(o.at)
        <4>1. o \in Readings
          BY DEF ReviewInv, HistoryInv, Range
        <4> QED BY <4>1 DEF ReviewInv, HistoryInv, Readings
      <3>2. {c \in changes' : c <= o.at} = {c \in changes : c <= o.at}
        BY <1>1, <3>1
      <3>3. ReplicasAt(o.at)' = ReplicasAt(o.at)
        BY <3>2 DEF ReplicasAt
      <3> QED BY <1>1, <3>1, <3>3
    <2> QED BY <2>1, <2>2 DEF ReviewInv, HistoryInv, Range
  <1>4. ResolvedIsTrue' /\ CompleteTelemetryCatchesBypass'
    BY DEF Tick, NoVerdict, ResolvedIsTrue, CompleteTelemetryCatchesBypass
  <1> QED BY <1>2, <1>3, <1>4 DEF ReviewInv

LEMMA WorldKeepsReview ==
  ASSUME ReviewInv, Decide \/ Start \/ End \/ ScaledByOthers \/ GoldenTransaction
  PROVE  ReviewInv'
  <1>1. now + 1 \in 1..MaxTime /\ Tick /\ running \in Commands \cup {"none"}
    BY MitigationAssumption DEF ReviewInv, EventsInv, Tick, Decide, Start, End, ScaledByOthers, GoldenTransaction
  <1>2. CASE Decide
    <2>1. PICK outcome \in Outcomes :
             events' = events \cup {[at |-> now + 1, kind |-> "decision", what |-> outcome, result |-> "none"]}
      BY <1>2 DEF Decide, Happens
    <2>2. [at |-> now + 1, kind |-> "decision", what |-> outcome, result |-> "none"] \in Event
      BY <1>1 DEF Event
    <2> QED BY <1>1, <1>2, <2>1, <2>2, TickKeepsReview DEF Decide
  <1>3. CASE Start
    <2>1. PICK c \in Commands :
             events' = events \cup {[at |-> now + 1, kind |-> "start", what |-> c, result |-> "none"]}
      BY <1>3 DEF Start, Happens
    <2>2. [at |-> now + 1, kind |-> "start", what |-> c, result |-> "none"] \in Event
      BY <1>1 DEF Event
    <2> QED BY <1>1, <1>3, <2>1, <2>2, TickKeepsReview DEF Start
  <1>5. CASE ScaledByOthers
    BY <1>1, <1>5, TickKeepsReview DEF ScaledByOthers
  <1>6. CASE GoldenTransaction
    BY <1>1, <1>6, TickKeepsReview DEF GoldenTransaction
  <1>4. CASE End
    <2>1. PICK r \in Results :
             /\ events' = events \cup {[at |-> now + 1, kind |-> "end", what |-> running, result |-> r]}
             /\ changes' \in {changes, changes \cup {now + 1}} /\ running \in Commands
      BY <1>1, <1>4 DEF End, Happens
    <2>2. [at |-> now + 1, kind |-> "end", what |-> running, result |-> r] \in Event
      BY <1>1, <2>1 DEF Event
    <2> QED BY <1>1, <1>4, <2>1, <2>2, TickKeepsReview DEF End
  <1> QED BY <1>2, <1>3, <1>4, <1>5, <1>6

\* A reading is of the present.
LEMMA HistoryKeeps ==
  ASSUME ReviewInv, UNCHANGED <<now, worldVars>>,
         history' \in {history, Recorded(Reading)}
  PROVE  EventsInv' /\ HistoryInv'
  <1>1. EventsInv' /\ \A t : ReplicasAt(t)' = ReplicasAt(t)
    BY DEF ReviewInv, EventsInv, worldVars, ReplicasAt
  <1>2. CASE history' = history
    BY <1>1, <1>2 DEF ReviewInv, HistoryInv, Range
  <1>3. CASE history' # history
    <2>1. PICK o : o = Reading
      OBVIOUS
    <2>2. o.at = now /\ o.replicas = ReplicasAt(now) /\ o \in Readings
      BY <2>1, ReplicasBounded DEF Reading, Replicas, Readings, ReviewInv, EventsInv
    <2>3. PICK h : h = Append(history, o)
      OBVIOUS
    <2>4. h \in Seq(Readings) /\ Range(h) \subseteq Range(history) \cup {o} /\ h # <<>>
      BY <2>2, <2>3 DEF ReviewInv, HistoryInv, Range
    <2>5. history' \in {h, Tail(h)}
      BY <1>3, <2>1, <2>3 DEF Recorded
    <2>6. Tail(h) \in Seq(Readings) /\ Range(Tail(h)) \subseteq Range(h)
      BY <2>4 DEF Range
    <2>7. history' \in Seq(Readings) /\ Range(history') \subseteq Range(history) \cup {o}
      BY <2>4, <2>5, <2>6
    <2>8. ASSUME NEW p \in Range(history')
          PROVE  p.at <= now' /\ p.replicas = ReplicasAt(p.at)'
      <3>1. p.at <= now /\ p.replicas = ReplicasAt(p.at)
        BY <2>2, <2>7 DEF ReviewInv, HistoryInv, EventsInv
      <3> QED BY <1>1, <3>1
    <2> QED BY <1>1, <2>7, <2>8 DEF HistoryInv, Range
  <1> QED BY <1>1, <1>2, <1>3

\* What the probes say when all of them pass.
LEMMA ProbesPass ==
  ASSUME NEW inventory \in BOOLEAN, NEW probes \in ProbeSets(inventory), \A p \in probes : p.status = "pass"
  PROVE  /\ Replicas = 1 /\ lastSuccess # 0
         /\ \E p \in probes : p.at = lastSuccess
  <1>1. PICK ready \in Verdicts(inventory /\ Replicas = 1),
             g \in Verdicts(lastSuccess # 0 /\ now - lastSuccess <= ProbeStale) :
           probes = {Probe("kubernetes-readiness", ready, now),
                     Probe("service-endpoint-health", ready, now),
                     Probe("golden-transaction", g, IF lastSuccess = 0 THEN now ELSE lastSuccess)}
    BY DEF ProbeSets
  <1>2. ready = "pass" /\ g = "pass"
    BY <1>1 DEF Probe
  <1>3. Replicas = 1 /\ lastSuccess # 0
    BY <1>1, <1>2 DEF Verdicts
  <1>4. Probe("golden-transaction", g, lastSuccess).at = lastSuccess
    BY DEF Probe
  <1> QED BY <1>1, <1>3, <1>4

LEMMA CollectKeepsReview ==
  ASSUME ReviewInv, Collect
  PROVE  ReviewInv'
  <1>1. PICK at \in {t \in {now - 1, now} : t > 0}, rows \in SUBSET events, inventory \in BOOLEAN :
           \E probes \in ProbeSets(inventory) :
           /\ history' = IF inventory THEN Recorded(Reading) ELSE history
           /\ verdict' = [state |-> Derive(rows, IF inventory THEN {Reading} ELSE {}, probes, at),
                          decision |-> IF Decisions(rows) = {} THEN 0 ELSE Latest(Decisions(rows)).at,
                          complete |-> rows = events]
    BY DEF Collect
  <1>11. PICK probes \in ProbeSets(inventory) :
           /\ history' = IF inventory THEN Recorded(Reading) ELSE history
           /\ verdict' = [state |-> Derive(rows, IF inventory THEN {Reading} ELSE {}, probes, at),
                          decision |-> IF Decisions(rows) = {} THEN 0 ELSE Latest(Decisions(rows)).at,
                          complete |-> rows = events]
    BY <1>1
  <1>2. UNCHANGED <<now, worldVars>>
    BY DEF Collect
  <1>3. EventsInv' /\ HistoryInv'
    BY <1>11, <1>2, HistoryKeeps
  <1>4. EventsInv
    BY DEF ReviewInv
  <1>5. ASSUME verdict'.state = "verification-passed"
        PROVE  /\ ~ PrecedesApproval(rows)
               /\ Decisions(rows) # {} /\ Latest(Decisions(rows)).what = "approved"
               /\ Ends(rows) # {} /\ Latest(Ends(rows)).what = "restore" /\ Latest(Ends(rows)).result = "ok"
               /\ \A p \in probes : p.status = "pass" /\ p.at > Latest(Ends(rows)).at
    <2>1. Derive(rows, IF inventory THEN {Reading} ELSE {}, probes, at) = "verification-passed"
      BY <1>11, <1>5
    <2> QED BY <1>4, <2>1, PassedRests
  <1>6. /\ rows \in SUBSET Event
        /\ Decisions(rows) \in SUBSET rows /\ Ends(rows) \in SUBSET rows /\ Starts(rows) \in SUBSET rows
    BY <1>4 DEF EventsInv, Decisions, Ends, Starts
  <1>7. ResolvedIsTrue'
    <2> SUFFICES ASSUME verdict'.state = "verification-passed" PROVE ResolvedIsTrue'
      BY DEF ResolvedIsTrue
    <2>1. Latest(Decisions(rows)) \in Decisions(rows) /\ Latest(Ends(rows)) \in Ends(rows)
      BY <1>5, <1>6, HasLatest
    <2>2. Replicas = 1 /\ \E p \in probes : p.at = lastSuccess
      BY <1>5, ProbesPass
    <2>3. lastSuccess > Latest(Ends(rows)).at
      BY <1>5, <2>2
    <2>4. Latest(Decisions(rows)) \in Decisions(events) /\ Latest(Ends(rows)) \in Ends(events)
      BY <2>1 DEF Decisions, Ends
    <2>5. Replicas' = 1 /\ lastSuccess' = lastSuccess /\ events' = events
      BY <1>2, <2>2 DEF Replicas, ReplicasAt, worldVars
    <2>6. /\ \E d \in Decisions(events) : d.what = "approved"
          /\ \E x \in Ends(events) : x.what = "restore" /\ x.result = "ok" /\ lastSuccess > x.at
      BY <1>5, <2>3, <2>4
    <2>7. Decisions(events') = Decisions(events) /\ Ends(events') = Ends(events)
      BY <2>5
    <2> QED BY <2>5, <2>6, <2>7 DEF ResolvedIsTrue, Decisions, Ends
  <1>8. CompleteTelemetryCatchesBypass'
    <2> SUFFICES ASSUME verdict'.state = "verification-passed", verdict'.complete,
                        NEW s \in Starts(events')
                 PROVE  s.at > verdict'.decision
      BY DEF CompleteTelemetryCatchesBypass, Starts
    <2>1. events' = events
      BY <1>2 DEF worldVars
    <2>2. rows = events
      BY <1>11
    <2>3. PICK d : d = Latest(Decisions(rows))
      OBVIOUS
    <2>4. d \in Decisions(rows) /\ verdict'.decision = d.at
      BY <1>11, <1>5, <1>6, <2>3, HasLatest
    <2>5. s \in Starts(rows) /\ s \in events /\ d \in events
      BY <1>6, <2>1, <2>2, <2>4
    <2>6. PICK first : first = Earliest(Starts(rows))
      OBVIOUS
    <2>7. first.at <= s.at /\ first \in Event
      <3>1. Starts(rows) \in SUBSET Event /\ Starts(rows) # {}
        BY <1>6, <2>5
      <3> QED BY <2>5, <2>6, <3>1, HasEarliest
    <2>8. ~ first.at < d.at
      BY <1>5, <2>3, <2>4, <2>5, <2>6 DEF PrecedesApproval
    <2>9. s.at # d.at
      <3>1. s # d
        BY <2>4, <2>5 DEF Starts, Decisions
      <3> QED BY <1>4, <2>5, <3>1 DEF EventsInv
    <2>10. {first.at, s.at, d.at} \subseteq Nat
      BY <1>4, <2>5, <2>7, EventTimes DEF EventsInv
    <2> QED BY <2>4, <2>7, <2>8, <2>9, <2>10
  <1> QED BY <1>3, <1>7, <1>8 DEF ReviewInv

LEMMA BlockedKeepsReview ==
  ASSUME ReviewInv, CollectBlocked
  PROVE  ReviewInv'
  <1>1. /\ history' \in {history, Recorded(Reading)} /\ UNCHANGED <<now, worldVars>>
        /\ \E s \in {"blocked-run-mode", "no-evidence"} : verdict' = [NoVerdict EXCEPT !.state = s]
    BY DEF CollectBlocked
  <1>2. EventsInv' /\ HistoryInv'
    BY <1>1, HistoryKeeps
  <1>3. verdict'.state # "verification-passed"
    BY <1>1 DEF NoVerdict
  <1> QED
    BY <1>2, <1>3 DEF ReviewInv, ResolvedIsTrue, CompleteTelemetryCatchesBypass

LEMMA InitReviewInv == Init => ReviewInv
  BY MitigationAssumption
  DEF Init, ReviewInv, EventsInv, HistoryInv, Range, NoVerdict, ResolvedIsTrue, CompleteTelemetryCatchesBypass

LEMMA ReviewUnchanged ==
  ASSUME ReviewInv, UNCHANGED vars
  PROVE  ReviewInv'
  BY DEF ReviewInv, EventsInv, HistoryInv, ResolvedIsTrue, CompleteTelemetryCatchesBypass, vars, worldVars,
         Range, ReplicasAt, Replicas, Decisions, Starts, Ends

LEMMA StepReviewInv == ReviewInv /\ [Next]_vars => ReviewInv'
  BY WorldKeepsReview, CollectKeepsReview, BlockedKeepsReview, ReviewUnchanged DEF Next

\* For any histories and limits: no two events have one time, every reading in the history is
\* what the Deployment was at its time, and the verdict that stands is true.
THEOREM ReviewInvariance == Spec => []ReviewInv
  BY InitReviewInv, StepReviewInv, PTL DEF Spec

\* An incident is shown as resolved only after an approval, a restore that ended well, a
\* transaction after that, and with the Deployment scaled up (deriveMitigationLifecycle).
THEOREM ResolutionIsTrue == Spec => []ResolvedIsTrue
  BY ReviewInvariance, PTL DEF ReviewInv

\* With all rows at hand an execution before the latest decision is caught, whatever else
\* the evidence says (the ordering check of deriveMitigationLifecycle).
THEOREM BypassIsCaught == Spec => []CompleteTelemetryCatchesBypass
  BY ReviewInvariance, PTL DEF ReviewInv

\* A rejected proposal is reported as denied only on a reading from before the decision since
\* which, up to the decision, the Deployment was not changed, or is again what it was.
LEMMA DenialStep ==
  ASSUME ReviewInv, [Next]_vars, ~ UNCHANGED vars, verdict'.state = "denied"
  PROVE  \E o \in Range(history) :
            /\ o.at <= verdict'.decision
            /\ \/ ReplicasAt(verdict'.decision) = Replicas
               \/ \E c \in changes : o.at < c /\ c <= verdict'.decision
  <1>1. Collect
    <2>1. ~ Tick
      BY DEF Tick, NoVerdict
    <2>2. ~ CollectBlocked
      BY DEF CollectBlocked, NoVerdict
    <2> QED BY <2>1, <2>2 DEF Next, Decide, Start, End, ScaledByOthers, GoldenTransaction
  <1>2. PICK at \in {t \in {now - 1, now} : t > 0}, rows \in SUBSET events, inventory \in BOOLEAN :
           \E probes \in ProbeSets(inventory) :
           verdict' = [state |-> Derive(rows, IF inventory THEN {Reading} ELSE {}, probes, at),
                       decision |-> IF Decisions(rows) = {} THEN 0 ELSE Latest(Decisions(rows)).at,
                       complete |-> rows = events]
    BY <1>1 DEF Collect
  <1>13. PICK probes \in ProbeSets(inventory) :
           verdict' = [state |-> Derive(rows, IF inventory THEN {Reading} ELSE {}, probes, at),
                       decision |-> IF Decisions(rows) = {} THEN 0 ELSE Latest(Decisions(rows)).at,
                       complete |-> rows = events]
    BY <1>2
  <1>3. PICK after : after = IF inventory THEN {Reading} ELSE {}
    OBVIOUS
  <1>4. PICK d : d = Latest(Decisions(rows)).at
    OBVIOUS
  <1>5. /\ Decisions(rows) # {} /\ PreDecision(d) # {} /\ after # {}
        /\ \A o \in PreDecision(d), p \in after : o.replicas = p.replicas
    <2>1. Derive(rows, after, probes, at) = "denied"
      BY <1>13, <1>3
    <2> QED BY <1>4, <2>1, DeniedRests
  <1>6. verdict'.decision = d
    BY <1>13, <1>4, <1>5
  <1>7. PICK o \in PreDecision(d) : TRUE
    BY <1>5
  <1>8. o \in Range(history) /\ o.at <= d /\ o.replicas = ReplicasAt(o.at) /\ o.at \in Nat
    <2>1. o \in Range(history) /\ o.at <= d
      BY <1>7 DEF PreDecision
    <2>2. o \in Readings
      BY <2>1 DEF ReviewInv, HistoryInv, Range
    <2> QED BY <2>1, <2>2 DEF ReviewInv, HistoryInv, Readings
  <1>9. o.replicas = Replicas
    BY <1>3, <1>5, <1>7 DEF Reading
  <1>10. d \in Nat
    <2>1. Decisions(rows) \in SUBSET Event
      BY DEF Decisions, ReviewInv, EventsInv
    <2> QED BY <1>4, <1>5, <2>1, HasLatest, EventTimes
  <1>11. CASE \E c \in changes : o.at < c /\ c <= d
    BY <1>6, <1>8, <1>11
  <1>12. CASE ~ \E c \in changes : o.at < c /\ c <= d
    <2>1. changes \subseteq Nat
      BY DEF ReviewInv, EventsInv
    <2>4. PICK e \in Nat : e = o.at
      BY <1>8
    <2>5. ASSUME NEW c \in changes PROVE c <= e <=> c <= d
      <3>1. c \in Nat /\ e <= d
        BY <1>8, <2>1, <2>4
      <3>2. ~ (e < c /\ c <= d)
        BY <1>12, <2>4
      <3> QED BY <1>10, <2>4, <3>1, <3>2
    <2>2. {c \in changes : c <= o.at} = {c \in changes : c <= d}
      BY <2>4, <2>5
    <2>3. ReplicasAt(d) = Replicas
      BY <1>8, <1>9, <2>2 DEF ReplicasAt
    <2> QED BY <1>6, <1>8, <2>3
  <1> QED BY <1>11, <1>12

THEOREM DenialIsBacked == Spec => ChangeIsNeverDenied
  <1>1. ReviewInv /\ [Next]_vars =>
          [verdict'.state = "denied" =>
             \E o \in Range(history) :
                /\ o.at <= verdict'.decision
                /\ \/ ReplicasAt(verdict'.decision) = Replicas
                   \/ \E c \in changes : o.at < c /\ c <= verdict'.decision]_vars
    BY DenialStep
  <1> QED BY <1>1, ReviewInvariance, PTL DEF Spec, ChangeIsNeverDenied

-----------------------------------------------------------------------------
(***************************************************************************)
(* EvidenceCache, for any keys, limits and lifetimes.  An entry ages with  *)
(* the log, so its age bounds how old its success can be by now; and a     *)
(* collection that waits for the customer impact finds one, because no     *)
(* time passes between the end of the one and the end of the other.        *)
(***************************************************************************)
LEMMA TelemetryTypes ==
  ASSUME ImpactTypeOK
  PROVE  /\ telemetryFromRows \subseteq Telemetry
         /\ [data |-> "pending"] \in Telemetry
         /\ \A t \in Telemetry : AgedTelemetry(t) \in Telemetry /\ t.data \in Data
  <1>1. ASSUME NEW t \in telemetryFromRows PROVE t \in Telemetry
    <2>1. requiresFunctionalRecovery \in BOOLEAN /\ okAge \in Ages
      BY DEF requiresFunctionalRecovery, ImpactTypeOK
    <2>2. PICK ended \in BOOLEAN : ended = requiresFunctionalRecovery
      BY <2>1
    <2>3. \/ t \in [data : {"unavailable", "failing", "no-data"}]
          \/ t \in [data : {"available"}, lastSuccess : {okAge}, slo : {"met", "slow", "low"}, unended : {ended}]
      BY <2>2 DEF telemetryFromRows
    <2> QED BY <2>1, <2>3 DEF Telemetry
  <1>2. ASSUME NEW t \in Telemetry PROVE AgedTelemetry(t) \in Telemetry /\ t.data \in Data
    <2>1. CASE t.data = "available"
      <3>1. t \in [data : {"available"}, lastSuccess : Ages, unended : BOOLEAN, slo : {"met", "slow", "low"}]
        BY <1>2, <2>1 DEF Telemetry
      <3>2. AgedTelemetry(t) = [t EXCEPT !.lastSuccess = Older(@)] /\ Older(t.lastSuccess) \in Ages
        BY <2>1, <3>1, OlderIs DEF AgedTelemetry
      <3>3. AgedTelemetry(t) = [data |-> t.data, lastSuccess |-> Older(t.lastSuccess), unended |-> t.unended, slo |-> t.slo]
        BY <3>1, <3>2
      <3> QED BY <3>1, <3>2, <3>3 DEF Telemetry, Data
    <2>2. CASE t.data # "available"
      <3>1. t \in [data : {"pending", "unavailable", "no-data", "failing"}]
        BY <1>2, <2>2 DEF Telemetry
      <3> QED BY <2>2, <3>1 DEF AgedTelemetry, Telemetry, Data
    <2> QED BY <2>1, <2>2
  <1>3. [data |-> "pending"] \in Telemetry
    BY DEF Telemetry
  <1> QED BY <1>1, <1>2, <1>3

LEMMA StatusTypes ==
  ASSUME NEW c \in Collections, c.telemetry.data # "pending"
  PROVE  deriveCustomerImpactStatus(c) \in Statuses
  <1>1. c.telemetry.data \in Data \ {"pending"}
    BY DEF Collections, Telemetry, Data
  <1> QED BY <1>1 DEF deriveCustomerImpactStatus, Statuses, Data

LEMMA AnswerTypes ==
  ASSUME NEW c \in Collections, c.telemetry.data # "pending"
  PROVE  ImpactAnswer(c) \in ImpactAnswers
  <1>1. PICK status \in Statuses : status = deriveCustomerImpactStatus(c)
    BY StatusTypes
  <1> DEFINE good == status \in {"healthy", "degraded"}
  <1>2. good \in BOOLEAN /\ good = (status \in {"healthy", "degraded"})
    OBVIOUS
  <1> HIDE DEF good
  <1>3. ImpactAnswer(c) = [age |-> c.age, status |-> status,
          lastSuccess |-> IF good THEN c.telemetry.lastSuccess ELSE Horizon,
          rateMet |-> good /\ c.telemetry.slo # "low"]
    BY <1>1, <1>2 DEF ImpactAnswer
  <1>4. c.age \in 0..MaxAge
    BY Limits DEF Collections
  <1>5. (IF good THEN c.telemetry.lastSuccess ELSE Horizon) \in Ages
    <2>1. CASE good
      <3>1. c.telemetry.data \in Data \ {"pending"}
        BY DEF Collections, Telemetry, Data
      <3>2. c.telemetry.data = "available"
        BY <1>1, <1>2, <2>1, <3>1, GoodStatus DEF Good
      <3> QED BY <2>1, <3>2 DEF Collections, Telemetry
    <2>2. CASE ~ good
      BY <2>2, Limits DEF Ages
    <2> QED BY <2>1, <2>2
  <1>6. (good /\ c.telemetry.slo # "low") \in BOOLEAN
    OBVIOUS
  <1> QED BY <1>3, <1>4, <1>5, <1>6 DEF ImpactAnswers

LEMMA ImpactTypes ==
  ASSUME ImpactTypeOK, ImpactNext
  PROVE  ImpactTypeOK'
  <1>1. okAge \in Ages /\ badAge \in Ages /\ unrecovered \in Ages
    BY DEF ImpactTypeOK
  <1>2. CASE getCustomerImpact
    <2>1. flight' \in Collections \cup {Nothing}
      BY <1>2, TelemetryTypes, Limits DEF getCustomerImpact, ImpactTypeOK, Collections
    <2>2. told' \in Statuses \cup {Nothing}
      BY <1>2 DEF getCustomerImpact, StillCached, ImpactTypeOK, ImpactAnswers
    <2> QED BY <1>2, <2>1, <2>2 DEF getCustomerImpact, ImpactTypeOK, world
  <1>3. CASE QueryEnds
    <2>1. PICK t \in Telemetry : flight' = [flight EXCEPT !.telemetry = t]
      BY <1>3, TelemetryTypes DEF QueryEnds
    <2>2. flight \in Collections
      BY <1>3 DEF QueryEnds, ImpactTypeOK
    <2>3. flight' \in Collections
      BY <2>1, <2>2 DEF Collections
    <2> QED BY <1>3, <2>3 DEF QueryEnds, ImpactTypeOK, world
  <1>4. CASE InventoryEnds
    <2>1. flight \in Collections
      BY <1>4 DEF InventoryEnds, ImpactTypeOK
    <2>2. flight' \in Collections
      BY <1>4, <2>1 DEF InventoryEnds, Collections
    <2> QED BY <1>4, <2>2 DEF InventoryEnds, ImpactTypeOK, world
  <1>5. CASE collectCustomerImpact
    <2>1. flight \in Collections /\ flight.telemetry.data # "pending"
      BY <1>5 DEF collectCustomerImpact, ImpactTypeOK
    <2>2. ImpactAnswer(flight) \in ImpactAnswers /\ deriveCustomerImpactStatus(flight) \in Statuses
      BY <2>1, AnswerTypes, StatusTypes
    <2> QED BY <1>5, <2>2 DEF collectCustomerImpact, ImpactTypeOK, world, Stored
  <1>6. CASE RowArrives
    BY <1>1, <1>6, Limits DEF RowArrives, ImpactTypeOK, Earlier, Ages
  <1>7. CASE ImpactTick
    <2>1. okAge' \in Ages /\ badAge' \in Ages /\ unrecovered' \in Ages
      BY <1>1, <1>7, OlderIs, Limits DEF ImpactTick, Ages
    <2>2. flight' \in Collections \cup {Nothing}
      <3>1. CASE flight # Nothing
        <4>1. flight \in Collections /\ flight.age < MaxQuery
          BY <1>7, <3>1 DEF ImpactTick, ImpactTypeOK
        <4>2. PICK t \in Telemetry : t = AgedTelemetry(flight.telemetry)
          BY <4>1, TelemetryTypes DEF Collections
        <4>3. flight' = [age |-> flight.age + 1, telemetry |-> t, inventory |-> flight.inventory]
          BY <1>7, <3>1, <4>1, <4>2 DEF ImpactTick, Collections
        <4> QED BY <4>1, <4>2, <4>3, Limits DEF Collections
      <3> QED BY <1>7, <3>1 DEF ImpactTick
    <2>3. cached' \in ImpactAnswers \cup {Nothing}
      <3>1. CASE cached # Nothing /\ cached.age + 1 < TTL
        <4>1. cached \in ImpactAnswers
          BY <3>1 DEF ImpactTypeOK
        <4>2. PICK last \in Ages : last = Older(cached.lastSuccess)
          BY <4>1, OlderIs DEF ImpactAnswers
        <4>3. ~ cached.age + 1 >= TTL
          BY <3>1, <4>1, Limits DEF ImpactAnswers
        <4>4. cached' = [age |-> cached.age + 1, status |-> cached.status, lastSuccess |-> last, rateMet |-> cached.rateMet]
          BY <1>7, <3>1, <4>1, <4>2, <4>3 DEF ImpactTick, Aged, ImpactAnswers
        <4>5. cached.age + 1 \in 0..MaxAge
          BY <3>1, <4>1, Limits DEF ImpactAnswers
        <4> QED BY <4>1, <4>2, <4>4, <4>5 DEF ImpactAnswers
      <3>2. CASE cached # Nothing /\ ~ cached.age + 1 < TTL
        <4>1. cached.age + 1 >= TTL
          BY <3>2, Limits DEF ImpactTypeOK, ImpactAnswers
        <4> QED BY <1>7, <3>2, <4>1 DEF ImpactTick, Aged
      <3>3. CASE cached = Nothing
        BY <1>7, <3>3 DEF ImpactTick, Aged
      <3> QED BY <3>1, <3>2, <3>3
    <2> QED BY <1>7, <2>1, <2>2, <2>3 DEF ImpactTick, ImpactTypeOK
  <1> QED BY <1>2, <1>3, <1>4, <1>5, <1>6, <1>7 DEF ImpactNext

\* An answer or a collection is not Nothing, and what is kept of the answer is as it was.
LEMMA FlightStays ==
  ASSUME ImpactTypeOK, ImpactNext, flight # Nothing, flight' = Nothing
  PROVE  cached' # Nothing
  <1>1. ImpactTypeOK'
    BY ImpactTypes
  <1>2. flight \in Collections
    BY DEF ImpactTypeOK
  <1>3. \A t \in Telemetry : [flight EXCEPT !.telemetry = t] \in Collections
    BY <1>2 DEF Collections
  <1>4. ~ getCustomerImpact /\ ~ RowArrives
    BY DEF getCustomerImpact, RowArrives
  <1>5. ~ QueryEnds
    BY <1>3, TelemetryTypes, NothingAssumption DEF QueryEnds
  <1>6. ~ InventoryEnds
    <2>1. \A i \in {"unavailable", "impact", "clear"} : [flight EXCEPT !.inventory = i] \in Collections
      BY <1>2 DEF Collections
    <2> QED BY <2>1, NothingAssumption DEF InventoryEnds
  <1>7. ~ ImpactTick
    <2> SUFFICES ASSUME ImpactTick PROVE FALSE
      OBVIOUS
    <2>1. flight.age < MaxQuery /\ flight' = [flight EXCEPT !.age = @ + 1, !.telemetry = AgedTelemetry(@)]
      BY DEF ImpactTick
    <2>2. PICK t \in Telemetry : t = AgedTelemetry(flight.telemetry)
      BY <1>2, TelemetryTypes DEF Collections
    <2>3. flight' = [age |-> flight.age + 1, telemetry |-> t, inventory |-> flight.inventory]
      BY <1>2, <2>1, <2>2 DEF Collections
    <2>4. flight' \in Collections
      BY <1>2, <2>1, <2>2, <2>3, Limits DEF Collections
    <2> QED BY <2>4, NothingAssumption
  <1>8. collectCustomerImpact
    BY <1>4, <1>5, <1>6, <1>7 DEF ImpactNext
  <1>9. cached' = ImpactAnswer(flight) /\ flight.telemetry.data # "pending"
    BY <1>8 DEF collectCustomerImpact, Stored
  <1> QED BY <1>2, <1>9, AnswerTypes, NothingAssumption

-----------------------------------------------------------------------------
\* The equation of Kept, up to a place, has a solution.
KeptSolution(c, places, n, f) ==
  f = [i \in 0..n |-> IF i = 0 THEN <<>>
                      ELSE IF i \in places THEN Append(f[i - 1], c[i]) ELSE f[i - 1]]

LEMMA KeptExists ==
  ASSUME NEW c, NEW places, NEW m \in Nat
  PROVE  \E f : KeptSolution(c, places, m, f)
  <1> USE DEF KeptSolution
  <1> DEFINE Solved(n, f) == KeptSolution(c, places, n, f)
             bad == {n \in Nat : ~ \E f : Solved(n, f)}
  <1>1. SUFFICES ASSUME bad # {} PROVE FALSE
    OBVIOUS
  <1>2. PICK n \in bad : \A k \in bad : n <= k
    BY <1>1, LeastNatural
  <1>3. n # 0
    <2>1. Solved(0, [i \in 0..0 |-> <<>>])
      OBVIOUS
    <2> QED BY <1>2, <2>1
  <1>4. n - 1 \in Nat /\ n - 1 \notin bad
    <2>1. n \in Nat
      BY <1>2
    <2> HIDE DEF bad
    <2> QED BY <1>2, <1>3, <2>1
  <1>5. PICK g : Solved(n - 1, g)
    BY <1>4
  <1> DEFINE f == [i \in 0..n |-> IF i = n THEN (IF n \in places THEN Append(g[n - 1], c[n]) ELSE g[n - 1])
                                  ELSE g[i]]
  <1>6. \A i \in 0..(n - 1) : g[i] = IF i = 0 THEN <<>>
                                     ELSE IF i \in places THEN Append(g[i - 1], c[i]) ELSE g[i - 1]
    BY <1>5
  <1>7. ASSUME NEW i \in 0..n
        PROVE  f[i] = IF i = 0 THEN <<>>
                      ELSE IF i \in places THEN Append(f[i - 1], c[i]) ELSE f[i - 1]
    <2>1. CASE i = n
      BY <2>1, <1>3, <1>4
    <2>2. CASE i # n
      <3>1. i \in 0..(n - 1) /\ (i # 0 => i - 1 \in 0..n /\ i - 1 # n)
        BY <2>2, <1>4
      <3>2. f[i] = g[i] /\ (i # 0 => f[i - 1] = g[i - 1])
        BY <2>2, <3>1
      <3> QED BY <1>6, <3>1, <3>2
    <2> QED BY <2>1, <2>2
  <1>8. Solved(n, f)
    <2>1. DOMAIN f = 0..n /\ f = [i \in 0..n |-> f[i]]
      OBVIOUS
    <2> HIDE DEF f
    <2> QED BY <1>7, <2>1
  <1> QED BY <1>2, <1>8

\* What is kept was at one of the places.
LEMMA KeptIsThere ==
  ASSUME NEW S, NEW c \in Seq(S), NEW places \in SUBSET Nat
  PROVE  Kept(c, places) \in Seq({c[i] : i \in places \cap DOMAIN c})
  <1>1. PICK len \in Nat : len = Len(c) /\ DOMAIN c = 1..len
    OBVIOUS
  <1> DEFINE there == {c[i] : i \in places \cap DOMAIN c}
             upTo == CHOOSE f : KeptSolution(c, places, len, f)
             bad == {i \in 0..len : upTo[i] \notin Seq(there)}
  <1>2. \E f : KeptSolution(c, places, len, f)
    BY KeptExists, Zenon
  <1>3. KeptSolution(c, places, len, upTo)
    BY <1>2, Zenon
  <1>4. Kept(c, places) = upTo[len]
    BY <1>1 DEF Kept, KeptSolution
  <1>5. \A i \in 0..len : upTo[i] = IF i = 0 THEN <<>>
                             ELSE IF i \in places THEN Append(upTo[i - 1], c[i]) ELSE upTo[i - 1]
    BY <1>3 DEF KeptSolution
  <1>6. \A i \in 1..len : i \in places => c[i] \in there
    BY <1>1
  <1> HIDE DEF upTo, there
  <1>7. bad = {}
    <2>1. SUFFICES ASSUME bad # {} PROVE FALSE
      OBVIOUS
    <2>2. PICK n \in bad : \A k \in bad : n <= k
      <3>1. bad \in SUBSET Nat
        BY <1>1
      <3> HIDE DEF bad
      <3> QED BY <2>1, <3>1, LeastNatural
    <2>3. n \in 0..len /\ upTo[n] \notin Seq(there)
      BY <2>2
    <2>4. n # 0
      <3>1. upTo[0] = <<>>
        BY <1>5
      <3>2. upTo[0] \in Seq(there)
        BY <3>1
      <3> QED BY <2>3, <3>2
    <2>5. n - 1 \in 0..len /\ n \in 1..len /\ n - 1 \notin bad
      <3>1. n - 1 \in 0..len /\ n \in 1..len /\ ~ n <= n - 1
        BY <1>1, <2>3, <2>4
      <3> QED BY <2>2, <3>1
    <2>6. upTo[n - 1] \in Seq(there)
      BY <2>5
    <2>7. upTo[n] = IF n \in places THEN Append(upTo[n - 1], c[n]) ELSE upTo[n - 1]
      BY <1>5, <2>3, <2>4
    <2>8. n \in places => c[n] \in there
      BY <1>6, <2>5
    <2> QED BY <2>3, <2>6, <2>7, <2>8
  <1> QED BY <1>1, <1>4, <1>7 DEF there

-----------------------------------------------------------------------------
Entries == [key : Keys, age : 0..(EvidenceTTL + MaxCollect), passed : BOOLEAN]

\* An answer without a time stamp to tell it from much older ones says nothing.
EntryHolds(e) ==
    e.passed /\ e.age < EvidenceTTL + MaxCollect =>
        okAge <= Stale + e.age /\ unrecovered <= MaxAge + e.age

EntriesInv ==
    /\ cache \in Seq(Entries) /\ \A e \in Range(cache) : EntryHolds(e)
    /\ inFlight \in [Keys -> [phase : Phases, age : 0..MaxCollect, failed : BOOLEAN] \cup {Nothing}]
    /\ shown \in BOOLEAN

WaitInv == \A k \in Keys : Due(k) => cached # Nothing

EvidenceInv == ImpactInv /\ ImpactTypeOK /\ EntriesInv /\ WaitInv /\ VerifiedIsRecent

LEMMA EvidenceLimits ==
  /\ {MaxKeys, EvidenceTTL, Stale, MaxCollect, MaxEvidenceAge} \subseteq Nat /\ 0 < EvidenceTTL /\ 0 < MaxKeys
  /\ EvidenceTTL - 1 <= MaxEvidenceAge /\ MaxCollect <= MaxEvidenceAge
  /\ MaxCollect = 3 * MaxQuery
  BY Limits, EvidenceAssumption DEF MaxCollect, MaxEvidenceAge

LEMMA PrunedIsThere ==
  ASSUME NEW c \in Seq(Entries), NEW ago
  PROVE  /\ pruneMitigationEvidenceCache(c, ago) \in Seq(Entries)
         /\ \A e \in Range(pruneMitigationEvidenceCache(c, ago)) :
               e \in Range(c) /\ e.age < EvidenceTTL + ago
  <1> DEFINE live == Live(c, ago)
             there == {e \in Range(c) : e.age < EvidenceTTL + ago}
  <1>1. live \in Seq(there)
    <2>1. live \in Seq({c[i] : i \in {j \in DOMAIN c : c[j].age < EvidenceTTL + ago} \cap DOMAIN c})
      BY KeptIsThere DEF Live
    <2>2. {c[i] : i \in {j \in DOMAIN c : c[j].age < EvidenceTTL + ago} \cap DOMAIN c} \subseteq there
      BY DEF Range
    <2> HIDE DEF live, there
    <2> QED BY <2>1, <2>2
  <1>2. there \subseteq Entries
    BY DEF Range
  <1> HIDE DEF live, there
  <1>3. pruneMitigationEvidenceCache(c, ago) \in Seq(there)
    <2>1. CASE Len(live) <= MaxKeys
      BY <1>1, <2>1 DEF pruneMitigationEvidenceCache, live
    <2>2. CASE ~ Len(live) <= MaxKeys
      <3>1. SubSeq(live, Len(live) - MaxKeys + 1, Len(live)) \in Seq(there)
        <4>1. Len(live) \in Nat /\ Len(live) - MaxKeys + 1 \in 1..Len(live)
          BY <1>1, <2>2, EvidenceLimits
        <4> QED BY <1>1, <4>1
      <3> QED BY <2>2, <3>1 DEF pruneMitigationEvidenceCache, live
    <2> QED BY <2>1, <2>2
  <1>4. Range(pruneMitigationEvidenceCache(c, ago)) \subseteq there
    BY <1>3 DEF Range
  <1> QED BY <1>2, <1>3, <1>4 DEF there

LEMMA TouchedIsThere ==
  ASSUME NEW c \in Seq(Entries), NEW e \in Entries
  PROVE  /\ touchMitigationEvidenceCache(c, e) \in Seq(Entries)
         /\ Range(touchMitigationEvidenceCache(c, e)) \subseteq Range(c) \cup {e}
  <1> DEFINE others == Without(c, e.key)
             there == Range(c) \cup {e}
  <1>1. others \in Seq(there)
    <2>1. others \in Seq({c[i] : i \in {j \in DOMAIN c : c[j].key # e.key} \cap DOMAIN c})
      BY KeptIsThere DEF Without
    <2>2. {c[i] : i \in {j \in DOMAIN c : c[j].key # e.key} \cap DOMAIN c} \subseteq there
      BY DEF Range
    <2> HIDE DEF others, there
    <2> QED BY <2>1, <2>2
  <1>2. there \subseteq Entries /\ e \in there
    BY DEF Range
  <1>3. touchMitigationEvidenceCache(c, e) = Append(others, e)
    BY DEF touchMitigationEvidenceCache
  <1> HIDE DEF others, there
  <1>4. touchMitigationEvidenceCache(c, e) \in Seq(there)
    BY <1>1, <1>2, <1>3
  <1>5. Range(touchMitigationEvidenceCache(c, e)) \subseteq there
    BY <1>4 DEF Range
  <1> QED BY <1>2, <1>4, <1>5 DEF there

-----------------------------------------------------------------------------
\* A step adds at most one to the ages of the log.
LEMMA AgesMove ==
  ASSUME ImpactInv, ImpactNext
  PROVE  /\ {okAge, unrecovered, okAge', unrecovered'} \subseteq Nat
         /\ okAge' <= okAge + 1 /\ unrecovered' <= unrecovered + 1
  <1>1. okAge \in Ages /\ badAge \in Ages /\ unrecovered \in Ages
    BY DEF ImpactInv, WorldInv
  <1>2. CASE RowArrives
    <2>1. PICK age \in 0..MaxQuery : okAge' \in {okAge, Earlier(okAge, age)}
      BY <1>2 DEF RowArrives
    <2>2. okAge' \in Nat /\ okAge' <= okAge
      BY <1>1, <2>1, Limits DEF Ages, Earlier
    <2>3. unrecovered' \in Nat /\ unrecovered' <= unrecovered
      BY <1>1, <1>2, Limits DEF RowArrives, Ages
    <2> QED BY <1>1, <2>2, <2>3, Limits DEF Ages
  <1>3. CASE ImpactTick
    BY <1>1, <1>3, OlderIs, Limits DEF ImpactTick, Ages
  <1>4. CASE getCustomerImpact \/ QueryEnds \/ InventoryEnds \/ collectCustomerImpact
    <2>1. UNCHANGED <<okAge, unrecovered>>
      BY <1>4 DEF getCustomerImpact, QueryEnds, InventoryEnds, collectCustomerImpact, world
    <2> QED BY <1>1, <2>1, Limits DEF Ages
  <1> QED BY <1>2, <1>3, <1>4 DEF ImpactNext

\* An entry that is as old as before, and the log no older, holds on.
LEMMA HoldsOn ==
  ASSUME NEW e \in Entries, EntryHolds(e), {okAge, unrecovered, okAge', unrecovered'} \subseteq Nat,
         okAge' <= okAge, unrecovered' <= unrecovered
  PROVE  EntryHolds(e)'
  <1>1. e.age \in Nat
    BY EvidenceLimits DEF Entries
  <1> QED BY <1>1, EvidenceLimits, Limits DEF EntryHolds

LEMMA ImpactStepKeeps ==
  ASSUME EvidenceInv, ImpactStep
  PROVE  EvidenceInv'
  <1>1. ImpactNext /\ ~ shown' /\ shown' \in BOOLEAN /\ UNCHANGED <<cache, inFlight>>
    BY DEF ImpactStep, ImpactNext
  <1>3. {okAge, unrecovered, okAge', unrecovered'} \subseteq Nat /\ okAge' <= okAge /\ unrecovered' <= unrecovered
    <2>1. CASE UNCHANGED <<okAge, unrecovered>>
      BY <1>1, <2>1, AgesMove DEF EvidenceInv
    <2>2. CASE ~ UNCHANGED <<okAge, unrecovered>>
      <3>1. RowArrives
        BY <2>2 DEF ImpactStep, getCustomerImpact, QueryEnds, InventoryEnds, collectCustomerImpact, world
      <3>2. PICK age \in 0..MaxQuery : okAge' \in {okAge, Earlier(okAge, age)}
        BY <3>1 DEF RowArrives
      <3>3. okAge \in Nat /\ unrecovered \in Nat
        BY <1>1, AgesMove DEF EvidenceInv
      <3>4. okAge' \in Nat /\ okAge' <= okAge
        BY <3>2, <3>3, Limits DEF Earlier
      <3>5. unrecovered' \in Nat /\ unrecovered' <= unrecovered
        BY <3>1, <3>3 DEF RowArrives
      <3> QED BY <3>3, <3>4, <3>5
    <2> QED BY <2>1, <2>2
  <1>4. ImpactInv' /\ ImpactTypeOK'
    BY <1>1, StepImpactInv, ImpactTypes DEF EvidenceInv
  <1>5. EntriesInv'
    <2>1. ASSUME NEW e \in Range(cache) PROVE EntryHolds(e)'
      <3>1. e \in Entries /\ EntryHolds(e)
        BY DEF EvidenceInv, EntriesInv, Range
      <3> QED BY <1>3, <3>1, HoldsOn
    <2> QED BY <1>1, <2>1 DEF EvidenceInv, EntriesInv, Range
  <1>6. WaitInv'
    <2> SUFFICES ASSUME NEW k \in Keys, Due(k)' PROVE cached' # Nothing
      BY DEF WaitInv
    <2>1. flight' = Nothing /\ inFlight[k] # Nothing /\ inFlight[k].phase = "impact"
      BY <1>1 DEF Due
    <2>2. CASE flight # Nothing
      BY <1>1, <2>1, <2>2, FlightStays DEF EvidenceInv
    <2>3. CASE flight = Nothing
      <3>1. Due(k)
        BY <2>1, <2>3 DEF Due
      <3>2. cached # Nothing
        BY <3>1 DEF EvidenceInv, WaitInv
      <3>3. RowArrives
        BY <2>3, <3>1 DEF ImpactStep, Settled, QueryEnds, InventoryEnds, collectCustomerImpact
      <3> QED BY <3>2, <3>3 DEF RowArrives
    <2> QED BY <2>2, <2>3
  <1> QED BY <1>1, <1>4, <1>5, <1>6 DEF EvidenceInv, VerifiedIsRecent

\* What an entry says when it is read within its lifetime.
LEMMA ReadEntry ==
  ASSUME ImpactInv, NEW e \in Entries, EntryHolds(e), e.age <= MaxEvidenceAge, e.age < EvidenceTTL + MaxCollect, e.passed
  PROVE  okAge <= Stale + MaxEvidenceAge /\ unrecovered <= MaxAge + MaxEvidenceAge
  <1>1. e.age \in Nat /\ okAge \in Nat /\ unrecovered \in Nat
    BY EvidenceLimits, Limits DEF Entries, ImpactInv, WorldInv, Ages
  <1> QED BY <1>1, EvidenceLimits, Limits DEF EntryHolds

\* Steps that leave the log and the customer impact alone.
LEMMA ImpactStands ==
  ASSUME ImpactInv, ImpactTypeOK, told' = Nothing, UNCHANGED <<world, cached>>,
         \/ flight' = flight
         \/ flight' = [age |-> 0, telemetry |-> [data |-> "pending"], inventory |-> "pending"]
  PROVE  ImpactInv' /\ ImpactTypeOK'
  <1>1. WorldInv' /\ CachedInv'
    BY DEF ImpactInv, WorldInv, CachedInv, world, requiresFunctionalRecovery
  <1>2. FlightInv'
    BY Limits DEF ImpactInv, FlightInv, world, Data
  <1>3. ToldInv'
    BY NothingIsNotGood DEF ToldInv
  <1>4. flight' \in Collections \cup {Nothing}
    BY TelemetryTypes, Limits DEF ImpactTypeOK, Collections
  <1> QED BY <1>1, <1>2, <1>3, <1>4 DEF ImpactInv, ImpactTypeOK, world

LEMMA GetEvidenceKeeps ==
  ASSUME EvidenceInv, NEW k \in Keys, getMitigationEvidence(k)
  PROVE  EvidenceInv'
  <1>1. ImpactInv' /\ ImpactTypeOK' /\ UNCHANGED <<okAge, unrecovered, cached, flight>>
    BY ImpactStands DEF EvidenceInv, getMitigationEvidence, world
  <1>2. PICK pruned : pruned = pruneMitigationEvidenceCache(cache, 0)
    OBVIOUS
  <1>3. /\ pruned \in Seq(Entries)
        /\ \A e \in Range(pruned) : e \in Range(cache) /\ e.age < EvidenceTTL
    <2>1. \A e \in Range(pruned) : e \in Range(cache) /\ e.age < EvidenceTTL + 0
      BY <1>2, PrunedIsThere DEF EvidenceInv, EntriesInv
    <2> QED BY <1>2, <2>1, PrunedIsThere, EvidenceLimits DEF EvidenceInv, EntriesInv
  <1>4. \A e \in Range(cache) : e \in Entries /\ EntryHolds(e)
    BY DEF EvidenceInv, EntriesInv, Range
  <1>5. \A e : EntryHolds(e)' <=> EntryHolds(e)
    BY <1>1 DEF EntryHolds
  <1>6. CASE \E i \in {j \in DOMAIN pruned : pruned[j].key = k} :
                /\ cache' = touchMitigationEvidenceCache(pruned, pruned[i])
                /\ shown' = pruned[i].passed /\ UNCHANGED inFlight
    <2>1. PICK i \in DOMAIN pruned : /\ cache' = touchMitigationEvidenceCache(pruned, pruned[i])
                                     /\ shown' = pruned[i].passed /\ UNCHANGED inFlight
      BY <1>6
    <2>2. PICK e : e = pruned[i]
      OBVIOUS
    <2>3. e \in Range(pruned) /\ e \in Entries /\ EntryHolds(e) /\ e.age < EvidenceTTL
      BY <1>3, <1>4, <2>2 DEF Range
    <2>4. cache' \in Seq(Entries) /\ Range(cache') \subseteq Range(pruned) \cup {e}
      BY <1>3, <2>1, <2>2, <2>3, TouchedIsThere
    <2>5. EntriesInv'
      <3>1. \A f \in Range(cache') : EntryHolds(f)'
        BY <1>3, <1>4, <1>5, <2>3, <2>4
      <3>2. shown' \in BOOLEAN
        BY <2>1, <2>2, <2>3 DEF Entries
      <3> QED BY <2>1, <2>4, <3>1, <3>2 DEF EvidenceInv, EntriesInv, Range
    <2>6. WaitInv'
      BY <1>1, <2>1 DEF EvidenceInv, WaitInv, Due
    <2>7. VerifiedIsRecent'
      <3>1. e.age <= MaxEvidenceAge /\ e.age < EvidenceTTL + MaxCollect
        <4>1. e.age \in Nat
          BY <2>3, EvidenceLimits DEF Entries
        <4> QED BY <2>3, <4>1, EvidenceLimits
      <3>2. e.passed => okAge <= Stale + MaxEvidenceAge /\ unrecovered <= MaxAge + MaxEvidenceAge
        BY <2>3, <3>1, ReadEntry DEF EvidenceInv
      <3>3. shown' => e.passed
        BY <2>1, <2>2
      <3> QED BY <1>1, <3>2, <3>3 DEF VerifiedIsRecent
    <2> QED BY <1>1, <2>5, <2>6, <2>7 DEF EvidenceInv
  <1>7. CASE /\ cache' = pruned /\ ~ shown' /\ shown' \in BOOLEAN
             /\ inFlight' = IF inFlight[k] = Nothing THEN Begun(k) ELSE inFlight
    <2>1. EntriesInv'
      <3>1. \A f \in Range(cache') : EntryHolds(f)'
        BY <1>3, <1>4, <1>5, <1>7
      <3>2. inFlight' \in [Keys -> [phase : Phases, age : 0..MaxCollect, failed : BOOLEAN] \cup {Nothing}]
        BY <1>7, EvidenceLimits DEF EvidenceInv, EntriesInv, Begun, Phases
      <3> QED BY <1>3, <1>7, <3>1, <3>2 DEF EntriesInv, Range
    <2>2. WaitInv'
      BY <1>1, <1>7 DEF EvidenceInv, EntriesInv, WaitInv, Due, Begun
    <2> QED BY <1>1, <1>7, <2>1, <2>2 DEF EvidenceInv, VerifiedIsRecent
  <1> QED BY <1>2, <1>6, <1>7 DEF getMitigationEvidence

LEMMA EvidenceReadKeeps ==
  ASSUME EvidenceInv, NEW k \in Keys, EvidenceRead(k)
  PROVE  EvidenceInv'
  <1>1. ImpactInv' /\ ImpactTypeOK' /\ UNCHANGED <<okAge, unrecovered, cached, cache>>
    BY ImpactStands DEF EvidenceInv, EvidenceRead, world
  <1>2. PICK f \in BOOLEAN : inFlight' = [inFlight EXCEPT ![k].phase = "impact", ![k].failed = f]
    BY DEF EvidenceRead
  <1>3. inFlight[k] \in [phase : Phases, age : 0..MaxCollect, failed : BOOLEAN]
    BY DEF EvidenceRead, EvidenceInv, EntriesInv
  <1>4. PICK c \in [phase : Phases, age : 0..MaxCollect, failed : BOOLEAN] :
           /\ inFlight' = [inFlight EXCEPT ![k] = c]
    <2> DEFINE c == [phase |-> "impact", age |-> inFlight[k].age, failed |-> f]
    <2>1. c \in [phase : Phases, age : 0..MaxCollect, failed : BOOLEAN]
      BY <1>3 DEF Phases
    <2>2. PICK mid : mid = [inFlight EXCEPT ![k] = [@ EXCEPT !.phase = "impact"]]
      OBVIOUS
    <2>3. DOMAIN inFlight = Keys
      BY DEF EvidenceInv, EntriesInv
    <2>4. mid[k] = [phase |-> "impact", age |-> inFlight[k].age, failed |-> inFlight[k].failed]
      BY <1>3, <2>2, <2>3
    <2>5. inFlight' = [mid EXCEPT ![k] = [@ EXCEPT !.failed = f]]
      BY <1>2, <2>2
    <2>6. [mid[k] EXCEPT !.failed = f] = c
      BY <2>4
    <2>7. inFlight' = [mid EXCEPT ![k] = c]
      BY <2>5, <2>6
    <2>8. inFlight' = [inFlight EXCEPT ![k] = c]
      BY <2>2, <2>7
    <2> QED BY <2>1, <2>8
  <1>5. /\ inFlight' \in [Keys -> [phase : Phases, age : 0..MaxCollect, failed : BOOLEAN] \cup {Nothing}]
        /\ \A j \in Keys \ {k} : inFlight'[j] = inFlight[j]
    BY <1>4 DEF EvidenceInv, EntriesInv
  <1>6. shown' = FALSE
    BY DEF EvidenceRead
  <1>7. EntriesInv'
    <2>1. \A e \in Range(cache) : EntryHolds(e)'
      BY <1>1 DEF EvidenceInv, EntriesInv, EntryHolds
    <2> QED BY <1>1, <1>5, <1>6, <2>1 DEF EvidenceInv, EntriesInv, Range
  <1>8. WaitInv'
    <2> SUFFICES ASSUME NEW j \in Keys, Due(j)' PROVE cached' # Nothing
      BY DEF WaitInv
    <2>1. flight' = Nothing
      BY DEF Due
    <2>2. [age |-> 0, telemetry |-> [data |-> "pending"], inventory |-> "pending"] \in Collections
      BY TelemetryTypes, Limits DEF EvidenceInv, Collections
    <2>3. StillCached \/ flight # Nothing
      BY <2>1, <2>2, NothingAssumption DEF EvidenceRead
    <2>4. flight = Nothing
      BY <2>1, <2>3 DEF EvidenceRead
    <2> QED BY <1>1, <2>3, <2>4 DEF StillCached
  <1> QED BY <1>1, <1>6, <1>7, <1>8 DEF EvidenceInv, VerifiedIsRecent

LEMMA EvidenceEndsKeeps ==
  ASSUME EvidenceInv, NEW k \in Keys, EvidenceEnds(k)
  PROVE  EvidenceInv'
  <1>1. ImpactInv' /\ ImpactTypeOK' /\ UNCHANGED <<okAge, unrecovered, cached, flight>>
    BY ImpactStands DEF EvidenceInv, EvidenceEnds, world
  <1>2. PICK c : c = inFlight[k]
    OBVIOUS
  <1>3. c \in [phase : Phases, age : 0..MaxCollect, failed : BOOLEAN] /\ cached # Nothing
    <2>1. Due(k) /\ inFlight[k] # Nothing
      BY DEF EvidenceEnds, Due
    <2> QED BY <1>2, <2>1 DEF EvidenceInv, EntriesInv, WaitInv
  <1>4. cached \in ImpactAnswers
    BY <1>3 DEF EvidenceInv, ImpactTypeOK
  <1> DEFINE says == buildGoldenTransactionProbe(cached, c)
             e == [key |-> k, age |-> c.age, passed |-> says]
  <1>5. says \in BOOLEAN
    BY <1>4 DEF buildGoldenTransactionProbe, ImpactAnswers
  <1>6. ASSUME says PROVE okAge <= Stale + c.age /\ unrecovered <= MaxAge + c.age
    <2>1. /\ cached.status \in Good /\ cached.lastSuccess - c.age <= Stale
      BY <1>6 DEF buildGoldenTransactionProbe, Good
    <2>2. okAge <= cached.lastSuccess /\ unrecovered <= cached.age
      BY <1>3, <2>1 DEF EvidenceInv, ImpactInv, CachedInv
    <2>3. {okAge, unrecovered, cached.lastSuccess, cached.age, c.age} \subseteq Nat /\ cached.age <= MaxAge
      BY <1>3, <1>4, Limits, EvidenceLimits DEF EvidenceInv, ImpactInv, WorldInv, Ages, ImpactAnswers
    <2> QED BY <2>1, <2>2, <2>3, Limits, EvidenceLimits
  <1>7. /\ cache' = IF c.failed THEN cache
                    ELSE pruneMitigationEvidenceCache(touchMitigationEvidenceCache(cache, e), c.age)
        /\ inFlight' = [inFlight EXCEPT ![k] = Nothing] /\ shown' = says
    BY <1>2 DEF EvidenceEnds
  <1> HIDE DEF says
  <1>8. e \in Entries /\ EntryHolds(e)
    <2>1. e \in Entries
      BY <1>3, <1>5, EvidenceLimits DEF Entries
    <2> QED BY <1>6, <2>1 DEF EntryHolds
  <1> HIDE DEF e
  <1>9. cache' \in Seq(Entries) /\ Range(cache') \subseteq Range(cache) \cup {e}
    <2>1. CASE c.failed
      BY <1>7, <2>1 DEF EvidenceInv, EntriesInv
    <2>2. CASE ~ c.failed
      <3>1. PICK touched : touched = touchMitigationEvidenceCache(cache, e)
        OBVIOUS
      <3>2. touched \in Seq(Entries) /\ Range(touched) \subseteq Range(cache) \cup {e}
        BY <1>8, <3>1, TouchedIsThere DEF EvidenceInv, EntriesInv
      <3>3. cache' = pruneMitigationEvidenceCache(touched, c.age)
        BY <1>7, <2>2, <3>1
      <3>4. cache' \in Seq(Entries) /\ \A f \in Range(cache') : f \in Range(touched)
        BY <3>2, <3>3, PrunedIsThere
      <3> QED BY <3>2, <3>4
    <2> QED BY <2>1, <2>2
  <1>10. EntriesInv'
    <2>1. \A f \in Range(cache') : EntryHolds(f)'
      BY <1>1, <1>8, <1>9 DEF EvidenceInv, EntriesInv, EntryHolds
    <2>2. inFlight' \in [Keys -> [phase : Phases, age : 0..MaxCollect, failed : BOOLEAN] \cup {Nothing}]
      BY <1>7 DEF EvidenceInv, EntriesInv
    <2> QED BY <1>5, <1>7, <1>9, <2>1, <2>2 DEF EntriesInv
  <1>11. WaitInv'
    BY <1>1, <1>7 DEF EvidenceInv, EntriesInv, WaitInv, Due
  <1>12. VerifiedIsRecent'
    <2> SUFFICES ASSUME says PROVE okAge <= Stale + MaxEvidenceAge /\ unrecovered <= MaxAge + MaxEvidenceAge
      BY <1>1, <1>7 DEF VerifiedIsRecent
    <2>1. {okAge, unrecovered, c.age} \subseteq Nat /\ c.age <= MaxEvidenceAge
      BY <1>3, Limits, EvidenceLimits DEF EvidenceInv, ImpactInv, WorldInv, Ages
    <2> QED BY <1>6, <2>1, Limits, EvidenceLimits
  <1> QED BY <1>1, <1>10, <1>11, <1>12 DEF EvidenceInv

LEMMA EvidenceTickKeeps ==
  ASSUME EvidenceInv, EvidenceTick
  PROVE  EvidenceInv'
  <1>1. ImpactInv' /\ ImpactTypeOK' /\ ImpactNext /\ shown' = FALSE
    BY StepImpactInv, ImpactTypes DEF EvidenceInv, EvidenceTick, ImpactNext
  <1>2. {okAge, unrecovered, okAge', unrecovered'} \subseteq Nat /\ okAge' <= okAge + 1 /\ unrecovered' <= unrecovered + 1
    BY <1>1, AgesMove DEF EvidenceInv
  <1> DEFINE Elder(e) == [e EXCEPT !.age = Earlier(@ + 1, EvidenceTTL + MaxCollect)]
  <1>3. ASSUME NEW e \in Entries, EntryHolds(e) PROVE Elder(e) \in Entries /\ EntryHolds(Elder(e))'
    <2>1. PICK a \in 0..(EvidenceTTL + MaxCollect) : a = e.age
      BY DEF Entries
    <2>2. PICK b : b = Earlier(a + 1, EvidenceTTL + MaxCollect)
      OBVIOUS
    <2>3. b \in 0..(EvidenceTTL + MaxCollect) /\ (b < EvidenceTTL + MaxCollect => b = a + 1)
      BY <2>1, <2>2, EvidenceLimits DEF Earlier
    <2>4. Elder(e) = [key |-> e.key, age |-> b, passed |-> e.passed]
      BY <2>1, <2>2 DEF Entries
    <2>5. Elder(e) \in Entries /\ Elder(e).age = b /\ Elder(e).passed = e.passed
      BY <2>3, <2>4 DEF Entries
    <2> HIDE DEF Elder
    <2>6. ASSUME e.passed, b < EvidenceTTL + MaxCollect
          PROVE  okAge' <= Stale + b /\ unrecovered' <= MaxAge + b
      <3>1. a < EvidenceTTL + MaxCollect /\ b = a + 1
        BY <2>1, <2>3, <2>6, EvidenceLimits
      <3>2. okAge <= Stale + a /\ unrecovered <= MaxAge + a
        BY <1>3, <2>1, <2>6, <3>1 DEF EntryHolds
      <3> QED BY <1>2, <2>1, <3>1, <3>2, EvidenceLimits, Limits
    <2>7. EntryHolds(Elder(e))' <=> (e.passed /\ b < EvidenceTTL + MaxCollect =>
                                       okAge' <= Stale + b /\ unrecovered' <= MaxAge + b)
      BY <2>5 DEF EntryHolds
    <2> QED BY <2>5, <2>6, <2>7
  <1>9. PICK elder : elder = cache'
    OBVIOUS
  <1>4. elder = [i \in DOMAIN cache |-> Elder(cache[i])]
    BY <1>9 DEF EvidenceTick
  <1> HIDE DEF Elder
  <1>5. elder \in Seq(Entries) /\ \A i \in DOMAIN elder : EntryHolds(elder[i])'
    <2>1. PICK was \in Seq(Entries) : was = cache
      BY DEF EvidenceInv, EntriesInv
    <2>2. \A i \in DOMAIN was : was[i] \in Entries /\ EntryHolds(was[i])
      BY <2>1 DEF EvidenceInv, EntriesInv, Range
    <2>3. \A i \in DOMAIN was : Elder(was[i]) \in Entries /\ EntryHolds(Elder(was[i]))'
      BY <1>3, <2>2
    <2>4. DOMAIN elder = DOMAIN was /\ \A i \in DOMAIN was : elder[i] = Elder(was[i])
      BY <1>4, <2>1
    <2>5. PICK n \in Nat : DOMAIN was = 1..n
      OBVIOUS
    <2>6. elder \in [1..n -> Entries]
      BY <1>4, <2>1, <2>3, <2>4, <2>5
    <2>7. \A i \in DOMAIN elder : EntryHolds(elder[i])'
      BY <2>3, <2>4
    <2> QED BY <2>6, <2>7
  <1>6. inFlight' \in [Keys -> [phase : Phases, age : 0..MaxCollect, failed : BOOLEAN] \cup {Nothing}]
    <2>1. ASSUME NEW k \in Keys
          PROVE  (IF inFlight[k] = Nothing THEN Nothing ELSE [inFlight[k] EXCEPT !.age = @ + 1])
                   \in [phase : Phases, age : 0..MaxCollect, failed : BOOLEAN] \cup {Nothing}
      <3>1. CASE inFlight[k] # Nothing
        <4>1. inFlight[k] \in [phase : Phases, age : 0..MaxCollect, failed : BOOLEAN]
          BY <3>1 DEF EvidenceInv, EntriesInv
        <4>2. inFlight[k].age < MaxCollect
          BY <3>1, <4>1, Limits, EvidenceLimits DEF EvidenceTick
        <4> QED BY <3>1, <4>1, <4>2, EvidenceLimits
      <3> QED BY <3>1
    <2> QED BY <2>1 DEF EvidenceTick
  <1>7. EntriesInv'
    <2>1. \A f \in Range(elder) : EntryHolds(f)'
      BY <1>5 DEF Range
    <2> QED BY <1>1, <1>5, <1>6, <1>9, <2>1 DEF EntriesInv, Range
  <1>8. WaitInv'
    <2> SUFFICES ASSUME NEW k \in Keys, Due(k)' PROVE cached' # Nothing
      BY DEF WaitInv
    <2>1. flight' = Nothing /\ inFlight'[k] # Nothing /\ inFlight'[k].phase = "impact"
      BY DEF Due
    <2>2. inFlight[k] # Nothing /\ inFlight'[k] = [inFlight[k] EXCEPT !.age = @ + 1]
      BY <2>1 DEF EvidenceTick
    <2>3. inFlight[k].phase = "impact"
      <3>1. inFlight[k] \in [phase : Phases, age : 0..MaxCollect, failed : BOOLEAN]
        BY <2>2 DEF EvidenceInv, EntriesInv
      <3> QED BY <2>1, <2>2, <3>1
    <2>4. flight # Nothing
      BY <2>2, <2>3 DEF EvidenceTick, Settled, Due
    <2> QED BY <1>1, <2>1, <2>4, FlightStays DEF EvidenceInv
  <1> QED BY <1>1, <1>7, <1>8 DEF EvidenceInv, VerifiedIsRecent

LEMMA InitEvidenceInv == EvidenceInit => EvidenceInv
  <1> SUFFICES ASSUME EvidenceInit PROVE EvidenceInv
    OBVIOUS
  <1>1. ImpactInv
    BY InitImpactInv DEF EvidenceInit
  <1>2. ImpactTypeOK
    BY Limits DEF EvidenceInit, ImpactInit, ImpactTypeOK, Ages
  <1>3. EntriesInv
    <2>1. cache = <<>> /\ inFlight = [k \in Keys |-> Nothing] /\ shown = FALSE
      BY DEF EvidenceInit
    <2>2. cache \in Seq(Entries) /\ Range(cache) = {}
      BY <2>1 DEF Range
    <2>3. inFlight \in [Keys -> [phase : Phases, age : 0..MaxCollect, failed : BOOLEAN] \cup {Nothing}]
      BY <2>1
    <2> QED BY <2>1, <2>2, <2>3 DEF EntriesInv
  <1> QED BY <1>1, <1>2, <1>3 DEF EvidenceInit, EvidenceInv, WaitInv, Due, VerifiedIsRecent

LEMMA EvidenceUnchanged ==
  ASSUME EvidenceInv, UNCHANGED answerVars
  PROVE  EvidenceInv'
  <1>1. UNCHANGED impactVars /\ UNCHANGED <<okAge, unrecovered, flight, cached, cache, inFlight, shown>>
    BY DEF answerVars, evidenceVars, impactVars
  <1>2. ImpactInv' /\ ImpactTypeOK'
    BY <1>1, ImpactUnchanged DEF EvidenceInv, ImpactTypeOK, impactVars
  <1>3. EntriesInv' /\ WaitInv' /\ VerifiedIsRecent'
    BY <1>1 DEF EvidenceInv, EntriesInv, EntryHolds, WaitInv, Due, VerifiedIsRecent, Range
  <1> QED BY <1>2, <1>3 DEF EvidenceInv

LEMMA StepEvidenceInv == EvidenceInv /\ [EvidenceNext]_answerVars => EvidenceInv'
  BY ImpactStepKeeps, GetEvidenceKeeps, EvidenceReadKeeps, EvidenceEndsKeeps, EvidenceTickKeeps,
     EvidenceUnchanged DEF EvidenceNext

\* Evidence that says the golden transaction has passed, cached twice as it may be, rests on
\* a success of a bounded age, and no critical failure has been held for longer than both
\* lifetimes: for any keys, limits, lifetimes and query times.
THEOREM EvidenceIsRecent == EvidenceSpec => []VerifiedIsRecent
  <1>1. EvidenceInv => VerifiedIsRecent
    BY DEF EvidenceInv
  <1> QED BY <1>1, InitEvidenceInv, StepEvidenceInv, PTL DEF EvidenceSpec

-----------------------------------------------------------------------------
(***************************************************************************)
(* MitigationCommand, for commands of any length.  As long as the scan has *)
(* not refused a word, no flag stands where a value is due; so the words   *)
(* the scan takes as values are those kubectl takes as values, and what    *)
(* the scan has noted is what kubectl would make of the words so far.      *)
(***************************************************************************)
WellRead(ws) ==
    /\ ws \in Seq(Word)
    /\ \A i \in DOMAIN ws : ws[i].kind \notin {"option", "shell"}
    /\ \A i \in DOMAIN ws : TakesValue(ws[i]) => i + 1 \in DOMAIN ws /\ ~ Dashed(ws[i + 1])

Noted(value) == IF value = None THEN {} ELSE {value}

TargetRead(ws, t) ==
    \/ t = NoTarget /\ Arguments(ws) = {}
    \/ \E j \in DOMAIN ws :
          /\ Arguments(ws) = {j} /\ ws[j].kind = "plain" /\ t.kind = "plain"
    \/ \E j \in DOMAIN ws :
          /\ Arguments(ws) = {j} /\ ws[j].kind = "deployment/"
          /\ t = [kind |-> "deployment/", name |-> ws[j].value]
    \/ \E j \in DOMAIN ws :
          /\ Arguments(ws) = {j, j + 1} /\ ws[j].kind = "deployment"
          /\ t = [kind |-> "deployment/", name |-> Text(ws[j + 1])]

ScanInv ==
    scan = "running" =>
        /\ WellRead(words) /\ TargetRead(words, target)
        /\ Given(words, "--namespace=", "-n") = Noted(namespace)
        /\ Given(words, "--replicas=", "--replicas") = Noted(replicas)

CommandInv == ScanInv /\ AllowedIsMitigation

\* A value is what comes after a flag.
LEMMA ValuePlaces ==
  ASSUME NEW ws, WellRead(ws), NEW i \in DOMAIN ws
  PROVE  IsValue(ws)[i] <=> i > 1 /\ TakesValue(ws[i - 1])
  <1> DEFINE Solves(f) == f = [k \in DOMAIN ws |-> k > 1 /\ TakesValue(ws[k - 1]) /\ ~ f[k - 1]]
             solution == [k \in DOMAIN ws |-> k > 1 /\ TakesValue(ws[k - 1])]
             value == CHOOSE f : Solves(f)
  <1>1. PICK len \in Nat : DOMAIN ws = 1..len
    BY DEF WellRead
  <1>2. ASSUME NEW k \in DOMAIN ws, k > 1, TakesValue(ws[k - 1])
        PROVE  ~ TakesValue(ws[k])
    <2>1. k - 1 \in DOMAIN ws
      BY <1>1, <1>2
    <2>2. ~ Dashed(ws[k])
      <3>1. ~ Dashed(ws[(k - 1) + 1])
        BY <1>2, <2>1 DEF WellRead
      <3> QED BY <1>1, <1>2, <3>1
    <2> QED BY <2>2 DEF Dashed, TakesValue
  <1>3. ASSUME NEW k \in DOMAIN ws
        PROVE  solution[k] = (k > 1 /\ TakesValue(ws[k - 1]) /\ ~ solution[k - 1])
    <2>1. ASSUME k > 1, TakesValue(ws[k - 1]) PROVE ~ solution[k - 1]
      <3>1. k - 1 \in DOMAIN ws
        BY <1>1, <2>1
      <3> QED BY <1>2, <2>1, <3>1
    <2> QED BY <2>1
  <1>4. Solves(solution)
    <2>1. DOMAIN solution = DOMAIN ws /\ solution = [k \in DOMAIN ws |-> solution[k]]
      OBVIOUS
    <2> HIDE DEF solution
    <2> QED BY <1>3, <2>1
  <1>5. Solves(value)
    <2> HIDE DEF Solves, solution
    <2> QED BY <1>4
  <1>6. IsValue(ws) = value
    BY DEF IsValue
  <1> HIDE DEF value
  <1>7. \A k \in DOMAIN ws : value[k] = (k > 1 /\ TakesValue(ws[k - 1]) /\ ~ value[k - 1])
    BY <1>5
  <1>8. ASSUME i > 1, TakesValue(ws[i - 1]), value[i - 1] PROVE FALSE
    <2>1. i - 1 \in DOMAIN ws
      BY <1>1, <1>8
    <2>2. i - 1 > 1 /\ TakesValue(ws[(i - 1) - 1])
      BY <1>7, <1>8, <2>1
    <2>3. ~ TakesValue(ws[i - 1])
      BY <1>2, <2>1, <2>2
    <2> QED BY <1>8, <2>3
  <1> QED BY <1>6, <1>7, <1>8

\* The words one step of the scan takes: a word, and its value if it needs one.
Taken(w, next, add) ==
    /\ w \in Word /\ w.kind \notin {"option", "shell"}
    /\ \/ ~ TakesNext(w) /\ add = <<w>>
       \/ TakesNext(w) /\ next \in Word /\ next.kind \notin {"option", "shell"} /\ ~ Dashed(next) /\ add = <<w, next>>

\* How they lengthen the n words read before.
Growth(ws, w, next, all, n) ==
    /\ DOMAIN ws = 1..n /\ DOMAIN all = 1..(IF TakesNext(w) THEN n + 2 ELSE n + 1)
    /\ WellRead(all)
    /\ \A i \in 1..n : all[i] = ws[i] /\ (IsValue(all)[i] <=> IsValue(ws)[i])
    /\ all[n + 1] = w /\ ~ IsValue(all)[n + 1]
    /\ TakesNext(w) => all[n + 2] = next /\ ~ Dashed(next) /\ (IsValue(all)[n + 2] <=> TakesValue(w))

LEMMA ScanGrows ==
  ASSUME NEW ws, WellRead(ws), NEW w, NEW next, NEW add, Taken(w, next, add)
  PROVE  \E n \in Nat : Growth(ws, w, next, ws \o add, n)
  <1> DEFINE all == ws \o add
  <1>1. PICK n \in Nat : DOMAIN ws = 1..n /\ Len(ws) = n
    BY DEF WellRead
  <1>3. /\ all \in Seq(Word) /\ DOMAIN all = 1..(IF TakesNext(w) THEN n + 2 ELSE n + 1)
        /\ \A i \in 1..n : all[i] = ws[i]
        /\ all[n + 1] = w
        /\ TakesNext(w) => all[n + 2] = next /\ next.kind \notin {"option", "shell"} /\ ~ Dashed(next)
    <2>1. CASE ~ TakesNext(w)
      <3>1. add = <<w>> /\ w \in Word
        BY <2>1 DEF Taken
      <3>2. <<w>> \in Seq(Word) /\ Len(<<w>>) = 1 /\ <<w>>[1] = w
        BY <3>1
      <3> QED BY <1>1, <2>1, <3>1, <3>2 DEF WellRead
    <2>2. CASE TakesNext(w)
      <3>1. add = <<w, next>> /\ w \in Word /\ next \in Word /\ next.kind \notin {"option", "shell"} /\ ~ Dashed(next)
        BY <2>2 DEF Taken
      <3>2. <<w, next>> \in Seq(Word) /\ Len(<<w, next>>) = 2 /\ <<w, next>>[1] = w /\ <<w, next>>[2] = next
        BY <3>1
      <3> QED BY <1>1, <2>2, <3>1, <3>2 DEF WellRead
    <2> QED BY <2>1, <2>2
  <1> HIDE DEF all
  <1>4. TakesValue(w) => TakesNext(w)
    BY DEF TakesValue, TakesNext
  <1>5. ASSUME NEW i \in DOMAIN all
        PROVE  /\ all[i].kind \notin {"option", "shell"}
               /\ TakesValue(all[i]) => i + 1 \in DOMAIN all /\ ~ Dashed(all[i + 1])
    <2>1. CASE i \in 1..n
      <3>1. ws[i].kind \notin {"option", "shell"} /\ (TakesValue(ws[i]) => i + 1 \in 1..n /\ ~ Dashed(ws[i + 1]))
        BY <1>1, <2>1 DEF WellRead
      <3>2. i + 1 \in 1..n => i + 1 \in DOMAIN all /\ all[i + 1] = ws[i + 1]
        BY <1>3
      <3> QED BY <1>3, <2>1, <3>1, <3>2
    <2>2. CASE i = n + 1
      <3>1. all[i] = w /\ w.kind \notin {"option", "shell"}
        BY <1>3, <2>2 DEF Taken
      <3>2. TakesNext(w) => i + 1 \in DOMAIN all /\ all[i + 1] = next /\ i + 1 = n + 2
        BY <1>3, <2>2
      <3> QED BY <1>3, <1>4, <3>1, <3>2
    <2>3. CASE i = n + 2 /\ TakesNext(w)
      <3>1. all[i] = next /\ next.kind \notin {"option", "shell"} /\ ~ Dashed(next)
        BY <1>3, <2>3
      <3>2. ~ TakesValue(next)
        BY <3>1 DEF TakesValue, Dashed
      <3> QED BY <3>1, <3>2
    <2>4. i \in 1..n \/ i = n + 1 \/ (i = n + 2 /\ TakesNext(w))
      BY <1>3
    <2> QED BY <2>1, <2>2, <2>3, <2>4
  <1>6. WellRead(all)
    BY <1>3, <1>5 DEF WellRead
  <1>7. ASSUME NEW i \in 1..n
        PROVE  IsValue(all)[i] <=> IsValue(ws)[i]
    <2>1. i \in DOMAIN all /\ i \in DOMAIN ws /\ (i > 1 => all[i - 1] = ws[i - 1])
      BY <1>1, <1>3
    <2>2. IsValue(all)[i] <=> i > 1 /\ TakesValue(all[i - 1])
      BY <1>6, <2>1, ValuePlaces
    <2>3. IsValue(ws)[i] <=> i > 1 /\ TakesValue(ws[i - 1])
      BY <2>1, ValuePlaces
    <2> QED BY <2>1, <2>2, <2>3
  <1>8. ~ IsValue(all)[n + 1]
    <2>1. n + 1 \in DOMAIN all
      BY <1>3
    <2>2. IsValue(all)[n + 1] <=> n + 1 > 1 /\ TakesValue(all[(n + 1) - 1])
      BY <1>6, <2>1, ValuePlaces
    <2>3. ASSUME n + 1 > 1 PROVE ~ TakesValue(all[(n + 1) - 1])
      <3>1. n \in 1..n /\ (n + 1) - 1 = n
        BY <2>3
      <3>2. ~ TakesValue(ws[n])
        BY <1>1, <3>1 DEF WellRead
      <3> QED BY <1>3, <3>1, <3>2
    <2> QED BY <2>2, <2>3
  <1>9. TakesNext(w) => (IsValue(all)[n + 2] <=> TakesValue(w))
    <2> SUFFICES ASSUME TakesNext(w) PROVE IsValue(all)[n + 2] <=> TakesValue(w)
      OBVIOUS
    <2>1. n + 2 \in DOMAIN all /\ n + 2 > 1 /\ (n + 2) - 1 = n + 1
      BY <1>3
    <2>2. IsValue(all)[n + 2] <=> n + 2 > 1 /\ TakesValue(all[(n + 2) - 1])
      BY <1>6, <2>1, ValuePlaces
    <2> QED BY <1>3, <2>1, <2>2
  <1>10. Growth(ws, w, next, all, n)
    BY <1>1, <1>3, <1>6, <1>7, <1>8, <1>9 DEF Growth
  <1> QED BY <1>10 DEF all

\* What a flag and its inline form were given, and the arguments, after a step.
LEMMA GivenGrows ==
  ASSUME NEW ws, WellRead(ws), NEW w, NEW next, NEW add, Taken(w, next, add),
         NEW inline \in {"--namespace=", "--replicas="}, NEW flag \in {"-n", "--replicas"}
  PROVE  Given(ws \o add, inline, flag) =
           Given(ws, inline, flag) \cup (IF w.kind = inline THEN {w.value} ELSE {})
                                   \cup (IF w.kind = flag THEN {Text(next)} ELSE {})
  <1> DEFINE all == ws \o add
             inlineOf(s) == {s[i].value : i \in {j \in DOMAIN s : s[j].kind = inline /\ ~ IsValue(s)[j]}}
             flagOf(s) == {Text(s[i]) : i \in {j \in DOMAIN s : IsValue(s)[j] /\ s[j - 1].kind = flag}}
  <1>0. PICK n \in Nat : Growth(ws, w, next, all, n)
    BY ScanGrows
  <1> HIDE DEF all
  <1>1. /\ DOMAIN ws = 1..n /\ DOMAIN all = 1..(IF TakesNext(w) THEN n + 2 ELSE n + 1)
        /\ WellRead(all)
        /\ \A i \in 1..n : all[i] = ws[i] /\ (IsValue(all)[i] <=> IsValue(ws)[i])
        /\ all[n + 1] = w /\ ~ IsValue(all)[n + 1]
        /\ TakesNext(w) => all[n + 2] = next /\ ~ Dashed(next) /\ (IsValue(all)[n + 2] <=> TakesValue(w))
    BY <1>0 DEF Growth
  <1>5. \A j \in DOMAIN all : j \in 1..n \/ j = n + 1 \/ (j = n + 2 /\ TakesNext(w))
    BY <1>1
  <1>6. \A j \in 1..n : j \in DOMAIN all
    BY <1>1
  <1>2. Given(ws, inline, flag) = inlineOf(ws) \cup flagOf(ws) /\ Given(all, inline, flag) = inlineOf(all) \cup flagOf(all)
    BY DEF Given
  <1>3. inlineOf(all) = inlineOf(ws) \cup (IF w.kind = inline THEN {w.value} ELSE {})
    <2> DEFINE places(s) == {j \in DOMAIN s : s[j].kind = inline /\ ~ IsValue(s)[j]}
    <2>1. places(all) = places(ws) \cup (IF w.kind = inline THEN {n + 1} ELSE {})
      <3>1. ASSUME NEW j \in DOMAIN all
            PROVE  j \in places(all) <=> j \in places(ws) \/ (w.kind = inline /\ j = n + 1)
        <4>1. CASE j \in 1..n
          BY <1>1, <4>1
        <4>2. CASE j = n + 1
          BY <1>1, <4>2
        <4>3. CASE j = n + 2 /\ TakesNext(w)
          <5>1. all[j].kind # inline
            BY <1>1, <4>3 DEF Dashed
          <5>2. j \notin 1..n /\ j # n + 1
            BY <4>3
          <5> QED BY <1>1, <5>1, <5>2
        <4> QED BY <1>5, <4>1, <4>2, <4>3
      <3>2. places(all) \subseteq DOMAIN all /\ places(ws) \subseteq DOMAIN all /\ n + 1 \in DOMAIN all
        BY <1>1
      <3> HIDE DEF places
      <3> QED BY <3>1, <3>2
    <2>2. /\ \A j \in places(ws) : all[j] = ws[j]
          /\ inlineOf(all) = {all[j].value : j \in places(all)}
          /\ inlineOf(ws) = {ws[j].value : j \in places(ws)}
      BY <1>1
    <2> HIDE DEF places, inlineOf
    <2> QED BY <1>1, <2>1, <2>2
  <1>4. flagOf(all) = flagOf(ws) \cup (IF w.kind = flag THEN {Text(next)} ELSE {})
    <2> DEFINE places(s) == {j \in DOMAIN s : IsValue(s)[j] /\ s[j - 1].kind = flag}
    <2>1. w.kind = flag => TakesNext(w) /\ TakesValue(w)
      BY DEF TakesNext, TakesValue
    <2>2. places(all) = places(ws) \cup (IF w.kind = flag THEN {n + 2} ELSE {})
      <3>1. ASSUME NEW j \in DOMAIN all
            PROVE  j \in places(all) <=> j \in places(ws) \/ (w.kind = flag /\ j = n + 2)
        <4>1. CASE j \in 1..n
          <5>1. IsValue(ws)[j] => j - 1 \in 1..n
            BY <1>1, <4>1, ValuePlaces
          <5> QED BY <1>1, <4>1, <5>1
        <4>2. CASE j = n + 1
          BY <1>1, <4>2
        <4>3. CASE j = n + 2 /\ TakesNext(w)
          <5>1. j - 1 = n + 1 /\ all[j - 1] = w /\ j \notin 1..n
            BY <1>1, <4>3
          <5> QED BY <1>1, <2>1, <4>3, <5>1
        <4> QED BY <1>5, <4>1, <4>2, <4>3
      <3>2. /\ places(all) \subseteq DOMAIN all /\ places(ws) \subseteq DOMAIN all
            /\ w.kind = flag => n + 2 \in DOMAIN all
        BY <1>1, <2>1
      <3> HIDE DEF places
      <3> QED BY <3>1, <3>2
    <2>3. /\ \A j \in places(ws) : all[j] = ws[j]
          /\ flagOf(all) = {Text(all[j]) : j \in places(all)}
          /\ flagOf(ws) = {Text(ws[j]) : j \in places(ws)}
      BY <1>1
    <2> HIDE DEF places, flagOf
    <2> QED BY <1>1, <2>1, <2>2, <2>3
  <1> HIDE DEF inlineOf, flagOf
  <1> QED BY <1>2, <1>3, <1>4 DEF all

Widening(ws, w, next, all, n) ==
    /\ DOMAIN ws = 1..n
    /\ \A i \in 1..n : i \in DOMAIN all /\ all[i] = ws[i]
    /\ n + 1 \in DOMAIN all /\ all[n + 1] = w
    /\ TakesNext(w) => all[n + 2] = next
    /\ Arguments(all) =
         Arguments(ws) \cup (IF Dashed(w) THEN {} ELSE IF TakesNext(w) THEN {n + 1, n + 2} ELSE {n + 1})

LEMMA ArgumentsGrow ==
  ASSUME NEW ws, WellRead(ws), NEW w, NEW next, NEW add, Taken(w, next, add)
  PROVE  \E n \in Nat : Widening(ws, w, next, ws \o add, n)
  <1> DEFINE all == ws \o add
  <1>0. PICK n \in Nat : Growth(ws, w, next, all, n)
    BY ScanGrows
  <1> HIDE DEF all
  <1>1. /\ DOMAIN ws = 1..n /\ DOMAIN all = 1..(IF TakesNext(w) THEN n + 2 ELSE n + 1)
        /\ WellRead(all)
        /\ \A i \in 1..n : all[i] = ws[i] /\ (IsValue(all)[i] <=> IsValue(ws)[i])
        /\ all[n + 1] = w /\ ~ IsValue(all)[n + 1]
        /\ TakesNext(w) => all[n + 2] = next /\ ~ Dashed(next) /\ (IsValue(all)[n + 2] <=> TakesValue(w))
    BY <1>0 DEF Growth
  <1>5. \A j \in DOMAIN all : j \in 1..n \/ j = n + 1 \/ (j = n + 2 /\ TakesNext(w))
    BY <1>1
  <1>6. \A j \in 1..n : j \in DOMAIN all
    BY <1>1
  <1> DEFINE new == IF Dashed(w) THEN {} ELSE IF TakesNext(w) THEN {n + 1, n + 2} ELSE {n + 1}
  <1>2. ASSUME NEW j \in DOMAIN all
        PROVE  j \in Arguments(all) <=> j \in Arguments(ws) \/ j \in new
    <2>1. CASE j \in 1..n
      BY <1>1, <2>1 DEF Arguments
    <2>2. CASE j = n + 1
      BY <1>1, <2>2 DEF Arguments
    <2>3. CASE j = n + 2 /\ TakesNext(w)
      <3>1. TakesValue(w) <=> Dashed(w)
        BY <2>3 DEF TakesValue, TakesNext, Dashed
      <3>2. j \notin 1..n /\ j # n + 1
        BY <2>3
      <3> QED BY <1>1, <2>3, <3>1, <3>2 DEF Arguments
    <2> QED BY <1>5, <2>1, <2>2, <2>3
  <1>3. Arguments(all) \subseteq DOMAIN all /\ Arguments(ws) \subseteq DOMAIN all /\ new \subseteq DOMAIN all
    BY <1>1 DEF Arguments
  <1> HIDE DEF new
  <1>4. Arguments(all) = Arguments(ws) \cup new
    BY <1>2, <1>3
  <1> QED BY <1>1, <1>4, <1>6 DEF new, all, Widening

\* What kubectl takes as its targets is what the scan has noted.
LEMMA TargetsRead ==
  ASSUME NEW ws, WellRead(ws), NEW t, TargetRead(ws, t)
  PROVE  Targets(ws) = IF t.kind = "deployment/" THEN {t.name} ELSE {}
  <1>0. DOMAIN ws \subseteq Nat
    BY DEF WellRead
  <1>1. CASE t = NoTarget /\ Arguments(ws) = {}
    BY <1>1 DEF NoTarget, Targets
  <1>2. ASSUME NEW j \in DOMAIN ws, Arguments(ws) = {j} PROVE Min(Arguments(ws)) = j
    BY <1>0, <1>2 DEF Min
  <1>3. CASE \E j \in DOMAIN ws : Arguments(ws) = {j} /\ ws[j].kind = "plain" /\ t.kind = "plain"
    BY <1>2, <1>3 DEF Targets
  <1>4. CASE \E j \in DOMAIN ws : /\ Arguments(ws) = {j} /\ ws[j].kind = "deployment/"
                                  /\ t = [kind |-> "deployment/", name |-> ws[j].value]
    <2>1. PICK j \in DOMAIN ws : /\ Arguments(ws) = {j} /\ ws[j].kind = "deployment/"
                                 /\ t = [kind |-> "deployment/", name |-> ws[j].value]
      BY <1>4
    <2>2. Targets(ws) = {ws[i].value : i \in {j}}
      BY <1>2, <2>1 DEF Targets
    <2> QED BY <2>1, <2>2
  <1>5. CASE \E j \in DOMAIN ws : /\ Arguments(ws) = {j, j + 1} /\ ws[j].kind = "deployment"
                                  /\ t = [kind |-> "deployment/", name |-> Text(ws[j + 1])]
    <2>1. PICK j \in DOMAIN ws : /\ Arguments(ws) = {j, j + 1} /\ ws[j].kind = "deployment"
                                 /\ t = [kind |-> "deployment/", name |-> Text(ws[j + 1])]
      BY <1>5
    <2>2. Min({j, j + 1}) = j /\ {j, j + 1} \ {j} = {j + 1}
      BY <1>0 DEF Min
    <2>3. Targets(ws) = {Text(ws[i]) : i \in {j + 1}}
      BY <2>1, <2>2 DEF Targets
    <2> QED BY <2>1, <2>3
  <1> QED BY <1>1, <1>3, <1>4, <1>5 DEF TargetRead

\* So kubectl reads the mitigation exactly when the scan has noted it.
LEMMA MitigationRead ==
  ASSUME WellRead(words), TargetRead(words, target),
         Given(words, "--namespace=", "-n") = Noted(namespace),
         Given(words, "--replicas=", "--replicas") = Noted(replicas)
  PROVE  IsMitigation(words) <=>
           /\ target = [kind |-> "deployment/", name |-> "mongodb"]
           /\ namespace = "energy" /\ replicas \in {"0", "1"}
  <1>1. Targets(words) = {"mongodb"} <=> target = [kind |-> "deployment/", name |-> "mongodb"]
    <2>1. target.kind = "deployment/" => target = [kind |-> "deployment/", name |-> target.name]
      BY DEF TargetRead, NoTarget
    <2>2. Targets(words) = IF target.kind = "deployment/" THEN {target.name} ELSE {}
      BY TargetsRead
    <2> QED BY <2>1, <2>2
  <1>2. \A value, text : text # None => (Noted(value) = {text} <=> value = text)
    BY DEF Noted
  <1>3. /\ Given(words, "--namespace=", "-n") = {"energy"} <=> namespace = "energy"
        /\ Given(words, "--replicas=", "--replicas") \in {{"0"}, {"1"}} <=> replicas \in {"0", "1"}
    BY <1>2 DEF None
  <1>4. \A w \in ToSet(words) : w.kind \notin {"option", "shell"}
    BY DEF WellRead, ToSet
  <1> QED BY <1>1, <1>3, <1>4 DEF IsMitigation

\* The name or value a word brings is never the sign for none.
LEMMA NamedIsText ==
  ASSUME NEW w \in Word, NEW next, next \in Word \/ ~ TakesNext(w),
         w.kind \notin {"option", "shell"}
  PROVE  OfNamespace(w) \/ OfReplicas(w) => Named(w, next) # None
  <1>1. CASE TakesNext(w)
    <2>1. Text(next) # None
      BY <1>1 DEF Text, Word, Values, None
    <2> QED BY <1>1, <2>1 DEF Named
  <1>2. CASE ~ TakesNext(w)
    BY <1>2 DEF Named, TakesNext, OfNamespace, OfReplicas, Word, Values, None
  <1> QED BY <1>1, <1>2

LEMMA ScanWordKeeps ==
  ASSUME CommandInv, ScanWord
  PROVE  CommandInv'
  <1>1. PICK w \in Word, next \in Word \cup {NoWord} :
           /\ ~ TakesNext(w) => next = NoWord
           /\ ~ Refused(w, next)
           /\ words' = words \o (IF TakesNext(w) THEN <<w, next>> ELSE <<w>>)
           /\ namespace' = IF OfNamespace(w) THEN Named(w, next) ELSE namespace
           /\ replicas' = IF OfReplicas(w) THEN Named(w, next) ELSE replicas
           /\ target' = IF Dashed(w) THEN target
                        ELSE [kind |-> IF w.kind = "plain" THEN "plain" ELSE "deployment/",
                              name |-> Named(w, next)]
    <2>1. PICK w \in Word : \E next \in (IF TakesNext(w) THEN Word \cup {NoWord} ELSE {NoWord}) :
           /\ ~ Refused(w, next)
           /\ words' = words \o (IF TakesNext(w) THEN <<w, next>> ELSE <<w>>)
           /\ namespace' = IF OfNamespace(w) THEN Named(w, next) ELSE namespace
           /\ replicas' = IF OfReplicas(w) THEN Named(w, next) ELSE replicas
           /\ target' = IF Dashed(w) THEN target
                        ELSE [kind |-> IF w.kind = "plain" THEN "plain" ELSE "deployment/",
                              name |-> Named(w, next)]
      BY DEF ScanWord
    <2> QED BY <2>1
  <1>2. scan = "running" /\ scan' = "running"
    BY DEF ScanWord
  <1>3. PICK ws : ws = words
    OBVIOUS
  <1>4. PICK add : add = IF TakesNext(w) THEN <<w, next>> ELSE <<w>>
    OBVIOUS
  <1>5. /\ WellRead(ws) /\ TargetRead(ws, target)
        /\ Given(ws, "--namespace=", "-n") = Noted(namespace)
        /\ Given(ws, "--replicas=", "--replicas") = Noted(replicas)
    BY <1>2, <1>3 DEF CommandInv, ScanInv
  <1>6. Taken(w, next, add)
    <2>1. w.kind \notin {"option", "shell"}
      BY <1>1 DEF Refused
    <2>2. TakesNext(w) => next \in Word /\ next.kind \notin {"option", "shell"} /\ ~ Dashed(next)
      BY <1>1 DEF Refused, Dashed
    <2> QED BY <1>4, <2>1, <2>2 DEF Taken
  <1>7. OfNamespace(w) \/ OfReplicas(w) => Named(w, next) # None
    BY <1>6, NamedIsText DEF Taken
  <1>8. PICK all : all = ws \o add
    OBVIOUS
  <1>9. words' = all /\ WellRead(all)
    <2>1. PICK n \in Nat : Growth(ws, w, next, ws \o add, n)
      BY <1>5, <1>6, ScanGrows
    <2> QED BY <1>1, <1>3, <1>4, <1>8, <2>1 DEF Growth
  <1>10. Given(all, "--namespace=", "-n") = Noted(namespace')
    <2>1. Given(all, "--namespace=", "-n") =
            Given(ws, "--namespace=", "-n") \cup (IF w.kind = "--namespace=" THEN {w.value} ELSE {})
                                            \cup (IF w.kind = "-n" THEN {Text(next)} ELSE {})
      BY <1>5, <1>6, <1>8, GivenGrows
    <2>2. CASE OfNamespace(w)
      <3>1. namespace = None /\ namespace' = Named(w, next) /\ Noted(namespace') = {Named(w, next)}
        BY <1>1, <1>7, <2>2 DEF Refused, Noted
      <3>2. Given(ws, "--namespace=", "-n") = {}
        BY <1>5, <3>1 DEF Noted
      <3> QED BY <2>1, <2>2, <3>1, <3>2 DEF OfNamespace, Named, TakesNext
    <2>3. CASE ~ OfNamespace(w)
      BY <1>1, <1>5, <2>1, <2>3 DEF OfNamespace
    <2> QED BY <2>2, <2>3
  <1>11. Given(all, "--replicas=", "--replicas") = Noted(replicas')
    <2>1. Given(all, "--replicas=", "--replicas") =
            Given(ws, "--replicas=", "--replicas") \cup (IF w.kind = "--replicas=" THEN {w.value} ELSE {})
                                                   \cup (IF w.kind = "--replicas" THEN {Text(next)} ELSE {})
      BY <1>5, <1>6, <1>8, GivenGrows
    <2>2. CASE OfReplicas(w)
      <3>1. replicas = None /\ replicas' = Named(w, next) /\ Noted(replicas') = {Named(w, next)}
        BY <1>1, <1>7, <2>2 DEF Refused, Noted
      <3>2. Given(ws, "--replicas=", "--replicas") = {}
        BY <1>5, <3>1 DEF Noted
      <3> QED BY <2>1, <2>2, <3>1, <3>2 DEF OfReplicas, Named, TakesNext
    <2>3. CASE ~ OfReplicas(w)
      BY <1>1, <1>5, <2>1, <2>3 DEF OfReplicas
    <2> QED BY <2>2, <2>3
  <1>12. TargetRead(all, target')
    <2>0. PICK n \in Nat : Widening(ws, w, next, all, n)
      BY <1>5, <1>6, <1>8, ArgumentsGrow
    <2>1. /\ DOMAIN ws = 1..n
          /\ \A i \in 1..n : i \in DOMAIN all /\ all[i] = ws[i]
          /\ n + 1 \in DOMAIN all /\ all[n + 1] = w
          /\ TakesNext(w) => all[n + 2] = next
          /\ Arguments(all) =
               Arguments(ws) \cup (IF Dashed(w) THEN {} ELSE IF TakesNext(w) THEN {n + 1, n + 2} ELSE {n + 1})
      BY <2>0 DEF Widening
    <2>2. CASE Dashed(w)
      <3>1. Arguments(all) = Arguments(ws) /\ target' = target
        BY <1>1, <2>1, <2>2
      <3>2. \A i \in Arguments(ws) : i \in 1..n
        BY <2>1 DEF Arguments
      <3>3. CASE target = NoTarget /\ Arguments(ws) = {}
        BY <3>1, <3>3 DEF TargetRead
      <3>4. CASE target # NoTarget \/ Arguments(ws) # {}
        <4>1. PICK j \in 1..n :
                 \/ Arguments(ws) = {j} /\ ws[j].kind = "plain" /\ target.kind = "plain"
                 \/ /\ Arguments(ws) = {j} /\ ws[j].kind = "deployment/"
                    /\ target = [kind |-> "deployment/", name |-> ws[j].value]
                 \/ /\ Arguments(ws) = {j, j + 1} /\ ws[j].kind = "deployment"
                    /\ target = [kind |-> "deployment/", name |-> Text(ws[j + 1])]
          BY <1>5, <2>1, <3>4 DEF TargetRead
        <4>2. all[j] = ws[j] /\ j \in DOMAIN all /\ (j + 1 \in Arguments(ws) => all[j + 1] = ws[j + 1])
          BY <2>1, <3>2
        <4> QED BY <3>1, <4>1, <4>2 DEF TargetRead
      <3> QED BY <3>3, <3>4
    <2>3. CASE ~ Dashed(w)
      <3>1. target = NoTarget
        BY <1>1, <2>3 DEF Refused
      <3>2. Arguments(ws) = {}
        BY <1>5, <3>1 DEF TargetRead, NoTarget
      <3>3. target' = [kind |-> IF w.kind = "plain" THEN "plain" ELSE "deployment/", name |-> Named(w, next)]
        BY <1>1, <2>3
      <3>4. w.kind \in {"deployment", "deployment/", "plain"}
        BY <1>6, <2>3 DEF Taken, Word, Dashed
      <3>5. CASE w.kind = "deployment"
        <4>1. TakesNext(w) /\ target' = [kind |-> "deployment/", name |-> Text(next)]
          BY <3>3, <3>5 DEF TakesNext, Named
        <4>2. Arguments(all) = {n + 1, (n + 1) + 1} /\ all[(n + 1) + 1] = next
          BY <2>1, <2>3, <3>2, <4>1
        <4> QED BY <2>1, <3>5, <4>1, <4>2 DEF TargetRead
      <3>6. CASE w.kind = "deployment/"
        <4>1. ~ TakesNext(w) /\ target' = [kind |-> "deployment/", name |-> w.value]
          BY <3>3, <3>6 DEF TakesNext, Named
        <4>2. Arguments(all) = {n + 1}
          BY <2>1, <2>3, <3>2, <4>1
        <4> QED BY <2>1, <3>6, <4>1, <4>2 DEF TargetRead
      <3>7. CASE w.kind = "plain"
        <4>1. ~ TakesNext(w) /\ target'.kind = "plain"
          BY <3>3, <3>7 DEF TakesNext
        <4>2. Arguments(all) = {n + 1}
          BY <2>1, <2>3, <3>2, <4>1
        <4> QED BY <2>1, <3>7, <4>1, <4>2 DEF TargetRead
      <3> QED BY <3>4, <3>5, <3>6, <3>7
    <2> QED BY <2>2, <2>3
  <1>13. ScanInv'
    BY <1>9, <1>10, <1>11, <1>12 DEF ScanInv
  <1>14. AllowedIsMitigation'
    BY <1>2 DEF AllowedIsMitigation
  <1> QED BY <1>13, <1>14 DEF CommandInv

LEMMA CommandEndsKeeps ==
  ASSUME CommandInv, CommandEnds
  PROVE  CommandInv'
  <1>1. IsMitigation(words) <=>
           /\ target = [kind |-> "deployment/", name |-> "mongodb"]
           /\ namespace = "energy" /\ replicas \in {"0", "1"}
    BY MitigationRead DEF CommandInv, ScanInv, CommandEnds
  <1>2. words' = words /\ scan' = IF IsMitigation(words) THEN "allowed" ELSE "refused"
    BY <1>1 DEF CommandEnds
  <1> QED BY <1>2 DEF CommandInv, ScanInv, AllowedIsMitigation

LEMMA StepCommandInv == CommandInv /\ [CommandNext]_commandVars => CommandInv'
  <1>1. ASSUME CommandInv, ScanRefuses PROVE CommandInv'
    BY <1>1 DEF ScanRefuses, CommandInv, ScanInv, AllowedIsMitigation
  <1>2. ASSUME CommandInv, UNCHANGED commandVars PROVE CommandInv'
    BY <1>2 DEF commandVars, CommandInv, ScanInv, AllowedIsMitigation
  <1> QED BY <1>1, <1>2, ScanWordKeeps, CommandEndsKeeps DEF CommandNext

LEMMA InitCommandInv == CommandInit => CommandInv
  <1> SUFFICES ASSUME CommandInit PROVE CommandInv
    OBVIOUS
  <1>1. /\ words = <<>> /\ target = NoTarget /\ namespace = None /\ replicas = None /\ scan = "running"
    BY DEF CommandInit
  <1>2. <<>> \in Seq(Word) /\ DOMAIN <<>> = {}
    OBVIOUS
  <1>3. WellRead(<<>>) /\ Arguments(<<>>) = {}
    BY <1>2 DEF WellRead, Arguments
  <1>4. \A inline, flag : Given(<<>>, inline, flag) = {}
    BY <1>2, <1>3, ValuePlaces DEF Given
  <1> QED BY <1>1, <1>3, <1>4 DEF CommandInv, ScanInv, TargetRead, Noted, AllowedIsMitigation

\* A command is admitted as the mitigation exactly when kubectl would do that and nothing
\* else, for commands of any length (normalizeMitigationCommand).
THEOREM AdmissionIsExact == CommandSpec => []AllowedIsMitigation
  <1>1. CommandInv => AllowedIsMitigation
    BY DEF CommandInv
  <1> QED BY <1>1, InitCommandInv, StepCommandInv, PTL DEF CommandSpec
=============================================================================
