---------------------------- MODULE EvidenceCache ----------------------------
(***************************************************************************)
(* The answer cache of ReviewModeMitigationService.ts, on top of the       *)
(* customer-impact cache it reads: a map of answers by correlation key in  *)
(* order of use, a collection under way per key, and in every collection   *)
(* four log queries, then the inventory, then the customer impact, which   *)
(* may be a cached answer already.  What the answer says of the lifecycle  *)
(* is modelled in ReviewModeMitigation; here it is the verdict of the      *)
(* golden-transaction probe.                                               *)
(***************************************************************************)
EXTENDS CustomerImpact, Sequences, SequencesExt

CONSTANTS
    Keys,       \* evidenceCacheKey of the requests
    MaxKeys,    \* REVIEW_MODE_MITIGATION_CACHE_MAX_KEYS
    EvidenceTTL,\* REVIEW_MODE_MITIGATION_CACHE_MS
    Stale       \* DEFAULT_PROBE_STALE_SECONDS

MaxCollect == 3 * MaxQuery
MaxEvidenceAge == IF EvidenceTTL - 1 > MaxCollect THEN EvidenceTTL - 1 ELSE MaxCollect

ASSUME EvidenceAssumption ==
    /\ {MaxKeys, EvidenceTTL, Stale} \subseteq Nat /\ 0 < EvidenceTTL /\ 0 < MaxKeys
    /\ Stale + MaxEvidenceAge < Horizon /\ MaxAge + MaxEvidenceAge < Horizon

VARIABLES
    cache,     \* cache: the answers, the least recently used first
    inFlight,  \* inFlight: the collection under way for a key
    shown      \* history: the last step has answered that the probe passed

evidenceVars == <<cache, inFlight, shown>>
answerVars == <<impactVars, evidenceVars>>

Phases == {"reading", "impact"}

EvidenceTypeOK ==
    /\ ImpactTypeOK
    /\ \A i \in DOMAIN cache : cache[i] \in [key : Keys, age : 0..EvidenceTTL + MaxCollect, passed : BOOLEAN]
    /\ inFlight \in [Keys -> [phase : Phases, age : 0..MaxCollect, failed : BOOLEAN] \cup {Nothing}]
    /\ shown \in BOOLEAN

-----------------------------------------------------------------------------
\* The answers at some of the places, in their order.
Kept(c, places) ==
    LET upTo[i \in 0..Len(c)] ==
            IF i = 0 THEN <<>>
            ELSE IF i \in places THEN Append(upTo[i - 1], c[i]) ELSE upTo[i - 1]
    IN  upTo[Len(c)]

Without(c, k) == Kept(c, {i \in DOMAIN c : c[i].key # k})
\* The answers that had not expired the given time ago.
Live(c, ago) == Kept(c, {i \in DOMAIN c : c[i].age < EvidenceTTL + ago})

\* Expired answers go, then the least recently used ones beyond the limit.
pruneMitigationEvidenceCache(c, ago) ==
    LET live == Live(c, ago)
    IN  IF Len(live) <= MaxKeys THEN live
        ELSE SubSeq(live, Len(live) - MaxKeys + 1, Len(live))

\* A faulty touch that renews the answer's lifetime.
TouchRenews(c, e) == Append(Without(c, e.key), [e EXCEPT !.age = 0])
touchMitigationEvidenceCache(c, e) == Append(Without(c, e.key), e)

\* The collection has its customer impact, or one that has just ended: it goes
\* on before the event loop turns to anything else.
Due(k) == IF inFlight[k] = Nothing THEN FALSE
          ELSE inFlight[k].phase = "impact" /\ flight = Nothing
Settled == \A k \in Keys : ~Due(k)

Begun(k) == [inFlight EXCEPT ![k] = [phase |-> "reading", age |-> 0, failed |-> FALSE]]

\* GET /api/mitigation for an observed correlation.
getMitigationEvidence(k) ==
    LET pruned == pruneMitigationEvidenceCache(cache, 0)
        hits == {i \in DOMAIN pruned : pruned[i].key = k}
    IN  /\ Settled
        /\ \/ \E i \in hits : /\ cache' = touchMitigationEvidenceCache(pruned, pruned[i])
                              /\ shown' = pruned[i].passed
                              /\ UNCHANGED inFlight
           \/ /\ hits = {}
              /\ cache' = pruned /\ shown' = FALSE
              /\ inFlight' = IF inFlight[k] = Nothing THEN Begun(k) ELSE inFlight
        /\ told' = Nothing
        /\ UNCHANGED <<world, flight, cached>>

\* The log queries and the inventory read end; one that fails is noted.  The
\* customer impact is asked for: an answer, or a collection to wait for.
EvidenceRead(k) ==
    /\ Settled
    /\ inFlight[k] # Nothing /\ inFlight[k].phase = "reading"
    /\ \E f \in BOOLEAN : inFlight' = [inFlight EXCEPT ![k].phase = "impact", ![k].failed = f]
    /\ flight' = IF StillCached \/ flight # Nothing THEN flight
                 ELSE [age |-> 0, telemetry |-> [data |-> "pending"], inventory |-> "pending"]
    /\ told' = Nothing /\ shown' = FALSE
    /\ UNCHANGED <<world, cached, cache>>

\* buildGoldenTransactionProbe: the objectives are met, and the last success
\* was fresh when the impact, and when this evidence, began to be collected.
buildGoldenTransactionProbe(impact, c) ==
    /\ impact.status \in {"healthy", "degraded"} /\ impact.rateMet
    /\ impact.lastSuccess - impact.age <= Freshness
    /\ impact.lastSuccess - c.age <= Stale

\* The rest of collectMitigationEvidence: an answer with a failure is not kept;
\* what has expired is judged by the time the collection began.
EvidenceEnds(k) ==
    /\ Due(k)
    /\ LET c == inFlight[k]
           e == [key |-> k, age |-> c.age, passed |-> buildGoldenTransactionProbe(cached, c)]
       IN  /\ cache' = IF c.failed THEN cache
                       ELSE pruneMitigationEvidenceCache(touchMitigationEvidenceCache(cache, e), c.age)
           /\ inFlight' = [inFlight EXCEPT ![k] = Nothing]
           /\ shown' = e.passed
    /\ told' = Nothing
    /\ UNCHANGED <<world, flight, cached>>

\* One tick passes, unless a collection has reached a time limit or can go on.
EvidenceTick ==
    /\ Settled
    /\ \A k \in Keys : inFlight[k] # Nothing =>
          inFlight[k].age < (IF inFlight[k].phase = "reading" THEN 2 * MaxQuery ELSE MaxCollect)
    /\ ImpactTick
    /\ inFlight' = [k \in Keys |-> IF inFlight[k] = Nothing THEN Nothing
                                   ELSE [inFlight[k] EXCEPT !.age = @ + 1]]
    /\ cache' = [i \in DOMAIN cache |->
                    [cache[i] EXCEPT !.age = Earlier(@ + 1, EvidenceTTL + MaxCollect)]]
    /\ shown' = FALSE

EvidenceInit == ImpactInit /\ cache = <<>> /\ inFlight = [k \in Keys |-> Nothing] /\ shown = FALSE

\* What the customer-impact service and the world do meanwhile.
ImpactStep ==
    /\ \/ Settled /\ getCustomerImpact
       \/ QueryEnds \/ InventoryEnds \/ collectCustomerImpact
       \/ RowArrives
    /\ shown' = FALSE
    /\ UNCHANGED <<cache, inFlight>>

EvidenceNext ==
    \/ ImpactStep
    \/ \E k \in Keys : getMitigationEvidence(k) \/ EvidenceRead(k) \/ EvidenceEnds(k)
    \/ EvidenceTick

EvidenceSpec == EvidenceInit /\ [][EvidenceNext]_answerVars

-----------------------------------------------------------------------------
(***************************************************************************)
(* Properties.                                                             *)
(***************************************************************************)
\* Evidence that says the golden transaction has passed, cached twice as it
\* may be, rests on a success not older than one staleness limit and one
\* lifetime, and no critical failure has been held for both lifetimes.
VerifiedIsRecent ==
    shown =>
        okAge <= Stale + MaxEvidenceAge /\ unrecovered <= MaxAge + MaxEvidenceAge

=============================================================================
