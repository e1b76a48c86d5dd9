------------------------ MODULE IncidentHandoffProofs ------------------------
(***************************************************************************)
(* Proofs about IncidentHandoff, for any number of requests, keys, native  *)
(* incidents and incidents.                                                *)
(*                                                                         *)
(* Repeated submissions of one key never stand open side by side: the file *)
(* only ever takes what a mutation has drafted from one reading of it, and *)
(* a first read empties it, so it is enough that every draft has the       *)
(* property as well.  The order of the chain is not needed for that.       *)
(*                                                                         *)
(* It is for the answers: no write undoes one, because the mutation that   *)
(* has read the file is the first of the chain until it leaves.            *)
(***************************************************************************)
EXTENDS IncidentHandoff, FiniteSetTheorems, SequenceTheorems, WellFoundedInduction, TLAPS

\* An incident, its id not bounded by the instance.
Shape == [id : Nat, key : Keys, status : Statuses, native : Natives \cup {None}]

OneOpen(s) ==
    \A i, j \in DOMAIN s :
        s[i].status = "open" /\ s[j].status = "open" /\ s[i].key = s[j].key => i = j

Fine(s) == s \in Seq(Shape) /\ OneOpen(s)

Mutation(r) ==
    /\ r.kind \in {"submit", "acknowledge", "resolve", "attach"}
    /\ r.kind = "submit" => r.key \in Keys
    /\ r.kind = "attach" => r.native \in Natives \cup {None}

HandoffInv ==
    /\ Fine(incidents)
    /\ DOMAIN draft = Clients /\ DOMAIN req = Clients /\ DOMAIN pc = Clients
    /\ \A c \in Clients : Fine(draft[c])
    /\ \A c \in Clients : pc[c] = "idle" => req[c].kind = "get"
    /\ \A c \in Clients : pc[c] = "queued" => Mutation(req[c])
    /\ \A c \in Clients : pc[c] = "missing" => Mutation(req[c]) \/ req[c].kind = "get"
    /\ created \in Nat
    /\ visible \subseteq Natives

LEMMA NothingIsFine == Fine(<<>>)
  BY DEF Fine, OneOpen

LEMMA InitHandoffInv == Init => HandoffInv
  BY NothingIsFine DEF Init, HandoffInv, Get

-----------------------------------------------------------------------------
(***************************************************************************)
(* What a mutation makes of a state                                        *)
(***************************************************************************)

\* The search for an id ends where the id is.
LEMMA FindFinds ==
  ASSUME NEW s, NEW id \in Ids(s)
  PROVE  Find(s, id) \in DOMAIN s
  BY DEF Ids, Find, ToSet

LEMMA SubmittedFine ==
  ASSUME NEW s, Fine(s), NEW key \in Keys, NEW id \in Nat
  PROVE  Fine(Submitted(s, key, id))
  <1>1. CASE \E inc \in ToSet(s) : SameIncident(inc, key)
    BY <1>1 DEF Submitted
  <1>2. CASE ~ \E inc \in ToSet(s) : SameIncident(inc, key)
    <2> DEFINE new == [id |-> id, key |-> key, status |-> "open", native |-> None]
    <2>1. new \in Shape /\ s \in Seq(Shape)
      BY DEF Shape, Statuses, Fine
    <2>2. Submitted(s, key, id) = Append(s, new)
      BY <1>2 DEF Submitted
    <2>3. \A i \in DOMAIN s : s[i].status = "open" => s[i].key # key
      BY <1>2 DEF SameIncident, ToSet
    <2>4. new.key = key
      OBVIOUS
    <2> HIDE DEF new
    <2>5. /\ Append(s, new) \in Seq(Shape) /\ Len(Append(s, new)) = Len(s) + 1
          /\ \A i \in 1..Len(s) : Append(s, new)[i] = s[i]
          /\ Append(s, new)[Len(s) + 1] = new
      BY <2>1
    <2>6. OneOpen(Append(s, new))
      BY <2>1, <2>3, <2>4, <2>5 DEF Fine, OneOpen
    <2> QED
      BY <2>2, <2>5, <2>6 DEF Fine
  <1> QED
    BY <1>1, <1>2

\* Nor does it harm to change an incident, unless that opens it or gives it a key.
LEMMA ChangedFine ==
  ASSUME NEW s, Fine(s), NEW i \in DOMAIN s, NEW inc \in Shape,
         inc.key = s[i].key, inc.status = "open" => s[i].status = "open"
  PROVE  Fine([s EXCEPT ![i] = inc])
  <1>1. s \in Seq(Shape) /\ i \in 1..Len(s)
    BY DEF Fine
  <1>2. [s EXCEPT ![i] = inc] \in Seq(Shape)
    BY <1>1, ExceptSeq
  <1>3. OneOpen([s EXCEPT ![i] = inc])
    BY DEF Fine, OneOpen
  <1> QED
    BY <1>2, <1>3 DEF Fine

LEMMA AppliedFine ==
  ASSUME NEW r, Mutation(r), NEW s, Fine(s), NEW id \in Nat
  PROVE  Fine(Applied(r, s, id))
  <1>1. CASE r.kind = "submit"
    BY <1>1, SubmittedFine DEF Applied, Mutation
  <1>2. CASE r.kind # "submit" /\ r.id \notin Ids(s)
    BY <1>2, NothingIsFine DEF Applied
  <1>3. CASE r.kind # "submit" /\ r.id \in Ids(s)
    <2>1. PICK i \in DOMAIN s : i = Find(s, r.id)
      BY <1>3, FindFinds
    <2>2. s[i] \in Shape
      BY <2>1 DEF Fine
    <2>3. CASE r.kind = "attach"
      <3> DEFINE inc == [s[i] EXCEPT !.native = r.native]
      <3>1. Applied(r, s, id) = [s EXCEPT ![i] = inc]
        BY <1>3, <2>1, <2>3 DEF Applied
      <3>2. inc \in Shape /\ inc.key = s[i].key /\ inc.status = s[i].status
        BY <2>2, <2>3 DEF Shape, Mutation
      <3> HIDE DEF inc
      <3>3. Fine([s EXCEPT ![i] = inc])
        BY <3>2, ChangedFine
      <3> QED
        BY <3>1, <3>2, <3>3
    <2>4. CASE r.kind = "acknowledge"
      <3> DEFINE inc == [s[i] EXCEPT !.status = "acknowledged"]
      <3>1. Applied(r, s, id) = [s EXCEPT ![i] = inc]
        BY <1>3, <2>1, <2>4 DEF Applied
      <3>2. inc \in Shape /\ inc.key = s[i].key /\ inc.status = "acknowledged"
        BY <2>2 DEF Shape, Statuses
      <3> HIDE DEF inc
      <3>3. Fine([s EXCEPT ![i] = inc])
        BY <3>2, ChangedFine
      <3> QED
        BY <3>1, <3>2, <3>3
    <2>5. CASE r.kind = "resolve"
      <3> DEFINE inc == [s[i] EXCEPT !.status = "resolved"]
      <3>1. Applied(r, s, id) = [s EXCEPT ![i] = inc]
        BY <1>3, <2>1, <2>5 DEF Applied
      <3>2. inc \in Shape /\ inc.key = s[i].key /\ inc.status = "resolved"
        BY <2>2 DEF Shape, Statuses
      <3> HIDE DEF inc
      <3>3. Fine([s EXCEPT ![i] = inc])
        BY <3>2, ChangedFine
      <3> QED
        BY <3>1, <3>2, <3>3
    <2> QED
      BY <1>3, <2>3, <2>4, <2>5 DEF Mutation
  <1> QED
    BY <1>1, <1>2, <1>3

-----------------------------------------------------------------------------
(***************************************************************************)
(* The requests                                                            *)
(***************************************************************************)
LEMMA EnqueueKeeps ==
  ASSUME HandoffInv, NEW c \in Clients, NEW r, Mutation(r), Enqueue(c, r),
         UNCHANGED <<incidents, draft, created, visible>>
  PROVE  HandoffInv'
  <1>1. DOMAIN pc' = Clients /\ \A d \in Clients : pc'[d] = IF d = c THEN "queued" ELSE pc[d]
    BY DEF HandoffInv, Enqueue
  <1>2. DOMAIN req' = Clients /\ \A d \in Clients : req'[d] = IF d = c THEN r ELSE req[d]
    BY DEF HandoffInv, Enqueue
  <1> QED
    BY <1>1, <1>2 DEF HandoffInv

\* Leaving the chain, whatever becomes of the file.
LEMMA LeaveKeeps ==
  ASSUME HandoffInv, NEW c \in Clients, Leave(c), Fine(incidents'), created' \in Nat,
         UNCHANGED visible
  PROVE  HandoffInv'
  <1>1. DOMAIN pc' = Clients /\ \A d \in Clients : pc'[d] = IF d = c THEN "idle" ELSE pc[d]
    BY DEF HandoffInv, Leave
  <1>2. DOMAIN req' = Clients /\ \A d \in Clients : req'[d] = IF d = c THEN Get ELSE req[d]
    BY DEF HandoffInv, Leave
  <1>3. DOMAIN draft' = Clients /\ \A d \in Clients : Fine(draft'[d])
    BY NothingIsFine DEF HandoffInv, Leave
  <1> QED
    BY <1>1, <1>2, <1>3 DEF HandoffInv, Get

LEMMA ContinueKeeps ==
  ASSUME HandoffInv, NEW c \in Clients, NEW s, Fine(s), Mutation(req[c]), Continue(c, s),
         Fine(incidents'), UNCHANGED <<created, visible>>
  PROVE  HandoffInv'
  <1> DEFINE next == Applied(req[c], s, created + 1)
  <1>1. Fine(next)
    BY AppliedFine DEF HandoffInv
  <1>2. CASE next = <<>>
    BY <1>2, LeaveKeeps DEF Continue, HandoffInv
  <1>3. CASE next # <<>>
    <2>1. /\ draft' = [draft EXCEPT ![c] = next] /\ pc' = [pc EXCEPT ![c] = "loaded"]
          /\ UNCHANGED req
      BY <1>3 DEF Continue
    <2> HIDE DEF next
    <2>2. DOMAIN draft' = Clients /\ \A d \in Clients : Fine(draft'[d])
      BY <1>1, <2>1 DEF HandoffInv
    <2>3. DOMAIN pc' = Clients /\ \A d \in Clients : pc'[d] = IF d = c THEN "loaded" ELSE pc[d]
      BY <2>1 DEF HandoffInv
    <2> QED
      BY <2>1, <2>2, <2>3 DEF HandoffInv
  <1> QED
    BY <1>2, <1>3

LEMMA PostMutationKeeps ==
  ASSUME HandoffInv, NEW c \in Clients, PostMutation(c)
  PROVE  HandoffInv'
  <1>1. \E r : Mutation(r) /\ Enqueue(c, r)
    <2>1. CASE \E k \in Keys : Enqueue(c, [kind |-> "submit", key |-> k])
      BY <2>1 DEF Mutation
    <2>2. CASE \E kind \in {"acknowledge", "resolve"}, id \in Ids(incidents) :
                   Enqueue(c, [kind |-> kind, id |-> id])
      BY <2>2 DEF Mutation
    <2> QED
      BY <2>1, <2>2 DEF PostMutation, Submission
  <1> QED
    BY <1>1, EnqueueKeeps DEF PostMutation, Submission

LEMMA GetMissingKeeps ==
  ASSUME HandoffInv, NEW c \in Clients, GetMissing(c)
  PROVE  HandoffInv'
  BY DEF HandoffInv, GetMissing

LEMMA PostReconcileKeeps ==
  ASSUME HandoffInv, NEW c \in Clients, PostReconcile(c)
  PROVE  HandoffInv'
  <1>1. DOMAIN pc' = Clients /\ \A d \in Clients : pc'[d] = IF d = c THEN "querying" ELSE pc[d]
    BY DEF HandoffInv, PostReconcile
  <1>2. DOMAIN req' = Clients /\ \A d \in Clients \ {c} : req'[d] = req[d]
    BY DEF HandoffInv, PostReconcile
  <1> QED
    BY <1>1, <1>2 DEF HandoffInv, PostReconcile

\* A reconciliation finds one of the incidents of the service, or none.
LEMMA ReconciledFinds ==
  ASSUME HandoffInv, NEW known
  PROVE  Reconciled(known) \in Natives \cup {None}
  <1> DEFINE rows == IF known # None THEN visible \cap {known} ELSE visible
  <1>1. IsFiniteSet(rows) /\ rows \subseteq Natives
    <2>1. rows \in SUBSET Natives /\ IsFiniteSet(Natives)
      BY HandoffAssumption DEF HandoffInv
    <2> QED
      BY <2>1, FS_Subset
  <1>2. CASE Cardinality(rows) = 1
    <2>1. \E n : rows = {n}
      BY <1>1, <1>2, FS_Singleton
    <2>2. (CHOOSE n \in rows : TRUE) \in Natives
      BY <1>1, <2>1
    <2> QED
      BY <1>2, <2>2 DEF Reconciled
  <1>3. CASE Cardinality(rows) # 1
    BY <1>3 DEF Reconciled
  <1> QED
    BY <1>2, <1>3

LEMMA QueryKeeps ==
  ASSUME HandoffInv, NEW c \in Clients, Query(c)
  PROVE  HandoffInv'
  <1>1. PICK found \in {Reconciled(req[c].known), None} :
            Enqueue(c, [kind |-> "attach", id |-> req[c].id, native |-> found,
                        named |-> req[c].named])
    BY DEF Query
  <1>2. found \in Natives \cup {None}
    BY ReconciledFinds
  <1>3. Mutation([kind |-> "attach", id |-> req[c].id, native |-> found, named |-> req[c].named])
    BY <1>2 DEF Mutation
  <1> QED
    BY <1>1, <1>3, EnqueueKeeps DEF Query

LEMMA QueryThrowsKeeps ==
  ASSUME HandoffInv, NEW c \in Clients, QueryThrows(c)
  PROVE  HandoffInv'
  <1>1. DOMAIN pc' = Clients /\ \A d \in Clients : pc'[d] = IF d = c THEN "idle" ELSE pc[d]
    BY DEF HandoffInv, QueryThrows
  <1>2. DOMAIN req' = Clients /\ \A d \in Clients : req'[d] = IF d = c THEN Get ELSE req[d]
    BY DEF HandoffInv, QueryThrows
  <1> QED
    BY <1>1, <1>2 DEF HandoffInv, QueryThrows, Get

-----------------------------------------------------------------------------
(***************************************************************************)
(* The file                                                                *)
(***************************************************************************)
LEMMA ReadKeeps ==
  ASSUME HandoffInv, NEW c \in Clients, Read(c)
  PROVE  HandoffInv'
  <1>1. Mutation(req[c]) /\ UNCHANGED <<incidents, created, visible>> /\ Fine(incidents)
    BY DEF HandoffInv, Read
  <1>2. CASE present
    BY <1>1, <1>2, ContinueKeeps DEF Read
  <1>3. CASE ~ present
    <2>1. \A d \in Clients : pc'[d] = IF d = c THEN "missing" ELSE pc[d]
      BY <1>3 DEF HandoffInv, Read
    <2> QED
      BY <1>1, <1>3, <2>1 DEF HandoffInv, Read
  <1> QED
    BY <1>2, <1>3

LEMMA InitFileKeeps ==
  ASSUME HandoffInv, NEW c \in Clients, InitFile(c)
  PROVE  HandoffInv'
  <1>1. Fine(incidents') /\ UNCHANGED <<created, visible>> /\ created \in Nat
    BY NothingIsFine DEF HandoffInv, InitFile
  <1>2. CASE req[c].kind = "get"
    BY <1>1, <1>2, LeaveKeeps DEF InitFile
  <1>3. CASE req[c].kind # "get"
    <2>1. Mutation(req[c])
      BY <1>3 DEF HandoffInv, InitFile
    <2> QED
      BY <1>1, <1>3, <2>1, NothingIsFine, ContinueKeeps DEF InitFile
  <1> QED
    BY <1>2, <1>3

LEMMA WriteKeeps ==
  ASSUME HandoffInv, NEW c \in Clients, Write(c)
  PROVE  HandoffInv'
  <1>1. Fine(incidents')
    BY DEF HandoffInv, Write
  <1>2. created' \in Nat
    BY DEF HandoffInv, Write
  <1> QED
    BY <1>1, <1>2, LeaveKeeps DEF Write

LEMMA FileFailsKeeps ==
  ASSUME HandoffInv, NEW c \in Clients, FileFails(c)
  PROVE  HandoffInv'
  <1>1. Fine(incidents') /\ created' \in Nat
    BY DEF HandoffInv, FileFails
  <1> QED
    BY <1>1, LeaveKeeps DEF FileFails

LEMMA RestartKeeps ==
  ASSUME HandoffInv, Restart
  PROVE  HandoffInv'
  BY NothingIsFine DEF HandoffInv, Restart, Get

LEMMA TelemetryMovesKeeps ==
  ASSUME HandoffInv, TelemetryMoves
  PROVE  HandoffInv'
  BY DEF HandoffInv, TelemetryMoves

-----------------------------------------------------------------------------
LEMMA StepHandoffInv == HandoffInv /\ [Next]_vars => HandoffInv'
  <1> SUFFICES ASSUME HandoffInv, [Next]_vars
               PROVE  HandoffInv'
    OBVIOUS
  <1>1. ASSUME NEW c \in Clients, PostMutation(c) PROVE HandoffInv'
    BY <1>1, PostMutationKeeps
  <1>2. ASSUME NEW c \in Clients, GetMissing(c) PROVE HandoffInv'
    BY <1>2, GetMissingKeeps
  <1>3. ASSUME NEW c \in Clients, PostReconcile(c) PROVE HandoffInv'
    BY <1>3, PostReconcileKeeps
  <1>4. ASSUME NEW c \in Clients, Proceeds(c) PROVE HandoffInv'
    BY <1>4, QueryKeeps, ReadKeeps, InitFileKeeps, WriteKeeps DEF Proceeds
  <1>5. ASSUME NEW c \in Clients, QueryThrows(c) PROVE HandoffInv'
    BY <1>5, QueryThrowsKeeps
  <1>6. ASSUME NEW c \in Clients, FileFails(c) PROVE HandoffInv'
    BY <1>6, FileFailsKeeps
  <1>7. CASE TelemetryMoves
    BY <1>7, TelemetryMovesKeeps
  <1>8. CASE Restart
    BY <1>8, RestartKeeps
  <1>9. CASE UNCHANGED vars
    BY <1>9 DEF vars, HandoffInv
  <1> QED
    BY <1>1, <1>2, <1>3, <1>4, <1>5, <1>6, <1>7, <1>8, <1>9 DEF Next

LEMMA HandoffInvariance == Spec => []HandoffInv
  <1> QED BY InitHandoffInv, StepHandoffInv, PTL DEF Spec

\* Whatever overlaps, fails or is restarted, no two incidents of one key are open.
THEOREM KeysOpenOnce == Spec => []OneOpenPerKey
  <1>1. Spec => []HandoffInv
    BY HandoffInvariance
  <1>2. HandoffInv => OneOpenPerKey
    BY DEF HandoffInv, Fine, OneOpen, OneOpenPerKey
  <1> QED
    BY <1>1, <1>2, PTL

-----------------------------------------------------------------------------
(***************************************************************************)
(* The answers                                                             *)
(***************************************************************************)
Has(s, id, status) == \E i \in DOMAIN s : s[i].id = id /\ s[i].status = status

AnswerInv ==
    /\ queue \in Seq(Clients)
    /\ DOMAIN told = IdSet
    /\ OneWriter
    /\ \A c \in Clients : pc[c] = "loaded" => Mutation(req[c])
    /\ DraftIsCurrent
    /\ AnswersHold

LEMMA AnswersAre ==
  AnswersAlwaysHold <=> \A id \in IdSet : told[id] # None => Has(incidents, id, told[id])
  BY DEF AnswersAlwaysHold, Has, ToSet

LEMMA InitAnswerInv == Init => AnswerInv
  BY DEF Init, AnswerInv, OneWriter, DraftIsCurrent, AnswersHold, AnswersAlwaysHold

\* A mutation keeps every other incident with its status, and what is written about is
\* in what is written.
LEMMA AppliedKeeps ==
  ASSUME NEW r, Mutation(r), NEW s, Fine(s), NEW n \in Nat, Applied(r, s, n) # <<>>,
         NEW id, NEW status, Has(s, id, status), r.kind # "submit" => id # r.id
  PROVE  Has(Applied(r, s, n), id, status)
  <1>1. PICK i \in DOMAIN s : s[i].id = id /\ s[i].status = status
    BY DEF Has
  <1>2. s \in Seq(Shape)
    BY DEF Fine
  <1>3. CASE r.kind = "submit"
    <2>1. Applied(r, s, n) = Submitted(s, r.key, n)
      BY <1>3 DEF Applied
    <2>2. CASE \E inc \in ToSet(s) : SameIncident(inc, r.key)
      BY <2>1, <2>2 DEF Submitted
    <2>3. CASE ~ \E inc \in ToSet(s) : SameIncident(inc, r.key)
      <3> DEFINE new == [id |-> n, key |-> r.key, status |-> "open", native |-> None]
      <3>1. Applied(r, s, n) = Append(s, new)
        BY <2>1, <2>3 DEF Submitted
      <3> HIDE DEF new
      <3>2. i \in DOMAIN Append(s, new) /\ Append(s, new)[i] = s[i]
        BY <1>1, <1>2
      <3> QED BY <1>1, <3>1, <3>2 DEF Has
    <2> QED BY <2>2, <2>3
  <1>4. CASE r.kind # "submit"
    <2>1. r.id \in Ids(s)
      BY <1>4 DEF Applied
    <2>2. Find(s, r.id) \in DOMAIN s /\ s[Find(s, r.id)].id = r.id
      BY <2>1 DEF Ids, Find, ToSet
    <2>3. i # Find(s, r.id)
      BY <1>1, <1>4, <2>2
    <2>4. \E inc : Applied(r, s, n) = [s EXCEPT ![Find(s, r.id)] = inc]
      BY <1>4, <2>1 DEF Applied, Mutation
    <2>5. i \in DOMAIN Applied(r, s, n) /\ Applied(r, s, n)[i] = s[i]
      BY <1>1, <2>3, <2>4
    <2> QED BY <1>1, <2>5 DEF Has
  <1> QED BY <1>3, <1>4

\* A mutation of an incident that is found leaves it under its id.
LEMMA AppliedFinds ==
  ASSUME NEW r, Mutation(r), r.kind # "submit", NEW s, Fine(s), NEW n \in Nat,
         Applied(r, s, n) # <<>>
  PROVE  r.id \in Ids(Applied(r, s, n))
  <1>1. r.id \in Ids(s)
    BY DEF Applied
  <1>2. Find(s, r.id) \in DOMAIN s /\ s[Find(s, r.id)].id = r.id /\ s[Find(s, r.id)] \in Shape
    BY <1>1 DEF Ids, Find, ToSet, Fine
  <1> DEFINE found == s[Find(s, r.id)]
             changed(inc) == Applied(r, s, n) = [s EXCEPT ![Find(s, r.id)] = inc] /\ inc.id = r.id
  <1>3. \E inc : changed(inc)
    <2>1. CASE r.kind = "attach"
      <3>1. [found EXCEPT !.native = r.native].id = r.id
        BY <1>2 DEF Shape
      <3>2. changed([found EXCEPT !.native = r.native])
        BY <1>1, <2>1, <3>1 DEF Applied
      <3> QED BY <3>2
    <2>2. CASE r.kind = "acknowledge"
      <3>1. [found EXCEPT !.status = "acknowledged"].id = r.id
        BY <1>2 DEF Shape
      <3>2. changed([found EXCEPT !.status = "acknowledged"])
        BY <1>1, <2>2, <3>1 DEF Applied
      <3> QED BY <3>2
    <2>3. CASE r.kind = "resolve"
      <3>1. [found EXCEPT !.status = "resolved"].id = r.id
        BY <1>2 DEF Shape
      <3>2. changed([found EXCEPT !.status = "resolved"])
        BY <1>1, <2>3, <3>1 DEF Applied
      <3> QED BY <3>2
    <2> QED BY <2>1, <2>2, <2>3 DEF Mutation
  <1> QED BY <1>2, <1>3 DEF Ids, ToSet

LEMMA LeastNatural ==
  ASSUME NEW S \in SUBSET Nat, S # {}
  PROVE  \E m \in S : \A n \in S : m <= n
  <1>1. PICK m \in S : \A n \in S : <<n, m>> \notin OpToRel(<, Nat)
    BY WFMin, NatLessThanWellFounded, Zenon
  <1>2. \A n \in S : ~ n < m
    BY <1>1, Zenon DEF OpToRel
  <1> QED BY <1>2

\* A submission finds the incident it has updated or added, and finds the first.
LEMMA SubmittedFinds ==
  ASSUME NEW s, Fine(s), NEW key \in Keys, NEW n \in Nat
  PROVE  LET d == Submitted(s, key, n)
         IN  \E j \in DOMAIN d : /\ SameIncident(d[j], key)
                                 /\ \A h \in 1..(j - 1) : ~ SameIncident(d[h], key)
  <1> DEFINE d == Submitted(s, key, n)
             found == {j \in DOMAIN d : SameIncident(d[j], key)}
  <1>1. d \in Seq(Shape)
    BY SubmittedFine DEF Fine
  <1>2. found # {}
    <2>1. CASE \E inc \in ToSet(s) : SameIncident(inc, key)
      BY <2>1 DEF Submitted, ToSet
    <2>2. CASE ~ \E inc \in ToSet(s) : SameIncident(inc, key)
      <3> DEFINE new == [id |-> n, key |-> key, status |-> "open", native |-> None]
      <3>1. d = Append(s, new)
        BY <2>2 DEF Submitted
      <3>2. SameIncident(new, key)
        BY DEF SameIncident
      <3>3. s \in Seq(Shape)
        BY DEF Fine
      <3> HIDE DEF new
      <3>4. Len(s) + 1 \in DOMAIN Append(s, new) /\ Append(s, new)[Len(s) + 1] = new
        BY <3>3
      <3> QED BY <3>1, <3>2, <3>4
    <2> QED BY <2>1, <2>2
  <1> HIDE DEF d
  <1>3. found \subseteq Nat /\ \A j \in found : j \in 1..Len(d)
    BY <1>1
  <1>4. PICK j \in found : \A h \in found : j <= h
    BY <1>2, <1>3, LeastNatural
  <1>5. \A h \in 1..(j - 1) : ~ SameIncident(d[h], key)
    BY <1>1, <1>3, <1>4
  <1> QED BY <1>4, <1>5 DEF d

\* Leaving the chain: a mutation that leaves was its first, so that none has read the file.
LEMMA LeaveKeepsChain ==
  ASSUME HandoffInv, AnswerInv, NEW c \in Clients, Leave(c),
         req[c].kind # "get" => Runs(c)
  PROVE  /\ queue' \in Seq(Clients)
         /\ OneWriter'
         /\ req[c].kind # "get" => \A d \in Clients : pc'[d] # "loaded"
         /\ \A d \in Clients : pc'[d] = "loaded" =>
                pc[d] = "loaded" /\ req'[d] = req[d] /\ draft'[d] = draft[d]
  <1>1. /\ \A d \in Clients : pc'[d] = IF d = c THEN "idle" ELSE pc[d]
        /\ \A d \in Clients : req'[d] = IF d = c THEN Get ELSE req[d]
        /\ \A d \in Clients : d # c => draft'[d] = draft[d]
        /\ queue' = IF req[c].kind = "get" THEN queue ELSE Tail(queue)
    BY DEF Leave, HandoffInv
  <1>2. queue' \in Seq(Clients)
    BY <1>1 DEF AnswerInv, Runs
  <1>3. req[c].kind # "get" => \A d \in Clients : pc'[d] # "loaded"
                                 /\ ~ (pc'[d] = "missing" /\ req'[d].kind # "get")
    BY <1>1 DEF AnswerInv, OneWriter, Runs
  <1>4. OneWriter'
    BY <1>1, <1>3 DEF AnswerInv, OneWriter, Runs, Get
  <1> QED BY <1>1, <1>2, <1>3, <1>4

LEMMA EnqueueKeepsAnswers ==
  ASSUME HandoffInv, AnswerInv, NEW c \in Clients, pc[c] # "loaded", NEW r, Enqueue(c, r),
         UNCHANGED <<incidents, draft, created, told, erased>>
  PROVE  AnswerInv'
  <1>1. /\ \A d \in Clients : pc'[d] = IF d = c THEN "queued" ELSE pc[d]
        /\ \A d \in Clients : req'[d] = IF d = c THEN r ELSE req[d]
        /\ queue' = Append(queue, c)
    BY DEF Enqueue, HandoffInv
  <1>2. queue' \in Seq(Clients) /\ \A d : Runs(d) => Runs(d)'
    BY <1>1 DEF AnswerInv, Runs
  <1>3. OneWriter'
    BY <1>1, <1>2 DEF AnswerInv, OneWriter
  <1>4. DraftIsCurrent'
    BY <1>1 DEF AnswerInv, DraftIsCurrent
  <1>5. AnswersHold'
    BY DEF AnswerInv, AnswersHold, AnswersAlwaysHold
  <1> QED BY <1>1, <1>2, <1>3, <1>4, <1>5 DEF AnswerInv

\* Going on with the state s, which is the file's unless incidents were erased.
LEMMA ContinueKeepsAnswers ==
  ASSUME HandoffInv, AnswerInv, NEW c \in Clients, Runs(c), Mutation(req[c]),
         pc[c] # "loaded", NEW s, Continue(c, s),
         UNCHANGED <<created, told>>,
         erased => erased', ~ erased' => incidents' = incidents /\ s = incidents
  PROVE  AnswerInv'
  <1> DEFINE next == Applied(req[c], s, created + 1)
  <1>1. \A d \in Clients : d # c => pc[d] # "loaded"
    BY DEF AnswerInv, OneWriter, Runs
  <1>2. AnswersHold'
    BY DEF AnswerInv, AnswersHold, AnswersAlwaysHold
  <1>3. CASE next = <<>>
    <2>1. Leave(c) /\ req[c].kind # "get"
      BY <1>3 DEF Continue, Mutation
    <2>2. queue' \in Seq(Clients) /\ OneWriter' /\ \A d \in Clients : pc'[d] # "loaded"
      BY <2>1, LeaveKeepsChain
    <2> QED BY <1>2, <2>2 DEF AnswerInv, DraftIsCurrent
  <1>4. CASE next # <<>>
    <2>1. draft' = [draft EXCEPT ![c] = next] /\ pc' = [pc EXCEPT ![c] = "loaded"]
          /\ UNCHANGED <<queue, req>>
      BY <1>4 DEF Continue
    <2> HIDE DEF next
    <2>2. draft'[c] = next /\ \A d \in Clients : pc'[d] = IF d = c THEN "loaded" ELSE pc[d]
      BY <2>1 DEF HandoffInv
    <2>3. OneWriter'
      BY <2>1, <2>2 DEF AnswerInv, OneWriter, Runs
    <2>4. DraftIsCurrent'
      <3>1. ~ erased' => next = Applied(req[c], incidents', created' + 1)
        BY DEF next
      <3> QED BY <1>1, <1>4, <2>1, <2>2, <3>1 DEF DraftIsCurrent
    <2> QED BY <1>1, <1>2, <2>1, <2>2, <2>3, <2>4 DEF AnswerInv
  <1> QED BY <1>3, <1>4

LEMMA ReadKeepsAnswers ==
  ASSUME HandoffInv, AnswerInv, NEW c \in Clients, Read(c)
  PROVE  AnswerInv'
  <1>1. Runs(c) /\ pc[c] = "queued" /\ Mutation(req[c])
        /\ UNCHANGED <<incidents, created, told, erased>>
    BY DEF Read, HandoffInv
  <1>2. CASE present
    BY <1>1, <1>2, ContinueKeepsAnswers DEF Read
  <1>3. CASE ~ present
    <2>1. UNCHANGED <<queue, req, draft>>
          /\ \A d \in Clients : pc'[d] = IF d = c THEN "missing" ELSE pc[d]
      BY <1>3 DEF Read, HandoffInv
    <2>2. OneWriter'
      BY <1>1, <2>1 DEF AnswerInv, OneWriter, Runs
    <2>3. DraftIsCurrent'
      BY <1>1, <2>1 DEF AnswerInv, DraftIsCurrent
    <2>4. AnswersHold'
      BY <1>1 DEF AnswerInv, AnswersHold, AnswersAlwaysHold
    <2> QED BY <1>1, <2>1, <2>2, <2>3, <2>4 DEF AnswerInv
  <1> QED BY <1>2, <1>3

LEMMA InitFileKeepsAnswers ==
  ASSUME HandoffInv, AnswerInv, NEW c \in Clients, InitFile(c)
  PROVE  AnswerInv'
  <1>1. /\ pc[c] = "missing" /\ incidents' = <<>>
        /\ erased' = (erased \/ incidents # <<>>) /\ UNCHANGED <<created, told>>
    BY DEF InitFile
  <1>2. CASE req[c].kind # "get"
    <2>1. Mutation(req[c]) /\ Runs(c) /\ Continue(c, <<>>)
      BY <1>1, <1>2 DEF InitFile, HandoffInv, AnswerInv, OneWriter
    <2> QED BY <1>1, <2>1, ContinueKeepsAnswers
  <1>3. CASE req[c].kind = "get"
    <2>1. Leave(c)
      BY <1>3 DEF InitFile
    <2>2. /\ queue' \in Seq(Clients) /\ OneWriter'
          /\ \A d \in Clients : pc'[d] = "loaded" =>
                pc[d] = "loaded" /\ req'[d] = req[d] /\ draft'[d] = draft[d]
      BY <1>3, <2>1, LeaveKeepsChain
    <2>3. DraftIsCurrent'
      BY <1>1, <2>2 DEF AnswerInv, DraftIsCurrent
    <2>4. AnswersHold'
      BY <1>1 DEF AnswerInv, AnswersHold, AnswersAlwaysHold
    <2> QED BY <1>1, <2>2, <2>3, <2>4 DEF AnswerInv
  <1> QED BY <1>2, <1>3

\* The draft is the file with one change: every answer but the new one is in it still.
LEMMA WriteKeepsAnswers ==
  ASSUME HandoffInv, AnswerInv, NEW c \in Clients, Write(c)
  PROVE  AnswerInv'
  <1> DEFINE r == req[c]
             d == draft[c]
             inc == About(c)
  <1>1. /\ Mutation(r) /\ d # <<>> /\ Runs(c) /\ pc[c] = "loaded"
        /\ ~ erased => d = Applied(r, incidents, created + 1)
    BY DEF Write, AnswerInv, OneWriter, DraftIsCurrent
  <1>2. /\ incidents' = d /\ Leave(c) /\ erased' = erased
        /\ told' = [told EXCEPT ![inc.id] = inc.status]
    BY DEF Write
  <1>3. req[c].kind # "get"
    BY <1>1 DEF Mutation
  <1>4. queue' \in Seq(Clients) /\ OneWriter' /\ \A e \in Clients : pc'[e] # "loaded"
    BY <1>1, <1>2, <1>3, LeaveKeepsChain
  <1>5. ~ erased => /\ Has(d, inc.id, inc.status)
                    /\ r.kind # "submit" => inc.id = r.id
    <2> SUFFICES ASSUME ~ erased
                 PROVE  /\ Has(d, inc.id, inc.status)
                        /\ r.kind # "submit" => inc.id = r.id
      OBVIOUS
    <2>1. d = Applied(r, incidents, created + 1) /\ created + 1 \in Nat /\ Fine(incidents)
      BY <1>1 DEF HandoffInv
    <2>2. CASE r.kind = "submit"
      <3>1. d = Submitted(incidents, r.key, created + 1) /\ r.key \in Keys
        BY <1>1, <2>1, <2>2 DEF Applied, Mutation
      <3> DEFINE first(j) == /\ SameIncident(d[j], r.key)
                             /\ \A h \in 1..(j - 1) : ~ SameIncident(d[h], r.key)
      <3>2. \E j \in DOMAIN d : first(j)
        BY <2>1, <3>1, SubmittedFinds
      <3>3. (CHOOSE j \in DOMAIN d : first(j)) \in DOMAIN d
        BY <3>2
      <3>4. inc = d[CHOOSE j \in DOMAIN d : first(j)]
        BY <2>2 DEF About
      <3> QED BY <2>2, <3>3, <3>4 DEF Has
    <2>3. CASE r.kind # "submit"
      <3>1. r.id \in Ids(d)
        BY <1>1, <2>1, <2>3, AppliedFinds
      <3>2. Find(d, r.id) \in DOMAIN d /\ d[Find(d, r.id)].id = r.id
        BY <3>1 DEF Ids, Find, ToSet
      <3>3. inc = d[Find(d, r.id)]
        BY <2>3 DEF About
      <3> QED BY <3>2, <3>3 DEF Has
    <2> QED BY <2>2, <2>3
  <1> HIDE DEF inc
  <1>6. AnswersHold'
    <2> SUFFICES ASSUME ~ erased, NEW id \in IdSet, told'[id] # None
                 PROVE  Has(d, id, told'[id])
      BY <1>2 DEF AnswersHold, AnswersAlwaysHold, Has, ToSet
    <2>1. CASE id = inc.id
      BY <1>2, <1>5, <2>1 DEF AnswerInv
    <2>2. CASE id # inc.id
      <3>1. told'[id] = told[id]
        BY <1>2, <2>2 DEF AnswerInv
      <3>2. Has(incidents, id, told[id])
        BY <3>1, AnswersAre DEF AnswerInv, AnswersHold
      <3>3. Fine(incidents) /\ created + 1 \in Nat
        BY DEF HandoffInv
      <3> QED BY <1>1, <1>5, <2>2, <3>1, <3>2, <3>3, AppliedKeeps
    <2> QED BY <2>1, <2>2
  <1> QED BY <1>2, <1>4, <1>6 DEF AnswerInv, DraftIsCurrent

LEMMA FileFailsKeepsAnswers ==
  ASSUME HandoffInv, AnswerInv, NEW c \in Clients, FileFails(c)
  PROVE  AnswerInv'
  <1>1. Leave(c) /\ UNCHANGED <<incidents, created, told, erased>>
    BY DEF FileFails
  <1>2. req[c].kind # "get" => Runs(c)
    BY DEF FileFails, AnswerInv, OneWriter
  <1>3. /\ queue' \in Seq(Clients) /\ OneWriter'
        /\ \A d \in Clients : pc'[d] = "loaded" =>
              pc[d] = "loaded" /\ req'[d] = req[d] /\ draft'[d] = draft[d]
    BY <1>1, <1>2, LeaveKeepsChain
  <1>4. DraftIsCurrent'
    BY <1>1, <1>3 DEF AnswerInv, DraftIsCurrent
  <1>5. AnswersHold'
    BY <1>1 DEF AnswerInv, AnswersHold, AnswersAlwaysHold
  <1> QED BY <1>1, <1>3, <1>4, <1>5 DEF AnswerInv

\* The steps that touch neither file, chain nor draft.
LEMMA OutsideKeepsAnswers ==
  ASSUME HandoffInv, AnswerInv, NEW c \in Clients,
         GetMissing(c) \/ PostReconcile(c) \/ QueryThrows(c)
  PROVE  AnswerInv'
  <1>1. UNCHANGED <<incidents, queue, draft, created, told, erased>>
    BY DEF GetMissing, PostReconcile, QueryThrows
  <1>2. /\ \A d \in Clients : d # c => pc'[d] = pc[d] /\ req'[d] = req[d]
        /\ pc'[c] # "loaded"
        /\ pc'[c] = "missing" => req'[c].kind = "get"
    BY DEF GetMissing, PostReconcile, QueryThrows, HandoffInv
  <1>3. OneWriter'
    BY <1>1, <1>2 DEF AnswerInv, OneWriter, Runs
  <1>4. DraftIsCurrent'
    BY <1>1, <1>2 DEF AnswerInv, DraftIsCurrent
  <1>5. AnswersHold'
    BY <1>1 DEF AnswerInv, AnswersHold, AnswersAlwaysHold
  <1> QED BY <1>1, <1>2, <1>3, <1>4, <1>5 DEF AnswerInv

LEMMA StepAnswerInv == HandoffInv /\ AnswerInv /\ [Next]_vars => AnswerInv'
  <1> SUFFICES ASSUME HandoffInv, AnswerInv, [Next]_vars
               PROVE  AnswerInv'
    OBVIOUS
  <1>1. ASSUME NEW c \in Clients, PostMutation(c) PROVE AnswerInv'
    <2>1. /\ pc[c] = "idle" /\ \E r : Enqueue(c, r)
          /\ UNCHANGED <<incidents, draft, created, told, erased>>
      BY <1>1 DEF PostMutation, Submission
    <2> QED BY <2>1, EnqueueKeepsAnswers
  <1>2. ASSUME NEW c \in Clients, GetMissing(c) \/ PostReconcile(c) \/ QueryThrows(c)
        PROVE  AnswerInv'
    BY <1>2, OutsideKeepsAnswers
  <1>3. ASSUME NEW c \in Clients, Query(c) PROVE AnswerInv'
    <2>1. /\ pc[c] = "querying" /\ \E r : Enqueue(c, r)
          /\ UNCHANGED <<incidents, draft, created, told, erased>>
      BY <1>3 DEF Query
    <2> QED BY <2>1, EnqueueKeepsAnswers
  <1>4. ASSUME NEW c \in Clients, Proceeds(c) PROVE AnswerInv'
    BY <1>3, <1>4, ReadKeepsAnswers, InitFileKeepsAnswers, WriteKeepsAnswers DEF Proceeds
  <1>5. ASSUME NEW c \in Clients, FileFails(c) PROVE AnswerInv'
    BY <1>5, FileFailsKeepsAnswers
  <1>6. CASE TelemetryMoves \/ UNCHANGED vars
    BY <1>6 DEF TelemetryMoves, vars, AnswerInv, OneWriter, Runs, DraftIsCurrent, AnswersHold,
                AnswersAlwaysHold
  <1>7. CASE Restart
    BY <1>7 DEF Restart, AnswerInv, OneWriter, DraftIsCurrent, AnswersHold, AnswersAlwaysHold
  <1> QED
    BY <1>1, <1>2, <1>4, <1>5, <1>6, <1>7 DEF Next

\* One mutation at a time has the file in its hands, for any number of requests.
THEOREM ChainExcludes == Spec => []OneWriter
  <1>1. AnswerInv => OneWriter
    BY DEF AnswerInv
  <1> QED BY <1>1, InitAnswerInv, StepAnswerInv, HandoffInvariance, PTL DEF Spec

\* What a request was told of an incident holds until another answer about it, unless a
\* first read has erased the file.
THEOREM AnswersAreKept == Spec => []AnswersHold
  <1>1. AnswerInv => AnswersHold
    BY DEF AnswerInv
  <1> QED BY <1>1, InitAnswerInv, StepAnswerInv, HandoffInvariance, PTL DEF Spec
=============================================================================
