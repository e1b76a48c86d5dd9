-------------------------- MODULE MeterIngestProofs --------------------------
(***************************************************************************)
(* Proofs about MeterIngest, for any number of events, probes, replicas,   *)
(* retries and failures: a successful run has a stored event, a            *)
(* correlation id has one document, and what the queue held is not lost.   *)
(*                                                                         *)
(* The invariant follows an event through a replica: what it may still     *)
(* acknowledge is stored, and what it may still discard has expired or     *)
(* conflicts with another event that is stored.                            *)
(***************************************************************************)
EXTENDS MeterIngest, TLAPS

Delivery == [event : Events \cup {None}, step : Steps, held : BOOLEAN]

Types ==
    /\ run \in [Probes -> [phase : Phases, attempts : Nat, late : BOOLEAN]]
    /\ queue \in [Events -> Nat]
    /\ busy \in [Workers -> Delivery]
    /\ docs \in [Events -> Nat]
    /\ inserts \in [Events -> Nat]

\* Another event was stored under the correlation id of e.
Conflict(e) ==
    e \in Synthetic /\ \E x \in Synthetic \ {e} : Corr[x] = Corr[e] /\ inserts[x] > 0

\* Documents and their history.
StoreInv ==
    /\ \A e \in Events : docs[e] > 0 => inserts[e] > 0
    /\ \A e \in Synthetic : inserts[e] > 0 => docs[e] > 0 \/ e \in expired
    /\ StoredOnce

\* What a replica is going to do with the event in its hands.
HandFine(d) ==
    /\ d.step # "nack" => d.event \in Events
    /\ d.step = "ack" => inserts[d.event] > 0
    /\ d.step = "lookup" => d.event \in Synthetic
    /\ d.step = "discard" => d.event \in expired \cup Invalid \/ Conflict(d.event)

HandsInv == \A w \in Workers : HandFine(busy[w])

\* Where an event that has reached the queue can be.
Kept(e) == Pending(e) \/ inserts[e] > 0 \/ e \in dropped \cup lost

FlowInv ==
    /\ \A e \in reached : e \in Events /\ Kept(e)
    /\ \A e \in dropped \ (expired \cup Invalid) : Conflict(e)

IngestInv == Types /\ StoreInv /\ HandsInv /\ FlowInv /\ SuccessWasPersisted

LEMMA InitIngestInv == Init => IngestInv
  <1> SUFFICES ASSUME Init PROVE IngestInv
    OBVIOUS
  <1>1. Types
    BY DEF Init, Types, Phases, Delivery, Idle, Steps
  <1>2. StoreInv
    BY IngestAssumption DEF Init, StoreInv, StoredOnce
  <1>3. HandsInv
    BY DEF Init, HandsInv, HandFine, Idle
  <1>4. FlowInv /\ SuccessWasPersisted
    BY DEF Init, FlowInv, SuccessWasPersisted
  <1> QED
    BY <1>1, <1>2, <1>3, <1>4 DEF IngestInv

LEMMA IngestUnchanged ==
  ASSUME IngestInv, UNCHANGED <<run, queue, busy, docs, inserts, expired, reached, dropped, lost>>
  PROVE  IngestInv'
  BY DEF IngestInv, Types, StoreInv, StoredOnce, HandsInv, HandFine, FlowInv, Kept, Pending, Conflict,
         SuccessWasPersisted

\* Neither an insertion nor an expiry is undone, so what was right stays right.
Grows ==
    /\ \A e \in Events : inserts[e] > 0 => inserts'[e] > 0
    /\ expired \subseteq expired'

LEMMA ConflictStays ==
  ASSUME Grows, NEW e, Conflict(e)
  PROVE  Conflict(e)'
  BY IngestAssumption DEF Grows, Conflict

LEMMA HandStays ==
  ASSUME Grows, NEW d, HandFine(d)
  PROVE  HandFine(d)'
  BY ConflictStays DEF Grows, HandFine

LEMMA OneHandMoves ==
  ASSUME IngestInv, Grows, NEW w \in Workers, NEW d, busy' = [busy EXCEPT ![w] = d], HandFine(d)'
  PROVE  HandsInv'
  <1>1. busy'[w] = d /\ \A v \in Workers \ {w} : busy'[v] = busy[v]
    BY DEF IngestInv, Types
  <1>2. ASSUME NEW v \in Workers PROVE HandFine(busy[v])'
    <2>1. CASE v = w
      BY <1>1, <2>1 DEF HandFine, Conflict
    <2>2. CASE v # w
      <3>1. PICK kept : kept = busy[v]
        OBVIOUS
      <3>2. HandFine(kept)'
        BY <3>1, HandStays DEF IngestInv, HandsInv
      <3>3. busy'[v] = kept
        BY <1>1, <2>2, <3>1
      <3> QED
        BY <3>2, <3>3 DEF HandFine, Conflict
    <2> QED
      BY <2>1, <2>2
  <1> QED
    BY <1>2 DEF HandsInv

\* Steps of the probe and of meter-service: nothing but the run moves, and not
\* to success.
LEMMA RunMovesKeeps ==
  ASSUME IngestInv, run' \in [Probes -> [phase : Phases, attempts : Nat, late : BOOLEAN]],
         \A r \in Probes : run'[r].phase = "success" =>
             \E x \in Synthetic : Corr[x] = Corr[r] /\ inserts[x] > 0,
         UNCHANGED <<queue, busy, docs, inserts, expired, reached, dropped, lost>>
  PROVE  IngestInv'
  <1>1. Types'
    BY DEF IngestInv, Types
  <1>2. StoreInv' /\ HandsInv' /\ FlowInv'
    BY DEF IngestInv, StoreInv, StoredOnce, HandsInv, HandFine, FlowInv, Kept, Pending, Conflict
  <1>3. SuccessWasPersisted'
    BY DEF SuccessWasPersisted
  <1> QED
    BY <1>1, <1>2, <1>3 DEF IngestInv

\* One run goes on, by another attempt or into a phase that is not success.
LEMMA RunGoesOn ==
  ASSUME IngestInv, NEW r \in Probes,
         \/ \E phase \in Phases \ {"success"} : SetPhase(r, phase)
         \/ run' = [run EXCEPT ![r].attempts = @ + 1]
         \/ run' = [run EXCEPT ![r].late = TRUE]
         \/ run' = [run EXCEPT ![r] = [phase |-> "posting", attempts |-> 1, late |-> FALSE]],
         UNCHANGED <<queue, busy, docs, inserts, expired, reached, dropped, lost>>
  PROVE  IngestInv'
  <1>1. run' \in [Probes -> [phase : Phases, attempts : Nat, late : BOOLEAN]]
    <2>1. CASE \E phase \in Phases \ {"success"} : SetPhase(r, phase)
      BY <2>1 DEF IngestInv, Types, SetPhase
    <2>2. CASE run' = [run EXCEPT ![r].attempts = @ + 1]
      BY <2>2 DEF IngestInv, Types
    <2>3. CASE run' = [run EXCEPT ![r].late = TRUE]
      BY <2>3 DEF IngestInv, Types
    <2>4. CASE run' = [run EXCEPT ![r] = [phase |-> "posting", attempts |-> 1, late |-> FALSE]]
      BY <2>4 DEF IngestInv, Types, Phases
    <2> QED
      BY <2>1, <2>2, <2>3, <2>4
  <1>2. \A q \in Probes : run'[q].phase = "success" => run[q].phase = "success"
    BY DEF IngestInv, Types, SetPhase
  <1> QED
    BY <1>1, <1>2, RunMovesKeeps DEF IngestInv, SuccessWasPersisted

LEMMA NextAttemptKeeps ==
  ASSUME IngestInv, NEW r \in Probes, NextAttempt(r),
         UNCHANGED <<queue, busy, docs, inserts, expired, reached, dropped, lost>>
  PROVE  IngestInv'
  <1>1. \/ \E phase \in Phases \ {"success"} : SetPhase(r, phase)
        \/ run' = [run EXCEPT ![r].attempts = @ + 1]
    BY DEF NextAttempt, Phases
  <1> QED
    BY <1>1, RunGoesOn

\* A document is the trace of an insertion.
LEMMA PollKeeps ==
  ASSUME IngestInv, NEW r \in Probes, Poll(r)
  PROVE  IngestInv'
  <1>1. PICK x \in Synthetic : Corr[x] = Corr[r] /\ docs[x] > 0
    BY DEF Poll, Serves, RecordOf
  <1>2. inserts[x] > 0
    BY <1>1, IngestAssumption DEF IngestInv, StoreInv
  <1>3. run' \in [Probes -> [phase : Phases, attempts : Nat, late : BOOLEAN]]
    BY DEF IngestInv, Types, Poll, SetPhase, Phases
  <1>4. \A q \in Probes : run'[q].phase = "success" => q = r \/ run[q].phase = "success"
    BY DEF IngestInv, Types, Poll, SetPhase
  <1> QED
    BY <1>1, <1>2, <1>3, <1>4, RunMovesKeeps
       DEF IngestInv, SuccessWasPersisted, Poll, queueVars, dispatchVars, mongoVars

LEMMA ProbeStepKeeps ==
  ASSUME IngestInv, NEW r \in Probes, ProbeStep(r)
  PROVE  IngestInv'
  <1>1. CASE Begin(r)
    BY <1>1, RunGoesOn DEF Begin, queueVars, dispatchVars, mongoVars
  <1>2. CASE AttemptAborted(r)
    BY <1>2, NextAttemptKeeps DEF AttemptAborted, queueVars, dispatchVars, mongoVars
  <1>3. CASE TotalTimeout(r)
    BY <1>3, RunGoesOn DEF TotalTimeout, queueVars, dispatchVars, mongoVars
  <1>4. CASE Poll(r)
    BY <1>4, PollKeeps
  <1>5. CASE PollFails(r)
    <2>1. "persistence" \in Phases \ {"success"}
      BY DEF Phases
    <2> QED
      BY <1>5, <2>1, RunGoesOn DEF PollFails, queueVars, dispatchVars, mongoVars
  <1> QED
    BY <1>1, <1>2, <1>3, <1>4, <1>5 DEF ProbeStep

LEMMA PostEventKeeps ==
  ASSUME IngestInv, NEW e \in Events, PostEvent(e)
  PROVE  IngestInv'
  <1>1. UNCHANGED <<queue, busy, docs, inserts, expired, reached, dropped, lost>>
    BY DEF PostEvent, dispatchVars, mongoVars
  <1>2. \/ UNCHANGED run
        \/ /\ e \in Probes
           /\ \/ \E phase \in Phases \ {"success"} : SetPhase(e, phase)
              \/ run' = [run EXCEPT ![e].attempts = @ + 1]
    BY DEF PostEvent, Phases
  <1>3. CASE UNCHANGED run
    BY <1>1, <1>3, IngestUnchanged
  <1> QED
    BY <1>1, <1>2, <1>3, RunGoesOn

-----------------------------------------------------------------------------
(***************************************************************************)
(* The queue and the replicas.                                             *)
(***************************************************************************)

\* Stored, dropped and expired stay as they are: only places change.
LEMMA PlacesChangeKeeps ==
  ASSUME IngestInv, Types', HandsInv', FlowInv', UNCHANGED <<run, docs, inserts, expired>>
  PROVE  IngestInv'
  BY DEF IngestInv, StoreInv, StoredOnce, SuccessWasPersisted

LEMMA EnqueueKeeps ==
  ASSUME IngestInv, NEW e \in Events, Enqueue(e)
  PROVE  IngestInv'
  <1>1. queue' = [queue EXCEPT ![e] = @ + 1] /\ reached' = reached \cup {e}
        /\ UNCHANGED <<run, busy, docs, inserts, expired, dropped, lost>>
    BY DEF Enqueue, Add, dispatchVars, mongoVars
  <1>2. Types'
    BY <1>1 DEF IngestInv, Types
  <1>3. HandsInv'
    BY <1>1 DEF IngestInv, HandsInv, HandFine, Conflict
  <1>4. queue' \in [Events -> Nat] /\ queue'[e] > 0 /\ \A x \in Events : queue'[x] >= queue[x]
    BY <1>1 DEF IngestInv, Types
  <1>5. FlowInv'
    BY <1>1, <1>4 DEF IngestInv, Types, FlowInv, Kept, Pending, Conflict
  <1> QED
    BY <1>1, <1>2, <1>3, <1>5, PlacesChangeKeeps

\* A replica lets its delivery go: a held one is in the queue again.
LEMMA LetGoKeeps ==
  ASSUME IngestInv, NEW w \in Workers, NEW d \in Delivery,
         d = Idle \/ d = [busy[w] EXCEPT !.held = FALSE],
         busy' = [busy EXCEPT ![w] = d], queue' = Requeued(w),
         UNCHANGED <<run, docs, inserts, expired, reached, dropped, lost>>
  PROVE  IngestInv'
  <1>1. queue' \in [Events -> Nat] /\ \A x \in Events : queue'[x] >= queue[x]
    <2>1. PICK e : e = busy[w].event
      OBVIOUS
    <2>2. queue' = [queue EXCEPT ![e] = @ + 1] \/ queue' = queue
      BY <2>1 DEF Requeued, Add
    <2> QED
      BY <2>2 DEF IngestInv, Types
  <1>2. busy[w].held /\ busy[w].event \in Events => queue'[busy[w].event] > 0
    BY DEF IngestInv, Types, Requeued, Add
  <1>3. busy' \in [Workers -> Delivery] /\ busy'[w] = d
        /\ \A v \in Workers \ {w} : busy'[v] = busy[v]
    BY DEF IngestInv, Types
  <1>4. Types'
    BY <1>1, <1>3 DEF IngestInv, Types
  <1>5. HandsInv'
    <2>1. HandFine(d)'
      <3>1. d.step # "nack" => d.step = busy[w].step /\ d.event = busy[w].event
        BY DEF Idle, IngestInv, Types, Delivery
      <3> QED
        BY <3>1 DEF IngestInv, HandsInv, HandFine, Conflict
    <2>2. Grows
      BY DEF Grows
    <2> QED
      BY <2>1, <2>2, OneHandMoves
  <1>6. \A x \in Events : Pending(x) => Pending(x)'
    BY <1>1, <1>2, <1>3 DEF Pending, IngestInv, Types
  <1>7. FlowInv'
    BY <1>6 DEF IngestInv, FlowInv, Kept, Conflict
  <1> QED
    BY <1>4, <1>5, <1>7, PlacesChangeKeeps

LEMMA IdleIsDelivery == Idle \in Delivery
  BY DEF Idle, Delivery, Steps

LEMMA WorkerCrashKeeps ==
  ASSUME IngestInv, NEW w \in Workers, WorkerCrash(w)
  PROVE  IngestInv'
  BY IdleIsDelivery, LetGoKeeps DEF WorkerCrash, meterVars, mongoVars

LEMMA NackKeeps ==
  ASSUME IngestInv, NEW w \in Workers, Nack(w)
  PROVE  IngestInv'
  BY IdleIsDelivery, LetGoKeeps DEF Nack, meterVars, mongoVars

LEMMA ConsumerClosesKeeps ==
  ASSUME IngestInv, NEW w \in Workers, ConsumerCloses(w)
  PROVE  IngestInv'
  <1>1. PICK d \in Delivery : d = [busy[w] EXCEPT !.held = FALSE]
    BY DEF IngestInv, Types, Delivery
  <1>2. busy' = [busy EXCEPT ![w] = d]
    BY <1>1 DEF ConsumerCloses, IngestInv, Types
  <1> QED
    BY <1>1, <1>2, LetGoKeeps DEF ConsumerCloses, meterVars, mongoVars

LEMMA ReceiveKeeps ==
  ASSUME IngestInv, NEW w \in Workers, NEW e \in Events, Receive(w, e)
  PROVE  IngestInv'
  <1>1. CASE UNCHANGED <<queue, busy>>
    BY <1>1, IngestUnchanged DEF Receive, meterVars, mongoVars
  <1>2. CASE /\ queue' = Remove(queue, e)
             /\ busy' = [busy EXCEPT ![w] = [event |-> e, step |-> FirstStep(e), held |-> TRUE]]
    <2>1. /\ queue[e] > 0 /\ busy[w] = Idle
          /\ UNCHANGED <<run, docs, inserts, expired, reached, dropped, lost>>
      BY DEF Receive, meterVars, mongoVars
    <2>2. FirstStep(e) \in {"nack", "discard", "insert"} /\ (FirstStep(e) = "discard" => e \in expired \cup Invalid)
      BY DEF FirstStep
    <2>3. queue' \in [Events -> Nat] /\ \A x \in Events \ {e} : queue'[x] = queue[x]
      BY <1>2, <2>1 DEF IngestInv, Types, Remove
    <2>4. [event |-> e, step |-> FirstStep(e), held |-> TRUE] \in Delivery
      BY <2>2 DEF Delivery, Steps
    <2>5. /\ busy' \in [Workers -> Delivery] /\ \A v \in Workers \ {w} : busy'[v] = busy[v]
          /\ busy'[w].event = e /\ busy'[w].held /\ busy'[w].step = FirstStep(e)
      BY <1>2, <2>4 DEF IngestInv, Types
    <2>6. Types'
      BY <2>1, <2>3, <2>5 DEF IngestInv, Types
    <2>7. HandsInv'
      <3>1. PICK d : d = [event |-> e, step |-> FirstStep(e), held |-> TRUE]
        OBVIOUS
      <3>2. HandFine(d)'
        BY <2>1, <2>2, <3>1 DEF HandFine
      <3>3. Grows
        BY <2>1 DEF Grows
      <3>4. busy' = [busy EXCEPT ![w] = d]
        BY <1>2, <3>1
      <3> QED
        BY <3>2, <3>3, <3>4, OneHandMoves
    <2>8. ASSUME NEW x \in Events, Pending(x)
          PROVE  Pending(x)'
      <3>1. CASE x = e
        BY <2>5, <3>1 DEF Pending
      <3>2. CASE x # e /\ queue[x] > 0
        BY <2>3, <3>2 DEF Pending
      <3>3. CASE \E v \in Workers : busy[v].event = x /\ busy[v].held
        <4>1. ~ busy[w].held
          BY <2>1 DEF Idle
        <4> QED
          BY <2>5, <3>3, <4>1 DEF Pending
      <3> QED
        BY <2>8, <3>1, <3>2, <3>3 DEF Pending
    <2>9. FlowInv'
      BY <2>1, <2>8 DEF IngestInv, FlowInv, Kept, Conflict
    <2> QED
      BY <2>1, <2>6, <2>7, <2>9, PlacesChangeKeeps
  <1> QED
    BY <1>1, <1>2 DEF Receive

-----------------------------------------------------------------------------
(***************************************************************************)
(* The database.                                                           *)
(***************************************************************************)
LEMMA StoredKeeps ==
  ASSUME IngestInv, NEW e \in Events, ~ Duplicate(e),
         docs' = Count(docs, e), inserts' = Count(inserts, e), UNCHANGED expired
  PROVE  /\ docs' \in [Events -> Nat] /\ inserts' \in [Events -> Nat]
         /\ StoreInv' /\ Grows /\ inserts'[e] > 0
  <1>1. docs \in [Events -> Nat] /\ inserts \in [Events -> Nat]
    BY DEF IngestInv, Types
  <1>2. docs' \in [Events -> Nat] /\ inserts' \in [Events -> Nat]
    BY <1>1 DEF Count
  <1>3. /\ docs'[e] > 0 /\ inserts'[e] > 0 /\ (inserts'[e] > 1 => inserts[e] > 0)
        /\ \A x \in Events \ {e} : docs'[x] = docs[x] /\ inserts'[x] = inserts[x]
    BY <1>1 DEF Count
  <1>4. Grows
    BY <1>3 DEF Grows
  <1>5. e \in Synthetic => \A x \in Synthetic : Corr[x] = Corr[e] => ~ docs[x] > 0
    BY DEF Duplicate, RecordOf
  <1>6. /\ \A x \in Events : docs'[x] > 0 => inserts'[x] > 0
        /\ \A x \in Synthetic : inserts'[x] > 0 => docs'[x] > 0 \/ x \in expired
    BY <1>3, IngestAssumption DEF IngestInv, StoreInv
  <1>7. ASSUME NEW x \in Synthetic, NEW y \in Synthetic,
               Corr[x] = Corr[y], docs'[x] > 0, docs'[y] > 0
        PROVE  x = y
    <2>1. CASE x # e /\ y # e
      BY <1>3, <1>7, <2>1, IngestAssumption DEF IngestInv, StoreInv, StoredOnce
    <2>2. CASE x = e \/ y = e
      BY <1>3, <1>5, <1>7, <2>2, IngestAssumption
    <2> QED
      BY <2>1, <2>2
  <1>8. ASSUME NEW x \in Synthetic, inserts'[x] > 1
        PROVE  x \in expired
    <2>1. CASE x = e
      BY <1>3, <1>5, <1>8, <2>1 DEF IngestInv, StoreInv
    <2>2. CASE x # e
      BY <1>3, <1>8, <2>2, IngestAssumption DEF IngestInv, StoreInv, StoredOnce
    <2> QED
      BY <2>1, <2>2
  <1>9. StoreInv'
    BY <1>6, <1>7, <1>8 DEF StoreInv, StoredOnce
  <1> QED
    BY <1>2, <1>3, <1>4, <1>9

\* A replica goes on to another step with the event in its hands.
LEMMA HandMovesKeeps ==
  ASSUME IngestInv, Grows, StoreInv', docs' \in [Events -> Nat], inserts' \in [Events -> Nat],
         NEW w \in Workers, NEW d \in Delivery, busy' = [busy EXCEPT ![w] = d],
         d.event = busy[w].event, d.held = busy[w].held, HandFine(d)',
         UNCHANGED <<run, queue, reached, dropped, lost>>
  PROVE  IngestInv'
  <1>1. /\ busy' \in [Workers -> Delivery] /\ \A v \in Workers \ {w} : busy'[v] = busy[v]
        /\ busy'[w] = d
    BY DEF IngestInv, Types
  <1>2. Types'
    BY <1>1 DEF IngestInv, Types
  <1>3. HandsInv'
    BY OneHandMoves
  <1>4. \A x \in Events : Pending(x) => Pending(x)'
    BY <1>1 DEF Pending
  <1>5. \A x \in reached : x \in Events /\ Kept(x)'
    BY <1>4 DEF Grows, IngestInv, FlowInv, Kept
  <1>6. \A x \in dropped \ (expired' \cup Invalid) : Conflict(x)'
    BY ConflictStays DEF Grows, IngestInv, FlowInv
  <1>7. FlowInv'
    BY <1>5, <1>6 DEF FlowInv
  <1>8. SuccessWasPersisted'
    BY IngestAssumption DEF Grows, IngestInv, SuccessWasPersisted
  <1> QED
    BY <1>2, <1>3, <1>7, <1>8 DEF IngestInv

LEMMA GoingOn ==
  ASSUME Types, NEW w \in Workers, NEW step \in Steps
  PROVE  \E d \in Delivery : /\ d = [busy[w] EXCEPT !.step = step]
                             /\ [busy EXCEPT ![w].step = step] = [busy EXCEPT ![w] = d]
                             /\ d.event = busy[w].event /\ d.held = busy[w].held
                             /\ d.step = step
  <1> DEFINE d == [busy[w] EXCEPT !.step = step]
  <1>1. d \in Delivery /\ d.event = busy[w].event /\ d.held = busy[w].held /\ d.step = step
    BY DEF Types, Delivery
  <1>2. [busy EXCEPT ![w].step = step] = [busy EXCEPT ![w] = d]
    BY DEF Types
  <1> QED
    BY <1>1, <1>2

LEMMA NothingStored ==
  ASSUME IngestInv, UNCHANGED <<docs, inserts, expired>>
  PROVE  /\ Grows /\ StoreInv'
         /\ docs' \in [Events -> Nat] /\ inserts' \in [Events -> Nat]
  BY DEF IngestInv, Types, StoreInv, StoredOnce, Grows

LEMMA InsertKeeps ==
  ASSUME IngestInv, NEW w \in Workers, Insert(w)
  PROVE  IngestInv'
  <1>0. Types
    BY DEF IngestInv
  <1>1. PICK e \in Events : e = busy[w].event
    BY DEF Insert, IngestInv, HandsInv, HandFine
  <1>2. UNCHANGED <<run, queue, expired, reached, dropped, lost>>
    BY DEF Insert, queueVars
  <1>3. CASE mongoUp /\ ~ Duplicate(e)
    <2>1. /\ docs' = Count(docs, e) /\ inserts' = Count(inserts, e)
          /\ busy' = [busy EXCEPT ![w].step = "ack"]
      BY <1>1, <1>3 DEF Insert
    <2>2. PICK d \in Delivery : /\ busy' = [busy EXCEPT ![w] = d] /\ d.step = "ack"
                                /\ d.event = e /\ d.held = busy[w].held
      BY <1>1, <2>1, GoingOn DEF IngestInv, Steps
    <2>3. /\ Grows /\ StoreInv' /\ inserts'[e] > 0
          /\ docs' \in [Events -> Nat] /\ inserts' \in [Events -> Nat]
      BY <1>2, <1>3, <2>1, StoredKeeps
    <2>4. HandFine(d)'
      BY <2>2, <2>3 DEF HandFine
    <2> QED
      BY <1>1, <1>2, <2>2, <2>3, <2>4, HandMovesKeeps
  <1>4. CASE ~ (mongoUp /\ ~ Duplicate(e))
    <2>1. PICK step \in {"lookup", "nack"} :
             /\ UNCHANGED <<docs, inserts>> /\ busy' = [busy EXCEPT ![w].step = step]
             /\ step = "lookup" => Duplicate(e)
      BY <1>1, <1>4 DEF Insert
    <2>2. PICK d \in Delivery : /\ busy' = [busy EXCEPT ![w] = d] /\ d.step = step
                                /\ d.event = e /\ d.held = busy[w].held
      <3>1. step \in Steps
        BY <2>1 DEF Steps
      <3>2. PICK d : d = [busy[w] EXCEPT !.step = step]
        OBVIOUS
      <3>3. d \in Delivery /\ d.event = e /\ d.held = busy[w].held /\ d.step = step
        BY <1>0, <1>1, <3>1, <3>2 DEF Types, Delivery
      <3>4. busy' = [busy EXCEPT ![w] = d]
        BY <1>0, <2>1, <3>2 DEF Types
      <3> QED
        BY <3>3, <3>4
    <2>3. HandFine(d)'
      BY <2>1, <2>2 DEF HandFine, Duplicate
    <2> QED
      BY <1>1, <1>2, <2>1, <2>2, <2>3, NothingStored, HandMovesKeeps
  <1> QED
    BY <1>3, <1>4

LEMMA InsertReplyLostKeeps ==
  ASSUME IngestInv, NEW w \in Workers, InsertReplyLost(w)
  PROVE  IngestInv'
  <1>1. PICK e \in Events : e = busy[w].event
    BY DEF InsertReplyLost, IngestInv, HandsInv, HandFine
  <1>2. /\ ~ Duplicate(e) /\ docs' = Count(docs, e) /\ inserts' = Count(inserts, e)
        /\ busy' = [busy EXCEPT ![w].step = "nack"]
        /\ UNCHANGED <<run, queue, expired, reached, dropped, lost>>
    BY <1>1 DEF InsertReplyLost, queueVars
  <1>3. PICK d \in Delivery : /\ busy' = [busy EXCEPT ![w] = d] /\ d.step = "nack"
                              /\ d.event = e /\ d.held = busy[w].held
    BY <1>1, <1>2, GoingOn DEF IngestInv, Steps
  <1>4. HandFine(d)'
    BY <1>3 DEF HandFine
  <1> QED
    BY <1>1, <1>2, <1>3, <1>4, StoredKeeps, HandMovesKeeps

\* The verdict on a duplicate: acknowledged as stored, or discarded for another.
LEMMA LookupDuplicateKeeps ==
  ASSUME IngestInv, NEW w \in Workers, LookupDuplicate(w)
  PROVE  IngestInv'
  <1>0. Types
    BY DEF IngestInv
  <1>1. PICK e \in Synthetic : e = busy[w].event
    BY DEF LookupDuplicate, IngestInv, HandsInv, HandFine
  <1>2. UNCHANGED <<run, queue, docs, inserts, expired, reached, dropped, lost>>
    BY DEF LookupDuplicate, queueVars, mongoVars
  <1>3. PICK step \in {"nack", "ack", "discard"} :
           /\ busy' = [busy EXCEPT ![w].step = step]
           /\ step = "ack" => e \in RecordOf(Corr[e])
           /\ step = "discard" => RecordOf(Corr[e]) # {} /\ e \notin RecordOf(Corr[e])
    BY <1>1 DEF LookupDuplicate, DuplicateVerdict
  <1>4. PICK d \in Delivery : /\ busy' = [busy EXCEPT ![w] = d] /\ d.step = step
                              /\ d.event = e /\ d.held = busy[w].held
    <2>1. step \in Steps
      BY <1>3 DEF Steps
    <2>2. PICK d : d = [busy[w] EXCEPT !.step = step]
      OBVIOUS
    <2>3. d \in Delivery /\ d.event = e /\ d.held = busy[w].held /\ d.step = step
      BY <1>0, <1>1, <2>1, <2>2 DEF Types, Delivery
    <2>4. busy' = [busy EXCEPT ![w] = d]
      BY <1>0, <1>3, <2>2 DEF Types
    <2> QED
      BY <2>3, <2>4
  <1>5. \A x \in Synthetic : docs[x] > 0 => inserts[x] > 0
    BY IngestAssumption DEF IngestInv, StoreInv
  <1>6. HandFine(d)
    <2>1. d.step # "nack" => d.event \in Events
      BY <1>4, IngestAssumption
    <2>2. d.step = "ack" => inserts[d.event] > 0
      BY <1>3, <1>4, <1>5 DEF RecordOf
    <2>3. ASSUME d.step = "discard" PROVE Conflict(d.event)
      <3>1. PICK x \in RecordOf(Corr[e]) : x # e
        BY <1>3, <1>4, <2>3
      <3> QED
        BY <1>4, <1>5, <3>1 DEF RecordOf, Conflict
    <2>4. d.step # "lookup"
      BY <1>3, <1>4
    <2> QED
      BY <2>1, <2>2, <2>3, <2>4 DEF HandFine
  <1>7. HandFine(d)'
    BY <1>2, <1>6, NothingStored, HandStays
  <1> QED
    BY <1>1, <1>2, <1>4, <1>7, NothingStored, HandMovesKeeps

LEMMA AckKeeps ==
  ASSUME IngestInv, NEW w \in Workers, Ack(w)
  PROVE  IngestInv'
  <1>1. PICK e \in Events : e = busy[w].event
    BY DEF Ack, IngestInv, HandsInv, HandFine
  <1>2. /\ busy' = [busy EXCEPT ![w] = Idle] /\ dropped \subseteq dropped'
        /\ dropped' \subseteq dropped \cup {e}
        /\ UNCHANGED <<run, queue, docs, inserts, expired, reached, lost>>
    BY <1>1 DEF Ack, queueVars, mongoVars
  <1>3. e \in dropped' \ dropped => e \in expired \cup Invalid \/ Conflict(e)
    BY <1>1 DEF Ack, IngestInv, HandsInv, HandFine
  <1>4. inserts[e] > 0 \/ e \in dropped'
    BY <1>1 DEF Ack, IngestInv, HandsInv, HandFine
  <1>5. busy'[w] = Idle /\ \A v \in Workers \ {w} : busy'[v] = busy[v]
    BY <1>2 DEF IngestInv, Types
  <1>6. Types'
    BY <1>2, IdleIsDelivery DEF IngestInv, Types
  <1>7. HandsInv'
    <2>1. HandFine(Idle)' /\ Grows
      BY <1>2, NothingStored DEF HandFine, Idle
    <2> QED
      BY <1>2, <2>1, OneHandMoves
  <1>8. ASSUME NEW x \in reached PROVE x \in Events /\ Kept(x)'
    <2>1. CASE x = e
      BY <1>2, <1>4, <2>1 DEF Kept
    <2>2. CASE x # e
      <3>1. x \in Events /\ Kept(x)
        BY <1>8 DEF IngestInv, FlowInv
      <3>2. Pending(x) => Pending(x)'
        BY <1>1, <1>2, <1>5, <2>2 DEF Pending
      <3> QED
        BY <1>2, <3>1, <3>2 DEF Kept
    <2> QED
      BY <2>1, <2>2
  <1>9. \A x \in dropped' \ (expired' \cup Invalid) : Conflict(x)'
    BY <1>2, <1>3 DEF IngestInv, FlowInv, Conflict
  <1>10. FlowInv'
    BY <1>2, <1>8, <1>9 DEF FlowInv
  <1> QED
    BY <1>2, <1>6, <1>7, <1>10, PlacesChangeKeeps

-----------------------------------------------------------------------------
(***************************************************************************)
(* The broker and the clock.                                               *)
(***************************************************************************)

\* What was pending is lost, and known to be.
LEMMA BrokerRestartKeeps ==
  ASSUME IngestInv, BrokerRestart
  PROVE  IngestInv'
  <1>1. /\ UNCHANGED <<run, docs, inserts, expired, reached, dropped>>
        /\ queue' \in [Events -> Nat]
        /\ lost' = lost \cup {e \in Events : Pending(e)}
    BY DEF BrokerRestart, Empty, mongoVars
  <1>2. busy' \in [Workers -> Delivery]
        /\ \A w \in Workers : busy'[w].event = busy[w].event /\ busy'[w].step = busy[w].step
    BY DEF BrokerRestart, IngestInv, Types, Delivery
  <1>3. Types'
    BY <1>1, <1>2 DEF IngestInv, Types
  <1>4. HandsInv'
    BY <1>1, <1>2 DEF IngestInv, HandsInv, HandFine, Conflict
  <1>5. FlowInv'
    BY <1>1 DEF IngestInv, FlowInv, Kept, Conflict
  <1> QED
    BY <1>1, <1>3, <1>4, <1>5, PlacesChangeKeeps

\* Documents expire, and the expired ones are removed.
LEMMA ExpiryKeeps ==
  ASSUME IngestInv, NEW e \in Events, Expire(e) \/ RemoveExpired(e)
  PROVE  IngestInv'
  <1>1. /\ UNCHANGED <<run, queue, busy, inserts, reached, dropped, lost>>
        /\ expired \subseteq expired'
    BY DEF Expire, RemoveExpired, queueVars, dispatchVars
  <1>2. /\ docs' \in [Events -> Nat]
        /\ \A x \in Events : docs'[x] = docs[x] \/ (docs'[x] = 0 /\ x \in expired')
    BY DEF Expire, RemoveExpired, IngestInv, Types
  <1>3. Types'
    BY <1>1, <1>2 DEF IngestInv, Types
  <1>4. StoreInv'
    BY <1>1, <1>2, IngestAssumption DEF IngestInv, StoreInv, StoredOnce
  <1>5. HandsInv'
    BY <1>1 DEF IngestInv, HandsInv, HandFine, Conflict
  <1>6. FlowInv'
    BY <1>1 DEF IngestInv, FlowInv, Kept, Pending, Conflict
  <1>7. SuccessWasPersisted'
    BY <1>1 DEF IngestInv, SuccessWasPersisted
  <1> QED
    BY <1>3, <1>4, <1>5, <1>6, <1>7 DEF IngestInv

-----------------------------------------------------------------------------
LEMMA EventStepKeeps ==
  ASSUME IngestInv, NEW e \in Events, EventStep(e)
  PROVE  IngestInv'
  <1>1. CASE CustomerPosts(e)
    BY <1>1, IngestUnchanged DEF CustomerPosts, queueVars, dispatchVars, mongoVars
  <1> QED
    BY <1>1, PostEventKeeps, EnqueueKeeps, ExpiryKeeps DEF EventStep

LEMMA WorkerStepKeeps ==
  ASSUME IngestInv, NEW w \in Workers, WorkerStep(w)
  PROVE  IngestInv'
  <1>1. CASE StartWorker(w)
    BY <1>1, IngestUnchanged DEF StartWorker, meterVars, queueVars, mongoVars
  <1>2. CASE Handle(w)
    BY <1>2, InsertKeeps, LookupDuplicateKeeps, AckKeeps, NackKeeps DEF Handle
  <1> QED
    BY <1>1, <1>2, ReceiveKeeps DEF WorkerStep

LEMMA FaultKeeps ==
  ASSUME IngestInv, Fault
  PROVE  IngestInv'
  <1>1. ASSUME NEW e \in Events, RequestLost(e) PROVE IngestInv'
    BY <1>1, IngestUnchanged DEF RequestLost, queueVars, dispatchVars, mongoVars
  <1>2. ASSUME NEW w \in Workers, WorkerCrash(w) \/ ConsumerCloses(w) \/ InsertReplyLost(w)
        PROVE  IngestInv'
    BY <1>2, WorkerCrashKeeps, ConsumerClosesKeeps, InsertReplyLostKeeps
  <1>3. CASE ChannelCloses
    BY <1>3, IngestUnchanged DEF ChannelCloses, dispatchVars, mongoVars
  <1>4. CASE BrokerRestart
    BY <1>4, BrokerRestartKeeps
  <1>5. CASE MongoSet(FALSE)
    BY <1>5, IngestUnchanged DEF MongoSet, meterVars, queueVars, dispatchVars
  <1> QED
    BY <1>1, <1>2, <1>3, <1>4, <1>5 DEF Fault

LEMMA StepIngestInv == IngestInv /\ [Next]_vars => IngestInv'
  <1> SUFFICES ASSUME IngestInv, [Next]_vars
               PROVE  IngestInv'
    OBVIOUS
  <1>1. ASSUME NEW r \in Probes, ProbeStep(r) PROVE IngestInv'
    BY <1>1, ProbeStepKeeps
  <1>2. ASSUME NEW e \in Events, EventStep(e) PROVE IngestInv'
    BY <1>2, EventStepKeeps
  <1>3. ASSUME NEW w \in Workers, WorkerStep(w) PROVE IngestInv'
    BY <1>3, WorkerStepKeeps
  <1>4. CASE ChannelOpens
    BY <1>4, IngestUnchanged DEF ChannelOpens, queueVars, dispatchVars, mongoVars
  <1>5. CASE MongoSet(TRUE)
    BY <1>5, IngestUnchanged DEF MongoSet, meterVars, queueVars, dispatchVars
  <1>6. CASE Fault
    BY <1>6, FaultKeeps
  <1>7. CASE UNCHANGED vars
    BY <1>7, IngestUnchanged DEF vars
  <1> QED
    BY <1>1, <1>2, <1>3, <1>4, <1>5, <1>6, <1>7 DEF Next

\* The invariant of every reachable state.
THEOREM IngestInvariance == Spec => []IngestInv
  BY InitIngestInv, StepIngestInv, PTL DEF Spec

\* A probe that reports success has a stored event of its correlation id,
\* whatever was retried, repeated or lost on the way.
THEOREM SuccessIsPersisted == Spec => []SuccessWasPersisted
  BY IngestInvariance, PTL DEF IngestInv

\* One document for a synthetic correlation id, one insertion until it expires.
THEOREM DocumentsAreUnique == Spec => []StoredOnce
  <1>1. IngestInv => StoredOnce
    BY DEF IngestInv, StoreInv
  <1> QED
    BY <1>1, IngestInvariance, PTL

\* What the broker had is pending, stored, discarded for a reason, or lost with it.
THEOREM QueuedIsNotLost == Spec => []NothingLost
  <1>1. IngestInv => NothingLost
    BY DEF IngestInv, FlowInv, Kept, Conflict, NothingLost
  <1> QED
    BY <1>1, IngestInvariance, PTL
=============================================================================
