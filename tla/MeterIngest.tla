----------------------------- MODULE MeterIngest -----------------------------
(***************************************************************************)
(* The meter-ingest journey: the synthetic probe (or a customer) posts an  *)
(* event to meter-service, which publishes it to RabbitMQ; the replicas of *)
(* dispatch-service consume it and store it in MongoDB; the probe polls    *)
(* dispatch-service for the record of its correlation id.                  *)
(*                                                                         *)
(* Every arrow of that journey may fail: a request is abandoned by the     *)
(* client and still handled by the server, a publish is answered 202 and   *)
(* lost with the connection, a delivery is handled twice by two replicas,  *)
(* the acknowledgement of a stored event is lost, the event expires and is *)
(* removed between two of these steps.                                     *)
(***************************************************************************)
EXTENDS Naturals, FiniteSets

CONSTANTS
    Events,      \* what is posted: an event id with its correlation id
    Probes,      \* the events of the probe's runs
    Synthetic,   \* events tagged synthetic (the probe's own, and impostors)
    Garbled,     \* events that dispatch-service cannot unmarshal
    Invalid,     \* events whose correlation id dispatch-service refuses
    Corr,        \* the correlation id of an event
    Workers,     \* the replicas of dispatch-service
    MaxRetries,  \* SYNTHETIC_MAX_RETRIES
    MaxFaults,   \* a bound on the failures of a behaviour
    None         \* not an event

ASSUME IngestAssumption ==
    /\ Probes \subseteq Synthetic /\ Synthetic \subseteq Events
    /\ Garbled \subseteq Events /\ Probes \cap Garbled = {}
    /\ Invalid \subseteq Events /\ Probes \cap Invalid = {}
    /\ MaxRetries \in Nat /\ MaxFaults \in Nat
    /\ None \notin Events

VARIABLES
    run,       \* the probe's runs: phase, attempts, total timeout over
    requests,  \* POST /events of each event on the way to meter-service
    posted,    \* events somebody posted (an event is posted by one client)
    channel,   \* meter-service holds an open channel
    wire,      \* published messages that have not reached the broker
    queue,     \* messages ready, or delivered to a replica's buffer
    dispatch,  \* the replicas: process up, typed persistence set, consuming
    busy,      \* what the consumer goroutine of a replica is doing
    mongoUp,
    docs,      \* documents stored for each event
    expired,   \* synthetic events whose expiresAt is over
    faults,    \* failures so far, up to MaxFaults
    reached, inserts, dropped, lost   \* history: queued, stored, discarded, lost

meterVars == <<requests, posted, channel>>
queueVars == <<wire, queue, reached, lost>>
dispatchVars == <<dispatch, busy, dropped>>
mongoVars == <<mongoUp, docs, expired, inserts>>
vars == <<run, requests, posted, channel, wire, queue, dispatch, busy, mongoUp, docs,
          expired, faults, reached, inserts, dropped, lost>>

Phases == {"idle", "posting", "polling", "success", "ingress", "persistence"}
Steps == {"insert", "lookup", "ack", "discard", "nack"}
Idle == [event |-> None, step |-> "nack", held |-> FALSE]

TypeOK ==
    /\ run \in [Probes -> [phase : Phases, attempts : 0..(MaxRetries + 1), late : BOOLEAN]]
    /\ requests \in [Events -> 0..(MaxRetries + 1)]
    /\ posted \subseteq Events
    /\ channel \in BOOLEAN
    /\ wire \in [Events -> 0..(MaxRetries + 1)]
    /\ queue \in [Events -> 0..(MaxRetries + 1)]
    /\ dispatch \in [Workers -> [up : BOOLEAN, store : BOOLEAN, consuming : BOOLEAN]]
    /\ busy \in [Workers -> [event : Events, step : Steps, held : BOOLEAN] \cup {Idle}]
    /\ mongoUp \in BOOLEAN
    /\ docs \in [Events -> 0..2]
    /\ inserts \in [Events -> 0..2]
    /\ expired \subseteq Synthetic
    /\ faults \in 0..MaxFaults
    /\ reached \subseteq Events /\ dropped \subseteq Events /\ lost \subseteq Events

Init ==
    /\ run = [r \in Probes |-> [phase |-> "idle", attempts |-> 0, late |-> FALSE]]
    /\ requests = [e \in Events |-> 0]
    /\ posted = {}
    /\ channel \in BOOLEAN
    /\ wire = [e \in Events |-> 0]
    /\ queue = [e \in Events |-> 0]
    /\ mongoUp \in BOOLEAN
    /\ dispatch = [w \in Workers |-> [up |-> TRUE, store |-> mongoUp, consuming |-> TRUE]]
    /\ busy = [w \in Workers |-> Idle]
    /\ docs = [e \in Events |-> 0]
    /\ expired = {}
    /\ faults = 0
    /\ reached = {} /\ inserts = [e \in Events |-> 0] /\ dropped = {} /\ lost = {}

Add(bag, e) == [bag EXCEPT ![e] = @ + 1]
Remove(bag, e) == [bag EXCEPT ![e] = @ - 1]
Empty == [e \in Events |-> 0]
\* The history of insertions tells apart none, one and several.
Count(bag, e) == [bag EXCEPT ![e] = IF @ < 2 THEN @ + 1 ELSE @]

-----------------------------------------------------------------------------
(***************************************************************************)
(* The probe: runSyntheticTransaction                                      *)
(***************************************************************************)
SetPhase(r, phase) == run' = [run EXCEPT ![r].phase = phase]

\* A Job that Kubernetes kills at its activeDeadlineSeconds just stops here.
\* The run begins: one event for all attempts, and the first request.
Begin(r) ==
    /\ run[r].phase = "idle"
    /\ run' = [run EXCEPT ![r] = [phase |-> "posting", attempts |-> 1, late |-> FALSE]]
    /\ requests' = Add(requests, r)
    /\ posted' = posted \cup {r}
    /\ UNCHANGED <<channel, queueVars, dispatchVars, mongoVars>>

\* An attempt failed: the next one, or the verdict "ingress".
NextAttempt(r) ==
    IF run[r].late \/ run[r].attempts > MaxRetries
    THEN SetPhase(r, "ingress") /\ UNCHANGED requests
    ELSE /\ run' = [run EXCEPT ![r].attempts = @ + 1]
         /\ requests' = Add(requests, r)

\* The request is aborted after requestTimeoutMs, or its connection breaks: the
\* server may still get it.
AttemptAborted(r) ==
    /\ run[r].phase = "posting"
    /\ NextAttempt(r)
    /\ UNCHANGED <<posted, channel, queueVars, dispatchVars, mongoVars>>

\* Any other client posts its event, once.
CustomerPosts(e) ==
    /\ e \notin posted \cup Probes
    /\ posted' = posted \cup {e}
    /\ requests' = Add(requests, e)
    /\ UNCHANGED <<run, channel, queueVars, dispatchVars, mongoVars>>

\* totalTimeoutMs is over; the loops look at the clock between two requests.
TotalTimeout(r) ==
    /\ run[r].phase \in {"posting", "polling"}
    /\ ~ run[r].late
    /\ run' = [run EXCEPT ![r].late = TRUE]
    /\ UNCHANGED <<meterVars, queueVars, dispatchVars, mongoVars>>

\* The record of a correlation id, as lookupSyntheticTransaction finds it.
RecordOf(c) == {x \in Synthetic : Corr[x] = c /\ docs[x] > 0}

\* A faulty poll that takes a 404 for an answer.
PollTakesAnyAnswer(r) ==
    /\ run[r].phase = "polling"
    /\ ~ run[r].late
    /\ \E w \in Workers : dispatch[w].up /\ dispatch[w].store /\ mongoUp
    /\ SetPhase(r, "success")
    /\ UNCHANGED <<meterVars, queueVars, dispatchVars, mongoVars>>

\* transactionsHandler: some replica looks the correlation id up and finds its record.
Serves(c) ==
    /\ \E w \in Workers : dispatch[w].up /\ dispatch[w].store /\ mongoUp
    /\ RecordOf(c) # {}

\* GET /transactions/{id} answered by one replica: 200 is success, after 404 the
\* probe sleeps and asks again.
Poll(r) ==
    /\ run[r].phase = "polling"
    /\ ~ run[r].late
    /\ Serves(Corr[r])
    /\ SetPhase(r, "success")
    /\ UNCHANGED <<meterVars, queueVars, dispatchVars, mongoVars>>

\* Any other status, a broken connection (a lookup on a typed nil persistence
\* panics), an aborted request, or no record until the total timeout.
PollFails(r) ==
    /\ run[r].phase = "polling"
    /\ SetPhase(r, "persistence")
    /\ UNCHANGED <<meterVars, queueVars, dispatchVars, mongoVars>>

-----------------------------------------------------------------------------
(***************************************************************************)
(* meter-service                                                           *)
(***************************************************************************)

\* POST /events: with no channel 503, else publish without waiting for the
\* broker and answer 202.  The answer reaches the probe or is lost with an
\* attempt it has already given up.
PostEvent(e) ==
    /\ requests[e] > 0
    /\ wire' = IF channel THEN Add(wire, e) ELSE wire
    /\ \/ /\ requests' = Remove(requests, e)
          /\ UNCHANGED run
       \/ /\ e \in Probes /\ run[e].phase = "posting"
          /\ IF channel
             THEN SetPhase(e, "polling") /\ requests' = Remove(requests, e)
             ELSE IF run[e].late \/ run[e].attempts > MaxRetries
             THEN SetPhase(e, "ingress") /\ requests' = Remove(requests, e)
             ELSE run' = [run EXCEPT ![e].attempts = @ + 1] /\ UNCHANGED requests
    /\ UNCHANGED <<posted, channel, queue, reached, lost, dispatchVars, mongoVars>>

\* The Service has no endpoint, or the replica dies with the request.
RequestLost(e) ==
    /\ requests[e] > 0
    /\ requests' = Remove(requests, e)
    /\ UNCHANGED <<run, posted, channel, queueVars, dispatchVars, mongoVars>>

ChannelOpens ==
    /\ ~ channel
    /\ channel' = TRUE
    /\ UNCHANGED <<run, requests, posted, queueVars, dispatchVars, mongoVars>>

\* The connection breaks: what was published and not yet received is gone.
ChannelCloses ==
    /\ channel
    /\ channel' = FALSE
    /\ wire' = Empty
    /\ UNCHANGED <<run, requests, posted, queue, reached, lost, dispatchVars, mongoVars>>

\* The broker takes a published message into the durable queue.
Enqueue(e) ==
    /\ wire[e] > 0
    /\ wire' = Remove(wire, e)
    /\ queue' = Add(queue, e)
    /\ reached' = reached \cup {e}
    /\ UNCHANGED <<run, meterVars, lost, dispatchVars, mongoVars>>

-----------------------------------------------------------------------------
(***************************************************************************)
(* dispatch-service                                                        *)
(***************************************************************************)

\* The process starts: MongoDB is tried once (a failure leaves a typed nil that
\* no later check recognises), RabbitMQ is dialled once.
StartWorker(w) ==
    /\ ~ dispatch[w].up
    /\ \E dialled \in BOOLEAN :
           dispatch' = [dispatch EXCEPT ![w] =
                           [up |-> TRUE, store |-> mongoUp, consuming |-> dialled]]
    /\ UNCHANGED <<run, meterVars, queueVars, busy, dropped, mongoVars>>

\* What a delivery held by w returns to the queue when w lets it go.
Requeued(w) == IF busy[w].held THEN Add(queue, busy[w].event) ELSE queue

\* The process dies; kubelet starts it again.
WorkerCrash(w) ==
    /\ dispatch[w].up
    /\ dispatch' = [dispatch EXCEPT ![w] = [up |-> FALSE, store |-> FALSE, consuming |-> FALSE]]
    /\ busy' = [busy EXCEPT ![w] = Idle]
    /\ queue' = Requeued(w)
    /\ UNCHANGED <<run, meterVars, wire, reached, lost, dropped, mongoVars>>

\* The AMQP connection or channel closes: the range over the deliveries ends and
\* nothing starts it again; the delivery in hand loses its tag.
ConsumerCloses(w) ==
    /\ dispatch[w].consuming
    /\ dispatch' = [dispatch EXCEPT ![w].consuming = FALSE]
    /\ busy' = [busy EXCEPT ![w].held = FALSE]
    /\ queue' = Requeued(w)
    /\ UNCHANGED <<run, meterVars, wire, reached, lost, dropped, mongoVars>>

\* handleMessage() and Save() up to InsertOne.
FirstStep(e) ==
    CASE e \in Garbled -> "nack"
      [] e \in (Invalid \cup expired) \ Garbled -> "discard"
      [] OTHER -> "insert"

\* A faulty consumer that survives the typed nil and hands every delivery back.
ReceiveHandsBack(w, e) ==
    /\ dispatch[w].consuming
    /\ busy[w] = Idle
    /\ queue[e] > 0
    /\ queue' = Remove(queue, e)
    /\ busy' = [busy EXCEPT ![w] =
                   [event |-> e, held |-> TRUE,
                    step |-> IF dispatch[w].store THEN FirstStep(e) ELSE "nack"]]
    /\ UNCHANGED <<run, meterVars, wire, reached, lost, dispatch, dropped, mongoVars>>

\* A delivery comes up.  With the typed nil persistence Save() panics, and the
\* process with it: its delivery goes back to the queue.
Receive(w, e) ==
    /\ dispatch[w].consuming
    /\ busy[w] = Idle
    /\ queue[e] > 0
    /\ IF dispatch[w].store \/ e \in Garbled
       THEN /\ queue' = Remove(queue, e)
            /\ busy' = [busy EXCEPT ![w] = [event |-> e, step |-> FirstStep(e), held |-> TRUE]]
            /\ UNCHANGED dispatch
       ELSE /\ dispatch' = [dispatch EXCEPT ![w] =
                               [up |-> FALSE, store |-> FALSE, consuming |-> FALSE]]
            /\ UNCHANGED <<queue, busy>>
    /\ UNCHANGED <<run, meterVars, wire, reached, lost, dropped, mongoVars>>

\* A faulty database without the unique index of the correlation id.
NotUnique(e) == FALSE

\* The partial unique index refuses a second synthetic document.
Duplicate(e) == e \in Synthetic /\ RecordOf(Corr[e]) # {}

\* InsertOne: stored, duplicate key, or the database cannot be reached.
Insert(w) ==
    LET e == busy[w].event
        stored == mongoUp /\ ~ Duplicate(e)
    IN  /\ busy[w] # Idle /\ busy[w].step = "insert"
        /\ docs' = IF stored THEN Count(docs, e) ELSE docs
        /\ inserts' = IF stored THEN Count(inserts, e) ELSE inserts
        /\ busy' = [busy EXCEPT ![w].step =
                       IF stored THEN "ack" ELSE IF mongoUp THEN "lookup" ELSE "nack"]
        /\ UNCHANGED <<run, meterVars, queueVars, dispatch, dropped, mongoUp, expired>>

\* The database applies the insert and goes away before it answers.
InsertReplyLost(w) ==
    LET e == busy[w].event
    IN  /\ busy[w] # Idle /\ busy[w].step = "insert"
        /\ mongoUp /\ ~ Duplicate(e)
        /\ docs' = Count(docs, e)
        /\ inserts' = Count(inserts, e)
        /\ mongoUp' = FALSE
        /\ busy' = [busy EXCEPT ![w].step = "nack"]
        /\ UNCHANGED <<run, meterVars, queueVars, dispatch, dropped, expired>>

\* isIdempotentDuplicate(): the record found is this very event.  No record (the
\* TTL index was faster) or no database is an error.
DuplicateVerdict(e) ==
    CASE ~ mongoUp \/ RecordOf(Corr[e]) = {} -> "nack"
      [] mongoUp /\ e \in RecordOf(Corr[e]) -> "ack"
      [] OTHER -> "discard"

LookupDuplicate(w) ==
    /\ busy[w] # Idle /\ busy[w].step = "lookup"
    /\ busy' = [busy EXCEPT ![w].step = DuplicateVerdict(busy[w].event)]
    /\ UNCHANGED <<run, meterVars, queueVars, dispatch, dropped, mongoVars>>

\* Ack; its error is ignored when the connection has gone.
Ack(w) ==
    /\ busy[w] # Idle /\ busy[w].step \in {"ack", "discard"}
    /\ dropped' = IF busy[w].step = "discard" THEN dropped \cup {busy[w].event} ELSE dropped
    /\ busy' = [busy EXCEPT ![w] = Idle]
    /\ UNCHANGED <<run, meterVars, queueVars, dispatch, mongoVars>>

\* A faulty Nack with requeue = false.
NackDrops(w) ==
    /\ busy[w] # Idle /\ busy[w].step = "nack"
    /\ busy' = [busy EXCEPT ![w] = Idle]
    /\ UNCHANGED <<run, meterVars, queueVars, dispatch, dropped, mongoVars>>

\* Nack with requeue = true.
Nack(w) ==
    /\ busy[w] # Idle /\ busy[w].step = "nack"
    /\ queue' = Requeued(w)
    /\ busy' = [busy EXCEPT ![w] = Idle]
    /\ UNCHANGED <<run, meterVars, wire, reached, lost, dispatch, dropped, mongoVars>>

-----------------------------------------------------------------------------
(***************************************************************************)
(* RabbitMQ, MongoDB and the clock                                         *)
(***************************************************************************)

\* A message of e is in the queue or in the hands of a replica that has its tag.
Pending(e) == queue[e] > 0 \/ \E w \in Workers : busy[w].event = e /\ busy[w].held

\* The broker pod has no volume: its queue goes with it, and every connection.
BrokerRestart ==
    /\ queue' = Empty
    /\ wire' = Empty
    /\ channel' = FALSE
    /\ lost' = lost \cup {e \in Events : Pending(e)}
    /\ dispatch' = [w \in Workers |-> [dispatch[w] EXCEPT !.consuming = FALSE]]
    /\ busy' = [w \in Workers |-> [busy[w] EXCEPT !.held = FALSE]]
    /\ UNCHANGED <<run, requests, posted, reached, dropped, mongoVars>>

MongoSet(up) ==
    /\ mongoUp # up
    /\ mongoUp' = up
    /\ UNCHANGED <<run, meterVars, queueVars, dispatchVars, docs, expired, inserts>>

Expire(e) ==
    /\ e \in (Synthetic \cap posted) \ expired
    /\ expired' = expired \cup {e}
    /\ UNCHANGED <<run, meterVars, queueVars, dispatchVars, mongoUp, docs, inserts>>

\* The TTL index.
RemoveExpired(e) ==
    /\ mongoUp /\ e \in expired /\ docs[e] > 0
    /\ docs' = [docs EXCEPT ![e] = 0]
    /\ UNCHANGED <<run, meterVars, queueVars, dispatchVars, mongoUp, expired, inserts>>

-----------------------------------------------------------------------------
ProbeStep(r) ==
    Begin(r) \/ AttemptAborted(r) \/ TotalTimeout(r) \/ Poll(r) \/ PollFails(r)

EventStep(e) ==
    CustomerPosts(e) \/ PostEvent(e) \/ Enqueue(e) \/ Expire(e) \/ RemoveExpired(e)

Handle(w) == Insert(w) \/ LookupDuplicate(w) \/ Ack(w) \/ Nack(w)

WorkerStep(w) == StartWorker(w) \/ (\E e \in Events : Receive(w, e)) \/ Handle(w)

\* What fails, at most MaxFaults times.
Fault ==
    \/ \E e \in Events : RequestLost(e)
    \/ \E w \in Workers : WorkerCrash(w) \/ ConsumerCloses(w) \/ InsertReplyLost(w)
    \/ ChannelCloses \/ BrokerRestart \/ MongoSet(FALSE)

NoFault == UNCHANGED faults

Next ==
    \/ (\E r \in Probes : ProbeStep(r)) /\ NoFault
    \/ (\E e \in Events : EventStep(e)) /\ NoFault
    \/ (\E w \in Workers : WorkerStep(w)) /\ NoFault
    \/ (ChannelOpens \/ MongoSet(TRUE)) /\ NoFault
    \/ faults < MaxFaults /\ faults' = faults + 1 /\ Fault

Spec == Init /\ [][Next]_vars

\* The probe's timers run; a started handler goes on; kubelet restarts a process
\* that died; the broker hands every queued message out in its turn.
Fairness ==
    /\ \A r \in Probes :
           /\ WF_vars(AttemptAborted(r) /\ NoFault) /\ WF_vars(TotalTimeout(r) /\ NoFault)
           /\ WF_vars(PollFails(r) /\ run[r].late /\ NoFault)
    /\ \A w \in Workers :
           /\ WF_vars(StartWorker(w) /\ NoFault)
           /\ WF_vars(Handle(w) /\ NoFault)
           /\ \A e \in Events : SF_vars(Receive(w, e) /\ NoFault)

FairSpec == Spec /\ Fairness

-----------------------------------------------------------------------------
(***************************************************************************)
(* Properties                                                              *)
(***************************************************************************)

\* docs/SLO-METER-INGEST.md: the transaction is successful only when a record of
\* its correlation id was persisted.  A run that ends well has a stored event.
SuccessWasPersisted ==
    \A r \in Probes :
        run[r].phase = "success" =>
            \E x \in Synthetic : Corr[x] = Corr[r] /\ inserts[x] > 0

\* However often an event is posted, delivered and redelivered, and to however
\* many replicas at once, a synthetic correlation id has one document, and an
\* event that has not expired is inserted once.
StoredOnce ==
    \A x, y \in Synthetic :
        /\ Corr[x] = Corr[y] /\ docs[x] > 0 /\ docs[y] > 0 => x = y
        /\ inserts[x] > 1 => x \in expired

\* An event that the broker had in its queue is still there, or stored, or
\* discarded on purpose, or went down with the broker: no crash of a replica, no
\* lost acknowledgement and no database failure loses it.  The purpose is its
\* expiry, an invalid correlation id, or a conflict with another event that was
\* stored under its correlation id, never a copy of itself.
NothingLost ==
    /\ \A e \in reached : Pending(e) \/ inserts[e] > 0 \/ e \in dropped \cup lost
    /\ \A e \in dropped \ (expired \cup Invalid) :
          e \in Synthetic /\ \E x \in Synthetic \ {e} : Corr[x] = Corr[e] /\ inserts[x] > 0

\* A queued event that can be parsed is stored or discarded, unless the database
\* or every consumer goes away; a replica that started without the database
\* dies of the first delivery and comes back with it.  And a run gets its verdict
\* by itself, without the deadline of its Job.
EventuallySettled ==
    /\ \A e \in Events \ Garbled :
          Pending(e) ~> \/ inserts[e] > 0 \/ e \in dropped \/ ~ mongoUp
                        \/ e \in lost
                        \/ \A w \in Workers : dispatch[w].up => ~ dispatch[w].consuming
    /\ \A r \in Probes : run[r].phase = "posting" ~> run[r].phase \notin {"posting", "polling"}
=============================================================================
