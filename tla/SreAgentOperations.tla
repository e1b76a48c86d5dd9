------------------------- MODULE SreAgentOperations -------------------------
(***************************************************************************)
(* The operations Mission Control runs through Azure SRE Agent             *)
(* (SreAgentService.ts) on top of the MCP client of McpSession: each is    *)
(* registered so that it can be cancelled, resolves the agent, makes its   *)
(* call, and, when it is an investigation, records its thread in a file    *)
(* that survives a restart.                                                *)
(*                                                                         *)
(* One macrotask of the backend is one action, except that an operation    *)
(* whose agent was resolved makes its next call in an action of its own    *)
(* (Proceed), which admits a few more interleavings than there are.        *)
(***************************************************************************)
EXTENDS McpSession, SequencesExt

CONSTANTS
    Ops,         \* the requests that come in, one operation each
    Threads,     \* the threads on the agent's side
    MaxThreads,  \* the references the file keeps (25)
    Earlier,     \* the references an earlier backend has left in the file
    NoOp,        \* not an operation
    NoThread     \* not a thread

ASSUME OpsAssumption ==
    /\ Callers = Ops \cup Listers
    /\ Ops \cap Listers = {}
    /\ MaxThreads \in Nat \ {0}
    /\ Earlier \in Seq(Threads) /\ Len(Earlier) <= MaxThreads
    /\ NoOp \notin Ops /\ "discover-agents" \notin Ops /\ NoThread \notin Threads

VARIABLES
    kind,         \* what each request asks for
    phase,        \* how far each operation is
    outcome,      \* how it was answered
    active,       \* activeOperations: the operation registered under each key
    cachedAgent,  \* whether the configured agent is known
    thread,       \* the thread an answer named
    file,         \* the threads in sre-agent-threads.json
    queue,        \* threadStateQueue: the operations waiting to update the file
    snapshot,     \* what each of them has read from the file
    fileFailed,   \* history: a read or write of the file has failed
    dropped       \* history: the threads dropped from a full file

opVars == <<kind, phase, outcome, active, cachedAgent, thread, file, queue, snapshot, fileFailed, dropped>>
vars == <<sessionVars, opVars>>

\* An investigation and a follow-up take the same steps.
Kinds == {"investigate", "thread-status", "discover-agents"}
Keys == Ops \cup {"discover-agents"}

TypeOK ==
    /\ SessionTypeOK
    /\ kind \in [Ops -> Kinds]
    /\ phase \in [Ops -> {"idle", "resolving", "resolved", "asking", "recording", "read", "done"}]
    /\ outcome \in [Ops -> {"none", "answered", "failed"}]
    /\ active \in [Keys -> Ops \cup {NoOp}]
    /\ cachedAgent \in BOOLEAN
    /\ thread \in [Ops -> Threads \cup {NoThread}]
    /\ file \in BoundedSeq(Threads, MaxThreads)
    /\ queue \in BoundedSeq(Ops, Cardinality(Ops))
    /\ snapshot \in [Ops -> BoundedSeq(Threads, MaxThreads)]
    /\ fileFailed \in BOOLEAN /\ dropped \subseteq Threads

\* The requests the routes pass on to the service.
Requests == [Ops -> Kinds]

Init ==
    /\ SessionInit
    /\ kind \in Requests
    /\ phase = [o \in Ops |-> "idle"]
    /\ outcome = [o \in Ops |-> "none"]
    /\ active = [k \in Keys |-> NoOp]
    /\ cachedAgent = FALSE
    /\ thread = [o \in Ops |-> NoThread]
    /\ file = Earlier /\ queue = <<>>
    /\ snapshot = [o \in Ops |-> <<>>]
    /\ fileFailed = FALSE /\ dropped = {}

fileVars == <<file, queue, snapshot, fileFailed, dropped>>

-----------------------------------------------------------------------------
(***************************************************************************)
(* Registration                                                            *)
(***************************************************************************)

\* An operation is registered under its correlation id, a discovery under a constant.
Key(o) == IF kind[o] = "discover-agents" THEN "discover-agents" ELSE o

Registered == {o \in Ops : \E k \in Keys : active[k] = o}
OnWire == {o \in Ops : calls[o] = "calling"}

\* The finally of withCancellableOperation(): the key is freed, whoever holds it.
Deregister(os) == [k \in Keys |-> IF \E o \in os : Key(o) = k THEN NoOp ELSE active[k]]

\* The operations in os end without recording a thread.
Finish(os, how) ==
    /\ phase' = [o \in Ops |-> IF o \in os THEN "done" ELSE phase[o]]
    /\ outcome' = [o \in Ops |-> IF o \in os THEN how ELSE outcome[o]]
    /\ active' = Deregister(os)

-----------------------------------------------------------------------------
(***************************************************************************)
(* Requests                                                                *)
(***************************************************************************)

\* A request comes in: registered, it makes its first call, or is refused by a client
\* that is being disposed.
Start(o) ==
    /\ phase[o] = "idle"
    /\ IF Refused(o)
       THEN Finish({o}, "failed") /\ UNCHANGED sessionVars
       ELSE /\ Begin(o)
            /\ active' = [active EXCEPT ![Key(o)] = o]
            /\ phase' = [phase EXCEPT ![o] = IF kind[o] = "discover-agents" \/ cachedAgent
                                              THEN "asking" ELSE "resolving"]
            /\ UNCHANGED outcome
    /\ UNCHANGED <<kind, cachedAgent, thread, fileVars>>

\* getConfiguredAgent(): the agent is resolved.
AgentResolved(o) ==
    /\ phase[o] = "resolving"
    /\ EndCall(o)
    /\ cachedAgent' = TRUE
    /\ phase' = [phase EXCEPT ![o] = "resolved"]
    /\ UNCHANGED <<kind, outcome, active, thread, fileVars>>

\* The operation goes on with the call it is about.
Proceed(o) ==
    /\ phase[o] = "resolved"
    /\ IF Refused(o)
       THEN Finish({o}, "failed") /\ UNCHANGED sessionVars
       ELSE /\ Begin(o)
            /\ phase' = [phase EXCEPT ![o] = "asking"]
            /\ UNCHANGED <<outcome, active>>
    /\ UNCHANGED <<kind, cachedAgent, thread, fileVars>>

\* The call fails, times out, or its answer cannot be attributed (buildInvestigation).
CallFails(o) ==
    /\ EndCall(o)
    /\ Finish({o}, "failed")
    /\ UNCHANGED <<kind, cachedAgent, thread, fileVars>>

\* The agents that are listed may have the configured one among them.
Discovered(o) ==
    IF kind[o] = "discover-agents" THEN cachedAgent' \in {cachedAgent, TRUE} ELSE UNCHANGED cachedAgent

\* The agents are listed, or a status is read.
Answered(o) ==
    /\ phase[o] = "asking" /\ kind[o] # "investigate"
    /\ EndCall(o)
    /\ Finish({o}, "answered")
    /\ Discovered(o)
    /\ UNCHANGED <<kind, thread, fileVars>>

\* An investigation is answered: it is no longer cancellable, and queues for the file.
Investigated(o) ==
    /\ phase[o] = "asking" /\ kind[o] = "investigate"
    /\ EndCall(o)
    /\ phase' = [phase EXCEPT ![o] = "recording"]
    /\ \E t \in Threads : thread' = [thread EXCEPT ![o] = t]
    /\ active' = Deregister({o})
    /\ queue' = Append(queue, o)
    /\ UNCHANGED <<kind, outcome, cachedAgent, file, snapshot, fileFailed, dropped>>

\* cancel(): the registered operation is aborted and deregistered; a call on the wire
\* fails at once.
Cancel(k) ==
    /\ active[k] # NoOp
    /\ LET o == active[k]
       IN  /\ Abort(o)
           /\ phase' = IF o \in OnWire THEN [phase EXCEPT ![o] = "done"] ELSE phase
           /\ outcome' = IF o \in OnWire THEN [outcome EXCEPT ![o] = "failed"] ELSE outcome
    /\ active' = [active EXCEPT ![k] = NoOp]
    /\ UNCHANGED <<kind, cachedAgent, thread, fileVars>>

\* The preflight lists the tools the child exposes, without registering anything; it
\* may give up before the listing ends, which goes on.
ListTools(l) == Begin(l) /\ UNCHANGED opVars
Listed(l) == EndCall(l) /\ UNCHANGED opVars

-----------------------------------------------------------------------------
(***************************************************************************)
(* The thread file                                                         *)
(***************************************************************************)

\* A faulty withThreadStateLock() that lets every waiting operation in.
NoLock(o) == o \in ToSet(queue)

\* withThreadStateLock(): one operation at a time, in order.
HoldsLock(o) == queue # <<>> /\ Head(queue) = o

\* readThreadState(): whatever goes wrong, the file counts as empty.
ReadThreads(o) ==
    /\ phase[o] = "recording" /\ HoldsLock(o)
    /\ \/ snapshot' = [snapshot EXCEPT ![o] = file] /\ UNCHANGED fileFailed
       \/ snapshot' = [snapshot EXCEPT ![o] = <<>>] /\ fileFailed' = TRUE
    /\ phase' = [phase EXCEPT ![o] = "read"]
    /\ UNCHANGED <<sessionVars, kind, outcome, active, cachedAgent, thread, file, queue, dropped>>

\* The record replaces the thread's own, or comes last.
Updated(threads, t) == IF Contains(threads, t) THEN threads ELSE Append(threads, t)

\* The oldest are dropped; a thread that is recorded again does not become a newer one.
WithRecord(threads, t) ==
    LET updated == Updated(threads, t)
    IN  IF Len(updated) > MaxThreads THEN Tail(updated) ELSE updated

\* A faulty withThreadStateLock() that is not released when its operation throws.
NotReleased == queue

\* The lock is released whatever happens, and goes to the next.
Released == Tail(queue)

\* writeThreadState(): the file is replaced as a whole; a failure is only logged.
WriteThreads(o) ==
    /\ phase[o] = "read" /\ HoldsLock(o)
    /\ \/ /\ file' = WithRecord(snapshot[o], thread[o])
          /\ dropped' = dropped \cup (ToSet(Updated(snapshot[o], thread[o])) \ ToSet(file'))
          /\ queue' = Tail(queue) /\ UNCHANGED fileFailed
       \/ /\ fileFailed' = TRUE
          /\ queue' = Released /\ UNCHANGED <<file, dropped>>
    /\ phase' = [phase EXCEPT ![o] = "done"]
    /\ outcome' = [outcome EXCEPT ![o] = "answered"]
    /\ snapshot' = [snapshot EXCEPT ![o] = <<>>]
    /\ UNCHANGED <<sessionVars, kind, active, cachedAgent, thread>>

-----------------------------------------------------------------------------
(***************************************************************************)
(* The session under the operations                                        *)
(***************************************************************************)

\* The operations whose calls fail with a step of the client end.
OpsFollow ==
    /\ Finish({o \in Ops : calls[o] # "none" /\ calls'[o] = "none"}, "failed")
    /\ UNCHANGED <<kind, cachedAgent, thread, fileVars>>

\* What the client does on its own.
ClientStep == SessionStep /\ OpsFollow

\* shutdown(), when the backend closes: every registered operation is aborted; the
\* failed calls find the client disposed.
Shutdown ==
    /\ Dispose
    /\ aborted' = aborted \cup Registered
    /\ EndCalls(Registered \cap OnWire, None)
    /\ phase' = [o \in Ops |-> IF o \in Registered \cap OnWire THEN "done" ELSE phase[o]]
    /\ outcome' = [o \in Ops |-> IF o \in Registered \cap OnWire THEN "failed" ELSE outcome[o]]
    /\ active' = [k \in Keys |-> NoOp]
    /\ UNCHANGED <<child, session, connecting, awaited, kind, cachedAgent, thread, fileVars>>

Next ==
    \/ \E o \in Ops :
           \/ Start(o) \/ AgentResolved(o) \/ Proceed(o) \/ CallFails(o)
           \/ Answered(o) \/ Investigated(o) \/ ReadThreads(o) \/ WriteThreads(o)
    \/ \E k \in Keys : Cancel(k)
    \/ \E l \in Listers : ListTools(l) \/ Listed(l)
    \/ ClientStep
    \/ Shutdown

\* A call has a timeout (config.ts, and the SDK's own for the handshake and a listing), a
\* child that is told to end is killed, and the file answers.  Proceed follows at once in
\* the code; here it may find every child of the bound in use, again and again, hence the
\* strong fairness.  Nothing obliges a child to die, the idle timer to fire, or anybody to
\* cancel or to shut down.
Fairness ==
    /\ \A o \in Ops :
           /\ WF_vars(AgentResolved(o) \/ CallFails(o) \/ Answered(o) \/ Investigated(o))
           /\ SF_vars(Proceed(o))
           /\ WF_vars(ReadThreads(o) \/ WriteThreads(o))
    /\ \A l \in Listers : WF_vars(Listed(l))
    /\ WF_vars((Connected \/ ConnectFails) /\ OpsFollow)
    /\ WF_vars((\E t \in Children : ChildEnds(t)) /\ OpsFollow)
    /\ WF_vars(DisposeDisconnects /\ OpsFollow)
    /\ WF_vars(DisposeReturns /\ OpsFollow)

Spec == Init /\ [][Next]_vars
FairSpec == Spec /\ Fairness

-----------------------------------------------------------------------------
(***************************************************************************)
(* Properties                                                              *)
(***************************************************************************)
Running(o) == phase[o] \in {"resolving", "resolved", "asking"}

\* What an operator can stop: whatever the client does meanwhile, an investigation or
\* status read that runs can be stopped, and nothing that is over can still be found
\* under a key.
InvestigationCancellable ==
    /\ \A o \in Ops : Running(o) /\ kind[o] # "discover-agents" => o \in Registered \cup aborted
    /\ \A o \in Registered : Running(o)

\* The threads of the investigations that were answered.
AnsweredThreads == {thread[o] : o \in {p \in Ops : phase[p] = "done" /\ outcome[p] = "answered"
                                                   /\ kind[p] = "investigate"}}

\* Unless the file fails, a thread whose investigation was answered can be found again
\* until it is dropped from a full file: concurrent investigations do not lose each
\* other's reference, and none is dropped while there is room.
AnsweredIsRecorded ==
    ~ fileFailed =>
        /\ AnsweredThreads \subseteq ToSet(file) \cup dropped
        /\ dropped # {} => Len(file) = MaxThreads

\* Every operation ends, whoever else uses, loses or closes the child, and a
\* backend that shuts down gets rid of its child and stops.
OperationEnds ==
    /\ \A o \in Ops : phase[o] # "idle" ~> phase[o] = "done"
    /\ disposed ~> lifecycle = "disposed"
=============================================================================
