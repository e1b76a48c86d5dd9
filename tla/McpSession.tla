----------------------------- MODULE McpSession -----------------------------
(***************************************************************************)
(* The lifecycle of the MCP client that talks to Azure SRE Agent           *)
(* (SreAgentMcpClient.ts): one child process at a time, started by the     *)
(* first caller and shared by all, closed when idle, disposed with the     *)
(* backend.  A child takes seconds to start and seconds to end; meanwhile  *)
(* the client may be disposed, the child may die, and callers may be       *)
(* cancelled.                                                              *)
(*                                                                         *)
(* An action is one macrotask with the microtasks that follow it: a caller *)
(* that finds a session sends its call in the same action.  Who calls, and *)
(* what follows a call, is the composition's (SreAgentOperations).         *)
(***************************************************************************)
EXTENDS Naturals, FiniteSets

CONSTANTS
    Callers,   \* calls of callTool() and listToolNames(), one at a time each
    Listers,   \* the callers that list the tools: they are not counted
    Children,  \* bound: the child processes there can be at a time
    None       \* not a child

ASSUME SessionAssumption ==
    /\ Listers \subseteq Callers
    /\ IsFiniteSet(Callers)
    /\ None \notin Children

VARIABLES
    child,       \* the child process of each transport
    session,     \* this.client and this.transport
    connecting,  \* the transport of the shared connection attempt
    idleTimer,   \* whether the idle timer is armed
    inFlight,    \* the calls the client has counted
    lifecycle,   \* how far dispose() is
    awaited,     \* the transport whose end dispose() waits for
    calls,       \* what each caller is doing
    via,         \* the transport each call was sent through
    aborted      \* the callers whose signal is aborted

sessionVars == <<child, session, connecting, idleTimer, inFlight, lifecycle, awaited, calls, via, aborted>>

SessionTypeOK ==
    /\ child \in [Children -> {"none", "starting", "live", "closing"}]
    /\ session \in Children \cup {None}
    /\ connecting \in Children \cup {None}
    /\ idleTimer \in BOOLEAN
    /\ inFlight \in Nat
    /\ lifecycle \in {"up", "disposing", "closing", "disposed"}
    /\ awaited \in Children \cup {None}
    /\ calls \in [Callers -> {"none", "waiting", "calling"}]
    /\ via \in [Callers -> Children \cup {None}]
    /\ aborted \subseteq Callers

SessionInit ==
    /\ child = [t \in Children |-> "none"]
    /\ session = None /\ connecting = None
    /\ idleTimer = FALSE /\ inFlight = 0
    /\ lifecycle = "up" /\ awaited = None
    /\ calls = [c \in Callers |-> "none"]
    /\ via = [c \in Callers |-> None]
    /\ aborted = {}

disposed == lifecycle # "up"

Waiting == {c \in Callers : calls[c] = "waiting"}
CallsVia(t) == {c \in Callers : calls[c] = "calling" /\ via[c] = t}
Counted(cs) == Cardinality(cs \ Listers)

\* scheduleIdleShutdown(): whether it arms the timer.
ArmIdle(busy, current) == busy = 0 /\ current # None /\ ~ disposed

-----------------------------------------------------------------------------
(***************************************************************************)
(* Calls                                                                   *)
(***************************************************************************)

\* callTool() and connect() refuse: the signal is aborted, or the client disposed.
Refused(c) == c \in aborted \/ disposed

\* A faulty connect() in which every caller starts an attempt of its own.
ConnectNeverShared == FALSE

\* connect() finds an attempt to share.
AttemptShared == connecting # None

\* connect() without a session: concurrent callers share one attempt.
Join(c) ==
    /\ calls[c] = "none" /\ ~ Refused(c)
    /\ session = None
    /\ IF AttemptShared
       THEN UNCHANGED <<connecting, child>>
       ELSE \E t \in Children :
                /\ child[t] = "none"
                /\ connecting' = t
                /\ child' = [child EXCEPT ![t] = "starting"]
    /\ calls' = [calls EXCEPT ![c] = "waiting"]
    /\ UNCHANGED <<session, idleTimer, inFlight, lifecycle, awaited, via, aborted>>

\* A faulty callTool() that does not disarm the idle timer and does not count.
NeverCounted(cs) == 0

\* The calls among cs that callTool() counts: a listing is not counted.
Counts(cs) == Counted(cs)

\* The call is sent; a counted call disarms the idle timer.
Dispatch(c) ==
    /\ calls[c] = "none" /\ ~ Refused(c)
    /\ session # None
    /\ calls' = [calls EXCEPT ![c] = "calling"]
    /\ via' = [via EXCEPT ![c] = session]
    /\ inFlight' = inFlight + Counts({c})
    /\ idleTimer' = (idleTimer /\ Counts({c}) = 0)
    /\ UNCHANGED <<child, session, connecting, lifecycle, awaited, aborted>>

Begin(c) == Join(c) \/ Dispatch(c)

\* The calls in cs end, with whatever outcome; current is the session at that time.
EndCalls(cs, current) ==
    /\ calls' = [c \in Callers |-> IF c \in cs THEN "none" ELSE calls[c]]
    /\ via' = [c \in Callers |-> IF c \in cs THEN None ELSE via[c]]
    /\ inFlight' = IF inFlight > Counts(cs) THEN inFlight - Counts(cs) ELSE 0
    /\ idleTimer' = IF Counts(cs) = 0 THEN idleTimer ELSE ArmIdle(inFlight', current)

\* A call is answered, or fails, or times out.
EndCall(c) ==
    /\ calls[c] = "calling"
    /\ EndCalls({c}, session)
    /\ UNCHANGED <<child, session, connecting, lifecycle, awaited, aborted>>

\* The caller's signal is aborted: its call on the wire fails at once, a caller that
\* waits for the child goes on waiting.
Abort(c) ==
    /\ aborted' = aborted \cup {c}
    /\ EndCalls({c} \cap {d \in Callers : calls[d] = "calling"}, session)
    /\ UNCHANGED <<child, session, connecting, lifecycle, awaited>>

-----------------------------------------------------------------------------
(***************************************************************************)
(* The session                                                             *)
(***************************************************************************)

\* establish(), after the child has answered: dispose() may have come meanwhile.
KeepsConnection == ~ disposed

\* A faulty continuation that sends the call of a cancelled caller too.
SendsCancelled == Waiting

\* The calls that are sent once the child has started; the SDK throws out those
\* whose signal was aborted meanwhile.
SentAtStart == Waiting \ aborted

\* The child has started.
Connected ==
    /\ connecting # None
    /\ child[connecting] = "starting"
    /\ IF KeepsConnection
       THEN /\ child' = [child EXCEPT ![connecting] = "live"]
            /\ session' = connecting /\ connecting' = None
            /\ calls' = [c \in Callers |->
                            IF c \in SentAtStart THEN "calling"
                            ELSE IF c \in Waiting THEN "none" ELSE calls[c]]
            /\ via' = [c \in Callers |-> IF c \in SentAtStart THEN connecting ELSE via[c]]
            /\ inFlight' = inFlight + Counts(SentAtStart)
            /\ idleTimer' = ArmIdle(inFlight + Counts(SentAtStart), connecting)
       ELSE /\ child' = [child EXCEPT ![connecting] = "closing"]
            /\ UNCHANGED <<session, connecting, calls, via, inFlight, idleTimer>>
    /\ UNCHANGED <<lifecycle, awaited, aborted>>

\* The attempt fails; its transport is closed before the callers are told.
ConnectFails ==
    /\ connecting # None
    /\ child[connecting] = "starting"
    /\ child' = [child EXCEPT ![connecting] = "closing"]
    /\ UNCHANGED <<session, connecting, idleTimer, inFlight, lifecycle, awaited, calls, via, aborted>>

\* The finally of connect(): the attempt of this transport is over.
AttemptAfterClose(t) == IF connecting = t THEN None ELSE connecting

\* A child that was told to end has ended: the calls sent through it fail.  When it was
\* that of the connection attempt, the attempt is over and fails for all who waited.
ChildEnds(t) ==
    /\ child[t] = "closing"
    /\ child' = [child EXCEPT ![t] = "none"]
    /\ EndCalls(CallsVia(t) \cup (IF connecting = t THEN Waiting ELSE {}), session)
    /\ connecting' = AttemptAfterClose(t)
    /\ UNCHANGED <<session, lifecycle, awaited, aborted>>

\* onclose forgets the session if it is this transport's.
SessionAfterClose(t) == IF session = t THEN None ELSE session

\* A running child dies: its calls fail.  (The idle timer stays armed.)
ChildDies(t) ==
    /\ child[t] = "live"
    /\ child' = [child EXCEPT ![t] = "none"]
    /\ session' = SessionAfterClose(t)
    /\ EndCalls(CallsVia(t), session')
    /\ UNCHANGED <<connecting, lifecycle, awaited, aborted>>

\* disconnect(), up to the await of the child's end.
Disconnect ==
    /\ idleTimer' = FALSE
    /\ session' = None
    /\ child' = IF session = None THEN child ELSE [child EXCEPT ![session] = "closing"]

\* The idle timer fires.
IdleFires ==
    /\ idleTimer
    /\ IF inFlight = 0
       THEN Disconnect
       ELSE idleTimer' = FALSE /\ UNCHANGED <<session, child>>
    /\ UNCHANGED <<connecting, inFlight, lifecycle, awaited, calls, via, aborted>>

-----------------------------------------------------------------------------
(***************************************************************************)
(* dispose()                                                               *)
(***************************************************************************)

\* From now on connect() refuses.
Dispose ==
    /\ lifecycle = "up"
    /\ lifecycle' = "disposing"

\* A faulty dispose() that does not wait for a connection attempt to settle.
ClosesAtOnce == TRUE

\* The connection attempt dispose() waits for has settled.
AttemptSettled == connecting = None

DisposeDisconnects ==
    /\ lifecycle = "disposing" /\ AttemptSettled
    /\ lifecycle' = "closing"
    /\ awaited' = session
    /\ Disconnect
    /\ UNCHANGED <<connecting, inFlight, calls, via, aborted>>

\* The child of the session has ended: dispose() returns.
DisposeReturns ==
    /\ lifecycle = "closing"
    /\ awaited \in Children => child[awaited] = "none"
    /\ lifecycle' = "disposed" /\ awaited' = None
    /\ UNCHANGED <<child, session, connecting, idleTimer, inFlight, calls, via, aborted>>

SessionStep ==
    \/ Connected \/ ConnectFails \/ IdleFires
    \/ \E t \in Children : ChildEnds(t) \/ ChildDies(t)
    \/ DisposeDisconnects \/ DisposeReturns

-----------------------------------------------------------------------------
(***************************************************************************)
(* Properties                                                              *)
(***************************************************************************)
Open == {t \in Children : child[t] \in {"starting", "live"}}

\* Every child that runs and was not told to end is the one session or the one
\* connection attempt: whatever fails, dies or is disposed meanwhile, no child is left
\* that nobody will ever close.
NoOrphanChild == Open \subseteq {session, connecting}

\* When dispose() returns, no child runs any more, and none will be started.
NothingLeftBehind == lifecycle = "disposed" => Open = {}

\* A counted call that is on the wire is never cut by the idle shutdown: until the
\* backend shuts down, the child it was sent to runs.
IdleSparesCalls ==
    ~ disposed => \A c \in Callers \ Listers : calls[c] = "calling" => child[via[c]] = "live"

\* A cancelled caller sends nothing any more ("prevents further proxying and retries").
CancelledStaysSilent ==
    [][\A c \in aborted : calls'[c] = "calling" => calls[c] = "calling"]_sessionVars

-----------------------------------------------------------------------------
(***************************************************************************)
(* What the client promises: one child process at a time, none after       *)
(* dispose().                                                              *)
(***************************************************************************)
Single == INSTANCE SingleChild WITH open <- Open, over <- lifecycle = "disposed"

\* Whatever callers, children and shutdown do, they see one child process at a time.
OneChildAtATime == Single!Spec
=============================================================================
