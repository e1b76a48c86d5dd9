--------------------------- MODULE SreAgentProofs ---------------------------
(***************************************************************************)
(* Proofs about SreAgentOperations, for any number of requests, listings   *)
(* and children: the client owns one child at a time, leaves none behind,  *)
(* and so implements SingleChild.                                          *)
(*                                                                         *)
(* The invariant ties the three places a child can be known from: a        *)
(* session excludes a connection attempt, and a disposed client has        *)
(* neither.  It does not depend on the operations, which reach the session *)
(* only through the actions of McpSession.                                 *)
(*                                                                         *)
(* The idle timer cuts no counted call: WireInv compares the count with    *)
(* the calls on the wire, which all use the present session.  No answered  *)
(* thread is lost: ThreadInv says that who has read the thread file is the *)
(* first of its queue, so the file is still what was read.                 *)
(***************************************************************************)
EXTENDS SreAgentOperations, FiniteSetTheorems, SequenceTheorems, TLAPS

SessionInv ==
    /\ child \in [Children -> {"none", "starting", "live", "closing"}]
    /\ session \in Children \cup {None}
    /\ connecting \in Children \cup {None}
    /\ lifecycle \in {"up", "disposing", "closing", "disposed"}
    /\ NoOrphanChild
    /\ session # None => child[session] = "live" /\ connecting = None
    /\ connecting # None => child[connecting] \in {"starting", "closing"}
    /\ lifecycle \in {"closing", "disposed"} => session = None /\ connecting = None

\* The part of the state the invariant is about.
owned == <<child, session, connecting, lifecycle>>

LEMMA InitSessionInv == Init => SessionInv
  BY SessionAssumption DEF Init, SessionInit, SessionInv, NoOrphanChild, Open

LEMMA OwnedUnchanged ==
  ASSUME SessionInv, UNCHANGED owned
  PROVE  SessionInv'
  BY DEF SessionInv, owned, NoOrphanChild, Open

-----------------------------------------------------------------------------
(***************************************************************************)
(* The actions of the client                                               *)
(***************************************************************************)

LEMMA JoinKeeps ==
  ASSUME SessionInv, NEW c \in Callers, Join(c)
  PROVE  SessionInv'
  <1>1. CASE AttemptShared
    BY <1>1, OwnedUnchanged DEF Join, owned
  <1>2. CASE ~ AttemptShared
    <2>1. PICK t \in Children : /\ child[t] = "none" /\ connecting' = t
                                /\ child' = [child EXCEPT ![t] = "starting"]
      BY <1>2 DEF Join
    <2>2. connecting = None /\ session = None /\ lifecycle = "up"
      BY <1>2 DEF Join, AttemptShared, Refused, disposed
    <2>3. UNCHANGED <<session, lifecycle>>
      BY DEF Join
    <2>4. t # None
      BY SessionAssumption
    <2> QED BY <2>1, <2>2, <2>3, <2>4 DEF SessionInv, NoOrphanChild, Open
  <1> QED BY <1>1, <1>2

LEMMA BeginKeeps ==
  ASSUME SessionInv, NEW c \in Callers, Begin(c)
  PROVE  SessionInv'
  <1>1. CASE Join(c)
    BY <1>1, JoinKeeps
  <1>2. CASE Dispatch(c)
    BY <1>2, OwnedUnchanged DEF Dispatch, owned
  <1> QED BY <1>1, <1>2 DEF Begin

LEMMA EndCallKeeps ==
  ASSUME SessionInv, NEW c \in Callers, EndCall(c) \/ Abort(c)
  PROVE  SessionInv'
  BY OwnedUnchanged DEF EndCall, Abort, owned

LEMMA ConnectedKeeps ==
  ASSUME SessionInv, Connected
  PROVE  SessionInv'
  <1>1. connecting \in Children /\ child[connecting] = "starting" /\ session = None
    BY DEF Connected, SessionInv
  <1>2. UNCHANGED lifecycle
    BY DEF Connected
  <1>3. CASE KeepsConnection
    <2>1. child' = [child EXCEPT ![connecting] = "live"] /\ session' = connecting /\ connecting' = None
      BY <1>3 DEF Connected
    <2>2. lifecycle = "up"
      BY <1>3 DEF KeepsConnection, disposed
    <2> QED BY <1>1, <1>2, <2>1, <2>2 DEF SessionInv, NoOrphanChild, Open
  <1>4. CASE ~ KeepsConnection
    <2>1. child' = [child EXCEPT ![connecting] = "closing"] /\ UNCHANGED <<session, connecting>>
      BY <1>4 DEF Connected
    <2> QED BY <1>1, <1>2, <2>1 DEF SessionInv, NoOrphanChild, Open
  <1> QED BY <1>3, <1>4

LEMMA ConnectFailsKeeps ==
  ASSUME SessionInv, ConnectFails
  PROVE  SessionInv'
  BY DEF ConnectFails, SessionInv, NoOrphanChild, Open

LEMMA ChildEndsKeeps ==
  ASSUME SessionInv, NEW t \in Children, ChildEnds(t)
  PROVE  SessionInv'
  <1>1. child[t] = "closing" /\ child' = [child EXCEPT ![t] = "none"]
    BY DEF ChildEnds
  <1>2. connecting' = (IF connecting = t THEN None ELSE connecting) /\ UNCHANGED <<session, lifecycle>>
    BY DEF ChildEnds, AttemptAfterClose
  <1>3. session # t
    BY <1>1, SessionAssumption DEF SessionInv
  <1> QED BY <1>1, <1>2, <1>3 DEF SessionInv, NoOrphanChild, Open

LEMMA ChildDiesKeeps ==
  ASSUME SessionInv, NEW t \in Children, ChildDies(t)
  PROVE  SessionInv'
  <1>1. child[t] = "live" /\ child' = [child EXCEPT ![t] = "none"]
    BY DEF ChildDies
  <1>2. session' = (IF session = t THEN None ELSE session) /\ UNCHANGED <<connecting, lifecycle>>
    BY DEF ChildDies, SessionAfterClose
  <1> QED BY <1>1, <1>2 DEF SessionInv, NoOrphanChild, Open

\* disconnect(), whoever calls it, closes the child of the session.
LEMMA DisconnectKeeps ==
  ASSUME SessionInv, Disconnect, UNCHANGED connecting,
         lifecycle' \in {"up", "disposing", "closing", "disposed"},
         lifecycle' \in {"closing", "disposed"} => connecting = None
  PROVE  SessionInv'
  <1>1. CASE session = None
    BY <1>1 DEF Disconnect, SessionInv, NoOrphanChild, Open
  <1>2. CASE session # None
    <2>1. session \in Children /\ child' = [child EXCEPT ![session] = "closing"] /\ session' = None
      BY <1>2 DEF Disconnect, SessionInv
    <2> QED BY <1>2, <2>1 DEF SessionInv, NoOrphanChild, Open
  <1> QED BY <1>1, <1>2

LEMMA IdleFiresKeeps ==
  ASSUME SessionInv, IdleFires
  PROVE  SessionInv'
  <1>1. UNCHANGED <<connecting, lifecycle>>
    BY DEF IdleFires
  <1>2. CASE inFlight = 0
    <2>1. Disconnect
      BY <1>2 DEF IdleFires
    <2>2. lifecycle' \in {"up", "disposing", "closing", "disposed"}
          /\ (lifecycle' \in {"closing", "disposed"} => connecting = None)
      BY <1>1 DEF SessionInv
    <2> QED BY <1>1, <2>1, <2>2, DisconnectKeeps
  <1>3. CASE inFlight # 0
    BY <1>1, <1>3, OwnedUnchanged DEF IdleFires, owned
  <1> QED BY <1>2, <1>3

LEMMA DisposeKeeps ==
  ASSUME SessionInv, DisposeDisconnects \/ DisposeReturns
  PROVE  SessionInv'
  <1>1. CASE DisposeDisconnects
    <2>1. Disconnect /\ UNCHANGED connecting /\ lifecycle' = "closing" /\ connecting = None
      BY <1>1 DEF DisposeDisconnects, AttemptSettled
    <2> QED BY <2>1, DisconnectKeeps
  <1>2. CASE DisposeReturns
    BY <1>2 DEF DisposeReturns, SessionInv, NoOrphanChild, Open
  <1> QED BY <1>1, <1>2

LEMMA SessionStepKeeps ==
  ASSUME SessionInv, SessionStep
  PROVE  SessionInv'
  BY ConnectedKeeps, ConnectFailsKeeps, IdleFiresKeeps, ChildEndsKeeps, ChildDiesKeeps, DisposeKeeps
     DEF SessionStep

-----------------------------------------------------------------------------
(***************************************************************************)
(* The operations                                                          *)
(***************************************************************************)

LEMMA NextSessionInv == SessionInv /\ [Next]_vars => SessionInv'
  <1> SUFFICES ASSUME SessionInv, [Next]_vars PROVE SessionInv'
    OBVIOUS
  <1>0. Ops \subseteq Callers /\ Listers \subseteq Callers
    BY OpsAssumption
  <1>1. ASSUME NEW o \in Ops, Start(o) \/ Proceed(o) PROVE SessionInv'
    <2>1. Begin(o) \/ UNCHANGED sessionVars
      BY <1>1 DEF Start, Proceed
    <2> QED BY <1>0, <2>1, BeginKeeps, OwnedUnchanged DEF sessionVars, owned
  <1>2. ASSUME NEW o \in Ops, AgentResolved(o) \/ CallFails(o) \/ Answered(o) \/ Investigated(o)
        PROVE  SessionInv'
    BY <1>0, <1>2, EndCallKeeps DEF AgentResolved, CallFails, Answered, Investigated
  <1>3. ASSUME NEW o \in Ops, ReadThreads(o) \/ WriteThreads(o) PROVE SessionInv'
    BY <1>3, OwnedUnchanged DEF ReadThreads, WriteThreads, sessionVars, owned
  <1>4. ASSUME NEW k \in Keys, Cancel(k) PROVE SessionInv'
    BY <1>4, OwnedUnchanged DEF Cancel, Abort, owned
  <1>5. ASSUME NEW l \in Listers, ListTools(l) \/ Listed(l) PROVE SessionInv'
    BY <1>0, <1>5, BeginKeeps, EndCallKeeps DEF ListTools, Listed
  <1>6. CASE ClientStep
    BY <1>6, SessionStepKeeps DEF ClientStep
  <1>7. CASE Shutdown
    <2>1. lifecycle' = "disposing" /\ UNCHANGED <<child, session, connecting>>
      BY <1>7 DEF Shutdown, Dispose
    <2> QED BY <2>1 DEF SessionInv, NoOrphanChild, Open
  <1>8. CASE UNCHANGED vars
    BY <1>8, OwnedUnchanged DEF vars, sessionVars, owned
  <1> QED BY <1>1, <1>2, <1>3, <1>4, <1>5, <1>6, <1>7, <1>8 DEF Next

\* The inductive invariant holds throughout.
LEMMA SessionInvHolds == Spec => []SessionInv
  BY InitSessionInv, NextSessionInv, PTL DEF Spec

\* NoOrphanChild for any number of callers: every child that runs is the session or the
\* connection attempt (establish(), onclose, dispose()).
THEOREM NoOrphan == Spec => []NoOrphanChild
  <1>1. SessionInv => NoOrphanChild
    BY DEF SessionInv
  <1> QED BY <1>1, SessionInvHolds, PTL

\* NothingLeftBehind: when dispose() has returned, no child runs.
THEOREM NothingLeft == Spec => []NothingLeftBehind
  <1>1. SessionInv => NothingLeftBehind
    BY SessionAssumption DEF SessionInv, NothingLeftBehind, NoOrphanChild, Open
  <1> QED BY <1>1, SessionInvHolds, PTL

-----------------------------------------------------------------------------
(***************************************************************************)
(* The refinement: what the client does to its children, seen from the     *)
(* outside.  A step starts the only child, leaves none, or changes nothing.*)
(***************************************************************************)
over == lifecycle = "disposed"

Starts == Open = {} /\ ~ over /\ (\E t \in Children : Open' = {t}) /\ over' = over
Stops == Open' = {} /\ over' = over
Ends == Open = {} /\ over' = TRUE /\ Open' = Open
Stutters == Open' = Open /\ over' = over

Seen == Starts \/ Stops \/ Ends \/ Stutters

LEMMA OwnedSeen == UNCHANGED owned => Stutters
  BY DEF owned, Stutters, Open, over

LEMMA BeginSeen ==
  ASSUME SessionInv, NEW c \in Callers, Begin(c)
  PROVE  Seen
  <1>1. CASE Join(c) /\ ~ AttemptShared
    <2>1. PICK t \in Children : child[t] = "none" /\ child' = [child EXCEPT ![t] = "starting"]
      BY <1>1 DEF Join
    <2>2. connecting = None /\ session = None /\ lifecycle = "up" /\ lifecycle' = lifecycle
      BY <1>1 DEF Join, AttemptShared, Refused, disposed
    <2>3. Open = {}
      BY <2>2, SessionAssumption DEF SessionInv, NoOrphanChild, Open
    <2>4. Open' = {t}
      BY <2>1, <2>3 DEF Open, SessionInv
    <2> QED BY <2>2, <2>3, <2>4 DEF Seen, Starts, over
  <1>2. CASE Join(c) /\ AttemptShared
    BY <1>2, OwnedSeen DEF Join, owned, Seen
  <1>3. CASE Dispatch(c)
    BY <1>3, OwnedSeen DEF Dispatch, owned, Seen
  <1> QED BY <1>1, <1>2, <1>3 DEF Begin

LEMMA EndCallSeen ==
  ASSUME NEW c \in Callers, EndCall(c) \/ Abort(c)
  PROVE  Seen
  BY OwnedSeen DEF EndCall, Abort, owned, Seen

\* Only the child of the connection attempt starts, only that of the session is live.
LEMMA OpenFacts ==
  ASSUME SessionInv
  PROVE  /\ connecting # None => Open \subseteq {connecting}
         /\ session # None => Open = {session}
         /\ \A t \in Children : child[t] = "live" => t = session
  BY SessionAssumption DEF SessionInv, NoOrphanChild, Open

LEMMA SessionStepSeen ==
  ASSUME SessionInv, SessionStep
  PROVE  Seen
  <1>1. CASE Connected
    <2>1. connecting \in Children /\ child[connecting] = "starting" /\ lifecycle' = lifecycle
      BY <1>1 DEF Connected, SessionInv
    <2>2. CASE KeepsConnection
      <3>1. child' = [child EXCEPT ![connecting] = "live"]
        BY <1>1, <2>2 DEF Connected
      <3> QED BY <2>1, <3>1 DEF Seen, Stutters, Open, SessionInv, over
    <2>3. CASE ~ KeepsConnection
      <3>1. child' = [child EXCEPT ![connecting] = "closing"]
        BY <1>1, <2>3 DEF Connected
      <3>2. Open' = {}
        BY <2>1, <3>1, OpenFacts, SessionAssumption DEF Open, SessionInv
      <3> QED BY <2>1, <3>2 DEF Seen, Stops, over
    <2> QED BY <2>2, <2>3
  <1>2. CASE ConnectFails
    <2>1. connecting \in Children /\ child' = [child EXCEPT ![connecting] = "closing"] /\ lifecycle' = lifecycle
      BY <1>2 DEF ConnectFails, SessionInv
    <2>2. Open' = {}
      BY <2>1, OpenFacts, SessionAssumption DEF Open, SessionInv
    <2> QED BY <2>1, <2>2 DEF Seen, Stops, over
  <1>3. ASSUME NEW t \in Children, ChildEnds(t) PROVE Seen
    <2>1. child[t] = "closing" /\ child' = [child EXCEPT ![t] = "none"] /\ lifecycle' = lifecycle
      BY <1>3 DEF ChildEnds
    <2> QED BY <2>1 DEF Seen, Stutters, Open, SessionInv, over
  <1>4. ASSUME NEW t \in Children, ChildDies(t) PROVE Seen
    <2>1. child[t] = "live" /\ child' = [child EXCEPT ![t] = "none"] /\ lifecycle' = lifecycle
      BY <1>4 DEF ChildDies
    <2>2. t = session /\ session # None
      BY <2>1, OpenFacts, SessionAssumption
    <2>3. Open' = {}
      BY <2>1, <2>2, OpenFacts DEF Open, SessionInv
    <2> QED BY <2>1, <2>3 DEF Seen, Stops, over
  <1>5. ASSUME Disconnect PROVE Open' = {} \/ Open' = Open
    <2>1. CASE session = None
      BY <1>5, <2>1 DEF Disconnect, Open
    <2>2. CASE session # None
      <3>1. session \in Children /\ child' = [child EXCEPT ![session] = "closing"]
        BY <1>5, <2>2 DEF Disconnect, SessionInv
      <3> QED BY <2>2, <3>1, OpenFacts DEF Open, SessionInv
    <2> QED BY <2>1, <2>2
  <1>6. CASE IdleFires
    <2>1. lifecycle' = lifecycle /\ (Disconnect \/ UNCHANGED child)
      BY <1>6 DEF IdleFires
    <2> QED BY <1>5, <2>1 DEF Seen, Stops, Stutters, over, Open
  <1>7. CASE DisposeDisconnects
    <2>1. Disconnect /\ lifecycle = "disposing" /\ lifecycle' = "closing"
      BY <1>7 DEF DisposeDisconnects
    <2> QED BY <1>5, <2>1 DEF Seen, Stops, Stutters, over
  <1>8. CASE DisposeReturns
    <2>1. lifecycle = "closing" /\ lifecycle' = "disposed" /\ UNCHANGED child
      BY <1>8 DEF DisposeReturns
    <2>2. Open = {}
      BY <2>1, SessionAssumption DEF SessionInv, NoOrphanChild, Open
    <2> QED BY <2>1, <2>2 DEF Seen, Ends, Open, over
  <1> QED BY <1>1, <1>2, <1>3, <1>4, <1>6, <1>7, <1>8 DEF SessionStep

LEMMA NextSeen == SessionInv /\ [Next]_vars => Seen
  <1> SUFFICES ASSUME SessionInv, [Next]_vars PROVE Seen
    OBVIOUS
  <1>0. Ops \subseteq Callers /\ Listers \subseteq Callers
    BY OpsAssumption
  <1>1. ASSUME NEW o \in Ops, Start(o) \/ Proceed(o) PROVE Seen
    <2>1. Begin(o) \/ UNCHANGED owned
      BY <1>1 DEF Start, Proceed, sessionVars, owned
    <2> QED BY <1>0, <2>1, BeginSeen, OwnedSeen DEF Seen
  <1>2. ASSUME NEW o \in Ops, AgentResolved(o) \/ CallFails(o) \/ Answered(o) \/ Investigated(o)
        PROVE  Seen
    BY <1>0, <1>2, EndCallSeen DEF AgentResolved, CallFails, Answered, Investigated
  <1>3. ASSUME NEW o \in Ops, ReadThreads(o) \/ WriteThreads(o) PROVE Seen
    BY <1>3, OwnedSeen DEF ReadThreads, WriteThreads, sessionVars, owned, Seen
  <1>4. ASSUME NEW k \in Keys, Cancel(k) PROVE Seen
    BY <1>4, OwnedSeen DEF Cancel, Abort, owned, Seen
  <1>5. ASSUME NEW l \in Listers, ListTools(l) \/ Listed(l) PROVE Seen
    BY <1>0, <1>5, BeginSeen, EndCallSeen DEF ListTools, Listed
  <1>6. CASE ClientStep
    BY <1>6, SessionStepSeen DEF ClientStep
  <1>7. CASE Shutdown
    BY <1>7 DEF Shutdown, Dispose, Seen, Stutters, Open, over
  <1>8. CASE UNCHANGED vars
    BY <1>8, OwnedSeen DEF vars, sessionVars, owned, Seen
  <1> QED BY <1>1, <1>2, <1>3, <1>4, <1>5, <1>6, <1>7, <1>8 DEF Next

\* The detailed client implements SingleChild: OneChildAtATime, for any number of callers
\* and children (SreAgentMcpClient.ts, connect(), disconnect() and dispose()).
THEOREM ImplementsSingleChild == Spec => OneChildAtATime
  <1>1. Init => Single!Init
    BY DEF Init, SessionInit, Single!Init, Open
  <1>2. SessionInv /\ [Next]_vars => [Single!Next]_<<Open, lifecycle = "disposed">>
    <2> SUFFICES ASSUME SessionInv, [Next]_vars PROVE [Single!Next]_<<Open, lifecycle = "disposed">>
      OBVIOUS
    <2>1. Seen
      BY NextSeen
    <2> QED BY <2>1 DEF Seen, Starts, Stops, Ends, Stutters, over,
                        Single!Next, Single!Start, Single!Stop, Single!End
  <1> QED BY <1>1, <1>2, SessionInvHolds, PTL DEF Spec, OneChildAtATime, Single!Spec

-----------------------------------------------------------------------------
(***************************************************************************)
(* Cancellation                                                            *)
(***************************************************************************)
CallsInv ==
    /\ calls \in [Callers -> {"none", "waiting", "calling"}]
    /\ aborted \subseteq Callers

\* What the client knows of its callers, and the service of its operations.
RegistryInv ==
    /\ kind \in [Ops -> Kinds]
    /\ phase \in [Ops -> {"idle", "resolving", "resolved", "asking", "recording", "read", "done"}]
    /\ active \in [Keys -> Ops \cup {NoOp}]
    /\ \A k \in Keys, o \in Ops : active[k] = o => Key(o) = k /\ Running(o)
    /\ \A o \in Ops : Running(o) /\ kind[o] # "discover-agents" => active[o] = o \/ o \in aborted

\* No cancelled caller begins to send.
Silent ==
    /\ aborted \subseteq aborted'
    /\ \A c \in aborted : calls'[c] = "calling" => calls[c] = "calling"

LEMMA BeginIsSilent ==
  ASSUME CallsInv, NEW c \in Callers, Begin(c)
  PROVE  CallsInv' /\ Silent
  BY DEF Begin, Join, Dispatch, Refused, CallsInv, Silent

LEMMA EndCallsIsSilent ==
  ASSUME CallsInv, NEW cs, NEW current, EndCalls(cs, current)
  PROVE  /\ calls' \in [Callers -> {"none", "waiting", "calling"}]
         /\ \A c \in aborted : calls'[c] = "calling" => calls[c] = "calling"
  BY DEF EndCalls, CallsInv

LEMMA EndCallIsSilent ==
  ASSUME CallsInv, NEW c \in Callers, EndCall(c) \/ Abort(c)
  PROVE  CallsInv' /\ Silent
  <1>1. CASE EndCall(c)
    BY <1>1, EndCallsIsSilent DEF EndCall, CallsInv, Silent
  <1>2. CASE Abort(c)
    BY <1>2, EndCallsIsSilent DEF Abort, CallsInv, Silent
  <1> QED BY <1>1, <1>2

LEMMA SessionStepIsSilent ==
  ASSUME CallsInv, SessionStep
  PROVE  CallsInv' /\ Silent
  <1>1. CASE Connected
    <2>1. CASE KeepsConnection
      <3>1. calls' = [c \in Callers |-> IF c \in SentAtStart THEN "calling"
                                        ELSE IF c \in Waiting THEN "none" ELSE calls[c]]
            /\ UNCHANGED aborted
        BY <1>1, <2>1 DEF Connected
      <3> QED BY <3>1 DEF CallsInv, Silent, SentAtStart
    <2>2. CASE ~ KeepsConnection
      BY <1>1, <2>2 DEF Connected, CallsInv, Silent
    <2> QED BY <2>1, <2>2
  <1>2. CASE ConnectFails \/ IdleFires \/ DisposeDisconnects \/ DisposeReturns
    BY <1>2 DEF ConnectFails, IdleFires, DisposeDisconnects, DisposeReturns, CallsInv, Silent
  <1>3. ASSUME NEW t \in Children, ChildEnds(t) \/ ChildDies(t) PROVE CallsInv' /\ Silent
    <2>1. UNCHANGED aborted /\ \E cs, current : EndCalls(cs, current)
      BY <1>3 DEF ChildEnds, ChildDies
    <2> QED BY <2>1, EndCallsIsSilent DEF CallsInv, Silent
  <1> QED BY <1>1, <1>2, <1>3 DEF SessionStep

LEMMA NextIsSilent == CallsInv /\ RegistryInv /\ [Next]_vars => CallsInv' /\ Silent
  <1> SUFFICES ASSUME CallsInv, RegistryInv, [Next]_vars PROVE CallsInv' /\ Silent
    OBVIOUS
  <1>0. Ops \subseteq Callers /\ Listers \subseteq Callers
    BY OpsAssumption
  <1>u. UNCHANGED sessionVars => CallsInv' /\ Silent
    BY DEF sessionVars, CallsInv, Silent
  <1>1. ASSUME NEW o \in Ops, Start(o) \/ Proceed(o) PROVE CallsInv' /\ Silent
    <2>1. Begin(o) \/ UNCHANGED sessionVars
      BY <1>1 DEF Start, Proceed
    <2> QED BY <1>0, <1>u, <2>1, BeginIsSilent
  <1>2. ASSUME NEW o \in Ops, AgentResolved(o) \/ CallFails(o) \/ Answered(o) \/ Investigated(o)
        PROVE  CallsInv' /\ Silent
    <2>1. EndCall(o)
      BY <1>2 DEF AgentResolved, CallFails, Answered, Investigated
    <2> QED BY <1>0, <2>1, EndCallIsSilent
  <1>3. ASSUME NEW o \in Ops, ReadThreads(o) \/ WriteThreads(o) PROVE CallsInv' /\ Silent
    BY <1>3, <1>u DEF ReadThreads, WriteThreads
  <1>4. ASSUME NEW k \in Keys, Cancel(k) PROVE CallsInv' /\ Silent
    <2>1. active[k] \in Callers /\ Abort(active[k])
      BY <1>0, <1>4 DEF Cancel, RegistryInv
    <2> QED BY <2>1, EndCallIsSilent
  <1>5. ASSUME NEW l \in Listers, ListTools(l) \/ Listed(l) PROVE CallsInv' /\ Silent
    BY <1>0, <1>5, BeginIsSilent, EndCallIsSilent DEF ListTools, Listed
  <1>6. CASE ClientStep
    BY <1>6, SessionStepIsSilent DEF ClientStep
  <1>7. CASE Shutdown
    <2>1. aborted' = aborted \cup Registered /\ EndCalls(Registered \cap OnWire, None)
      BY <1>7 DEF Shutdown
    <2> QED BY <1>0, <2>1, EndCallsIsSilent DEF CallsInv, Silent, Registered
  <1>8. CASE UNCHANGED vars
    BY <1>8, <1>u DEF vars
  <1> QED BY <1>1, <1>2, <1>3, <1>4, <1>5, <1>6, <1>7, <1>8 DEF Next

\* What ends is no longer registered, and what is not ended stays so.
LEMMA FinishKeeps ==
  ASSUME RegistryInv, NEW os \in SUBSET Ops, NEW how, Finish(os, how),
         UNCHANGED kind, aborted \subseteq aborted'
  PROVE  RegistryInv'
  <1>1. phase' = [o \in Ops |-> IF o \in os THEN "done" ELSE phase[o]]
    BY DEF Finish
  <1>2. active' = [k \in Keys |-> IF \E o \in os : Key(o) = k THEN NoOp ELSE active[k]]
    BY DEF Finish, Deregister
  <1>3. \A o \in Ops : Key(o)' = Key(o)
    BY DEF Key
  <1>4. \A o \in Ops : kind[o] # "discover-agents" => Key(o) = o
    BY DEF Key
  <1>5. active' \in [Keys -> Ops \cup {NoOp}]
    BY <1>2 DEF RegistryInv
  <1>6. ASSUME NEW k \in Keys, NEW o \in Ops, active'[k] = o
        PROVE  Key(o)' = k /\ Running(o)'
    <2>1. active[k] = o /\ ~ \E p \in os : Key(p) = k
      BY <1>2, <1>6, OpsAssumption
    <2>2. Key(o) = k /\ Running(o) /\ o \notin os
      BY <2>1 DEF RegistryInv
    <2> QED BY <1>1, <1>3, <2>2 DEF Running
  <1>7. ASSUME NEW o \in Ops, Running(o)', kind'[o] # "discover-agents"
        PROVE  active'[o] = o \/ o \in aborted'
    <2>1. o \notin os /\ Running(o)
      BY <1>1, <1>7 DEF Running
    <2>2. CASE active[o] = o
      <3>1. ASSUME NEW p \in os, Key(p) = o PROVE FALSE
        BY <1>7, <2>1, <3>1, OpsAssumption DEF Key
      <3> QED BY <1>2, <2>2, <3>1 DEF Keys
    <2> QED BY <1>7, <2>1, <2>2 DEF RegistryInv
  <1> QED BY <1>1, <1>5, <1>6, <1>7 DEF RegistryInv

LEMMA NextRegistry == CallsInv /\ RegistryInv /\ [Next]_vars => RegistryInv'
  <1> SUFFICES ASSUME CallsInv, RegistryInv, [Next]_vars PROVE RegistryInv'
    OBVIOUS
  <1>0. aborted \subseteq aborted'
    BY NextIsSilent DEF Silent
  <1>k. \A o \in Ops : Key(o) \in Keys
    BY DEF Key, Keys
  \* An operation that goes from one phase to the next and stays registered.
  <1>p. ASSUME NEW o \in Ops, Running(o), NEW p \in {"resolving", "resolved", "asking"},
               phase' = [phase EXCEPT ![o] = p], UNCHANGED <<kind, active>>
        PROVE  RegistryInv'
    BY <1>0, <1>p DEF RegistryInv, Running, Key
  \* An operation that was over before, or is not registered any more.
  <1>q. ASSUME NEW o \in Ops, phase[o] \in {"recording", "read"}, NEW p \in {"read", "done"},
               phase' = [phase EXCEPT ![o] = p], UNCHANGED <<kind, active>>
        PROVE  RegistryInv'
    BY <1>0, <1>q DEF RegistryInv, Running, Key
  <1>1. ASSUME NEW o \in Ops, Start(o) PROVE RegistryInv'
    <2>1. CASE Refused(o)
      BY <1>0, <1>1, <2>1, FinishKeeps DEF Start
    <2>2. CASE ~ Refused(o)
      <3>1. PICK p \in {"resolving", "asking"} : phase' = [phase EXCEPT ![o] = p]
        BY <1>1, <2>2 DEF Start
      <3>2. active' = [active EXCEPT ![Key(o)] = o] /\ UNCHANGED kind /\ phase[o] = "idle"
        BY <1>1, <2>2 DEF Start
      <3>3. \A q \in Ops : Running(q) => q # o
        BY <3>2 DEF Running
      <3>4. \A q \in Ops : q # o /\ kind[q] # "discover-agents" => Key(o) # q
        BY OpsAssumption DEF Key
      <3>5. kind[o] # "discover-agents" => Key(o) = o
        BY DEF Key
      <3> QED BY <1>0, <1>k, <3>1, <3>2, <3>3, <3>4, <3>5 DEF RegistryInv, Running, Key, Keys
    <2> QED BY <2>1, <2>2
  <1>2. ASSUME NEW o \in Ops, AgentResolved(o) PROVE RegistryInv'
    BY <1>2, <1>p DEF AgentResolved, Running
  <1>3. ASSUME NEW o \in Ops, Proceed(o) PROVE RegistryInv'
    <2>1. CASE Refused(o)
      BY <1>0, <1>3, <2>1, FinishKeeps DEF Proceed
    <2>2. CASE ~ Refused(o)
      BY <1>3, <2>2, <1>p DEF Proceed, Running
    <2> QED BY <2>1, <2>2
  <1>4. ASSUME NEW o \in Ops, CallFails(o) \/ Answered(o) PROVE RegistryInv'
    BY <1>0, <1>4, FinishKeeps DEF CallFails, Answered
  <1>5. ASSUME NEW o \in Ops, Investigated(o) PROVE RegistryInv'
    <2>1. phase' = [phase EXCEPT ![o] = "recording"] /\ UNCHANGED kind /\ kind[o] = "investigate"
      BY <1>5 DEF Investigated
    <2>2. active' = [k \in Keys |-> IF Key(o) = k THEN NoOp ELSE active[k]]
      BY <1>5 DEF Investigated, Deregister
    <2>3. Key(o) = o /\ \A q \in Ops : Key(q) = o => q = o
      BY <2>1, OpsAssumption DEF Key
    <2> QED BY <1>0, <2>1, <2>2, <2>3, OpsAssumption DEF RegistryInv, Running, Key, Keys
  <1>6. ASSUME NEW k \in Keys, Cancel(k) PROVE RegistryInv'
    <2> DEFINE o == active[k]
    <2>1. o \in Ops /\ Key(o) = k /\ Running(o)
      BY <1>6 DEF Cancel, RegistryInv
    <2>2. /\ phase' = [phase EXCEPT ![o] = "done"] \/ phase' = phase
          /\ active' = [active EXCEPT ![k] = NoOp] /\ UNCHANGED kind /\ o \in aborted'
      BY <1>6 DEF Cancel, Abort
    <2>3. \A j \in Keys : active[j] = o => j = k
      BY <2>1 DEF RegistryInv
    <2>4. \A q \in Ops : kind[q] # "discover-agents" /\ q # o => q # k
      BY <2>1, OpsAssumption DEF Key
    <2> HIDE DEF o
    <2> QED BY <1>0, <2>1, <2>2, <2>3, <2>4, OpsAssumption DEF RegistryInv, Running, Key, Keys
  <1>7. ASSUME NEW o \in Ops, ReadThreads(o) \/ WriteThreads(o) PROVE RegistryInv'
    BY <1>7, <1>q DEF ReadThreads, WriteThreads
  <1>8. CASE ClientStep
    <2> DEFINE lost == {o \in Ops : calls[o] # "none" /\ calls'[o] = "none"}
    <2>1. lost \in SUBSET Ops
      OBVIOUS
    <2>2. Finish(lost, "failed") /\ UNCHANGED kind
      BY <1>8 DEF ClientStep, OpsFollow
    <2> QED BY <1>0, <2>1, <2>2, FinishKeeps
  <1>9. CASE Shutdown
    <2>1. active' = [k \in Keys |-> NoOp] /\ UNCHANGED kind /\ aborted' = aborted \cup Registered
      BY <1>9 DEF Shutdown
    <2>2. phase' = [o \in Ops |-> IF o \in Registered \cap OnWire THEN "done" ELSE phase[o]]
      BY <1>9 DEF Shutdown
    <2>3. \A o \in Ops : active[o] = o => o \in Registered
      BY DEF Registered, Keys
    <2> QED BY <2>1, <2>2, <2>3, OpsAssumption DEF RegistryInv, Running
  <1>10. ASSUME UNCHANGED opVars PROVE RegistryInv'
    BY <1>0, <1>10 DEF opVars, RegistryInv, Running, Key
  <1>11. ASSUME NEW l \in Listers, ListTools(l) \/ Listed(l) PROVE RegistryInv'
    BY <1>10, <1>11 DEF ListTools, Listed
  <1> QED BY <1>1, <1>2, <1>3, <1>4, <1>5, <1>6, <1>7, <1>8, <1>9, <1>10, <1>11 DEF Next, vars

LEMMA CancellationHolds == Spec => [](CallsInv /\ RegistryInv)
  <1>1. Init => CallsInv /\ RegistryInv
    BY OpsAssumption DEF Init, SessionInit, Requests, CallsInv, RegistryInv, Running
  <1> QED BY <1>1, NextIsSilent, NextRegistry, PTL DEF Spec

\* InvestigationCancellable for any number of requests (withCancellableOperation(),
\* cancel() and shutdown()).
THEOREM Cancellable == Spec => []InvestigationCancellable
  <1>1. RegistryInv => InvestigationCancellable
    BY DEF RegistryInv, InvestigationCancellable, Registered, Keys
  <1> QED BY <1>1, CancellationHolds, PTL

\* CancelledStaysSilent for any number of callers (callTool(), connect()).
THEOREM CancelledIsSilent == Spec => CancelledStaysSilent
  <1>1. CallsInv /\ RegistryInv /\ [Next]_vars
          => [\A c \in aborted : calls'[c] = "calling" => calls[c] = "calling"]_sessionVars
    BY NextIsSilent DEF Silent
  <1> QED BY <1>1, CancellationHolds, PTL DEF Spec, CancelledStaysSilent

-----------------------------------------------------------------------------
(***************************************************************************)
(* The idle shutdown                                                       *)
(***************************************************************************)
Wired == {c \in Callers : calls[c] = "calling"}

\* While the backend is up, what the client has counted covers the counted calls on the
\* wire, and those use the session.
WireInv ==
    /\ SessionInv /\ CallsInv
    /\ inFlight \in Nat /\ DOMAIN via = Callers
    /\ ~ disposed =>
          /\ Counted(Wired) <= inFlight
          /\ \A c \in Wired \ Listers : via[c] = session /\ session # None

\* The calls the client counts among those of some callers.
LEMMA CountedNat ==
  ASSUME NEW cs \in SUBSET Callers
  PROVE  Counted(cs) \in Nat /\ IsFiniteSet(cs \ Listers) /\ (Counted(cs) = 0 <=> cs \subseteq Listers)
  <1>1. IsFiniteSet(cs \ Listers)
    BY SessionAssumption, FS_Subset
  <1>2. Counted(cs) \in Nat /\ (Counted(cs) = 0 <=> cs \ Listers = {})
    BY <1>1, FS_CardinalityType, FS_EmptySet DEF Counted
  <1> QED BY <1>1, <1>2

LEMMA CountedLess ==
  ASSUME NEW cs \in SUBSET Callers, NEW ds \in SUBSET cs
  PROVE  Counted(cs \ ds) = Counted(cs) - Counted(ds) /\ Counted(ds) <= Counted(cs)
  <1>1. IsFiniteSet(cs \ Listers)
    BY CountedNat
  <1>2. (cs \ ds) \ Listers = (cs \ Listers) \ (ds \ Listers)
        /\ (cs \ Listers) \cap (ds \ Listers) = ds \ Listers
    OBVIOUS
  <1>3. Cardinality((cs \ Listers) \ (ds \ Listers))
          = Cardinality(cs \ Listers) - Cardinality((cs \ Listers) \cap (ds \ Listers))
    BY <1>1, FS_Difference
  <1>4. Cardinality(ds \ Listers) <= Cardinality(cs \ Listers)
    BY <1>1, FS_Subset
  <1> QED BY <1>2, <1>3, <1>4 DEF Counted

LEMMA CountedMore ==
  ASSUME NEW cs \in SUBSET Callers, NEW ds \in SUBSET Callers
  PROVE  Counted(cs \cup ds) <= Counted(cs) + Counted(ds)
  <1>1. IsFiniteSet(cs \ Listers) /\ IsFiniteSet(ds \ Listers)
    BY CountedNat
  <1> DEFINE A == cs \ Listers
             D == ds \ Listers
  <1>2. (cs \cup ds) \ Listers = A \cup D
    OBVIOUS
  <1>3. Cardinality(A \cap D) \in Nat /\ Cardinality(A) \in Nat /\ Cardinality(D) \in Nat
    BY <1>1, FS_Subset, FS_CardinalityType
  <1>4. Cardinality(A \cup D) = Cardinality(A) + Cardinality(D) - Cardinality(A \cap D)
    BY <1>1, FS_Union
  <1>5. Counted(cs) = Cardinality(A) /\ Counted(ds) = Cardinality(D)
        /\ Counted(cs \cup ds) = Cardinality(A \cup D)
    BY <1>2 DEF Counted
  <1> HIDE DEF A, D
  <1> QED BY <1>3, <1>4, <1>5

\* Calls on the wire that end are no longer counted; where none is counted, none is after.
LEMMA EndCallsCovered ==
  ASSUME WireInv, NEW cs \in SUBSET Callers, NEW current, EndCalls(cs, current),
         ~ disposed => cs \subseteq Wired \/ Wired \subseteq Listers
  PROVE  /\ inFlight' \in Nat /\ DOMAIN via' = Callers
         /\ Wired' = Wired \ cs /\ \A c \in Wired' : via'[c] = via[c]
         /\ ~ disposed => Counted(Wired') <= inFlight'
  <1>1. /\ calls' = [c \in Callers |-> IF c \in cs THEN "none" ELSE calls[c]]
        /\ via' = [c \in Callers |-> IF c \in cs THEN None ELSE via[c]]
        /\ inFlight' = IF inFlight > Counted(cs) THEN inFlight - Counted(cs) ELSE 0
    BY DEF EndCalls, Counts
  <1>2. Counted(cs) \in Nat /\ inFlight \in Nat
    BY CountedNat DEF WireInv
  <1>3. Wired' = Wired \ cs /\ \A c \in Wired' : via'[c] = via[c]
    BY <1>1 DEF Wired
  <1>4. ASSUME ~ disposed PROVE Counted(Wired') <= inFlight'
    <2>1. Wired \in SUBSET Callers /\ Counted(Wired) \in Nat /\ Counted(Wired) <= inFlight
      BY <1>4, CountedNat DEF WireInv, Wired
    <2>2. CASE cs \subseteq Wired
      <3>1. Counted(Wired \ cs) = Counted(Wired) - Counted(cs) /\ Counted(cs) <= Counted(Wired)
        BY <2>1, <2>2, CountedLess
      <3> QED BY <1>1, <1>2, <1>3, <2>1, <3>1
    <2>3. CASE Wired \subseteq Listers
      <3>1. Counted(Wired') = 0
        BY <1>3, <2>1, <2>3, CountedNat
      <3> QED BY <1>1, <1>2, <3>1
    <2> QED BY <1>4, <2>2, <2>3
  <1> QED BY <1>1, <1>2, <1>3, <1>4

\* Calls that end leave the others on the session.
LEMMA EndCallsWires ==
  ASSUME WireInv, SessionInv', CallsInv', NEW cs \in SUBSET Wired, NEW current,
         EndCalls(cs, current), UNCHANGED session, ~ disposed' => ~ disposed
  PROVE  WireInv'
  <1>1. cs \in SUBSET Callers
    BY DEF Wired
  <1>2. /\ inFlight' \in Nat /\ DOMAIN via' = Callers
        /\ Wired' = Wired \ cs /\ \A c \in Wired' : via'[c] = via[c]
        /\ ~ disposed => Counted(Wired') <= inFlight'
    BY <1>1, EndCallsCovered
  <1> QED BY <1>2 DEF WireInv

LEMMA BeginWires ==
  ASSUME WireInv, SessionInv', CallsInv', NEW c \in Callers, Begin(c)
  PROVE  WireInv'
  <1>1. CASE Join(c)
    <2>1. Wired' = Wired /\ UNCHANGED <<inFlight, via, session, lifecycle>>
      BY <1>1 DEF Join, Wired, WireInv, CallsInv
    <2> QED BY <2>1 DEF WireInv, disposed
  <1>2. CASE Dispatch(c)
    <2>1. /\ Wired' = Wired \cup {c} /\ inFlight' = inFlight + Counted({c})
          /\ via' = [via EXCEPT ![c] = session] /\ session # None
          /\ UNCHANGED <<session, lifecycle>>
      BY <1>2 DEF Dispatch, Wired, WireInv, CallsInv, Counts
    <2>2. /\ Wired \in SUBSET Callers /\ {c} \in SUBSET Callers /\ c \notin Wired
          /\ Counted(Wired) \in Nat /\ Counted({c}) \in Nat /\ Counted(Wired \cup {c}) \in Nat
          /\ inFlight \in Nat /\ DOMAIN via = Callers
      BY <1>2, CountedNat DEF Wired, WireInv, Dispatch
    <2>3. Counted(Wired \cup {c}) <= Counted(Wired) + Counted({c})
      BY <2>2, CountedMore
    <2>4. ASSUME ~ disposed PROVE Counted(Wired') <= inFlight'
      BY <2>1, <2>2, <2>3, <2>4 DEF WireInv
    <2> QED BY <2>1, <2>2, <2>4 DEF WireInv, disposed
  <1> QED BY <1>1, <1>2 DEF Begin

LEMMA EndCallWires ==
  ASSUME WireInv, SessionInv', CallsInv', NEW c \in Callers, EndCall(c) \/ Abort(c)
  PROVE  WireInv'
  <1>1. CASE EndCall(c)
    <2>1. {c} \in SUBSET Wired /\ EndCalls({c}, session) /\ UNCHANGED <<session, lifecycle>>
      BY <1>1 DEF EndCall, Wired
    <2> QED BY <2>1, EndCallsWires DEF disposed
  <1>2. CASE Abort(c)
    <2>1. /\ ({c} \cap Wired) \in SUBSET Wired /\ EndCalls({c} \cap Wired, session)
          /\ UNCHANGED <<session, lifecycle>>
      BY <1>2 DEF Abort, Wired
    <2> QED BY <2>1, EndCallsWires DEF disposed
  <1> QED BY <1>1, <1>2

LEMMA NoSessionNoCount ==
  ASSUME WireInv, ~ disposed, session = None
  PROVE  Wired \subseteq Listers
  BY DEF WireInv

LEMMA SessionStepWires ==
  ASSUME WireInv, SessionInv', CallsInv', SessionStep
  PROVE  WireInv'
  <1>1. CASE Connected
    <2>1. connecting # None /\ session = None /\ UNCHANGED lifecycle
      BY <1>1 DEF Connected, WireInv, SessionInv
    <2>2. CASE KeepsConnection
      <3>1. /\ session' = connecting
            /\ calls' = [c \in Callers |-> IF c \in SentAtStart THEN "calling"
                                           ELSE IF c \in Waiting THEN "none" ELSE calls[c]]
            /\ via' = [c \in Callers |-> IF c \in SentAtStart THEN connecting ELSE via[c]]
            /\ inFlight' = inFlight + Counted(SentAtStart)
        BY <1>1, <2>2 DEF Connected, Counts
      <3>2. Wired \subseteq Listers
        BY <2>1, <2>2, NoSessionNoCount DEF KeepsConnection
      <3>3. Wired' = SentAtStart \cup Wired
        BY <3>1 DEF Wired, SentAtStart, Waiting
      <3>4. SentAtStart \in SUBSET Callers /\ Wired \in SUBSET Callers
        BY DEF SentAtStart, Waiting, Wired
      <3>5. /\ Counted(SentAtStart) \in Nat /\ Counted(Wired) = 0 /\ inFlight \in Nat
            /\ Counted(SentAtStart \cup Wired) \in Nat
            /\ Counted(SentAtStart \cup Wired) <= Counted(SentAtStart) + Counted(Wired)
        BY <3>2, <3>4, CountedNat, CountedMore DEF WireInv
      <3>6. inFlight' \in Nat /\ Counted(Wired') <= inFlight'
        BY <3>1, <3>3, <3>5
      <3>7. \A c \in Wired' \ Listers : via'[c] = session' /\ session' # None
        BY <2>1, <3>1, <3>2, <3>3, <3>4
      <3> QED BY <3>1, <3>6, <3>7 DEF WireInv
    <2>3. CASE ~ KeepsConnection
      <3>1. disposed' /\ UNCHANGED <<inFlight, via>>
        BY <1>1, <2>1, <2>3 DEF Connected, KeepsConnection, disposed
      <3> QED BY <3>1 DEF WireInv
    <2> QED BY <2>2, <2>3
  <1>2. CASE ConnectFails
    BY <1>2 DEF ConnectFails, WireInv, Wired, disposed
  <1>3. CASE IdleFires
    <2>1. UNCHANGED <<inFlight, calls, via, lifecycle>> /\ Wired' = Wired
      BY <1>3 DEF IdleFires, Wired
    <2>2. CASE inFlight = 0
      <3>1. ASSUME ~ disposed PROVE Wired \subseteq Listers
        <4>1. Counted(Wired) \in Nat /\ Counted(Wired) <= 0
          BY <2>2, <3>1, CountedNat DEF WireInv, Wired
        <4>2. Counted(Wired) = 0 /\ Wired \in SUBSET Callers
          BY <4>1 DEF Wired
        <4> QED BY <4>2, CountedNat
      <3> QED BY <2>1, <3>1 DEF WireInv, disposed
    <2>3. CASE inFlight # 0
      BY <1>3, <2>1, <2>3 DEF IdleFires, WireInv, disposed
    <2> QED BY <2>2, <2>3
  <1>4. ASSUME NEW t \in Children, ChildEnds(t) PROVE WireInv'
    <2> DEFINE cs == CallsVia(t) \cup (IF connecting = t THEN Waiting ELSE {})
    <2>1. /\ cs \in SUBSET Callers /\ EndCalls(cs, session) /\ child[t] = "closing"
          /\ UNCHANGED <<session, lifecycle>>
      BY <1>4 DEF ChildEnds, CallsVia, Waiting
    <2>2. CallsVia(t) \subseteq Wired
      BY DEF CallsVia, Wired
    <2>3. ~ disposed => cs \subseteq Wired \/ Wired \subseteq Listers
      <3>1. CASE connecting = t
        <4>1. session = None
          BY <3>1, SessionAssumption DEF WireInv, SessionInv
        <4> QED BY <4>1, NoSessionNoCount
      <3>2. CASE connecting # t
        BY <2>2, <3>2
      <3> QED BY <3>1, <3>2
    <2> HIDE DEF cs
    <2>4. /\ inFlight' \in Nat /\ DOMAIN via' = Callers
          /\ Wired' = Wired \ cs /\ \A c \in Wired' : via'[c] = via[c]
          /\ ~ disposed => Counted(Wired') <= inFlight'
      BY <2>1, <2>3, EndCallsCovered
    <2> QED BY <2>1, <2>4 DEF WireInv, disposed
  <1>5. ASSUME NEW t \in Children, ChildDies(t) PROVE WireInv'
    <2>1. /\ CallsVia(t) \in SUBSET Callers /\ EndCalls(CallsVia(t), session')
          /\ child[t] = "live" /\ UNCHANGED lifecycle
      BY <1>5 DEF ChildDies, CallsVia
    <2>2. t = session /\ CallsVia(t) \subseteq Wired
      BY <2>1, OpenFacts DEF WireInv, CallsVia, Wired
    <2>3. /\ inFlight' \in Nat /\ DOMAIN via' = Callers
          /\ Wired' = Wired \ CallsVia(t)
          /\ ~ disposed => Counted(Wired') <= inFlight'
      BY <2>1, <2>2, EndCallsCovered
    <2>4. ~ disposed => Wired' \subseteq Listers
      BY <2>2, <2>3 DEF WireInv, CallsVia, Wired
    <2> QED BY <2>1, <2>3, <2>4 DEF WireInv, disposed
  <1>6. CASE DisposeDisconnects \/ DisposeReturns
    <2>1. disposed' /\ UNCHANGED <<inFlight, via>>
      BY <1>6 DEF DisposeDisconnects, DisposeReturns, disposed
    <2> QED BY <2>1 DEF WireInv
  <1> QED BY <1>1, <1>2, <1>3, <1>4, <1>5, <1>6 DEF SessionStep

LEMMA NextWireInv == WireInv /\ RegistryInv /\ [Next]_vars => WireInv'
  <1> SUFFICES ASSUME WireInv, RegistryInv, [Next]_vars PROVE WireInv'
    OBVIOUS
  <1>0. Ops \subseteq Callers /\ Listers \subseteq Callers /\ SessionInv' /\ CallsInv'
    BY OpsAssumption, NextSessionInv, NextIsSilent DEF WireInv
  <1>u. ASSUME UNCHANGED sessionVars PROVE WireInv'
    BY <1>0, <1>u DEF sessionVars, WireInv, Wired, disposed
  <1>1. ASSUME NEW o \in Ops, Start(o) \/ Proceed(o) PROVE WireInv'
    <2>1. Begin(o) \/ UNCHANGED sessionVars
      BY <1>1 DEF Start, Proceed
    <2> QED BY <1>0, <1>u, <2>1, BeginWires
  <1>2. ASSUME NEW o \in Ops, AgentResolved(o) \/ CallFails(o) \/ Answered(o) \/ Investigated(o)
        PROVE  WireInv'
    <2>1. EndCall(o)
      BY <1>2 DEF AgentResolved, CallFails, Answered, Investigated
    <2> QED BY <1>0, <2>1, EndCallWires
  <1>3. ASSUME NEW o \in Ops, ReadThreads(o) \/ WriteThreads(o) PROVE WireInv'
    BY <1>3, <1>u DEF ReadThreads, WriteThreads
  <1>4. ASSUME NEW k \in Keys, Cancel(k) PROVE WireInv'
    <2>1. active[k] \in Callers /\ Abort(active[k])
      BY <1>0, <1>4 DEF Cancel, RegistryInv
    <2> QED BY <1>0, <2>1, EndCallWires
  <1>5. ASSUME NEW l \in Listers, ListTools(l) \/ Listed(l) PROVE WireInv'
    BY <1>0, <1>5, BeginWires, EndCallWires DEF ListTools, Listed
  <1>6. CASE ClientStep
    BY <1>0, <1>6, SessionStepWires DEF ClientStep
  <1>7. CASE Shutdown
    <2>1. /\ disposed' /\ EndCalls(Registered \cap OnWire, None) /\ UNCHANGED session
          /\ (Registered \cap OnWire) \in SUBSET Wired
      BY <1>0, <1>7 DEF Shutdown, Dispose, disposed, OnWire, Wired
    <2> QED BY <1>0, <2>1, EndCallsWires
  <1>8. CASE UNCHANGED vars
    BY <1>8, <1>u DEF vars
  <1> QED BY <1>1, <1>2, <1>3, <1>4, <1>5, <1>6, <1>7, <1>8 DEF Next

\* IdleSparesCalls for any number of callers and children: what is in flight is counted
\* while its child is the session, which the idle timer closes only when nothing is.
THEOREM CallsAreSpared == Spec => []IdleSparesCalls
  <1>1. Init => WireInv
    <2> SUFFICES ASSUME Init PROVE WireInv
      OBVIOUS
    <2>1. Wired = {} /\ Wired \in SUBSET Callers
      BY DEF Init, SessionInit, Wired
    <2>2. Counted(Wired) = 0
      BY <2>1, CountedNat
    <2>3. CallsInv /\ inFlight = 0 /\ DOMAIN via = Callers
      BY DEF Init, SessionInit, CallsInv
    <2> QED BY <2>1, <2>2, <2>3, InitSessionInv DEF WireInv
  <1>2. Spec => []WireInv
    BY <1>1, CancellationHolds, NextWireInv, PTL DEF Spec
  <1>3. WireInv => IdleSparesCalls
    BY DEF WireInv, SessionInv, IdleSparesCalls, Wired
  <1> QED BY <1>2, <1>3, PTL

-----------------------------------------------------------------------------
(***************************************************************************)
(* The thread file                                                         *)
(***************************************************************************)
\* The operations with a call, or waiting to send it, are those that await its answer.
Awaits(o) == phase[o] \in {"resolving", "asking"}
Recording(o) == phase[o] \in {"recording", "read"}

\* The operations that have queued for the file, each once; only the first has read it.
ThreadInv ==
    /\ CallsInv /\ RegistryInv
    /\ \A o \in Ops : calls[o] # "none" => Awaits(o)
    /\ queue \in Seq(Ops)
    /\ \A o \in Ops : Recording(o) <=> \E i \in DOMAIN queue : queue[i] = o
    /\ \A i, j \in DOMAIN queue : queue[i] = queue[j] => i = j
    /\ \A i \in DOMAIN queue : phase[queue[i]] = "read" => i = 1
    /\ \A o \in Ops : Recording(o) => thread[o] \in Threads
    /\ thread \in [Ops -> Threads \cup {NoThread}] /\ outcome \in [Ops -> {"none", "answered", "failed"}]
    /\ file \in Seq(Threads) /\ Len(file) <= MaxThreads /\ dropped \subseteq Threads
    /\ DOMAIN snapshot = Ops
    /\ \A o \in Ops : phase[o] = "read" =>
          /\ snapshot[o] \in Seq(Threads) /\ Len(snapshot[o]) <= MaxThreads
          /\ ~ fileFailed => snapshot[o] = file
    /\ AnsweredIsRecorded
\* What a record makes of the threads in the file: none is dropped while there is room.
LEMMA RecordFacts ==
  ASSUME NEW f \in Seq(Threads), Len(f) <= MaxThreads, NEW t \in Threads
  PROVE  /\ WithRecord(f, t) \in Seq(Threads) /\ Len(WithRecord(f, t)) <= MaxThreads
         /\ ToSet(Updated(f, t)) = ToSet(f) \cup {t}
         /\ Len(f) = MaxThreads => Len(WithRecord(f, t)) = MaxThreads
         /\ ToSet(Updated(f, t)) \subseteq ToSet(WithRecord(f, t)) \/ Len(WithRecord(f, t)) = MaxThreads
  <1>1. MaxThreads \in Nat \ {0} /\ Len(f) \in Nat
    BY OpsAssumption
  <1>2. CASE Contains(f, t)
    <2>1. Updated(f, t) = f /\ WithRecord(f, t) = f
      BY <1>1, <1>2 DEF Updated, WithRecord
    <2>2. t \in ToSet(f)
      BY <1>2 DEF Contains, ToSet
    <2> QED BY <2>1, <2>2
  <1>3. CASE ~ Contains(f, t)
    <2> DEFINE u == Append(f, t)
    <2>1. /\ u \in Seq(Threads) /\ Len(u) = Len(f) + 1 /\ u # <<>>
          /\ \A i \in 1..Len(f) : u[i] = f[i]
          /\ u[Len(f) + 1] = t
      BY AppendProperties
    <2>2. Updated(f, t) = u
      BY <1>3 DEF Updated
    <2>3. ToSet(u) = ToSet(f) \cup {t}
      BY <1>1, <2>1 DEF ToSet
    <2> HIDE DEF u
    <2>4. CASE Len(u) > MaxThreads
      <3>1. WithRecord(f, t) = Tail(u)
        BY <2>2, <2>4 DEF WithRecord
      <3>2. Tail(u) \in Seq(Threads) /\ Len(Tail(u)) = Len(u) - 1
        BY <2>1
      <3> QED BY <1>1, <2>1, <2>2, <2>3, <2>4, <3>1, <3>2
    <2>5. CASE ~ (Len(u) > MaxThreads)
      <3>1. WithRecord(f, t) = u
        BY <2>2, <2>5 DEF WithRecord
      <3> QED BY <1>1, <2>1, <2>2, <2>3, <2>5, <3>1
    <2> QED BY <2>4, <2>5
  <1> QED BY <1>2, <1>3

\* What a step of the client makes of the calls of the operations.
LEMMA CallsOf ==
  ASSUME CallsInv
  PROVE  /\ \A c, d \in Callers : Begin(c) /\ d # c => calls'[d] = calls[d]
         /\ \A c \in Callers : Begin(c) => calls[c] = "none"
         /\ \A c, d \in Callers : EndCall(c) =>
               calls[c] = "calling" /\ calls'[d] = IF d = c THEN "none" ELSE calls[d]
         /\ \A c, d \in Callers : Abort(c) =>
               calls'[d] = IF d = c /\ calls[d] = "calling" THEN "none" ELSE calls[d]
         /\ SessionStep => \A c \in Callers : calls'[c] # "none" => calls[c] # "none"
  <1>1. \A c, d \in Callers : Begin(c) => calls[c] = "none" /\ (d # c => calls'[d] = calls[d])
    BY DEF Begin, Join, Dispatch, CallsInv
  <1>2. ASSUME NEW cs, NEW current, EndCalls(cs, current)
        PROVE  \A d \in Callers : calls'[d] = IF d \in cs THEN "none" ELSE calls[d]
    BY <1>2 DEF EndCalls
  <1>3. \A c, d \in Callers : EndCall(c) =>
           calls[c] = "calling" /\ calls'[d] = IF d = c THEN "none" ELSE calls[d]
    BY <1>2 DEF EndCall
  <1>4. \A c, d \in Callers : Abort(c) =>
           calls'[d] = IF d = c /\ calls[d] = "calling" THEN "none" ELSE calls[d]
    BY <1>2 DEF Abort
  <1>5. ASSUME SessionStep PROVE \A c \in Callers : calls'[c] # "none" => calls[c] # "none"
    <2>1. CASE Connected
      <3>1. \/ calls' = [c \in Callers |-> IF c \in SentAtStart THEN "calling"
                                           ELSE IF c \in Waiting THEN "none" ELSE calls[c]]
            \/ calls' = calls
        BY <2>1 DEF Connected
      <3> QED BY <3>1 DEF SentAtStart, Waiting
    <2>2. ASSUME NEW t \in Children, ChildEnds(t) \/ ChildDies(t)
          PROVE  \A c \in Callers : calls'[c] # "none" => calls[c] # "none"
      <3>1. \E cs, current : EndCalls(cs, current)
        BY <2>2 DEF ChildEnds, ChildDies
      <3> QED BY <1>2, <3>1
    <2> QED BY <1>5, <2>1, <2>2
         DEF SessionStep, ConnectFails, IdleFires, DisposeDisconnects, DisposeReturns
  <1> QED BY <1>1, <1>3, <1>4, <1>5

\* A step that neither queues for the file nor answers an investigation.
LEMMA RestKeeps ==
  ASSUME ThreadInv, CallsInv', RegistryInv', UNCHANGED <<kind, thread, fileVars>>,
         \A o \in Ops : /\ calls'[o] # "none" => Awaits(o)'
                        /\ Recording(o)' <=> Recording(o)
                        /\ phase'[o] = "read" => phase[o] = "read"
                        /\ phase'[o] = "done" /\ outcome'[o] = "answered" /\ kind[o] = "investigate"
                              => phase[o] = "done" /\ outcome[o] = "answered",
         outcome' \in [Ops -> {"none", "answered", "failed"}]
  PROVE  ThreadInv'
  <1>1. AnsweredThreads' \subseteq AnsweredThreads
    BY DEF AnsweredThreads
  <1>2. AnsweredIsRecorded'
    BY <1>1 DEF ThreadInv, AnsweredIsRecorded, fileVars
  <1> QED BY <1>2 DEF ThreadInv, fileVars

\* Operations that end without a record.
LEMMA FinishRests ==
  ASSUME ThreadInv, CallsInv', RegistryInv', UNCHANGED <<kind, thread, fileVars>>,
         NEW os \in SUBSET Ops, NEW how \in {"answered", "failed"}, Finish(os, how),
         \A o \in os : phase[o] \in {"idle", "resolving", "resolved", "asking"} /\ calls'[o] = "none"
                       /\ (how = "answered" => kind[o] # "investigate"),
         \A o \in Ops \ os : calls'[o] # "none" => Awaits(o)
  PROVE  ThreadInv'
  <1>1. /\ phase' = [o \in Ops |-> IF o \in os THEN "done" ELSE phase[o]]
        /\ outcome' = [o \in Ops |-> IF o \in os THEN how ELSE outcome[o]]
    BY DEF Finish
  <1>2. outcome' \in [Ops -> {"none", "answered", "failed"}]
    BY <1>1 DEF ThreadInv
  <1>3. ASSUME NEW o \in Ops
        PROVE  /\ calls'[o] # "none" => Awaits(o)'
               /\ Recording(o)' <=> Recording(o)
               /\ phase'[o] = "read" => phase[o] = "read"
               /\ phase'[o] = "done" /\ outcome'[o] = "answered" /\ kind[o] = "investigate"
                     => phase[o] = "done" /\ outcome[o] = "answered"
    <2>1. CASE o \in os
      BY <1>1, <2>1 DEF Awaits, Recording
    <2>2. CASE o \notin os
      BY <1>1, <2>2 DEF Awaits, Recording
    <2> QED BY <2>1, <2>2
  <1> QED BY <1>2, <1>3, RestKeeps

\* An operation that goes on, or ends its call, without an answer.
LEMMA MoveRests ==
  ASSUME ThreadInv, CallsInv', RegistryInv', UNCHANGED <<kind, thread, fileVars, outcome>>,
         NEW o \in Ops, NEW p \in {"resolving", "resolved", "asking"},
         phase' = [phase EXCEPT ![o] = p], ~ Recording(o),
         p = "resolved" => calls'[o] = "none",
         \A q \in Ops \ {o} : calls'[q] = calls[q]
  PROVE  ThreadInv'
  <1>1. phase'[o] = p /\ \A q \in Ops \ {o} : phase'[q] = phase[q]
    BY DEF ThreadInv, RegistryInv
  <1>2. ASSUME NEW q \in Ops
        PROVE  /\ calls'[q] # "none" => Awaits(q)'
               /\ Recording(q)' <=> Recording(q)
               /\ phase'[q] = "read" => phase[q] = "read"
               /\ phase'[q] = "done" /\ outcome'[q] = "answered" /\ kind[q] = "investigate"
                     => phase[q] = "done" /\ outcome[q] = "answered"
    <2>1. CASE q = o
      BY <1>1, <2>1 DEF Awaits, Recording
    <2>2. CASE q # o
      BY <1>1, <2>2 DEF Awaits, Recording, ThreadInv
    <2> QED BY <2>1, <2>2
  <1> QED BY <1>2, RestKeeps DEF ThreadInv

\* An answered investigation queues for the file.
LEMMA InvestigatedKeeps ==
  ASSUME ThreadInv, CallsInv', RegistryInv', NEW o \in Ops, Investigated(o),
         \A q \in Ops \ {o} : calls'[q] = calls[q], calls'[o] = "none"
  PROVE  ThreadInv'
  <1>1. PICK t \in Threads : thread' = [thread EXCEPT ![o] = t]
    BY DEF Investigated
  <1>2. /\ phase[o] = "asking" /\ phase' = [phase EXCEPT ![o] = "recording"]
        /\ queue' = Append(queue, o)
        /\ UNCHANGED <<kind, outcome, file, snapshot, fileFailed, dropped>>
    BY DEF Investigated
  <1>3. /\ phase'[o] = "recording" /\ \A q \in Ops \ {o} : phase'[q] = phase[q]
        /\ thread'[o] = t /\ \A q \in Ops \ {o} : thread'[q] = thread[q]
        /\ thread' \in [Ops -> Threads \cup {NoThread}]
    BY <1>1, <1>2 DEF ThreadInv, RegistryInv
  <1>4. /\ queue' \in Seq(Ops) /\ Len(queue') = Len(queue) + 1 /\ Len(queue) \in Nat
        /\ \A i \in 1..Len(queue) : queue'[i] = queue[i]
        /\ queue'[Len(queue) + 1] = o
        /\ DOMAIN queue = 1..Len(queue) /\ DOMAIN queue' = 1..(Len(queue) + 1)
    BY <1>2, AppendProperties DEF ThreadInv
  <1>5. \A i \in 1..Len(queue) : queue[i] # o
    BY <1>2, <1>4 DEF ThreadInv, Recording
  <1>6. \A i \in 1..(Len(queue) + 1) : i \in 1..Len(queue) \/ i = Len(queue) + 1
    BY <1>4
  <1>7. \A q \in Ops : Recording(q)' <=> \E i \in DOMAIN queue' : queue'[i] = q
    <2> SUFFICES ASSUME NEW q \in Ops PROVE Recording(q)' <=> \E i \in DOMAIN queue' : queue'[i] = q
      OBVIOUS
    <2>1. CASE q = o
      <3>1. Len(queue) + 1 \in DOMAIN queue'
        BY <1>4
      <3> QED BY <1>3, <1>4, <2>1, <3>1 DEF Recording
    <2>2. CASE q # o
      <3>1. Recording(q)' <=> Recording(q)
        BY <1>3, <2>2 DEF Recording
      <3>2. Recording(q) <=> \E i \in 1..Len(queue) : queue[i] = q
        BY <1>4 DEF ThreadInv
      <3>3. 1..Len(queue) \subseteq DOMAIN queue'
        BY <1>4
      <3> QED BY <1>4, <1>6, <2>2, <3>1, <3>2, <3>3
    <2> QED BY <2>1, <2>2
  <1>8. \A i, j \in DOMAIN queue' : queue'[i] = queue'[j] => i = j
    BY <1>4, <1>5, <1>6 DEF ThreadInv
  <1>9. \A i \in DOMAIN queue' : phase'[queue'[i]] = "read" => i = 1
    <2> SUFFICES ASSUME NEW i \in DOMAIN queue', phase'[queue'[i]] = "read" PROVE i = 1
      OBVIOUS
    <2>1. i \in 1..Len(queue) /\ queue'[i] = queue[i] /\ queue[i] # o /\ queue[i] \in Ops
      BY <1>3, <1>4, <1>5, <1>6 DEF ThreadInv
    <2> QED BY <1>3, <1>4, <2>1 DEF ThreadInv
  <1>10. \A q \in Ops : calls'[q] # "none" => Awaits(q)'
    BY <1>3 DEF ThreadInv, Awaits
  <1>11. \A q \in Ops : Recording(q)' => thread'[q] \in Threads
    BY <1>3 DEF ThreadInv, Recording
  <1>12. AnsweredIsRecorded'
    <2>1. AnsweredThreads' \subseteq AnsweredThreads
      BY <1>2, <1>3 DEF AnsweredThreads
    <2> QED BY <1>2, <2>1 DEF ThreadInv, AnsweredIsRecorded
  <1>13. \A q \in Ops : phase'[q] = "read" =>
            /\ snapshot'[q] \in Seq(Threads) /\ Len(snapshot'[q]) <= MaxThreads
            /\ ~ fileFailed' => snapshot'[q] = file'
    BY <1>2, <1>3 DEF ThreadInv
  <1> QED BY <1>2, <1>3, <1>4, <1>7, <1>8, <1>9, <1>10, <1>11, <1>12, <1>13 DEF ThreadInv

\* The first of the queue, and what its turn leaves.
LEMMA HeadFacts ==
  ASSUME ThreadInv, NEW o \in Ops, HoldsLock(o)
  PROVE  /\ Len(queue) \in Nat \ {0} /\ DOMAIN queue = 1..Len(queue) /\ queue[1] = o
         /\ Recording(o) /\ \A q \in Ops : phase[q] = "read" => q = o
         /\ Tail(queue) \in Seq(Ops) /\ DOMAIN Tail(queue) = 1..(Len(queue) - 1)
         /\ \A i \in 1..(Len(queue) - 1) : Tail(queue)[i] = queue[i + 1]
  <1>1. queue \in Seq(Ops) /\ queue # <<>> /\ Head(queue) = o
    BY DEF ThreadInv, HoldsLock
  <1>2. /\ Len(queue) \in Nat \ {0} /\ DOMAIN queue = 1..Len(queue) /\ queue[1] = o
        /\ Tail(queue) \in Seq(Ops) /\ Len(Tail(queue)) = Len(queue) - 1
        /\ \A i \in 1..(Len(queue) - 1) : Tail(queue)[i] = queue[i + 1]
    BY <1>1
  <1>3. DOMAIN Tail(queue) = 1..(Len(queue) - 1)
    BY <1>2
  <1>4. 1 \in DOMAIN queue
    BY <1>2
  <1>5. Recording(o)
    BY <1>2, <1>4 DEF ThreadInv
  <1>6. \A q \in Ops : phase[q] = "read" => q = o
    BY <1>2 DEF ThreadInv, Recording
  <1> QED BY <1>2, <1>3, <1>5, <1>6

LEMMA ReadThreadsKeeps ==
  ASSUME ThreadInv, CallsInv', RegistryInv', NEW o \in Ops, ReadThreads(o)
  PROVE  ThreadInv'
  <1>1. /\ phase[o] = "recording" /\ HoldsLock(o) /\ phase' = [phase EXCEPT ![o] = "read"]
        /\ UNCHANGED <<calls, kind, outcome, thread, file, queue, dropped>>
    BY DEF ReadThreads, sessionVars
  <1>2. PICK f : /\ snapshot' = [snapshot EXCEPT ![o] = f] /\ f \in {file, <<>>}
                 /\ ~ fileFailed' => f = file /\ ~ fileFailed
    BY DEF ReadThreads
  <1>3. /\ phase'[o] = "read" /\ \A q \in Ops \ {o} : phase'[q] = phase[q] /\ phase[q] # "read"
        /\ Len(queue) \in Nat \ {0} /\ DOMAIN queue = 1..Len(queue) /\ queue[1] = o
    BY <1>1, HeadFacts DEF ThreadInv, RegistryInv
  <1>4. f \in Seq(Threads) /\ Len(f) <= MaxThreads /\ snapshot'[o] = f /\ DOMAIN snapshot' = Ops
    <2>1. snapshot'[o] = f /\ DOMAIN snapshot' = Ops
      BY <1>2 DEF ThreadInv
    <2>2. CASE f = file
      BY <2>1, <2>2 DEF ThreadInv
    <2>3. CASE f = <<>>
      BY <2>1, <2>3, OpsAssumption
    <2> QED BY <1>2, <2>2, <2>3
  <1>5. \A q \in Ops : Recording(q)' <=> Recording(q)
    BY <1>1, <1>3 DEF Recording
  <1>6. \A i \in DOMAIN queue : phase'[queue[i]] = "read" => i = 1
    <2> SUFFICES ASSUME NEW i \in DOMAIN queue, phase'[queue[i]] = "read" PROVE i = 1
      OBVIOUS
    <2>1. queue[i] \in Ops /\ 1 \in DOMAIN queue
      BY <1>3 DEF ThreadInv
    <2> QED BY <1>3, <2>1 DEF ThreadInv
  <1>7. AnsweredIsRecorded'
    <2>1. AnsweredThreads' \subseteq AnsweredThreads
      BY <1>1, <1>3 DEF AnsweredThreads
    <2> QED BY <1>1, <1>2, <2>1 DEF ThreadInv, AnsweredIsRecorded
  <1>8. \A q \in Ops : phase'[q] = "read" =>
            /\ snapshot'[q] \in Seq(Threads) /\ Len(snapshot'[q]) <= MaxThreads
            /\ ~ fileFailed' => snapshot'[q] = file'
    BY <1>1, <1>2, <1>3, <1>4
  <1>9. \A q \in Ops : calls'[q] # "none" => Awaits(q)'
    BY <1>1, <1>3 DEF ThreadInv, Awaits
  <1> QED BY <1>1, <1>4, <1>5, <1>6, <1>7, <1>8, <1>9 DEF ThreadInv

LEMMA WriteThreadsKeeps ==
  ASSUME ThreadInv, CallsInv', RegistryInv', NEW o \in Ops, WriteThreads(o)
  PROVE  ThreadInv'
  <1>1. /\ phase[o] = "read" /\ HoldsLock(o) /\ phase' = [phase EXCEPT ![o] = "done"]
        /\ outcome' = [outcome EXCEPT ![o] = "answered"] /\ queue' = Tail(queue)
        /\ snapshot' = [snapshot EXCEPT ![o] = <<>>]
        /\ UNCHANGED <<calls, kind, thread>>
    BY DEF WriteThreads, sessionVars, Released
  <1>2. /\ phase'[o] = "done"
        /\ \A q \in Ops \ {o} : phase'[q] = phase[q] /\ phase[q] # "read"
                                /\ outcome'[q] = outcome[q]
        /\ Len(queue) \in Nat \ {0} /\ DOMAIN queue = 1..Len(queue) /\ queue[1] = o
        /\ queue' \in Seq(Ops) /\ DOMAIN queue' = 1..(Len(queue) - 1)
        /\ \A i \in 1..(Len(queue) - 1) : queue'[i] = queue[i + 1]
    BY <1>1, HeadFacts DEF ThreadInv, RegistryInv
  <1>3. \A q \in Ops : phase'[q] # "read"
    BY <1>2
  <1>4. \A i \in 1..(Len(queue) - 1) : i + 1 \in 1..Len(queue) /\ i + 1 # 1
    BY <1>2
  <1>u. \A i, j \in DOMAIN queue : queue[i] = queue[j] => i = j
    BY DEF ThreadInv
  <1>5. \A q \in Ops : Recording(q)' <=> \E i \in DOMAIN queue' : queue'[i] = q
    <2> SUFFICES ASSUME NEW q \in Ops PROVE Recording(q)' <=> \E i \in DOMAIN queue' : queue'[i] = q
      OBVIOUS
    <2>1. CASE q = o
      <3>1. \A i \in 1..(Len(queue) - 1) : queue[i + 1] # o
        <4> SUFFICES ASSUME NEW i \in 1..(Len(queue) - 1), queue[i + 1] = o PROVE FALSE
          OBVIOUS
        <4>1. i + 1 \in DOMAIN queue /\ 1 \in DOMAIN queue /\ i + 1 # 1
          BY <1>2
        <4> QED BY <1>2, <4>1, <1>u
      <3> QED BY <1>2, <2>1, <3>1 DEF Recording
    <2>2. CASE q # o
      <3>1. Recording(q)' <=> \E j \in 1..Len(queue) : queue[j] = q
        BY <1>2, <2>2 DEF Recording, ThreadInv
      <3>2. \A j \in 1..Len(queue) : queue[j] = q => j - 1 \in 1..(Len(queue) - 1) /\ (j - 1) + 1 = j
        BY <1>2, <2>2
      <3>3. ASSUME NEW j \in 1..Len(queue), queue[j] = q
            PROVE  \E i \in 1..(Len(queue) - 1) : queue'[i] = q
        <4>1. j - 1 \in 1..(Len(queue) - 1) /\ queue'[j - 1] = queue[(j - 1) + 1]
          BY <1>2, <3>2, <3>3
        <4> QED BY <3>2, <3>3, <4>1
      <3>4. ASSUME NEW i \in 1..(Len(queue) - 1), queue'[i] = q
            PROVE  \E j \in 1..Len(queue) : queue[j] = q
        <4>1. queue[i + 1] = q
          BY <1>2, <3>4
        <4> QED BY <1>4, <4>1
      <3> QED BY <1>2, <3>1, <3>3, <3>4
    <2> QED BY <2>1, <2>2
  <1>6. \A i, j \in DOMAIN queue' : queue'[i] = queue'[j] => i = j
    <2> SUFFICES ASSUME NEW i \in DOMAIN queue', NEW j \in DOMAIN queue', queue'[i] = queue'[j]
                 PROVE  i = j
      OBVIOUS
    <2>0. i \in 1..(Len(queue) - 1) /\ j \in 1..(Len(queue) - 1)
      BY <1>2
    <2>1. i + 1 \in DOMAIN queue /\ j + 1 \in DOMAIN queue /\ queue[i + 1] = queue[j + 1]
      BY <1>2, <1>4, <2>0
    <2>2. i + 1 = j + 1
      BY <1>u, <2>1
    <2> QED BY <1>2, <2>0, <2>2
  <1>7. \A i \in DOMAIN queue' : phase'[queue'[i]] # "read"
    BY <1>2, <1>3
  <1>8. /\ snapshot[o] \in Seq(Threads) /\ Len(snapshot[o]) <= MaxThreads
        /\ ~ fileFailed => snapshot[o] = file
        /\ thread[o] \in Threads
    BY <1>1 DEF ThreadInv, Recording
  <1>9. AnsweredThreads' \subseteq AnsweredThreads \cup {thread[o]}
    BY <1>1, <1>2 DEF AnsweredThreads
  <1>10. /\ file' \in Seq(Threads) /\ Len(file') <= MaxThreads /\ dropped' \subseteq Threads
         /\ AnsweredIsRecorded'
    <2>1. CASE fileFailed' = TRUE /\ UNCHANGED <<file, dropped>>
      BY <2>1 DEF ThreadInv, AnsweredIsRecorded
    <2>2. CASE /\ file' = WithRecord(snapshot[o], thread[o]) /\ UNCHANGED fileFailed
               /\ dropped' = dropped \cup (ToSet(Updated(snapshot[o], thread[o])) \ ToSet(file'))
      <3>1. PICK f \in Seq(Threads), t \in Threads : f = snapshot[o] /\ t = thread[o]
        BY <1>8
      <3>2. /\ file' \in Seq(Threads) /\ Len(file') <= MaxThreads
            /\ ToSet(Updated(f, t)) = ToSet(f) \cup {t}
            /\ Len(f) = MaxThreads => Len(file') = MaxThreads
            /\ ToSet(Updated(f, t)) \subseteq ToSet(file') \/ Len(file') = MaxThreads
        BY <1>8, <2>2, <3>1, RecordFacts
      <3>3. dropped' = dropped \cup ((ToSet(f) \cup {t}) \ ToSet(file'))
        BY <2>2, <3>1, <3>2
      <3>4. ToSet(f) \subseteq Threads
        BY DEF ToSet
      <3>5. ASSUME ~ fileFailed
            PROVE  /\ AnsweredThreads' \subseteq ToSet(file') \cup dropped'
                   /\ dropped' # {} => Len(file') = MaxThreads
        <4>1. f = file /\ AnsweredThreads \subseteq ToSet(f) \cup dropped
              /\ (dropped # {} => Len(f) = MaxThreads)
          BY <1>8, <3>1, <3>5 DEF ThreadInv, AnsweredIsRecorded
        <4> QED BY <1>9, <3>1, <3>2, <3>3, <4>1
      <3>6. dropped \subseteq Threads
        BY DEF ThreadInv
      <3> QED BY <2>2, <3>2, <3>3, <3>4, <3>5, <3>6 DEF AnsweredIsRecorded
    <2> QED BY <2>1, <2>2 DEF WriteThreads
  <1>11. \A q \in Ops : calls'[q] # "none" => Awaits(q)'
    BY <1>1, <1>2 DEF ThreadInv, Awaits
  <1>12. \A q \in Ops : Recording(q)' => thread'[q] \in Threads
    BY <1>1, <1>2 DEF ThreadInv, Recording
  <1>13. outcome' \in [Ops -> {"none", "answered", "failed"}] /\ DOMAIN snapshot' = Ops
    BY <1>1 DEF ThreadInv
  <1> QED BY <1>1, <1>2, <1>3, <1>5, <1>6, <1>7, <1>10, <1>11, <1>12, <1>13 DEF ThreadInv

LEMMA NextThreadInv == ThreadInv /\ [Next]_vars => ThreadInv'
  <1> SUFFICES ASSUME ThreadInv, [Next]_vars PROVE ThreadInv'
    OBVIOUS
  <1>0. Ops \subseteq Callers /\ Listers \subseteq Callers /\ Ops \cap Listers = {}
    BY OpsAssumption
  <1>i. CallsInv /\ RegistryInv /\ CallsInv' /\ RegistryInv'
    BY NextIsSilent, NextRegistry DEF ThreadInv
  <1>s. \A o \in Ops : calls[o] # "none" => Awaits(o)
    BY DEF ThreadInv
  <1>1. ASSUME NEW o \in Ops, Start(o) \/ Proceed(o) PROVE ThreadInv'
    <2>1. /\ phase[o] \in {"idle", "resolved"} /\ UNCHANGED <<kind, thread, fileVars>>
          /\ calls[o] = "none"
      BY <1>1, <1>i, <1>s DEF Start, Proceed, Awaits, CallsInv
    <2>2. CASE Refused(o)
      <3>1. Finish({o}, "failed") /\ UNCHANGED calls
        BY <1>1, <2>2 DEF Start, Proceed, sessionVars
      <3> QED BY <1>i, <1>s, <2>1, <3>1, FinishRests
    <2>3. CASE ~ Refused(o)
      <3>1. PICK p \in {"resolving", "asking"} : phase' = [phase EXCEPT ![o] = p]
        BY <1>1, <2>3 DEF Start, Proceed
      <3>2. Begin(o) /\ UNCHANGED outcome
        BY <1>1, <2>3 DEF Start, Proceed
      <3>3. \A q \in Ops \ {o} : calls'[q] = calls[q]
        BY <1>0, <1>i, <3>2, CallsOf
      <3> QED BY <1>i, <2>1, <3>1, <3>2, <3>3, MoveRests DEF Recording
    <2> QED BY <2>2, <2>3
  <1>2. ASSUME NEW o \in Ops, EndCall(o)
        PROVE  /\ calls'[o] = "none" /\ \A q \in Ops \ {o} : calls'[q] = calls[q]
               /\ phase[o] \in {"resolving", "asking"}
    BY <1>0, <1>2, <1>i, <1>s, CallsOf DEF Awaits
  <1>3. ASSUME NEW o \in Ops, AgentResolved(o) PROVE ThreadInv'
    BY <1>2, <1>3, <1>i, MoveRests DEF AgentResolved, Recording
  <1>4. ASSUME NEW o \in Ops, CallFails(o) \/ Answered(o) PROVE ThreadInv'
    <2>1. EndCall(o) /\ UNCHANGED <<kind, thread, fileVars>>
      BY <1>4 DEF CallFails, Answered
    <2>2. PICK how \in {"answered", "failed"} :
             Finish({o}, how) /\ (how = "answered" => kind[o] # "investigate")
      BY <1>4 DEF CallFails, Answered
    <2> QED BY <1>2, <1>i, <1>s, <2>1, <2>2, FinishRests
  <1>5. ASSUME NEW o \in Ops, Investigated(o) PROVE ThreadInv'
    BY <1>2, <1>5, <1>i, InvestigatedKeeps DEF Investigated
  <1>6. ASSUME NEW k \in Keys, Cancel(k) PROVE ThreadInv'
    <2> DEFINE o == active[k]
    <2>1. o \in Ops /\ Abort(o) /\ UNCHANGED <<kind, thread, fileVars>>
      BY <1>6, <1>i DEF Cancel, RegistryInv
    <2>2. /\ phase' = IF calls[o] = "calling" THEN [phase EXCEPT ![o] = "done"] ELSE phase
          /\ outcome' = IF calls[o] = "calling" THEN [outcome EXCEPT ![o] = "failed"] ELSE outcome
      BY <1>6, <2>1 DEF Cancel, OnWire
    <2> HIDE DEF o
    <2>3. \A q \in Ops : calls'[q] = IF q = o /\ calls[q] = "calling" THEN "none" ELSE calls[q]
      BY <1>0, <1>i, <2>1, CallsOf
    <2>4. outcome' \in [Ops -> {"none", "answered", "failed"}]
      BY <2>1, <2>2 DEF ThreadInv
    <2>5. ASSUME NEW q \in Ops
          PROVE  /\ calls'[q] # "none" => Awaits(q)'
                 /\ Recording(q)' <=> Recording(q)
                 /\ phase'[q] = "read" => phase[q] = "read"
                 /\ phase'[q] = "done" /\ outcome'[q] = "answered" /\ kind[q] = "investigate"
                       => phase[q] = "done" /\ outcome[q] = "answered"
      <3>1. CASE q = o /\ calls[o] = "calling"
        <4>1. phase'[q] = "done" /\ outcome'[q] = "failed" /\ calls'[q] = "none" /\ Awaits(q)
          BY <1>i, <1>s, <2>1, <2>2, <2>3, <3>1 DEF RegistryInv, ThreadInv
        <4> QED BY <4>1 DEF Awaits, Recording
      <3>2. CASE ~ (q = o /\ calls[o] = "calling")
        <4>1. phase'[q] = phase[q] /\ outcome'[q] = outcome[q] /\ calls'[q] = calls[q]
          BY <2>2, <2>3, <3>2
        <4> QED BY <1>s, <4>1 DEF Awaits, Recording
      <3> QED BY <3>1, <3>2
    <2> QED BY <1>i, <2>1, <2>4, <2>5, RestKeeps
  <1>7. ASSUME NEW l \in Listers, ListTools(l) \/ Listed(l) PROVE ThreadInv'
    <2>1. UNCHANGED opVars /\ (Begin(l) \/ EndCall(l))
      BY <1>7 DEF ListTools, Listed
    <2>2. \A q \in Ops : calls'[q] = calls[q]
      BY <1>0, <1>i, <2>1, CallsOf
    <2> QED BY <1>i, <1>s, <2>1, <2>2, RestKeeps DEF opVars, fileVars, Awaits, Recording, ThreadInv
  <1>8. ASSUME NEW o \in Ops, ReadThreads(o) \/ WriteThreads(o) PROVE ThreadInv'
    BY <1>8, <1>i, ReadThreadsKeeps, WriteThreadsKeeps
  <1>9. CASE ClientStep
    <2> DEFINE lost == {o \in Ops : calls[o] # "none" /\ calls'[o] = "none"}
    <2>1. Finish(lost, "failed") /\ UNCHANGED <<kind, thread, fileVars>> /\ SessionStep
      BY <1>9 DEF ClientStep, OpsFollow
    <2>2. lost \in SUBSET Ops /\ \A o \in lost : Awaits(o) /\ calls'[o] = "none"
      BY <1>s
    <2>3. \A o \in Ops \ lost : calls'[o] # "none" => Awaits(o)
      BY <1>0, <1>i, <1>s, <2>1, CallsOf
    <2> HIDE DEF lost
    <2> QED BY <1>i, <2>1, <2>2, <2>3, FinishRests DEF Awaits
  <1>10. CASE Shutdown
    <2> DEFINE cut == Registered \cap OnWire
    <2>1. /\ EndCalls(cut, None) /\ UNCHANGED <<kind, thread, fileVars>>
          /\ phase' = [o \in Ops |-> IF o \in cut THEN "done" ELSE phase[o]]
          /\ outcome' = [o \in Ops |-> IF o \in cut THEN "failed" ELSE outcome[o]]
      BY <1>10 DEF Shutdown
    <2>2. cut \in SUBSET Ops /\ \A o \in cut : Awaits(o)
      BY <1>s DEF OnWire
    <2>3. \A o \in Ops : calls'[o] = IF o \in cut THEN "none" ELSE calls[o]
      BY <1>0, <2>1 DEF EndCalls
    <2> HIDE DEF cut
    <2>4. outcome' \in [Ops -> {"none", "answered", "failed"}]
      BY <2>1 DEF ThreadInv
    <2>5. ASSUME NEW q \in Ops
          PROVE  /\ calls'[q] # "none" => Awaits(q)'
                 /\ Recording(q)' <=> Recording(q)
                 /\ phase'[q] = "read" => phase[q] = "read"
                 /\ phase'[q] = "done" /\ outcome'[q] = "answered" /\ kind[q] = "investigate"
                       => phase[q] = "done" /\ outcome[q] = "answered"
      BY <1>s, <2>1, <2>2, <2>3 DEF Awaits, Recording
    <2> QED BY <1>i, <2>1, <2>4, <2>5, RestKeeps
  <1>11. CASE UNCHANGED vars
    BY <1>11, <1>i, <1>s, RestKeeps DEF vars, sessionVars, opVars, fileVars, Awaits, Recording, ThreadInv
  <1> QED BY <1>1, <1>3, <1>4, <1>5, <1>6, <1>7, <1>8, <1>9, <1>10, <1>11 DEF Next

\* AnsweredIsRecorded for any number of requests, threads and places in the file: the
\* thread of an answered investigation is in the file until it is dropped from a full one
\* (recordThread(), withThreadStateLock()).
THEOREM ThreadsAreRecorded == Spec => []AnsweredIsRecorded
  <1>1. Init => ThreadInv
    <2> SUFFICES ASSUME Init PROVE ThreadInv
      OBVIOUS
    <2>1. CallsInv /\ RegistryInv
      BY OpsAssumption DEF Init, SessionInit, Requests, CallsInv, RegistryInv, Running
    <2>2. /\ calls = [c \in Callers |-> "none"] /\ Ops \subseteq Callers
          /\ phase = [o \in Ops |-> "idle"] /\ queue = <<>>
      BY OpsAssumption DEF Init, SessionInit
    <2>3. AnsweredIsRecorded
      BY <2>2 DEF Init, AnsweredIsRecorded, AnsweredThreads
    <2> QED BY <2>1, <2>2, <2>3, OpsAssumption DEF Init, ThreadInv, Awaits, Recording
  <1>2. ThreadInv => AnsweredIsRecorded
    BY DEF ThreadInv
  <1> QED BY <1>1, <1>2, NextThreadInv, PTL DEF Spec
=============================================================================
