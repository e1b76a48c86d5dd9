----------------------------- MODULE JobConsole -----------------------------
(***************************************************************************)
(* The deploy and destroy controls of the wallboard (MissionWallboard.vue) *)
(* composed with the job table: every browser tab posts requests over HTTP *)
(* and hears of the end of jobs over its own WebSocket, so the answer to a *)
(* request and the completion of the job it started travel separately.     *)
(*                                                                         *)
(* Log lines are left out: only job:complete changes what a control does.  *)
(* A page reload is left out too: it starts a tab afresh.                  *)
(***************************************************************************)
EXTENDS JobManager, Sequences

CONSTANT Tabs

VARIABLES
    control, \* per tab and kind: the refs xRunning, xJobStatus, xRequestId
    call,    \* per tab and kind: the HTTP request in flight
    socket,  \* per tab: the WebSocket shared by the tab
    wire     \* per tab: job:complete messages sent and not yet handled

consoleVars == <<control, call, socket, wire>>
allVars == <<vars, consoleVars>>

Kinds == {"deploy", "destroy"}
Controls == Tabs \X Kinds
NoCall == [phase |-> "none"]
Calls == {NoCall, [phase |-> "posted"], [phase |-> "refused"]}
         \cup [phase : {"accepted"}, job : Jobs]

ControlStates == [running : BOOLEAN, shown : {"ready", "pending", "running"} \cup Terminal,
                  request : Jobs \cup {None}]
Messages == [job : Jobs, status : Terminal]

ConsoleTypeOK ==
    /\ TypeOK
    /\ control \in [Controls -> ControlStates]
    /\ call \in [Controls -> Calls]
    /\ socket \in [Tabs -> {"connecting", "open", "closed"}]
    /\ wire \in [Tabs -> Seq(Messages)]

ConsoleInit ==
    /\ Init
    /\ control = [c \in Controls |-> [running |-> FALSE, shown |-> "ready", request |-> None]]
    /\ call = [c \in Controls |-> NoCall]
    /\ socket = [t \in Tabs |-> "connecting"]
    /\ wire = [t \in Tabs |-> <<>>]

(***************************************************************************)
(* The browser                                                             *)
(***************************************************************************)

\* startDeploy() and startDestroy() up to the await of the request.  The
\* button is disabled while the control is running.  Ids never run out in the
\* program; here Jobs bounds the clicks, so that every request can be served.
Click(c) ==
    /\ ~ control[c].running
    /\ Cardinality({j \in Jobs : status[j] = "none"})
           > Cardinality({d \in Controls : call[d].phase = "posted"})
    /\ control' = [control EXCEPT ![c] = [running |-> TRUE, shown |-> "pending", request |-> None]]
    /\ call' = [call EXCEPT ![c] = [phase |-> "posted"]]
    /\ UNCHANGED <<vars, socket, wire>>

\* The rest of startDeploy() and startDestroy() once the answer is there: 202
\* with the job as it was when the request was answered, or an error.
Answered(c) ==
    /\ control' = [control EXCEPT ![c] =
           IF call[c].phase = "accepted"
           THEN [@ EXCEPT !.request = call[c].job, !.shown = "running"]
           ELSE [@ EXCEPT !.running = FALSE, !.shown = "failed"]]

Answer(c) ==
    /\ call[c].phase \in {"accepted", "refused"}
    /\ Answered(c)
    /\ call' = [call EXCEPT ![c] = NoCall]
    /\ UNCHANGED <<vars, socket, wire>>

WsOpen(t) ==
    /\ socket[t] = "connecting"
    /\ socket' = [socket EXCEPT ![t] = "open"]
    /\ UNCHANGED <<vars, control, call, wire>>

\* A faulty watcher that takes every completion for its own.
ApplyToAll(t, msg) ==
    control' = [c \in Controls |->
        IF c[1] = t /\ control[c].running
        THEN [control[c] EXCEPT !.running = FALSE, !.shown = msg.status]
        ELSE control[c]]

\* A faulty watcher that waits for a successful end.
ApplyCompleted(t, msg) ==
    control' = [c \in Controls |->
        IF c[1] = t /\ control[c].request = msg.job /\ msg.status # "cancelled"
        THEN [control[c] EXCEPT !.running = FALSE, !.shown = msg.status]
        ELSE control[c]]

\* The watcher of wsData: only the control that knows the job id reacts.
ApplyComplete(t, msg) ==
    control' = [c \in Controls |->
        IF c[1] = t /\ control[c].request = msg.job
        THEN [control[c] EXCEPT !.running = FALSE, !.shown = msg.status]
        ELSE control[c]]

WsMessage(t) ==
    /\ wire[t] # <<>>
    /\ ApplyComplete(t, Head(wire[t]))
    /\ wire' = [wire EXCEPT ![t] = Tail(@)]
    /\ UNCHANGED <<vars, call, socket>>

\* The connection breaks, or never comes up.  Nothing calls connect() again.
WsDrop(t) ==
    /\ socket[t] # "closed"
    /\ socket' = [socket EXCEPT ![t] = "closed"]
    /\ wire' = [wire EXCEPT ![t] = <<>>]
    /\ UNCHANGED <<vars, control, call>>

(***************************************************************************)
(* The backend                                                             *)
(***************************************************************************)

Broadcast ==
    wire' = [t \in Tabs |->
        IF socket[t] = "open" /\ \E j \in Jobs : announced'[j] # announced[j]
        THEN LET j == CHOOSE i \in Jobs : announced'[i] # announced[i]
             IN  Append(wire[t], [job |-> j, status |-> status'[j]])
        ELSE wire[t]]

\* POST /api/deploy and /api/destroy: 202 with the new job, or 409.
Route(c) ==
    /\ call[c].phase = "posted"
    /\ \/ \E j \in Jobs :
              /\ Start(j)
              /\ call' = [call EXCEPT ![c] = [phase |-> "accepted", job |-> j]]
       \/ /\ ~ NoActiveJob
          /\ call' = [call EXCEPT ![c] = [phase |-> "refused"]]
          /\ UNCHANGED vars
    /\ UNCHANGED <<control, socket, wire>>

\* Every other callback of the job table.  (No route gives a timeout yet:
\* TimeoutSet also covers one that would.)
Beside(callback) ==
    /\ callback
    /\ Broadcast
    /\ UNCHANGED <<control, call, socket>>

JobCallback ==
    \E j \in Jobs :
        \/ Beside(Cancel(j)) \/ Beside(ForceKill(j)) \/ Beside(CommandTimeout(j))
        \/ Beside(ChildEvent(j)) \/ Beside(ProcessExit(j))

\* The sockets close.  Of the requests in flight, those in "failed" never get
\* an answer (fetch rejects); a request not yet served is always among them.
Restart ==
    /\ BackendRestart
    /\ \E failed \in SUBSET {c \in Controls : call[c] # NoCall} :
           /\ \A c \in Controls : call[c].phase = "posted" => c \in failed
           /\ call' = [c \in Controls |-> IF c \in failed THEN [phase |-> "refused"] ELSE call[c]]
    /\ socket' = [t \in Tabs |-> IF socket[t] = "open" THEN "closed" ELSE socket[t]]
    /\ UNCHANGED <<control, wire>>

ConsoleNext ==
    \/ \E c \in Controls : Click(c) \/ Route(c) \/ Answer(c)
    \/ \E t \in Tabs : WsOpen(t) \/ WsMessage(t) \/ WsDrop(t)
    \/ JobCallback
    \/ Restart

ConsoleSpec == ConsoleInit /\ [][ConsoleNext]_allVars

\* The browser handles the messages that have arrived, and the backend hears
\* of the end of its children.
ConsoleFairness ==
    /\ \A j \in Jobs : WF_allVars(Beside(ChildEvent(j)))
    /\ \A t \in Tabs : WF_allVars(WsMessage(t))

ConsoleFairSpec == ConsoleSpec /\ ConsoleFairness
-----------------------------------------------------------------------------
(***************************************************************************)
(* Properties                                                              *)
(***************************************************************************)

\* Whatever order the answer and the events arrive in, a control that names a
\* job and shows a verdict shows the verdict of that job.
ShownVerdictIsReal ==
    \A c \in Controls :
        control[c].request # None /\ control[c].shown \in Terminal =>
            status[control[c].request] \in {control[c].shown, "lost"}

\* A control is enabled again only when the job it started is over: the
\* operator is never offered a second deploy while the first one is active.
RearmedAfterEnd ==
    \A c \in Controls :
        control[c].request # None /\ ~ control[c].running => ~ IsActive(control[c].request)

\* What a control relies on: it names no job while its request is under way, and once it
\* does, it shows "running" until it shows the verdict of that job.
ControlsFollowJobs ==
    \A c \in Controls :
        /\ call[c].phase # "none" => control[c].request = None /\ control[c].running
        /\ control[c].request # None =>
              IF control[c].running
              THEN control[c].shown = "running"
              ELSE /\ control[c].shown \in Terminal
                   /\ status[control[c].request] \in {control[c].shown, "lost"}

\* A completion under way tells the verdict of its job.
WireIsTrue ==
    \A t \in Tabs : \A i \in DOMAIN wire[t] :
        status[wire[t][i].job] \in {wire[t][i].status, "lost"}

\* The inductive invariant of the console, on top of that of the job table.
ConsoleInv == JobInv /\ ConsoleTypeOK /\ ControlsFollowJobs /\ WireIsTrue

\* A completion that is on its way to a control that already knows its job
\* ends the control's run, unless the connection breaks first.
CompletionEndsRun ==
    \A c \in Controls, j \in Jobs :
        (control[c].request = j /\ \E i \in DOMAIN wire[c[1]] : wire[c[1]][i].job = j)
            ~> (control[c].request # j \/ ~ control[c].running \/ socket[c[1]] = "closed")
=============================================================================
