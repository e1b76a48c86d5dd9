----------------------------- MODULE JobManager -----------------------------
(***************************************************************************)
(* The job table of Mission Control (JobManager.ts) and the operating      *)
(* system processes its CommandExecutors own (CommandExecutor.ts).         *)
(*                                                                         *)
(* JavaScript runs one callback at a time: an action below is one          *)
(* callback, from its entry to its first await.  start() creates the job,  *)
(* spawns the child and marks the job running in one callback, so no other *)
(* callback ever sees status "pending".  What interleaves is what the      *)
(* operating system and the timers deliver: the exit of the child, the     *)
(* 'close' or 'error' event that reports it, the force-kill timer that     *)
(* cancel() arms, and the death of the backend itself.                     *)
(***************************************************************************)
EXTENDS Naturals, FiniteSets

CONSTANTS
    Jobs,       \* the request ids randomUUID() may hand out
    TimeoutSet, \* TRUE when start() is given options.timeout (no route does)
    None        \* not a job

ASSUME JobsAssumption ==
    /\ None \notin Jobs
    /\ TimeoutSet \in BOOLEAN

VARIABLES
    status,    \* job.status; "none" before start(), "lost" once the backend died
    executor,  \* job.executor # null
    announced, \* how many job:complete events were emitted for the job
    proc,      \* the child: what the operating system knows of it
    attached,  \* executor.activeProcess # null: 'close' and 'error' not seen yet
    settled,   \* the promise of execute() is resolved or rejected
    signals,   \* the signals the child was sent
    timer      \* the 5 s force-kill timer of cancel()

vars == <<status, executor, announced, proc, attached, settled, signals, timer>>

Terminal == {"completed", "failed", "cancelled"}
Statuses == {"none", "pending", "running", "lost"} \cup Terminal

TypeOK ==
    /\ status \in [Jobs -> Statuses]
    /\ executor \in [Jobs -> BOOLEAN]
    /\ announced \in [Jobs -> Nat]
    /\ proc \in [Jobs -> {"absent", "alive", "nospawn", "exit0", "exit1"}]
    /\ attached \in [Jobs -> BOOLEAN]
    /\ settled \in [Jobs -> BOOLEAN]
    /\ signals \in [Jobs -> SUBSET {"SIGTERM", "SIGKILL"}]
    /\ timer \in [Jobs -> {"off", "armed"}]

Init ==
    /\ status = [j \in Jobs |-> "none"]
    /\ executor = [j \in Jobs |-> FALSE]
    /\ announced = [j \in Jobs |-> 0]
    /\ proc = [j \in Jobs |-> "absent"]
    /\ attached = [j \in Jobs |-> FALSE]
    /\ settled = [j \in Jobs |-> FALSE]
    /\ signals = [j \in Jobs |-> {}]
    /\ timer = [j \in Jobs |-> "off"]

IsActive(j) == status[j] \in {"running", "pending"}

\* A faulty search that overlooks running jobs.
NoPendingJob == \A j \in Jobs : status[j] # "pending"

\* getActiveJob() finds nothing.
NoActiveJob == \A j \in Jobs : ~ IsActive(j)

Alive(j) == proc[j] = "alive"

(***************************************************************************)
(* JobManager                                                              *)
(***************************************************************************)

\* start() followed by runJob() up to its await.  With an active job start()
\* throws and changes nothing.  spawn() may fail (no such executable): the
\* 'error' event then comes in a later callback.
Start(j) ==
    /\ status[j] = "none"
    /\ NoActiveJob
    /\ status' = [status EXCEPT ![j] = "running"]
    /\ executor' = [executor EXCEPT ![j] = TRUE]
    /\ \E p \in {"alive", "nospawn"} : proc' = [proc EXCEPT ![j] = p]
    /\ attached' = [attached EXCEPT ![j] = TRUE]
    /\ UNCHANGED <<announced, settled, signals, timer>>

\* kill() of the executor: nothing happens once the process was seen to end.
Signalled(j, sig) ==
    IF attached[j] THEN [signals EXCEPT ![j] = @ \cup {sig}] ELSE signals

\* cancel(): SIGTERM, arm the force-kill timer, then forget the executor.
Cancel(j) ==
    /\ IsActive(j)
    /\ IF executor[j]
       THEN /\ signals' = Signalled(j, "SIGTERM")
            /\ timer' = [timer EXCEPT ![j] = "armed"]
       ELSE UNCHANGED <<signals, timer>>
    /\ status' = [status EXCEPT ![j] = "cancelled"]
    /\ executor' = [executor EXCEPT ![j] = FALSE]
    /\ announced' = [announced EXCEPT ![j] = @ + 1]
    /\ UNCHANGED <<proc, attached, settled>>

\* The timer callback of cancel(): SIGKILL if the job still has an executor.
ForceKill(j) ==
    /\ timer[j] = "armed"
    /\ timer' = [timer EXCEPT ![j] = "off"]
    /\ signals' = IF executor[j] THEN Signalled(j, "SIGKILL") ELSE signals
    /\ UNCHANGED <<status, executor, announced, proc, attached, settled>>

\* Faulty ends of runJob(): the cancelled job is not skipped; a rejected
\* execute() is not caught.
FinishCancelledToo(j, outcome) ==
    /\ status' = [status EXCEPT ![j] = outcome]
    /\ executor' = [executor EXCEPT ![j] = FALSE]
    /\ announced' = [announced EXCEPT ![j] = @ + 1]

FinishUncaught(j, outcome) ==
    IF status[j] = "cancelled" \/ outcome = "failed"
    THEN UNCHANGED <<status, executor, announced>>
    ELSE /\ status' = [status EXCEPT ![j] = outcome]
         /\ executor' = [executor EXCEPT ![j] = FALSE]
         /\ announced' = [announced EXCEPT ![j] = @ + 1]

\* What runJob() does with the outcome of execute(), in the microtask that
\* follows the event: nothing for a cancelled job.
Finish(j, outcome) ==
    IF status[j] = "cancelled"
    THEN UNCHANGED <<status, executor, announced>>
    ELSE /\ status' = [status EXCEPT ![j] = outcome]
         /\ executor' = [executor EXCEPT ![j] = FALSE]
         /\ announced' = [announced EXCEPT ![j] = @ + 1]

(***************************************************************************)
(* CommandExecutor                                                         *)
(***************************************************************************)

Outcome(j) == IF proc[j] = "exit0" THEN "completed" ELSE "failed"

\* The 'close' event of an ended child, or the 'error' event of a failed
\* spawn.  A promise that the timeout rejected stays as it is.
ChildEvent(j) ==
    /\ attached[j]
    /\ proc[j] \in {"exit0", "exit1", "nospawn"}
    /\ attached' = [attached EXCEPT ![j] = FALSE]
    /\ settled' = [settled EXCEPT ![j] = TRUE]
    /\ IF settled[j]
       THEN UNCHANGED <<status, executor, announced>>
       ELSE Finish(j, Outcome(j))
    /\ UNCHANGED <<proc, signals, timer>>

\* options.timeout fires before the child ended: SIGTERM, and the promise is
\* rejected without waiting for the child.
CommandTimeout(j) ==
    /\ TimeoutSet
    /\ attached[j]
    /\ ~ settled[j]
    /\ settled' = [settled EXCEPT ![j] = TRUE]
    /\ signals' = Signalled(j, "SIGTERM")
    /\ Finish(j, "failed")
    /\ UNCHANGED <<proc, attached, timer>>

(***************************************************************************)
(* The environment                                                         *)
(***************************************************************************)

\* The child ends by itself or by a signal.  A script may handle SIGTERM and
\* still exit with code 0, or ignore it; SIGKILL leaves no exit code (?? 1).
ProcessExit(j) ==
    /\ Alive(j)
    /\ \E p \in IF "SIGKILL" \in signals[j] THEN {"exit1"} ELSE {"exit0", "exit1"} :
           proc' = [proc EXCEPT ![j] = p]
    /\ UNCHANGED <<status, executor, announced, attached, settled, signals, timer>>

\* The backend process ends (SIGINT, SIGTERM, crash) and a new one starts with
\* an empty job map.  The job table is in memory only, and nothing stops the
\* children: server.ts closes the HTTP server and exits.
BackendRestart ==
    /\ status' = [j \in Jobs |-> IF status[j] = "none" THEN "none" ELSE "lost"]
    /\ executor' = [j \in Jobs |-> FALSE]
    /\ attached' = [j \in Jobs |-> FALSE]
    /\ timer' = [j \in Jobs |-> "off"]
    /\ UNCHANGED <<announced, proc, settled, signals>>

JobStep(j) ==
    \/ Start(j)
    \/ Cancel(j)
    \/ ForceKill(j)
    \/ ChildEvent(j)
    \/ CommandTimeout(j)
    \/ ProcessExit(j)

Next == (\E j \in Jobs : JobStep(j)) \/ BackendRestart

Spec == Init /\ [][Next]_vars

\* Timers and child events are delivered by the event loop; SIGKILL cannot be
\* ignored.  Nothing obliges a child to end by itself or on SIGTERM.
Fairness ==
    \A j \in Jobs :
        /\ WF_vars(ForceKill(j))
        /\ WF_vars(ChildEvent(j))
        /\ WF_vars(ProcessExit(j) /\ "SIGKILL" \in signals[j])

FairSpec == Spec /\ Fairness
-----------------------------------------------------------------------------
(***************************************************************************)
(* Properties                                                              *)
(***************************************************************************)

\* At most one job is pending or running, whatever cancels, timeouts, late
\* child events and restarts come between two calls of start().
AtMostOneActive ==
    \A i, j \in Jobs : IsActive(i) /\ IsActive(j) => i = j

\* A job in the table can be cancelled with effect as long as it is active: it
\* has its executor, and the executor its process; a job that is over has
\* let its executor go.
ExecutorTracksStatus ==
    \A j \in Jobs :
        /\ executor[j] <=> IsActive(j)
        /\ IsActive(j) => attached[j] /\ ~ settled[j] /\ proc[j] # "absent"

\* The verdict shown for a job is the verdict of its process: "completed" only
\* for exit code 0, and "failed" only for a process that failed or that the
\* timeout told to stop.
VerdictMatchesExit ==
    \A j \in Jobs :
        /\ status[j] = "completed" => proc[j] = "exit0"
        /\ status[j] = "failed" =>
               proc[j] \in {"exit1", "nospawn"} \/ "SIGTERM" \in signals[j]

\* job:complete is emitted exactly once per job: when it reaches its verdict.
CompleteEmittedOnce ==
    \A j \in Jobs : status[j] # "lost" =>
        announced[j] = IF status[j] \in Terminal THEN 1 ELSE 0

\* What the backend tells of a job's end: the right verdict, exactly once, whichever of
\* cancel(), the timeout and the late event of the child came first.
OutcomesAreReported == VerdictMatchesExit /\ CompleteEmittedOnce

\* A verdict is final: the exit of a cancelled or timed-out process, reported
\* late, never rewrites it (only a restart forgets it).
VerdictIsFinal ==
    [][\A j \in Jobs : status[j] \in Terminal => status'[j] \in {status[j], "lost"}]_vars

\* A process that ended is reported: its job does not stay active for ever.
EndedProcessIsReported ==
    \A j \in Jobs : (IsActive(j) /\ proc[j] \in {"exit0", "exit1", "nospawn"}) ~> ~ IsActive(j)

\* What a step relies on beyond the invariants above: a request id that was never
\* handed out has left no trace.
FreshIsUntouched ==
    \A j \in Jobs : status[j] = "none" =>
        /\ ~ attached[j] /\ ~ settled[j]
        /\ announced[j] = 0 /\ proc[j] = "absent"

\* An execute() that is still pending belongs to a job that is active or cancelled:
\* no other verdict is ever given before the promise settles.
PendingPromiseIsCurrent ==
    \A j \in Jobs : attached[j] /\ ~ settled[j] => IsActive(j) \/ status[j] = "cancelled"

\* The inductive invariant of the job table.
JobInv ==
    /\ TypeOK
    /\ FreshIsUntouched
    /\ PendingPromiseIsCurrent
    /\ AtMostOneActive
    /\ ExecutorTracksStatus
    /\ VerdictMatchesExit
    /\ CompleteEmittedOnce

\* The comment in cancel(): a process that survives SIGTERM is killed.
CancelledProcessIsKilled ==
    \A j \in Jobs :
        (status[j] = "cancelled" /\ Alive(j)) ~> (~ Alive(j) \/ status[j] = "lost")
=============================================================================
