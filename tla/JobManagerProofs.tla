-------------------------- MODULE JobManagerProofs --------------------------
(***************************************************************************)
(* Proofs about JobManager, for any set of jobs and with or without        *)
(* timeouts: JobInv is inductive, a verdict is final, and the table        *)
(* implements the single slot of JobSlot.  Then about JobConsole, for any  *)
(* number of tabs: what the controls show of jobs is true.                 *)
(***************************************************************************)
EXTENDS JobManagerRefinement, JobConsole, TLAPS

LEMMA InitJobInv == Init => JobInv
  BY DEF Init, JobInv, TypeOK, FreshIsUntouched, AtMostOneActive, ExecutorTracksStatus,
         VerdictMatchesExit, CompleteEmittedOnce, PendingPromiseIsCurrent, IsActive, Statuses, Terminal

LEMMA StartKeepsJobInv ==
  ASSUME JobInv, NEW j \in Jobs, Start(j)
  PROVE  JobInv'
  <1> USE DEF Start, JobInv, Statuses, Terminal, TypeOK, IsActive
  <1>1. PICK p \in {"alive", "nospawn"} : proc' = [proc EXCEPT ![j] = p]
    OBVIOUS
  <1>2. TypeOK'
    BY <1>1
  <1>3. FreshIsUntouched'
    BY <1>1 DEF FreshIsUntouched
  <1>4. AtMostOneActive'
    BY DEF NoActiveJob, AtMostOneActive
  <1>5. ExecutorTracksStatus'
    BY <1>1 DEF NoActiveJob, FreshIsUntouched, ExecutorTracksStatus
  <1>6. VerdictMatchesExit'
    BY <1>1 DEF VerdictMatchesExit
  <1>7. CompleteEmittedOnce'
    BY DEF FreshIsUntouched, CompleteEmittedOnce
  <1>8. PendingPromiseIsCurrent'
    BY DEF PendingPromiseIsCurrent
  <1> QED BY <1>2, <1>3, <1>4, <1>5, <1>6, <1>7, <1>8

LEMMA CancelKeepsJobInv ==
  ASSUME JobInv, NEW j \in Jobs, Cancel(j)
  PROVE  JobInv'
  <1> USE DEF Cancel, Signalled, JobInv, Statuses, Terminal, TypeOK, IsActive
  <1>1. executor[j] /\ announced[j] = 0
    BY DEF ExecutorTracksStatus, CompleteEmittedOnce
  <1>2. TypeOK'
    BY <1>1
  <1>3. FreshIsUntouched'
    BY DEF FreshIsUntouched
  <1>4. AtMostOneActive'
    BY DEF AtMostOneActive
  <1>5. ExecutorTracksStatus'
    BY DEF ExecutorTracksStatus
  <1>6. VerdictMatchesExit'
    BY <1>1 DEF VerdictMatchesExit
  <1>7. CompleteEmittedOnce'
    BY <1>1 DEF CompleteEmittedOnce
  <1>8. PendingPromiseIsCurrent'
    BY DEF PendingPromiseIsCurrent
  <1> QED BY <1>2, <1>3, <1>4, <1>5, <1>6, <1>7, <1>8

LEMMA ForceKillKeepsJobInv ==
  ASSUME JobInv, NEW j \in Jobs, ForceKill(j)
  PROVE  JobInv'
  <1> USE DEF ForceKill, Signalled, JobInv, TypeOK
  <1>1. TypeOK'
    OBVIOUS
  <1>2. VerdictMatchesExit'
    BY DEF VerdictMatchesExit
  <1> QED
    BY <1>1, <1>2 DEF FreshIsUntouched, AtMostOneActive, ExecutorTracksStatus,
                      CompleteEmittedOnce, PendingPromiseIsCurrent, IsActive

\* The two ways a promise of execute() settles share Finish.
LEMMA FinishVerdict ==
  ASSUME JobInv, NEW j \in Jobs, attached[j], ~ settled[j],
         NEW outcome \in {"completed", "failed"}, Finish(j, outcome)
  PROVE  /\ status' \in [Jobs -> Statuses]
         /\ executor' \in [Jobs -> BOOLEAN]
         /\ announced' \in [Jobs -> Nat]
         /\ ~ IsActive(j)' /\ ~ executor'[j] /\ announced'[j] = 1
         /\ status'[j] \in {outcome, "cancelled"}
         /\ status[j] \in {"running", "pending", "cancelled"}
         /\ status[j] = "cancelled" => status'[j] = "cancelled"
         /\ \A i \in Jobs \ {j} : /\ status'[i] = status[i]
                                  /\ executor'[i] = executor[i]
                                  /\ announced'[i] = announced[i]
  <1> USE DEF Finish, JobInv, TypeOK, IsActive, Statuses, Terminal
  <1>1. status[j] \in {"running", "pending", "cancelled"}
    BY DEF PendingPromiseIsCurrent
  <1>2. CASE status[j] = "cancelled"
    BY <1>2 DEF CompleteEmittedOnce, ExecutorTracksStatus
  <1>3. CASE status[j] # "cancelled"
    <2>1. announced[j] = 0
      BY <1>1, <1>3 DEF CompleteEmittedOnce
    <2>2. /\ status' = [status EXCEPT ![j] = outcome]
          /\ executor' = [executor EXCEPT ![j] = FALSE]
          /\ announced' = [announced EXCEPT ![j] = @ + 1]
      BY <1>3
    <2>3. status' \in [Jobs -> Statuses]
      BY <2>2
    <2>4. executor' \in [Jobs -> BOOLEAN] /\ ~ executor'[j]
      BY <2>2
    <2>5. announced' \in [Jobs -> Nat] /\ announced'[j] = 1
      BY <2>1, <2>2
    <2>6. status'[j] = outcome
      BY <2>2
    <2>7. \A i \in Jobs \ {j} : /\ status'[i] = status[i]
                                /\ executor'[i] = executor[i]
                                /\ announced'[i] = announced[i]
      BY <2>2
    <2> QED
      BY <1>1, <1>3, <2>3, <2>4, <2>5, <2>6, <2>7
  <1> QED BY <1>2, <1>3

\* A step of job j that leaves every other job alone and ends with j settled.
LEMMA FinishKeepsJobInv ==
  ASSUME JobInv, NEW j \in Jobs, attached[j], ~ settled[j],
         NEW outcome \in {"completed", "failed"}, Finish(j, outcome),
         settled' = [settled EXCEPT ![j] = TRUE], UNCHANGED <<proc, timer>>,
         attached' \in [Jobs -> BOOLEAN], \A i \in Jobs : attached'[i] => attached[i],
         \A i \in Jobs \ {j} : attached'[i] = attached[i],
         signals' \in [Jobs -> SUBSET {"SIGTERM", "SIGKILL"}],
         \A i \in Jobs : signals[i] \subseteq signals'[i],
         outcome = "completed" => proc[j] = "exit0",
         outcome = "failed" => proc[j] \in {"exit1", "nospawn"} \/ "SIGTERM" \in signals'[j]
  PROVE  JobInv'
  <1>1. /\ status' \in [Jobs -> Statuses]
        /\ executor' \in [Jobs -> BOOLEAN]
        /\ announced' \in [Jobs -> Nat]
        /\ ~ IsActive(j)' /\ ~ executor'[j] /\ announced'[j] = 1
        /\ status'[j] \in {outcome, "cancelled"}
        /\ status[j] \in {"running", "pending", "cancelled"}
        /\ \A i \in Jobs \ {j} : /\ status'[i] = status[i]
                                 /\ executor'[i] = executor[i]
                                 /\ announced'[i] = announced[i]
    BY FinishVerdict
  <1>2. settled'[j] /\ \A i \in Jobs \ {j} : settled'[i] = settled[i]
    BY DEF JobInv, TypeOK
  <1>3. TypeOK'
    BY <1>1 DEF JobInv, TypeOK
  <1>4. FreshIsUntouched'
    BY <1>1, <1>2 DEF JobInv, FreshIsUntouched
  <1>5. PendingPromiseIsCurrent'
    BY <1>1, <1>2 DEF JobInv, PendingPromiseIsCurrent, IsActive
  <1>6. AtMostOneActive'
    BY <1>1 DEF JobInv, AtMostOneActive, IsActive
  <1>7. ExecutorTracksStatus'
    BY <1>1, <1>2 DEF JobInv, ExecutorTracksStatus, IsActive
  <1>8. VerdictMatchesExit'
    BY <1>1 DEF JobInv, VerdictMatchesExit
  <1>9. CompleteEmittedOnce'
    BY <1>1 DEF JobInv, CompleteEmittedOnce, Terminal
  <1> QED BY <1>3, <1>4, <1>5, <1>6, <1>7, <1>8, <1>9 DEF JobInv

LEMMA ChildEventKeepsJobInv ==
  ASSUME JobInv, NEW j \in Jobs, ChildEvent(j)
  PROVE  JobInv'
  <1>1. /\ attached' \in [Jobs -> BOOLEAN]
        /\ \A i \in Jobs : attached'[i] => attached[i]
        /\ ~ attached'[j]
        /\ \A i \in Jobs \ {j} : attached'[i] = attached[i]
    BY DEF ChildEvent, JobInv, TypeOK
  <1>2. CASE settled[j]
    <2>1. settled' = settled
      BY <1>2 DEF ChildEvent, JobInv, TypeOK
    <2>2. UNCHANGED <<status, executor, announced, proc, signals, timer>>
      BY <1>2 DEF ChildEvent
    <2> QED
      BY <1>1, <1>2, <2>1, <2>2 DEF JobInv, TypeOK, FreshIsUntouched, AtMostOneActive,
         ExecutorTracksStatus, VerdictMatchesExit, CompleteEmittedOnce,
         PendingPromiseIsCurrent, IsActive
  <1>3. CASE ~ settled[j]
    <2>1. Finish(j, Outcome(j)) /\ Outcome(j) \in {"completed", "failed"}
      BY <1>3 DEF ChildEvent, Outcome
    <2>2. /\ Outcome(j) = "completed" => proc[j] = "exit0"
          /\ Outcome(j) = "failed" => proc[j] \in {"exit1", "nospawn"}
      BY DEF ChildEvent, Outcome
    <2>3. attached[j] /\ settled' = [settled EXCEPT ![j] = TRUE]
          /\ UNCHANGED <<proc, timer, signals>>
      BY DEF ChildEvent
    <2>4. signals \in [Jobs -> SUBSET {"SIGTERM", "SIGKILL"}]
      BY DEF JobInv, TypeOK
    <2> DEFINE o == Outcome(j)
    <2> HIDE DEF o
    <2>5. Finish(j, o) /\ o \in {"completed", "failed"}
          /\ (o = "completed" => proc[j] = "exit0")
          /\ (o = "failed" => proc[j] \in {"exit1", "nospawn"} \/ "SIGTERM" \in signals'[j])
      BY <2>1, <2>2 DEF o
    <2> QED
      BY <1>1, <1>3, <2>3, <2>4, <2>5, FinishKeepsJobInv
  <1> QED BY <1>2, <1>3

LEMMA CommandTimeoutKeepsJobInv ==
  ASSUME JobInv, NEW j \in Jobs, CommandTimeout(j)
  PROVE  JobInv'
  <1>1. /\ signals' \in [Jobs -> SUBSET {"SIGTERM", "SIGKILL"}]
        /\ \A i \in Jobs : signals[i] \subseteq signals'[i]
        /\ "SIGTERM" \in signals'[j]
    BY DEF CommandTimeout, Signalled, JobInv, TypeOK
  <1>2. attached \in [Jobs -> BOOLEAN]
    BY DEF JobInv, TypeOK
  <1> QED
    BY <1>1, <1>2, FinishKeepsJobInv DEF CommandTimeout

LEMMA ProcessExitKeepsJobInv ==
  ASSUME JobInv, NEW j \in Jobs, ProcessExit(j)
  PROVE  JobInv'
  <1>1. PICK p \in {"exit0", "exit1"} : proc' = [proc EXCEPT ![j] = p]
    BY DEF ProcessExit
  <1>2. UNCHANGED <<status, executor, announced, attached, settled, signals, timer>>
    BY DEF ProcessExit
  <1>3. proc[j] = "alive"
    BY DEF ProcessExit, Alive
  <1>4. TypeOK'
    BY <1>1, <1>2 DEF JobInv, TypeOK
  <1>5. FreshIsUntouched'
    BY <1>1, <1>2, <1>3 DEF JobInv, FreshIsUntouched, TypeOK
  <1>6. ExecutorTracksStatus'
    BY <1>1, <1>2, <1>3 DEF JobInv, ExecutorTracksStatus, TypeOK, IsActive
  <1>7. VerdictMatchesExit'
    BY <1>1, <1>2, <1>3 DEF JobInv, VerdictMatchesExit, TypeOK
  <1> QED
    BY <1>2, <1>4, <1>5, <1>6, <1>7
       DEF JobInv, AtMostOneActive, CompleteEmittedOnce, PendingPromiseIsCurrent, IsActive

LEMMA BackendRestartKeepsJobInv ==
  ASSUME JobInv, BackendRestart
  PROVE  JobInv'
  <1> USE DEF BackendRestart
  <1>1. \A j \in Jobs : ~ IsActive(j)' /\ status'[j] \in {"none", "lost"}
    BY DEF IsActive
  <1>2. TypeOK'
    BY DEF JobInv, TypeOK, Statuses
  <1>3. FreshIsUntouched'
    BY DEF JobInv, TypeOK, FreshIsUntouched
  <1>4. ExecutorTracksStatus'
    BY <1>1 DEF ExecutorTracksStatus
  <1>5. CompleteEmittedOnce'
    BY <1>1 DEF JobInv, FreshIsUntouched, CompleteEmittedOnce, Terminal
  <1> QED
    BY <1>1, <1>2, <1>3, <1>4, <1>5
       DEF JobInv, AtMostOneActive, VerdictMatchesExit, PendingPromiseIsCurrent

LEMMA NextKeepsJobInv == JobInv /\ [Next]_vars => JobInv'
  <1> SUFFICES ASSUME JobInv, [Next]_vars PROVE JobInv'
    OBVIOUS
  <1>1. ASSUME NEW j \in Jobs, JobStep(j) PROVE JobInv'
    BY <1>1, StartKeepsJobInv, CancelKeepsJobInv, ForceKillKeepsJobInv,
       ChildEventKeepsJobInv, CommandTimeoutKeepsJobInv, ProcessExitKeepsJobInv
       DEF JobStep
  <1>2. CASE BackendRestart
    BY <1>2, BackendRestartKeepsJobInv
  <1>3. CASE UNCHANGED vars
    BY <1>3 DEF vars, JobInv, TypeOK, FreshIsUntouched, AtMostOneActive,
       ExecutorTracksStatus, VerdictMatchesExit, CompleteEmittedOnce,
       PendingPromiseIsCurrent, IsActive
  <1> QED BY <1>1, <1>2, <1>3 DEF Next

\* The inductive invariant of the job table holds in every reachable state.
THEOREM JobInvariance == Spec => []JobInv
  <1> QED BY InitJobInv, NextKeepsJobInv, PTL DEF Spec

\* Type correctness of the job table.
THEOREM JobTypeCorrect == Spec => []TypeOK
  <1>1. JobInv => TypeOK
    BY DEF JobInv
  <1> QED BY <1>1, JobInvariance, PTL

\* At most one job is pending or running, for any number of jobs.
THEOREM SingleActiveJob == Spec => []AtMostOneActive
  <1>1. JobInv => AtMostOneActive
    BY DEF JobInv
  <1> QED BY <1>1, JobInvariance, PTL

\* The backend tells of every job's end once, and with the verdict of its process,
\* whichever event came late.
THEOREM OutcomeReports == Spec => []OutcomesAreReported
  <1>1. JobInv => OutcomesAreReported
    BY DEF JobInv, OutcomesAreReported
  <1> QED BY <1>1, JobInvariance, PTL

-----------------------------------------------------------------------------
\* What a step does to the status of each job, whichever callback it is.
LEMMA StatusStep ==
  ASSUME JobInv, NEW j \in Jobs, JobStep(j)
  PROVE  /\ status' \in [Jobs -> Statuses]
         /\ \A i \in Jobs \ {j} : status'[i] = status[i]
         /\ \/ status'[j] = status[j]
            \/ status[j] = "none" /\ status'[j] = "running" /\ NoActiveJob
            \/ IsActive(j) /\ status'[j] \in Terminal
  <1>1. status \in [Jobs -> Statuses] /\ attached \in [Jobs -> BOOLEAN]
    BY DEF JobInv, TypeOK
  <1>2. CASE Start(j)
    BY <1>1, <1>2 DEF Start, Statuses
  <1>3. CASE Cancel(j)
    BY <1>1, <1>3 DEF Cancel, Statuses, Terminal
  <1>4. CASE ForceKill(j) \/ ProcessExit(j)
    BY <1>1, <1>4 DEF ForceKill, ProcessExit
  <1>5. ASSUME attached[j], ~ settled[j], NEW outcome \in {"completed", "failed"},
               Finish(j, outcome)
        PROVE  /\ status' \in [Jobs -> Statuses]
               /\ \A i \in Jobs \ {j} : status'[i] = status[i]
               /\ \/ status'[j] = status[j]
                  \/ IsActive(j) /\ status'[j] \in Terminal
    BY <1>5, FinishVerdict DEF IsActive, Terminal
  <1>6. CASE ChildEvent(j)
    <2>1. CASE settled[j]
      BY <1>1, <1>6, <2>1 DEF ChildEvent
    <2>2. CASE ~ settled[j]
      <3>1. Finish(j, Outcome(j)) /\ Outcome(j) \in {"completed", "failed"} /\ attached[j]
        BY <1>6, <2>2 DEF ChildEvent, Outcome
      <3>2. PICK o \in {"completed", "failed"} : Finish(j, o)
        BY <3>1
      <3> QED BY <1>5, <2>2, <3>1, <3>2
    <2> QED BY <2>1, <2>2
  <1>7. CASE CommandTimeout(j)
    BY <1>5, <1>7 DEF CommandTimeout
  <1> QED BY <1>2, <1>3, <1>4, <1>6, <1>7 DEF JobStep

\* A verdict is never rewritten, however late the process reports its end.
THEOREM FinalVerdicts == Spec => VerdictIsFinal
  <1>1. JobInv /\ [Next]_vars =>
          [\A j \in Jobs : status[j] \in Terminal => status'[j] \in {status[j], "lost"}]_vars
    <2> SUFFICES ASSUME JobInv, Next, NEW i \in Jobs, status[i] \in Terminal
                 PROVE  status'[i] \in {status[i], "lost"}
      OBVIOUS
    <2>1. ASSUME NEW j \in Jobs, JobStep(j) PROVE status'[i] = status[i]
      BY <2>1, StatusStep DEF IsActive, Terminal
    <2>2. CASE BackendRestart
      BY <2>2 DEF BackendRestart, Terminal
    <2> QED BY <2>1, <2>2 DEF Next
  <1> QED BY <1>1, JobInvariance, PTL DEF Spec, VerdictIsFinal

-----------------------------------------------------------------------------
LEMMA ActiveJobIs ==
  ASSUME JobInv, NEW j \in Jobs, IsActive(j)
  PROVE  ActiveJob = j /\ j # None
  <1>1. \A i \in Jobs : IsActive(i) => i = j
    BY DEF JobInv, AtMostOneActive
  <1> QED BY <1>1, JobsAssumption DEF ActiveJob, NoActiveJob

LEMMA InitRefines == Init => Slot!Init
  BY DEF Init, Slot!Init, ActiveJob, NoActiveJob, IsActive, Verdict, Terminal

LEMMA StepRefines ==
  ASSUME JobInv, JobInv', NEW j \in Jobs, JobStep(j)
  PROVE  [Slot!Next]_(Slot!slotVars)
  <1>1. /\ status' \in [Jobs -> Statuses]
        /\ \A i \in Jobs \ {j} : status'[i] = status[i]
        /\ \/ status'[j] = status[j]
           \/ status[j] = "none" /\ status'[j] = "running" /\ NoActiveJob
           \/ IsActive(j) /\ status'[j] \in Terminal
    BY StatusStep
  <1>2. status \in [Jobs -> Statuses]
    BY DEF JobInv, TypeOK
  <1>3. CASE status'[j] = status[j]
    <2>1. status' = status
      BY <1>1, <1>2, <1>3
    <2> QED BY <2>1 DEF Slot!slotVars, ActiveJob, NoActiveJob, IsActive, Verdict
  <1>4. CASE status[j] = "none" /\ status'[j] = "running" /\ NoActiveJob
    <2>1. ActiveJob = None
      BY <1>4 DEF ActiveJob
    <2>2. ActiveJob' = j
      <3>1. IsActive(j)'
        BY <1>4 DEF IsActive
      <3>2. \A i \in Jobs : IsActive(i)' => i = j
        BY <3>1 DEF JobInv, AtMostOneActive
      <3> QED BY <3>1, <3>2 DEF ActiveJob, NoActiveJob
    <2>3. Verdict' = Verdict /\ Verdict[j] = "none"
      BY <1>1, <1>4 DEF Verdict, Terminal
    <2> QED BY <2>1, <2>2, <2>3 DEF Slot!Next, Slot!Acquire
  <1>5. CASE IsActive(j) /\ status'[j] \in Terminal
    <2>1. ActiveJob = j /\ j # None
      BY <1>5, ActiveJobIs
    <2>2. ActiveJob' = None
      <3>1. \A i \in Jobs : ~ IsActive(i)'
        BY <1>1, <1>5 DEF JobInv, AtMostOneActive, IsActive, Terminal
      <3> QED BY <3>1 DEF ActiveJob, NoActiveJob
    <2>3. Verdict' = [Verdict EXCEPT ![j] = status'[j]]
      BY <1>1, <1>5 DEF Verdict, Terminal
    <2> QED BY <1>5, <2>1, <2>2, <2>3 DEF Slot!Next, Slot!Release, Terminal
  <1> QED BY <1>1, <1>3, <1>4, <1>5

LEMMA RestartRefines ==
  ASSUME JobInv, BackendRestart
  PROVE  Slot!Next
  <1>1. ActiveJob' = None
    BY DEF BackendRestart, ActiveJob, NoActiveJob, IsActive
  <1>2. \A j \in Jobs : (Verdict[j] = "none" /\ j # ActiveJob) <=> status[j] = "none"
    <2> TAKE j \in Jobs
    <2>1. status[j] \in Statuses
      BY DEF JobInv, TypeOK
    <2>2. CASE IsActive(j)
      BY <2>2, ActiveJobIs DEF IsActive
    <2>3. CASE ~ IsActive(j)
      <3>1. j # ActiveJob
        BY <2>3, JobsAssumption DEF ActiveJob, NoActiveJob
      <3> QED BY <2>1, <2>3, <3>1 DEF Verdict, IsActive, Statuses, Terminal
    <2> QED BY <2>2, <2>3
  <1>3. Verdict' = [j \in Jobs |-> IF status[j] = "none" THEN "none" ELSE "lost"]
    BY DEF BackendRestart, Verdict, Terminal
  <1> QED BY <1>1, <1>2, <1>3 DEF Slot!Next, Slot!Forget

\* The job table, with its processes, timers and late events, implements the
\* single slot that its callers rely on.
THEOREM TableImplementsSlot == Spec => ImplementsSlot
  <1>1. JobInv /\ JobInv' /\ [Next]_vars => [Slot!Next]_(Slot!slotVars)
    <2> SUFFICES ASSUME JobInv, JobInv', [Next]_vars
                 PROVE  [Slot!Next]_(Slot!slotVars)
      OBVIOUS
    <2>1. ASSUME NEW j \in Jobs, JobStep(j) PROVE [Slot!Next]_(Slot!slotVars)
      BY <2>1, StepRefines
    <2>2. CASE BackendRestart
      BY <2>2, RestartRefines
    <2>3. CASE UNCHANGED vars
      BY <2>3 DEF vars, Slot!slotVars, ActiveJob, NoActiveJob, IsActive, Verdict
    <2> QED BY <2>1, <2>2, <2>3 DEF Next
  <1> QED BY <1>1, InitRefines, JobInvariance, PTL DEF Spec, Slot!Spec, ImplementsSlot

-----------------------------------------------------------------------------
(***************************************************************************)
(* The console                                                             *)
(***************************************************************************)

\* Every step of the console is a step of the job table, or leaves it alone.
LEMMA ConsoleStepIsJobStep ==
  ASSUME ConsoleNext
  PROVE  [Next]_vars
  <1>1. ASSUME NEW c \in Controls, Click(c) \/ Route(c) \/ Answer(c)
        PROVE  [Next]_vars
    BY <1>1 DEF Click, Route, Answer, Next, JobStep
  <1>2. ASSUME NEW t \in Tabs, WsOpen(t) \/ WsMessage(t) \/ WsDrop(t)
        PROVE  [Next]_vars
    BY <1>2 DEF WsOpen, WsMessage, WsDrop
  <1>3. CASE JobCallback
    BY <1>3 DEF JobCallback, Beside, Next, JobStep
  <1>4. CASE Restart
    BY <1>4 DEF Restart, Next
  <1> QED BY <1>1, <1>2, <1>3, <1>4 DEF ConsoleNext

\* A verdict stays, or is lost with the backend.
LEMMA VerdictStays ==
  ASSUME JobInv, [Next]_vars, NEW j \in Jobs, NEW s \in Terminal, status[j] \in {s, "lost"}
  PROVE  status'[j] \in {s, "lost"}
  <1>1. ASSUME NEW i \in Jobs, JobStep(i) PROVE status'[j] = status[j]
    BY <1>1, StatusStep DEF IsActive, Terminal
  <1>2. CASE BackendRestart
    BY <1>2 DEF BackendRestart, Terminal
  <1>3. CASE UNCHANGED vars
    BY <1>3 DEF vars
  <1> QED BY <1>1, <1>2, <1>3 DEF Next

\* A job:complete is emitted with the verdict of its job.
LEMMA AnnouncedVerdict ==
  ASSUME JobInv, JobInv', [Next]_vars, NEW j \in Jobs, announced'[j] # announced[j]
  PROVE  status'[j] \in Terminal
  <1>1. status'[j] # "lost" => announced'[j] = IF status'[j] \in Terminal THEN 1 ELSE 0
    BY DEF JobInv, CompleteEmittedOnce
  <1>2. status[j] # "lost" => announced[j] = IF status[j] \in Terminal THEN 1 ELSE 0
    BY DEF JobInv, CompleteEmittedOnce
  <1>3. ASSUME NEW i \in Jobs, JobStep(i) PROVE status'[j] \in Terminal
    <2>1. status'[j] = "lost" => status[j] = "lost"
      BY <1>3, StatusStep DEF Terminal
    <2>2. status[j] = "lost" => announced'[j] = announced[j]
      BY <1>3 DEF JobStep, Start, Cancel, ForceKill, ChildEvent, CommandTimeout, ProcessExit,
             Finish, JobInv, TypeOK, IsActive, PendingPromiseIsCurrent
    <2>3. status'[j] \notin Terminal => announced[j] = 0 /\ announced'[j] = 0
      BY <1>1, <1>2, <1>3, <2>1, <2>2, StatusStep DEF IsActive, Terminal
    <2> QED BY <2>3
  <1>4. CASE BackendRestart
    BY <1>4 DEF BackendRestart
  <1>5. CASE UNCHANGED vars
    BY <1>5 DEF vars
  <1> QED BY <1>3, <1>4, <1>5 DEF Next

LEMMA ElementOf ==
  ASSUME NEW S, NEW s \in Seq(S)
  PROVE  /\ \A i \in DOMAIN s : s[i] \in S
         /\ s # <<>> => /\ 1 \in DOMAIN s /\ Head(s) = s[1]
                       /\ Tail(s) \in Seq(S)
                       /\ \A i \in DOMAIN Tail(s) : i + 1 \in DOMAIN s /\ Tail(s)[i] = s[i + 1]
  OBVIOUS

LEMMA InitConsoleInv == ConsoleInit => ConsoleInv
  <1> SUFFICES ASSUME ConsoleInit PROVE ConsoleInv
    OBVIOUS
  <1>1. JobInv
    BY InitJobInv DEF ConsoleInit
  <1>2. ConsoleTypeOK
    <2>1. TypeOK
      BY <1>1 DEF JobInv
    <2>2. wire \in [Tabs -> Seq(Messages)]
      BY DEF ConsoleInit
    <2> QED BY <2>1, <2>2 DEF ConsoleInit, ConsoleTypeOK, Calls, ControlStates
  <1>3. ControlsFollowJobs
    BY DEF ConsoleInit, ControlsFollowJobs, NoCall
  <1>4. WireIsTrue
    BY DEF ConsoleInit, WireIsTrue
  <1> QED BY <1>1, <1>2, <1>3, <1>4 DEF ConsoleInv

\* What holds of controls and wire survives a step of the job table that leaves the
\* controls alone and puts no request under way.
LEMMA JobStepKeepsControls ==
  ASSUME ConsoleInv, [Next]_vars, control' = control,
         \A c \in Controls : call'[c].phase # "none" => call[c].phase # "none"
  PROVE  ControlsFollowJobs'
  <1> SUFFICES ASSUME NEW c \in Controls
               PROVE  /\ call'[c].phase # "none" => control[c].request = None /\ control[c].running
                      /\ control[c].request # None =>
                            IF control[c].running
                            THEN control[c].shown = "running"
                            ELSE /\ control[c].shown \in Terminal
                                 /\ status'[control[c].request] \in {control[c].shown, "lost"}
    BY DEF ControlsFollowJobs
  <1>1. control[c].request \in Jobs \cup {None}
    BY DEF ConsoleInv, ConsoleTypeOK, ControlStates
  <1>2. /\ call[c].phase # "none" => control[c].request = None /\ control[c].running
        /\ control[c].request # None =>
              IF control[c].running
              THEN control[c].shown = "running"
              ELSE /\ control[c].shown \in Terminal
                   /\ status[control[c].request] \in {control[c].shown, "lost"}
    BY DEF ConsoleInv, ControlsFollowJobs
  <1>3. JobInv
    BY DEF ConsoleInv
  <1>4. CASE control[c].request # None /\ ~ control[c].running
    BY <1>1, <1>2, <1>3, <1>4, VerdictStays
  <1> QED BY <1>2, <1>4

LEMMA JobStepKeepsWire ==
  ASSUME ConsoleInv, [Next]_vars, UNCHANGED wire
  PROVE  WireIsTrue'
  <1> SUFFICES ASSUME NEW t \in Tabs, NEW i \in DOMAIN wire[t]
               PROVE  status'[wire[t][i].job] \in {wire[t][i].status, "lost"}
    BY DEF WireIsTrue
  <1>1. wire[t][i] \in Messages
    BY ElementOf DEF ConsoleInv, ConsoleTypeOK
  <1>2. status[wire[t][i].job] \in {wire[t][i].status, "lost"} /\ JobInv
    BY DEF ConsoleInv, WireIsTrue
  <1> QED BY <1>1, <1>2, VerdictStays DEF Messages

LEMMA ClickKeepsConsoleInv ==
  ASSUME ConsoleInv, NEW c \in Controls, Click(c)
  PROVE  ConsoleTypeOK' /\ ControlsFollowJobs' /\ WireIsTrue'
  <1> USE DEF ConsoleInv
  <1>1. ConsoleTypeOK'
    <2>1. TypeOK'
      BY DEF Click, vars, TypeOK, ConsoleTypeOK
    <2>2. control' \in [Controls -> ControlStates]
      BY DEF Click, ConsoleTypeOK, ControlStates
    <2>3. call' \in [Controls -> Calls]
      BY DEF Click, ConsoleTypeOK, Calls
    <2> QED BY <2>1, <2>2, <2>3 DEF Click, ConsoleTypeOK
  <1>2. ControlsFollowJobs'
    BY DEF Click, ConsoleTypeOK, ControlsFollowJobs, vars, ControlStates
  <1>3. WireIsTrue'
    BY DEF Click, WireIsTrue, vars
  <1> QED BY <1>1, <1>2, <1>3

LEMMA AnswerKeepsConsoleInv ==
  ASSUME ConsoleInv, NEW c \in Controls, Answer(c)
  PROVE  ConsoleTypeOK' /\ ControlsFollowJobs' /\ WireIsTrue'
  <1> USE DEF ConsoleInv
  <1>1. control[c].request = None /\ control[c].running
    BY DEF Answer, ControlsFollowJobs
  <1>2. control[c] \in ControlStates
    BY DEF ConsoleTypeOK
  <1>3. PICK r : /\ control' = [control EXCEPT ![c] = r]
                 /\ r \in ControlStates
                 /\ r.request # None => r.running /\ r.shown = "running"
    <2>1. CASE call[c].phase = "accepted"
      <3>1. call[c].job \in Jobs
        BY <2>1 DEF ConsoleTypeOK, Calls, NoCall
      <3> DEFINE r == [control[c] EXCEPT !.request = call[c].job, !.shown = "running"]
      <3>2. control' = [control EXCEPT ![c] = r]
        BY <2>1 DEF Answer, Answered
      <3>3. r \in ControlStates
            /\ r.running /\ r.shown = "running"
        BY <1>1, <1>2, <3>1 DEF ControlStates
      <3> QED BY <3>2, <3>3
    <2>2. CASE call[c].phase # "accepted"
      <3> DEFINE r == [control[c] EXCEPT !.running = FALSE, !.shown = "failed"]
      <3>1. control' = [control EXCEPT ![c] = r]
        BY <2>2 DEF Answer, Answered
      <3>2. r \in ControlStates
            /\ r.request = None
        BY <1>1, <1>2 DEF Terminal, ControlStates
      <3> QED BY <3>1, <3>2
    <2> QED BY <2>1, <2>2
  <1>4. call' = [call EXCEPT ![c] = NoCall] /\ UNCHANGED <<vars, socket, wire>>
    BY DEF Answer
  <1>5. ConsoleTypeOK'
    <2>1. TypeOK'
      BY <1>4 DEF vars, TypeOK, ConsoleTypeOK
    <2> QED BY <1>3, <1>4, <2>1 DEF ConsoleTypeOK, Calls, ControlStates
  <1>6. ControlsFollowJobs'
    BY <1>3, <1>4 DEF ConsoleTypeOK, ControlsFollowJobs, vars, NoCall, ControlStates
  <1>7. WireIsTrue'
    BY <1>4 DEF WireIsTrue, vars
  <1> QED BY <1>5, <1>6, <1>7

LEMMA WsMessageKeepsConsoleInv ==
  ASSUME ConsoleInv, NEW t \in Tabs, WsMessage(t)
  PROVE  ConsoleTypeOK' /\ ControlsFollowJobs' /\ WireIsTrue'
  <1> USE DEF ConsoleInv
  <1> DEFINE msg == Head(wire[t])
  <1>1. wire[t] \in Seq(Messages) /\ wire[t] # <<>>
    BY DEF WsMessage, ConsoleTypeOK
  <1>2. msg \in Messages /\ msg = wire[t][1] /\ 1 \in DOMAIN wire[t]
    BY <1>1, ElementOf
  <1>3. status[msg.job] \in {msg.status, "lost"}
    BY <1>2 DEF WireIsTrue
  <1>4. Tail(wire[t]) \in Seq(Messages)
        /\ \A i \in DOMAIN Tail(wire[t]) : i + 1 \in DOMAIN wire[t] /\ Tail(wire[t])[i] = wire[t][i + 1]
    BY <1>1, ElementOf
  <1>5. wire' = [wire EXCEPT ![t] = Tail(wire[t])] /\ UNCHANGED <<vars, call, socket>>
    BY DEF WsMessage
  <1>6. control' = [c \in Controls |->
            IF c[1] = t /\ control[c].request = msg.job
            THEN [control[c] EXCEPT !.running = FALSE, !.shown = msg.status]
            ELSE control[c]]
    BY DEF WsMessage, ApplyComplete
  <1> HIDE DEF msg
  <1>7. ConsoleTypeOK'
    <2>1. TypeOK'
      BY <1>5 DEF vars, TypeOK, ConsoleTypeOK
    <2>2. \A s \in ControlStates :
              [s EXCEPT !.running = FALSE, !.shown = msg.status] \in ControlStates
      BY <1>2 DEF ControlStates, Messages
    <2>3. control \in [Controls -> ControlStates]
      BY DEF ConsoleTypeOK
    <2>4. control' \in [Controls -> ControlStates]
      BY <1>6, <2>2, <2>3
    <2>5. wire' \in [Tabs -> Seq(Messages)]
      BY <1>4, <1>5 DEF ConsoleTypeOK
    <2> QED BY <1>5, <2>1, <2>4, <2>5 DEF ConsoleTypeOK
  <1>8. ControlsFollowJobs'
    <2> SUFFICES ASSUME NEW c \in Controls
                 PROVE  /\ call[c].phase # "none" =>
                              control'[c].request = None /\ control'[c].running
                        /\ control'[c].request # None =>
                              IF control'[c].running
                              THEN control'[c].shown = "running"
                              ELSE /\ control'[c].shown \in Terminal
                                   /\ status[control'[c].request] \in {control'[c].shown, "lost"}
      BY <1>5 DEF ControlsFollowJobs, vars
    <2>1. /\ call[c].phase # "none" => control[c].request = None /\ control[c].running
          /\ control[c].request # None =>
                IF control[c].running
                THEN control[c].shown = "running"
                ELSE /\ control[c].shown \in Terminal
                     /\ status[control[c].request] \in {control[c].shown, "lost"}
      BY DEF ControlsFollowJobs
    <2>2. control[c] \in ControlStates
      BY DEF ConsoleTypeOK
    <2>3. CASE c[1] = t /\ control[c].request = msg.job
      <3>1. /\ control'[c].request = msg.job /\ ~ control'[c].running
            /\ control'[c].shown = msg.status
        BY <1>6, <2>2, <2>3 DEF ControlStates
      <3> QED BY <1>2, <1>3, <2>1, <2>3, <3>1, JobsAssumption DEF Messages
    <2>4. CASE ~ (c[1] = t /\ control[c].request = msg.job)
      BY <1>6, <2>1, <2>4
    <2> QED BY <2>3, <2>4
  <1>9. WireIsTrue'
    <2> SUFFICES ASSUME NEW u \in Tabs, NEW i \in DOMAIN wire'[u]
                 PROVE  status[wire'[u][i].job] \in {wire'[u][i].status, "lost"}
      BY <1>5 DEF WireIsTrue, vars
    <2>1. CASE u = t
      BY <1>4, <1>5, <2>1 DEF ConsoleTypeOK, WireIsTrue
    <2>2. CASE u # t
      BY <1>5, <2>2 DEF ConsoleTypeOK, WireIsTrue
    <2> QED BY <2>1, <2>2
  <1> QED BY <1>7, <1>8, <1>9

LEMMA SocketKeepsConsoleInv ==
  ASSUME ConsoleInv, NEW t \in Tabs, WsOpen(t) \/ WsDrop(t)
  PROVE  ConsoleTypeOK' /\ ControlsFollowJobs' /\ WireIsTrue'
  <1>1. UNCHANGED <<vars, control, call>>
    BY DEF WsOpen, WsDrop
  <1>2. socket' \in [Tabs -> {"connecting", "open", "closed"}]
    BY DEF WsOpen, WsDrop, ConsoleInv, ConsoleTypeOK
  <1>3. wire' = wire \/ wire' = [wire EXCEPT ![t] = <<>>]
    BY DEF WsOpen, WsDrop
  <1>4. wire' \in [Tabs -> Seq(Messages)]
    <2>1. <<>> \in Seq(Messages) /\ wire \in [Tabs -> Seq(Messages)]
      BY DEF ConsoleInv, ConsoleTypeOK
    <2> QED BY <1>3, <2>1
  <1>5. TypeOK'
    BY <1>1 DEF vars, TypeOK, ConsoleInv, ConsoleTypeOK
  <1>6. WireIsTrue'
    BY <1>1, <1>3 DEF vars, WireIsTrue, ConsoleInv, ConsoleTypeOK
  <1>7. ControlsFollowJobs'
    BY <1>1 DEF vars, ControlsFollowJobs, ConsoleInv
  <1> QED BY <1>1, <1>2, <1>4, <1>5, <1>6, <1>7 DEF ConsoleInv, ConsoleTypeOK

LEMMA RouteKeepsConsoleInv ==
  ASSUME ConsoleInv, JobInv', NEW c \in Controls, Route(c)
  PROVE  ConsoleTypeOK' /\ ControlsFollowJobs' /\ WireIsTrue'
  <1>1. [Next]_vars
    BY DEF Route, Next, JobStep
  <1>2. PICK r \in Calls : call' = [call EXCEPT ![c] = r]
    <2>1. CASE call' = [call EXCEPT ![c] = [phase |-> "refused"]]
      BY <2>1 DEF Calls
    <2>2. ASSUME NEW j \in Jobs, call' = [call EXCEPT ![c] = [phase |-> "accepted", job |-> j]]
          PROVE  \E r \in Calls : call' = [call EXCEPT ![c] = r]
      BY <2>2 DEF Calls
    <2> QED BY <2>1, <2>2 DEF Route
  <1>3. call[c].phase = "posted" /\ UNCHANGED <<control, socket, wire>>
    BY DEF Route
  <1>4. call' \in [Controls -> Calls]
    BY <1>2 DEF ConsoleInv, ConsoleTypeOK
  <1>5. \A d \in Controls : call'[d].phase # "none" => call[d].phase # "none"
    BY <1>2, <1>3 DEF ConsoleInv, ConsoleTypeOK
  <1>6. ControlsFollowJobs' /\ WireIsTrue'
    BY <1>1, <1>3, <1>5, JobStepKeepsControls, JobStepKeepsWire
  <1> QED BY <1>3, <1>4, <1>6 DEF ConsoleInv, ConsoleTypeOK, JobInv

LEMMA RestartKeepsConsoleInv ==
  ASSUME ConsoleInv, JobInv', Restart
  PROVE  ConsoleTypeOK' /\ ControlsFollowJobs' /\ WireIsTrue'
  <1>1. [Next]_vars
    BY DEF Restart, Next
  <1>2. PICK failed \in SUBSET {c \in Controls : call[c] # NoCall} :
          call' = [c \in Controls |-> IF c \in failed THEN [phase |-> "refused"] ELSE call[c]]
    BY DEF Restart
  <1>3. UNCHANGED <<control, wire>>
        /\ socket' = [t \in Tabs |-> IF socket[t] = "open" THEN "closed" ELSE socket[t]]
    BY DEF Restart
  <1>4. call' \in [Controls -> Calls]
    <2>1. [phase |-> "refused"] \in Calls /\ call \in [Controls -> Calls]
      BY DEF Calls, ConsoleInv, ConsoleTypeOK
    <2> QED BY <1>2, <2>1
  <1>5. \A c \in Controls : call'[c].phase # "none" => call[c].phase # "none"
    <2> SUFFICES ASSUME NEW c \in Controls, call'[c].phase # "none"
                 PROVE  call[c].phase # "none"
      OBVIOUS
    <2>1. CASE c \notin failed
      BY <1>2, <2>1
    <2>2. CASE c \in failed
      <3>1. call[c] \in Calls \ {NoCall}
        BY <2>2 DEF ConsoleInv, ConsoleTypeOK
      <3> QED BY <3>1 DEF Calls, NoCall
    <2> QED BY <2>1, <2>2
  <1>6. ControlsFollowJobs' /\ WireIsTrue'
    BY <1>1, <1>3, <1>5, JobStepKeepsControls, JobStepKeepsWire
  <1>7. socket' \in [Tabs -> {"connecting", "open", "closed"}]
    BY <1>3 DEF ConsoleInv, ConsoleTypeOK
  <1> QED BY <1>3, <1>4, <1>6, <1>7 DEF ConsoleInv, ConsoleTypeOK, JobInv

\* The other callbacks of the job table: what they put on the wire is the verdict of the
\* job they announce.
LEMMA CallbackKeepsConsoleInv ==
  ASSUME ConsoleInv, JobInv', [Next]_vars, Broadcast, UNCHANGED <<control, call, socket>>
  PROVE  ConsoleTypeOK' /\ ControlsFollowJobs' /\ WireIsTrue'
  <1>1. ControlsFollowJobs'
    BY JobStepKeepsControls
  <1> DEFINE emits == \E j \in Jobs : announced'[j] # announced[j]
             chosen == CHOOSE i \in Jobs : announced'[i] # announced[i]
             told == [job |-> chosen, status |-> status'[chosen]]
  <1>2. emits => chosen \in Jobs /\ status'[chosen] \in Terminal
    <2>1. emits => chosen \in Jobs /\ announced'[chosen] # announced[chosen]
      OBVIOUS
    <2> QED BY <2>1, AnnouncedVerdict DEF ConsoleInv
  <1>3. emits => told \in Messages /\ told.job = chosen /\ told.status = status'[chosen]
    BY <1>2 DEF Messages
  <1>4. wire' = [t \in Tabs |-> IF socket[t] = "open" /\ emits THEN Append(wire[t], told)
                                                             ELSE wire[t]]
    BY DEF Broadcast
  <1>5. \A t \in Tabs : wire[t] \in Seq(Messages)
    BY DEF ConsoleInv, ConsoleTypeOK
  <1>6. \A t \in Tabs : \A i \in DOMAIN wire[t] :
          status'[wire[t][i].job] \in {wire[t][i].status, "lost"}
    <2> TAKE t \in Tabs
    <2> TAKE i \in DOMAIN wire[t]
    <2>1. wire[t][i] \in Messages /\ status[wire[t][i].job] \in {wire[t][i].status, "lost"}
      BY <1>5, ElementOf DEF ConsoleInv, WireIsTrue
    <2> QED BY <2>1, VerdictStays DEF ConsoleInv, Messages
  <1> HIDE DEF emits, chosen, told
  <1>7. wire' \in [Tabs -> Seq(Messages)]
    BY <1>3, <1>4, <1>5
  <1>8. WireIsTrue'
    <2> SUFFICES ASSUME NEW t \in Tabs, NEW i \in DOMAIN wire'[t]
                 PROVE  status'[wire'[t][i].job] \in {wire'[t][i].status, "lost"}
      BY DEF WireIsTrue
    <2>1. CASE socket[t] = "open" /\ emits
      <3>1. wire'[t] = Append(wire[t], told)
        BY <1>4, <2>1
      <3>2. CASE i \in DOMAIN wire[t]
        BY <1>5, <1>6, <3>1, <3>2
      <3>3. CASE i \notin DOMAIN wire[t]
        <4>1. wire'[t][i] = told
          BY <1>5, <3>1, <3>3
        <4> QED BY <1>3, <2>1, <4>1
      <3> QED BY <3>2, <3>3
    <2>2. CASE ~ (socket[t] = "open" /\ emits)
      BY <1>4, <1>6, <2>2
    <2> QED BY <2>1, <2>2
  <1> QED BY <1>1, <1>7, <1>8 DEF ConsoleInv, ConsoleTypeOK, JobInv

LEMMA ConsoleNextKeepsInv == ConsoleInv /\ [ConsoleNext]_allVars => ConsoleInv'
  <1> SUFFICES ASSUME ConsoleInv, [ConsoleNext]_allVars PROVE ConsoleInv'
    OBVIOUS
  <1>1. [Next]_vars
    BY ConsoleStepIsJobStep DEF allVars
  <1>2. JobInv'
    BY <1>1, NextKeepsJobInv DEF ConsoleInv
  <1>3. ASSUME NEW c \in Controls, Click(c) \/ Route(c) \/ Answer(c)
        PROVE  ConsoleTypeOK' /\ ControlsFollowJobs' /\ WireIsTrue'
    BY <1>2, <1>3, ClickKeepsConsoleInv, RouteKeepsConsoleInv, AnswerKeepsConsoleInv
  <1>4. ASSUME NEW t \in Tabs, WsOpen(t) \/ WsMessage(t) \/ WsDrop(t)
        PROVE  ConsoleTypeOK' /\ ControlsFollowJobs' /\ WireIsTrue'
    BY <1>4, SocketKeepsConsoleInv, WsMessageKeepsConsoleInv
  <1>5. ASSUME JobCallback
        PROVE  ConsoleTypeOK' /\ ControlsFollowJobs' /\ WireIsTrue'
    <2>1. Broadcast /\ UNCHANGED <<control, call, socket>>
      BY <1>5 DEF JobCallback, Beside
    <2> QED BY <1>1, <1>2, <2>1, CallbackKeepsConsoleInv
  <1>6. ASSUME Restart
        PROVE  ConsoleTypeOK' /\ ControlsFollowJobs' /\ WireIsTrue'
    BY <1>2, <1>6, RestartKeepsConsoleInv
  <1>7. ASSUME UNCHANGED allVars
        PROVE  ConsoleTypeOK' /\ ControlsFollowJobs' /\ WireIsTrue'
    <2>1. UNCHANGED <<control, call, socket, wire>>
      BY <1>7 DEF allVars, consoleVars
    <2>2. ControlsFollowJobs' /\ WireIsTrue'
      BY <1>1, <2>1, JobStepKeepsControls, JobStepKeepsWire
    <2> QED BY <1>2, <2>1, <2>2 DEF ConsoleInv, ConsoleTypeOK, JobInv
  <1> QED BY <1>2, <1>3, <1>4, <1>5, <1>6, <1>7 DEF ConsoleNext, ConsoleInv

\* The inductive invariant of the console holds for any jobs and any number of tabs.
THEOREM ConsoleInvariance == ConsoleSpec => []ConsoleInv
  <1> QED BY InitConsoleInv, ConsoleNextKeepsInv, PTL DEF ConsoleSpec

\* The job table keeps its promises under the console: every step of the console is one
\* of its own.
THEOREM ConsoleDrivesTable == ConsoleSpec => Spec
  <1>1. ConsoleInit => Init
    BY DEF ConsoleInit
  <1>2. [ConsoleNext]_allVars => [Next]_vars
    BY ConsoleStepIsJobStep DEF allVars
  <1> QED BY <1>1, <1>2, PTL DEF ConsoleSpec, Spec

\* A control that names a job shows no verdict but the one of that job.
THEOREM ShownVerdicts == ConsoleSpec => []ShownVerdictIsReal
  <1>1. ConsoleInv => ShownVerdictIsReal
    BY DEF ConsoleInv, ControlsFollowJobs, ShownVerdictIsReal, Terminal
  <1> QED BY <1>1, ConsoleInvariance, PTL

\* A control is enabled again only when the job it started is over.
THEOREM Rearming == ConsoleSpec => []RearmedAfterEnd
  <1>1. ConsoleInv => RearmedAfterEnd
    BY DEF ConsoleInv, ControlsFollowJobs, RearmedAfterEnd, Terminal, IsActive
  <1> QED BY <1>1, ConsoleInvariance, PTL

=============================================================================
