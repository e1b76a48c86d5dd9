----------------------- MODULE RehearsalWorkflowProofs -----------------------
(***************************************************************************)
(* Proofs about RehearsalWorkflow, for any number of rehearsals:           *)
(* RehearsalInv is inductive, and with it a run is rated on its present    *)
(* package, has its handoff and its artifacts, and completes only through  *)
(* every phase of the present rehearsal.  Then about RehearsalPanel, for   *)
(* any scenarios and any number of requests under way: PanelInv is         *)
(* inductive, and the panel is in step.                                    *)
(***************************************************************************)
EXTENDS RehearsalWorkflow, RehearsalPanel, TLAPS

\* The phases, and those whose entry is stamped.
LEMMA PhaseFacts ==
  /\ DOMAIN Phases = 1..10 /\ Completed = 10
  /\ \A p \in 1..10 : Stamps[p] \in 0..5
  /\ Stamps[1] = 0 /\ Stamps[2] = 1 /\ Stamps[3] = 2 /\ Stamps[4] = 3 /\ Stamps[6] = 4
  /\ Stamps[9] = 5
  BY DEF Phases, Completed, Stamps

LEMMA RunIsNotNoRun ==
  ASSUME NEW r \in Run
  PROVE  r # NoRun
  BY DEF Run, NoRun, Statuses

LEMMA GateFacts ==
  ASSUME NEW package \in Package
  PROVE  /\ Gate(package) \in Gates
         /\ package.findings => Gate(package) = "REDACTION_BLOCKED"
         /\ ~ package.findings /\ ~ package.complete => Gate(package) = "PASS_WITH_PENDING_HUMAN_PORTAL"
  BY DEF Gate, Gates, Package

LEMMA InitRehearsalInv == Init => RehearsalInv
  <1> SUFFICES ASSUME Init PROVE RehearsalInv
    OBVIOUS
  <1>1. TypeOK
    <2>1. run \in Run \cup {NoRun} /\ pending \in Run \cup {NoRun}
      BY DEF Init
    <2>2. round \in 0..MaxRounds
      BY RehearsalAssumption DEF Init
    <2>3. handoff \in BOOLEAN /\ deriving \in BOOLEAN /\ emptying \in BOOLEAN
      BY DEF Init
    <2>4. summary \in [gate : Gates, ready : BOOLEAN, findings : BOOLEAN] \cup {NoSummary}
      BY DEF Init
    <2> QED BY <2>1, <2>2, <2>3, <2>4 DEF TypeOK
  <1>2. ~ Exists /\ pending = NoRun
    BY DEF Init, Exists
  <1> QED BY <1>1, <1>2 DEF RehearsalInv

-----------------------------------------------------------------------------
(***************************************************************************)
(* What the operations make of a run                                       *)
(***************************************************************************)

LEMMA SeedFacts ==
  ASSUME NEW status \in Statuses
  PROVE  /\ Seed(status) \in Run
         /\ Seed(status).phase = 1 /\ Seed(status).status = status
         /\ Seed(status).gate = Gate(Seed(status).package)
         /\ ~ Seed(status).ready /\ ~ Seed(status).package.manifest
  <1>1. EmptyPackage \in Package /\ Gate(EmptyPackage) = "PASS_WITH_PENDING_HUMAN_PORTAL"
    BY DEF EmptyPackage, Package, Gate
  <1>2. [i \in 0..5 |-> 0] \in [0..5 -> 0..MaxRounds]
    BY RehearsalAssumption
  <1>3. Seed(status) \in Run
    BY <1>1, <1>2, PhaseFacts DEF Seed, Run, Gates
  <1> QED
    BY <1>1, <1>3 DEF Seed, EmptyPackage

LEMMA RestartedFacts ==
  ASSUME NEW r \in Run
  PROVE  /\ Restarted(r) \in Run
         /\ Restarted(r).phase = 1 /\ Restarted(r).status = "in_progress"
         /\ Restarted(r).gate = Gate(Restarted(r).package)
         /\ ~ Restarted(r).ready
         /\ Restarted(r).package.manifest = r.package.manifest
  <1> DEFINE package == [r.package EXCEPT !.complete = FALSE, !.findings = FALSE]
             restarted == [r EXCEPT !.status = "in_progress", !.package = package,
                                    !.gate = "PASS_WITH_PENDING_HUMAN_PORTAL",
                                    !.ready = FALSE, !.phase = 1]
  <1>1. package \in Package /\ ~ package.complete /\ ~ package.findings
        /\ package.manifest = r.package.manifest
    BY DEF Run, Package
  <1>2. Restarted(r) = restarted
    BY DEF Restarted, RestartedInPhase, Run, Package
  <1>a. 1 \in DOMAIN Phases
    BY PhaseFacts
  <1> HIDE DEF package
  <1>3. restarted \in Run
    BY <1>1, <1>a DEF Run, Statuses, Gates
  <1>4. /\ restarted.phase = 1 /\ restarted.status = "in_progress"
        /\ restarted.gate = "PASS_WITH_PENDING_HUMAN_PORTAL" /\ restarted.ready = FALSE
        /\ restarted.package = package
    BY DEF Run
  <1>5. Gate(package) = "PASS_WITH_PENDING_HUMAN_PORTAL"
    BY <1>1, GateFacts
  <1> QED BY <1>1, <1>2, <1>3, <1>4, <1>5

LEMMA RatedFacts ==
  ASSUME NEW r \in Run
  PROVE  /\ Rated(r) \in Run
         /\ Rated(r).gate = Gate(r.package) /\ Rated(r).ready = (Gate(r.package) = "PASS")
         /\ Rated(r).package = r.package /\ Rated(r).phase = r.phase
         /\ Rated(r).status = r.status /\ Rated(r).t = r.t
  <1>1. Gate(r.package) \in Gates
    BY GateFacts DEF Run
  <1> QED BY <1>1 DEF Rated, Run

LEMMA StampFacts ==
  ASSUME NEW t \in [0..5 -> 0..MaxRounds], NEW p \in 1..10, round \in 0..MaxRounds
  PROVE  /\ Stamp(t, p) \in [0..5 -> 0..MaxRounds]
         /\ Stamps[p] # 0 => Stamp(t, p)[Stamps[p]] = round
         /\ \A i \in 0..5 : t[i] = round => Stamp(t, p)[i] = round
  BY PhaseFacts DEF Stamp

LEMMA MergedFacts ==
  ASSUME NEW package \in Package, NEW u \in Update
  PROVE  Merged(package, u) \in Package
  BY DEF Merged, Package, Update

-----------------------------------------------------------------------------
(***************************************************************************)
(* The steps                                                               *)
(***************************************************************************)

\* A saved run or one about to be saved is a run.
LEMMA ExistsIsRun ==
  ASSUME TypeOK
  PROVE  /\ Exists <=> run \in Run
         /\ pending # NoRun <=> pending \in Run
  BY RunIsNotNoRun DEF TypeOK, Exists

\* A step that saves a sound run at once.
LEMMA SaveKeepsInv ==
  ASSUME RehearsalInv, Unlocked, Exists, NEW r \in Run, Save(r),
         round' \in 0..MaxRounds, Sound(r)'
  PROVE  RehearsalInv'
  <1>1. run' = r /\ UNCHANGED <<pending, handoff, summary, deriving, emptying>>
        /\ pending = NoRun
    BY DEF Save, Unlocked
  <1>2. TypeOK'
    BY <1>1 DEF RehearsalInv, TypeOK
  <1>3. Sound(run)'
    BY <1>1 DEF Sound
  <1> QED BY <1>1, <1>2, <1>3 DEF RehearsalInv, Exists

LEMMA CreateAgainKeepsInv ==
  ASSUME RehearsalInv, CreateAgain
  PROVE  RehearsalInv'
  <1>1. run \in Run /\ Sound(run) /\ UNCHANGED summary
    BY ExistsIsRun DEF CreateAgain, RehearsalInv, Save
  <1>2. round' \in 0..MaxRounds
    BY RehearsalAssumption DEF CreateAgain, RehearsalInv, TypeOK
  <1>3. PICK r \in Run : r = Restarted(run)
    BY <1>1, RestartedFacts
  <1>4. /\ r.phase = 1 /\ r.status = "in_progress" /\ r.gate = Gate(r.package)
        /\ ~ r.ready /\ r.package.manifest = run.package.manifest
    BY <1>1, <1>3, RestartedFacts
  <1>5. Sound(r)'
    <2>1. r.package.manifest => summary' # NoSummary
      BY <1>1, <1>4 DEF Sound
    <2>2. \A p \in 1..r.phase : Stamps[p] = 0
      BY <1>4, PhaseFacts
    <2> QED
      BY <1>4, <2>1, <2>2 DEF Sound
  <1> QED
    BY <1>2, <1>3, <1>5, SaveKeepsInv DEF CreateAgain

LEMMA ResetKeepsInv ==
  ASSUME RehearsalInv, Reset
  PROVE  RehearsalInv'
  <1>1. run \in Run
    BY ExistsIsRun DEF Reset, RehearsalInv
  <1>2. round' \in 0..MaxRounds
    BY DEF Reset, RehearsalInv, TypeOK
  <1>3. "reset" \in Statuses
    BY DEF Statuses
  <1>4. PICK s \in Run : s = Seed("reset")
    BY <1>3, SeedFacts
  <1>5. PICK r \in Run : r = [s EXCEPT !.mitigation = run.mitigation]
    BY <1>1 DEF Run
  <1>6. /\ r.phase = 1 /\ r.status = "reset" /\ r.gate = Gate(r.package)
        /\ ~ r.ready /\ ~ r.package.manifest
    BY <1>3, <1>4, <1>5, SeedFacts DEF Run
  <1>7. \A p \in 1..r.phase : Stamps[p] = 0
    BY <1>6, PhaseFacts
  <1>8. Sound(r)'
    BY <1>6, <1>7 DEF Sound
  <1> QED
    BY <1>2, <1>4, <1>5, <1>8, SaveKeepsInv DEF Reset

\* Interrupt and Resume change the status and compute the gate anew.
LEMMA StatusKeepsInv ==
  ASSUME RehearsalInv, Unlocked, Exists, UNCHANGED round,
         NEW s \in {"interrupted", "in_progress"},
         Save([run EXCEPT !.status = s, !.gate = Gate(run.package)])
  PROVE  RehearsalInv'
  <1>1. run \in Run /\ Sound(run) /\ UNCHANGED summary
    BY ExistsIsRun DEF RehearsalInv, Save
  <1>2. round' \in 0..MaxRounds
    BY DEF RehearsalInv, TypeOK
  <1>3. Gate(run.package) \in Gates /\ s \in Statuses
    BY <1>1, GateFacts DEF Run, Statuses
  <1>4. PICK r \in Run : r = [run EXCEPT !.status = s, !.gate = Gate(run.package)]
    BY <1>1, <1>3 DEF Run
  <1>5. /\ r.phase = run.phase /\ r.status = s /\ r.gate = Gate(r.package)
        /\ r.package = run.package /\ r.ready = run.ready /\ r.t = run.t
    BY <1>1, <1>3, <1>4 DEF Run
  <1>6. Sound(r)'
    BY <1>1, <1>5 DEF Sound
  <1> QED
    BY <1>2, <1>4, <1>6, SaveKeepsInv

LEMMA AdvanceKeepsInv ==
  ASSUME RehearsalInv, Advance
  PROVE  RehearsalInv'
  <1> DEFINE next == run.phase + 1
             moved == [run EXCEPT !.phase = next, !.t = Stamp(run.t, next),
                                  !.gate = Gate(run.package)]
             saved == IF next = Completed
                      THEN [moved EXCEPT !.status = "completed", !.ready = moved.gate = "PASS"]
                      ELSE moved
  <1>1. run \in Run /\ Sound(run) /\ UNCHANGED <<summary, round>>
    BY ExistsIsRun DEF Advance, RehearsalInv, Save
  <1>2. round \in 0..MaxRounds /\ round' \in 0..MaxRounds
    BY <1>1 DEF RehearsalInv, TypeOK
  <1>3. run.phase \in 1..9 /\ next \in 1..10 /\ next \in DOMAIN Phases
    BY <1>1, PhaseFacts DEF Advance, Run
  <1>4. Gate(run.package) \in Gates /\ "completed" \in Statuses
    BY <1>1, GateFacts DEF Run, Statuses
  <1>5. PICK t \in [0..5 -> 0..MaxRounds] : t = Stamp(run.t, next)
    BY <1>1, <1>2, <1>3, StampFacts DEF Run
  <1>6. /\ Stamps[next] # 0 => t[Stamps[next]] = round
        /\ \A i \in 0..5 : run.t[i] = round => t[i] = round
    BY <1>1, <1>2, <1>3, <1>5, StampFacts DEF Run
  <1>7. PICK m \in Run : m = moved
    BY <1>1, <1>3, <1>4, <1>5 DEF Run
  <1>8. /\ m.phase = next /\ m.t = t /\ m.gate = Gate(run.package)
        /\ m.package = run.package /\ m.status = run.status /\ m.ready = run.ready
    BY <1>1, <1>3, <1>4, <1>5, <1>7 DEF Run
  <1>9. PICK r \in Run : r = saved
    BY <1>4, <1>7 DEF Run
  <1>10. /\ r.phase = next /\ r.t = t /\ r.gate = Gate(r.package)
         /\ r.package = run.package
         /\ next = Completed => r.status = "completed" /\ r.ready = (r.gate = "PASS")
         /\ next # Completed => r.status = run.status /\ r.ready = run.ready
    BY <1>4, <1>7, <1>8, <1>9 DEF Run
  <1>11. run.status = "in_progress"
    BY DEF Advance
  <1>12. \A p \in 1..r.phase : Stamps[p] # 0 => r.t[Stamps[p]] = round
    <2> SUFFICES ASSUME NEW p \in 1..next, Stamps[p] # 0
                 PROVE  t[Stamps[p]] = round
      BY <1>10
    <2>1. CASE p = next
      BY <2>1, <1>6
    <2>2. CASE p # next
      <3>1. p \in 1..run.phase /\ p \in 1..10
        BY <2>2, <1>3
      <3>2. run.t[Stamps[p]] = round
        BY <3>1, <1>1 DEF Sound
      <3> QED BY <3>1, <3>2, <1>6, PhaseFacts
    <2> QED BY <2>1, <2>2
  <1>13. Sound(r)'
    <2> HIDE DEF next, moved, saved
    <2>1. r.gate = Gate(r.package) /\ (r.ready => r.gate = "PASS")
      BY <1>1, <1>10 DEF Sound
    <2>2. r.package.manifest => summary' # NoSummary
      BY <1>1, <1>10 DEF Sound
    <2>3. r.status = "completed" => r.phase = Completed
      BY <1>10, <1>11
    <2> QED BY <1>1, <1>12, <2>1, <2>2, <2>3 DEF Sound
  <1>14. Save(r) /\ Unlocked /\ Exists
    BY <1>9 DEF Advance
  <1> QED
    BY <1>2, <1>13, <1>14, SaveKeepsInv

LEMMA CreateKeepsInv ==
  ASSUME RehearsalInv, Create
  PROVE  RehearsalInv'
  <1>1. "in_progress" \in Statuses /\ round' \in 0..MaxRounds /\ 1 \in 0..MaxRounds
    BY RehearsalAssumption DEF Create, Statuses
  <1>2. PICK s \in Run : s = Seed("in_progress")
    BY <1>1, SeedFacts
  <1>3. PICK r \in Run : r = [s EXCEPT !.t[0] = 1]
    BY <1>1 DEF Run
  <1>4. /\ r.phase = 1 /\ r.status = "in_progress" /\ r.gate = Gate(r.package)
        /\ ~ r.ready /\ ~ r.package.manifest
    BY <1>1, <1>2, <1>3, SeedFacts DEF Run
  <1>5. \A p \in 1..r.phase : Stamps[p] = 0
    BY <1>4, PhaseFacts
  <1>6. /\ pending' = r /\ handoff' = TRUE /\ ~ Exists
        /\ UNCHANGED <<run, summary, deriving, emptying>>
    BY <1>2, <1>3 DEF Create, syncIncidentHandoff
  <1>7. TypeOK'
    BY <1>1, <1>6 DEF RehearsalInv, TypeOK
  <1>8. Sound(pending)'
    BY <1>4, <1>5, <1>6 DEF Sound
  <1> QED
    BY <1>6, <1>7, <1>8 DEF RehearsalInv, Exists

LEMMA UpdateEvidenceKeepsInv ==
  ASSUME RehearsalInv, NEW u \in Update, UpdateEvidence(u)
  PROVE  RehearsalInv'
  <1>1. /\ run \in Run /\ Sound(run) /\ Exists
        /\ UNCHANGED <<run, round, handoff, deriving, emptying>>
    BY ExistsIsRun DEF UpdateEvidence, RehearsalInv
  <1>2. PICK package \in Package : package = Merged(run.package, u)
    BY <1>1, MergedFacts DEF Run
  <1>3. PICK q \in Run : q = [run EXCEPT !.package = Merged(run.package, u)]
    BY <1>1, <1>2 DEF Run
  <1>4. q.phase = run.phase /\ q.status = run.status /\ q.t = run.t /\ q.package = package
    BY <1>1, <1>2, <1>3 DEF Run
  <1>5. PICK r \in Run : r = Rated(q)
    BY RatedFacts
  <1>6. /\ r.gate = Gate(r.package) /\ r.ready = (r.gate = "PASS")
        /\ r.phase = run.phase /\ r.status = run.status /\ r.t = run.t
    BY <1>4, <1>5, RatedFacts
  <1>7. /\ summary' = [gate |-> run.gate, ready |-> run.ready, findings |-> package.findings]
        /\ pending' = r
    BY <1>1, <1>2, <1>3, <1>4, <1>5 DEF UpdateEvidence, persistEvidenceArtifacts, Run
  <1>8. summary' \in [gate : Gates, ready : BOOLEAN, findings : BOOLEAN]
    BY <1>1, <1>2, <1>7 DEF Run, Package
  <1>9. summary' # NoSummary
    BY <1>8 DEF NoSummary, Gates
  <1>10. TypeOK'
    BY <1>1, <1>7, <1>8 DEF RehearsalInv, TypeOK
  <1>11. Sound(run)'
    BY <1>1, <1>9 DEF Sound
  <1>12. Sound(pending)'
    BY <1>1, <1>6, <1>7, <1>9 DEF Sound
  <1> QED
    BY <1>1, <1>10, <1>11, <1>12 DEF RehearsalInv, Exists

LEMMA AttachMitigationKeepsInv ==
  ASSUME RehearsalInv, AttachMitigation
  PROVE  RehearsalInv'
  <1>1. /\ pending = NoRun /\ deriving' = FALSE
        /\ UNCHANGED <<round, pending, handoff, summary, emptying>>
    BY DEF AttachMitigation, Unlocked
  <1>2. CASE ~ Exists
    <2>1. run' = run
      BY <1>2 DEF AttachMitigation
    <2>2. TypeOK'
      BY <1>1, <2>1 DEF RehearsalInv, TypeOK
    <2> QED BY <1>1, <1>2, <2>1, <2>2 DEF RehearsalInv, Exists
  <1>3. CASE Exists
    <2>1. run \in Run /\ Sound(run)
      BY <1>3, ExistsIsRun DEF RehearsalInv
    <2>2. PICK q \in Run : q = [run EXCEPT !.mitigation = TRUE]
      BY <2>1 DEF Run
    <2>3. q.phase = run.phase /\ q.status = run.status /\ q.t = run.t /\ q.package = run.package
      BY <2>1, <2>2 DEF Run
    <2>4. PICK r \in Run : r = Rated(q)
      BY RatedFacts
    <2>5. /\ r.gate = Gate(r.package) /\ r.ready = (r.gate = "PASS")
          /\ r.phase = run.phase /\ r.status = run.status /\ r.t = run.t
          /\ r.package = run.package
      BY <2>3, <2>4, RatedFacts
    <2>6. run' = r
      BY <1>3, <2>2, <2>4 DEF AttachMitigation
    <2>7. TypeOK'
      BY <1>1, <2>6 DEF RehearsalInv, TypeOK
    <2>8. Sound(run)'
      BY <1>1, <2>1, <2>5, <2>6 DEF Sound
    <2> QED BY <1>1, <1>3, <2>7, <2>8 DEF RehearsalInv, Exists
  <1> QED BY <1>2, <1>3

LEMMA SavePendingKeepsInv ==
  ASSUME RehearsalInv, SavePending
  PROVE  RehearsalInv'
  <1>1. /\ pending # NoRun /\ run' = pending /\ pending' = NoRun
        /\ UNCHANGED <<round, handoff, summary, deriving, emptying>>
    BY DEF SavePending, Unlocked
  <1>2. TypeOK'
    BY <1>1 DEF RehearsalInv, TypeOK
  <1>3. Sound(run)'
    BY <1>1 DEF RehearsalInv, Sound
  <1> QED BY <1>1, <1>2, <1>3 DEF RehearsalInv, Exists

\* The file emptied by a read: there is no run, and the one about to be saved stays sound.
LEMMA EmptyFileKeepsInv ==
  ASSUME RehearsalInv, EmptyFile
  PROVE  RehearsalInv'
  <1>1. /\ run' = NoRun /\ emptying' = FALSE
        /\ UNCHANGED <<round, pending, handoff, summary, deriving>>
    BY DEF EmptyFile
  <1>2. TypeOK'
    BY <1>1 DEF RehearsalInv, TypeOK
  <1>3. pending' # NoRun => Sound(pending)'
    BY <1>1 DEF RehearsalInv, Sound
  <1> QED BY <1>1, <1>2, <1>3 DEF RehearsalInv, Exists

\* The steps that save nothing: a save that fails, the start of a derivation, stuttering.
LEMMA OthersKeepInv ==
  ASSUME RehearsalInv, LosePending \/ DeriveMitigation \/ UNCHANGED vars
  PROVE  RehearsalInv'
  <1>1. /\ UNCHANGED <<run, round, handoff, summary, emptying>>
        /\ pending' \in {pending, NoRun} /\ deriving' \in {deriving, TRUE, FALSE}
    BY DEF LosePending, DeriveMitigation, vars
  <1>2. TypeOK'
    BY <1>1 DEF RehearsalInv, TypeOK
  <1>3. Exists => Sound(run)'
    BY <1>1 DEF RehearsalInv, Sound
  <1>4. pending' # NoRun => Sound(pending)'
    BY <1>1 DEF RehearsalInv, Sound
  <1> QED BY <1>1, <1>2, <1>3, <1>4 DEF RehearsalInv, Exists

LEMMA NextRehearsalInv == RehearsalInv /\ [Next]_vars => RehearsalInv'
  <1> SUFFICES ASSUME RehearsalInv, [Next]_vars PROVE RehearsalInv'
    OBVIOUS
  <1>1. CASE Create
    BY <1>1, CreateKeepsInv
  <1>2. CASE CreateAgain
    BY <1>2, CreateAgainKeepsInv
  <1>3. CASE Advance
    BY <1>3, AdvanceKeepsInv
  <1>4. CASE Interrupt
    BY <1>4, StatusKeepsInv DEF Interrupt
  <1>5. CASE Resume
    BY <1>5, StatusKeepsInv DEF Resume
  <1>6. CASE Reset
    BY <1>6, ResetKeepsInv
  <1>7. CASE \E u \in Update : UpdateEvidence(u)
    BY <1>7, UpdateEvidenceKeepsInv
  <1>8. CASE AttachMitigation
    BY <1>8, AttachMitigationKeepsInv
  <1>9. CASE SavePending
    BY <1>9, SavePendingKeepsInv
  <1>10. CASE LosePending \/ DeriveMitigation \/ UNCHANGED vars
    BY <1>10, OthersKeepInv
  <1>11. CASE EmptyFile
    BY <1>11, EmptyFileKeepsInv
  <1> QED
    BY <1>1, <1>2, <1>3, <1>4, <1>5, <1>6, <1>7, <1>8, <1>9, <1>10, <1>11 DEF Next

-----------------------------------------------------------------------------
(***************************************************************************)
(* Theorems                                                                *)
(***************************************************************************)

\* The inductive invariant holds in every reachable state, for any MaxRounds.
THEOREM RehearsalInvariance == Spec => []RehearsalInv
  <1>1. Init => RehearsalInv
    BY InitRehearsalInv
  <1>2. RehearsalInv /\ [Next]_vars => RehearsalInv'
    BY NextRehearsalInv
  <1> QED BY <1>1, <1>2, PTL DEF Spec

\* A run is ready only on the package that it has now, in any order of updates,
\* interruptions, restarts and failed saves.
THEOREM ReadinessIsBacked == Spec => []ReadyIsBacked
  <1>1. RehearsalInv => ReadyIsBacked
    BY DEF RehearsalInv, Sound, ReadyIsBacked
  <1> QED BY <1>1, RehearsalInvariance, PTL

\* Every saved run has its incident handoff, and every package that names a manifest
\* its artifacts.
THEOREM NothingIsClaimedEarly == Spec => []EffectsComeFirst
  <1>1. RehearsalInv => EffectsComeFirst
    BY DEF RehearsalInv, Sound, EffectsComeFirst
  <1> QED BY <1>1, RehearsalInvariance, PTL

\* A completed run went through every phase of the present rehearsal.
THEOREM CompletionIsEarned == Spec => []CompletedThisRound
  <1>1. RehearsalInv => CompletedThisRound
    <2> SUFFICES ASSUME RehearsalInv, Exists, run.status = "completed", NEW i \in 1..5
                 PROVE  run.t[i] = round
      BY DEF CompletedThisRound
    <2>1. run.phase = 10 /\ \A p \in 1..run.phase : Stamps[p] # 0 => run.t[Stamps[p]] = round
      BY PhaseFacts DEF RehearsalInv, Sound
    <2>2. PICK p \in 1..10 : Stamps[p] = i
      BY PhaseFacts
    <2> QED BY <2>1, <2>2
  <1> QED BY <1>1, RehearsalInvariance, PTL

-----------------------------------------------------------------------------
(***************************************************************************)
(* The panel                                                               *)
(***************************************************************************)
LEMMA InitPanelInv == PanelInit => PanelInv
  <1> SUFFICES ASSUME PanelInit PROVE PanelInv
    OBVIOUS
  <1>1. 0 \in 0..MaxSaves
    BY PanelAssumption
  <1>2. Opened \in Panel
    BY <1>1 DEF Opened, Panel
  <1>3. PanelTypeOK
    BY <1>1, <1>2 DEF PanelInit, PanelTypeOK
  <1> QED
    BY <1>3 DEF PanelInit, PanelInv, FormIsOfActive, ActiveFits, RequestsFit, ListFits, Opened

LEMMA UnderWayIs ==
  ASSUME NEW p \in Presses, NEW s
  PROVE  p \in UnderWay(s) <=> press[p] # Idle /\ press[p].of = s
  BY DEF UnderWay

\* A request that is sent: those of its scenario, if any, are doubtful from then on.
LEMMA SendKeeps ==
  ASSUME PanelInv, NEW p \in Presses, press[p] = Idle, NEW s \in Names,
         NEW creates \in BOOLEAN, SendPress(p, s, creates), panel.load = "shown",
         creates \/ panel.runs[s] # 0
  PROVE  PanelInv'
  <1> DEFINE alone == UnderWay(s) = {}
             sent == [state |-> "sent", creates |-> creates, of |-> s,
                      version |-> 0, heard |-> TRUE, alone |-> alone]
  <1>1. sent \in PanelRequest /\ sent # Idle
    BY PanelAssumption DEF PanelRequest, Idle
  <1>2. \A q \in Presses : press[q] # Idle => press[q] \in PanelRequest
    BY DEF PanelInv, PanelTypeOK
  <1>3. \A r \in PanelRequest : /\ [r EXCEPT !.alone = FALSE] \in PanelRequest
                                /\ [r EXCEPT !.alone = FALSE] # Idle
                                /\ [r EXCEPT !.alone = FALSE].of = r.of
    BY DEF PanelRequest, Idle
  <1>4. /\ press' = [q \in Presses |-> IF q = p THEN sent
                                     ELSE IF q \in UnderWay(s) THEN [press[q] EXCEPT !.alone = FALSE]
                                     ELSE press[q]]
        /\ missed' = IF alone THEN missed ELSE missed \cup {s}
        /\ UNCHANGED <<savedRun, panel, blank>>
    BY DEF SendPress
  <1>5. PanelTypeOK'
    <2>1. press' \in [Presses -> PanelRequest \cup {Idle}]
      <3> SUFFICES ASSUME NEW q \in Presses PROVE press'[q] \in PanelRequest \cup {Idle}
        BY <1>4
      <3>1. CASE q = p
        BY <1>1, <1>4, <3>1
      <3>2. CASE q # p /\ q \in UnderWay(s)
        BY <1>2, <1>3, <1>4, <3>2 DEF UnderWay
      <3>3. CASE q # p /\ q \notin UnderWay(s)
        BY <1>2, <1>4, <3>3
      <3> QED BY <3>1, <3>2, <3>3
    <2> QED BY <1>4, <2>1 DEF PanelInv, PanelTypeOK
  <1>6. RequestsFit'
    <2> SUFFICES ASSUME NEW q \in Presses, press'[q] # Idle PROVE RequestFits(q)'
      BY DEF RequestsFit
    <2>1. ASSUME NEW x \in Presses \ {p}
          PROVE  /\ press[x] = Idle => press'[x] = Idle
                 /\ press[x] # Idle => press'[x].of = press[x].of
      <3>1. CASE x \in UnderWay(s)
        BY <1>2, <1>3, <1>4, <3>1 DEF UnderWay
      <3>2. CASE x \notin UnderWay(s)
        BY <1>4, <3>2
      <3> QED BY <3>1, <3>2
    <2>2. \A x \in Presses \ UnderWay(s) : press[x] = Idle \/ press[x].of # s
      BY DEF UnderWay
    <2>3. CASE q = p
      <3>1. press'[q] = sent
        BY <1>4, <2>3
      <3>2. /\ press'[q].of = s /\ press'[q].state = "sent" /\ press'[q].alone = alone
            /\ press'[q].creates = creates
        BY <3>1
      <3> HIDE DEF sent
      <3>3. press'[q].alone => \A x \in Presses \ {p} : press'[x] = Idle \/ press'[x].of # s
        <4> SUFFICES ASSUME press'[q].alone, NEW x \in Presses \ {p}
                     PROVE  press'[x] = Idle \/ press'[x].of # s
          OBVIOUS
        <4>1. alone
          BY <3>2
        <4>2. x \notin UnderWay(s)
          BY <4>1
        <4>3. press[x] = Idle \/ press[x].of # s
          BY <2>2, <4>2
        <4>4. CASE press[x] = Idle
          BY <2>1, <4>4
        <4>5. CASE press[x] # Idle
          BY <2>1, <4>3, <4>5
        <4> QED BY <4>4, <4>5
      <3>4. press'[q].alone \/ s \in missed'
        BY <1>4, <3>2
      <3> QED BY <1>4, <2>3, <3>2, <3>3, <3>4 DEF RequestFits
    <2>4. CASE q # p /\ q \in UnderWay(s)
      <3>1. press[q] \in PanelRequest /\ RequestFits(q) /\ ~ alone /\ press[q].of = s
        BY <1>2, <2>4 DEF UnderWay, PanelInv, RequestsFit
      <3>2. press'[q] = [press[q] EXCEPT !.alone = FALSE]
        BY <1>4, <2>4
      <3>3. /\ press'[q].alone = FALSE /\ press'[q].heard = press[q].heard
            /\ press'[q].creates = press[q].creates /\ press'[q].of = s
            /\ press'[q].state = press[q].state /\ press'[q].version = press[q].version
        BY <3>1, <3>2 DEF PanelRequest
      <3> QED BY <1>4, <3>1, <3>3 DEF RequestFits
    <2>5. CASE q # p /\ q \notin UnderWay(s)
      <3>1. press'[q] = press[q]
        BY <1>4, <2>5
      <3>2. RequestFits(q) /\ press[q].of # s
        BY <2>2, <2>5, <3>1 DEF PanelInv, RequestsFit
      <3>3. press'[p].of = s /\ missed \subseteq missed'
        BY <1>4
      <3>4. press[q].alone =>
               \A x \in Presses \ {q} : press'[x] = Idle \/ press'[x].of # press[q].of
        <4> SUFFICES ASSUME press[q].alone, NEW x \in Presses \ {q}
                     PROVE  press'[x] = Idle \/ press'[x].of # press[q].of
          OBVIOUS
        <4>1. CASE x = p
          BY <3>2, <3>3, <4>1
        <4>2. CASE x # p /\ press[x] = Idle
          BY <2>1, <4>2
        <4>3. CASE x # p /\ press[x] # Idle
          <5>1. press[x].of # press[q].of
            BY <3>2, <4>3 DEF RequestFits
          <5> QED BY <2>1, <4>3, <5>1
        <4> QED BY <4>1, <4>2, <4>3
      <3>5. UNCHANGED <<savedRun, panel>>
        BY <1>4
      <3> QED BY <3>1, <3>2, <3>3, <3>4, <3>5 DEF RequestFits
    <2> QED BY <2>3, <2>4, <2>5
  <1>7. ListFits'
    <2> SUFFICES ASSUME NEW n \in Names, n \notin missed'
                 PROVE  panel.runs[n] = savedRun[n] \/ \E q \in Presses : Brings(q, n)'
      BY <1>4 DEF ListFits
    <2>1. CASE panel.runs[n] = savedRun[n]
      BY <2>1
    <2>2. CASE panel.runs[n] # savedRun[n]
      <3>1. PICK q \in Presses : Brings(q, n)
        BY <1>4, <2>2 DEF PanelInv, ListFits
      <3>2. q # p /\ q \notin UnderWay(s)
        BY <1>4, <3>1 DEF Brings, UnderWay
      <3> QED BY <1>4, <3>1, <3>2 DEF Brings
    <2> QED BY <2>1, <2>2
  <1> QED BY <1>4, <1>5, <1>6, <1>7 DEF PanelInv, FormIsOfActive, ActiveFits

\* What the invariant says of one request.
LEMMA PressTypes ==
  ASSUME PanelInv, NEW p \in Presses, press[p] # Idle
  PROVE  press[p] \in PanelRequest /\ press[p].of \in Names /\ RequestFits(p)
  BY DEF PanelInv, PanelTypeOK, RequestsFit, PanelRequest

\* A request changed in place stays a request of its scenario.
LEMMA OneChanges ==
  ASSUME PanelInv, NEW p \in Presses, press[p] # Idle, NEW r \in PanelRequest,
         r.of = press[p].of, press' = [press EXCEPT ![p] = r]
  PROVE  /\ press' \in [Presses -> PanelRequest \cup {Idle}]
         /\ press'[p] = r /\ r # Idle
         /\ \A q \in Presses \ {p} : press'[q] = press[q]
         /\ \A q \in Presses : \A s : (press'[q] = Idle \/ press'[q].of # s)
                                    <=> (press[q] = Idle \/ press[q].of # s)
  <1>1. press \in [Presses -> PanelRequest \cup {Idle}]
    BY DEF PanelInv, PanelTypeOK
  <1>2. r # Idle
    BY DEF PanelRequest, Idle
  <1>3. press'[p] = r /\ \A q \in Presses \ {p} : press'[q] = press[q]
    BY <1>1
  <1>4. press' \in [Presses -> PanelRequest \cup {Idle}]
    BY <1>1
  <1>5. ASSUME NEW q \in Presses, NEW s
        PROVE  (press'[q] = Idle \/ press'[q].of # s) <=> (press[q] = Idle \/ press[q].of # s)
    <2>1. CASE q = p
      BY <1>2, <1>3, <2>1
    <2>2. CASE q # p
      BY <1>3, <2>2
    <2> QED BY <2>1, <2>2
  <1> QED BY <1>2, <1>3, <1>4, <1>5

\* Until the list is shown no request of this panel is under way, and no run is active.
LEMMA NoneHeard ==
  ASSUME PanelInv, panel.load # "shown", NEW p \in Presses, press[p] # Idle
  PROVE  press[p].heard = FALSE /\ press[p].heard \in BOOLEAN
  BY PressTypes DEF RequestFits, PanelRequest

\* A panel whose read finds no run has none to show.
LEMMA EmptiedIs ==
  ASSUME PanelInv, panel.load = "asked", panel' = Emptied
  PROVE  /\ panel' \in Panel /\ panel'.load = "read" /\ panel'.active = NoActive
         /\ panel'.runs = [s \in Names |-> 0]
         /\ FormIsOfActive' /\ ActiveFits'
  <1>1. panel \in Panel /\ panel.active = NoActive /\ 0 \in 0..MaxSaves
    BY PanelAssumption DEF PanelInv, PanelTypeOK, ActiveFits
  <1>2. [s \in Names |-> 0] \in [Names -> 0..MaxSaves]
    BY <1>1
  <1>3. /\ panel' \in Panel /\ panel'.load = "read" /\ panel'.active = NoActive
        /\ panel'.runs = [s \in Names |-> 0]
    BY <1>1, <1>2 DEF Emptied, Panel
  <1> QED BY <1>3 DEF FormIsOfActive, ActiveFits

\* A run is saved: the one press of its scenario that was alone will bring it, and of the
\* others none is trusted.
LEMMA RouteSavesKeeps ==
  ASSUME PanelInv, NEW p \in Presses, RouteSaves(p)
  PROVE  PanelInv'
  <1> DEFINE s == press[p].of
             v == savedRun[s] + 1
             r == [press[p] EXCEPT !.state = "saved", !.version = v]
  <1>1. press[p] \in PanelRequest /\ s \in Names /\ RequestFits(p) /\ press[p] # Idle
    BY PressTypes DEF RouteSaves
  <1>2. v \in 1..MaxSaves /\ savedRun \in [Names -> 0..MaxSaves]
    BY <1>1, PanelAssumption DEF RouteSaves, PanelInv, PanelTypeOK
  <1>3. /\ savedRun' = [savedRun EXCEPT ![s] = v]
        /\ press' = [press EXCEPT ![p] = r]
        /\ press[p].state = "sent" /\ blank' \in BOOLEAN
    BY <1>1 DEF RouteSaves, PanelInv, PanelTypeOK, PanelRequest
  <1>4. /\ r \in PanelRequest /\ r.of = s /\ r.state = "saved" /\ r.version = v
        /\ r.heard = press[p].heard /\ r.alone = press[p].alone
        /\ r.creates = press[p].creates
    <2> HIDE DEF s, v
    <2>1. v \in 0..MaxSaves
      BY <1>2
    <2>2. r \in PanelRequest
      BY <1>1, <2>1 DEF PanelRequest
    <2> QED BY <1>1, <2>1, <2>2 DEF PanelRequest, s
  <1> HIDE DEF s, v, r
  <1>5. /\ press' \in [Presses -> PanelRequest \cup {Idle}]
        /\ press'[p] = r /\ r # Idle
        /\ \A q \in Presses \ {p} : press'[q] = press[q]
        /\ \A q \in Presses : \A n : (press'[q] = Idle \/ press'[q].of # n)
                                   <=> (press[q] = Idle \/ press[q].of # n)
    BY <1>1, <1>3, <1>4, OneChanges DEF s
  <1>a. \/ /\ missed' = IF press[p].heard THEN missed ELSE missed \cup {s}
           /\ panel' = panel
        \/ panel.load = "asked" /\ panel' = Emptied /\ missed' = Names
    BY DEF RouteSaves, s
  <1>b. /\ panel' \in Panel /\ missed' \subseteq Names /\ missed \subseteq missed'
        /\ FormIsOfActive' /\ ActiveFits'
        /\ \A q \in Presses : press[q] # Idle => panel' = panel \/ press[q].heard = FALSE
    <2>1. CASE panel' = panel /\ missed' = IF press[p].heard THEN missed ELSE missed \cup {s}
      BY <1>1, <2>1 DEF PanelInv, PanelTypeOK, FormIsOfActive, ActiveFits
    <2>2. CASE panel.load = "asked" /\ panel' = Emptied /\ missed' = Names
      BY <2>2, EmptiedIs, NoneHeard DEF PanelInv, PanelTypeOK
    <2> QED BY <1>a, <2>1, <2>2
  <1>6. PanelTypeOK'
    BY <1>1, <1>2, <1>3, <1>5, <1>b DEF PanelInv, PanelTypeOK
  <1>7. RequestsFit'
    <2> SUFFICES ASSUME NEW q \in Presses, press'[q] # Idle PROVE RequestFits(q)'
      BY DEF RequestsFit
    <2>1. CASE q = p
      <3>1. press'[q].alone =>
               \A x \in Presses \ {q} : press'[x] = Idle \/ press'[x].of # press'[q].of
        BY <1>1, <1>4, <1>5, <2>1 DEF RequestFits, s
      <3>2. savedRun'[s] = v
        BY <1>1, <1>2, <1>3
      <3>3. v # 0
        BY <1>2
      <3> QED BY <1>1, <1>b, <1>4, <1>5, <2>1, <3>1, <3>2, <3>3 DEF RequestFits, s
    <2>2. CASE q # p
      <3>1. press'[q] = press[q] /\ press[q] # Idle
        BY <1>5, <2>2
      <3>2. press[q] \in PanelRequest /\ press[q].of \in Names /\ RequestFits(q)
        BY <3>1, PressTypes
      <3>3. press[q].alone =>
               \A x \in Presses \ {q} : press'[x] = Idle \/ press'[x].of # press[q].of
        BY <1>5, <3>2 DEF RequestFits
      <3>4. press[q].alone => press[q].of # s
        BY <1>1, <2>2, <3>2 DEF RequestFits, s
      <3>5. press[q].alone => savedRun'[press[q].of] = savedRun[press[q].of]
        BY <1>2, <1>3, <3>2, <3>4
      <3> QED BY <1>b, <3>1, <3>2, <3>3, <3>5 DEF RequestFits
    <2> QED BY <2>1, <2>2
  <1>8. ListFits'
    <2> SUFFICES ASSUME panel'.load # "asked", NEW n \in Names, n \notin missed'
                 PROVE  panel'.runs[n] = savedRun'[n] \/ \E q \in Presses : Brings(q, n)'
      BY DEF ListFits
    <2>a. panel' = panel /\ missed' = IF press[p].heard THEN missed ELSE missed \cup {s}
      BY <1>a
    <2>1. CASE n = s
      <3>1. press[p].heard /\ s \notin missed
        BY <2>a, <2>1
      <3>2. press[p].alone
        BY <1>1, <3>1 DEF RequestFits, s
      <3>3. Brings(p, n)'
        BY <1>4, <1>5, <2>1, <3>1, <3>2 DEF Brings
      <3> QED BY <3>3
    <2>2. CASE n # s
      <3>1. n \notin missed /\ savedRun'[n] = savedRun[n]
        BY <1>2, <1>3, <2>a, <2>2
      <3>2. CASE panel.runs[n] = savedRun[n]
        BY <2>a, <3>1, <3>2
      <3>3. CASE panel.runs[n] # savedRun[n]
        <4>1. PICK q \in Presses : Brings(q, n)
          BY <2>a, <3>1, <3>3 DEF PanelInv, ListFits
        <4>2. q # p
          BY <2>2, <4>1 DEF Brings, s
        <4>3. Brings(q, n)'
          BY <1>5, <4>1, <4>2 DEF Brings
        <4> QED BY <4>3
      <3> QED BY <3>2, <3>3
    <2> QED BY <2>1, <2>2
  <1> QED BY <1>b, <1>6, <1>7, <1>8 DEF PanelInv

\* The saved runs are erased: no answer under way is trusted, and a list that is not empty
\* is missed.
LEMMA WriteBlankKeeps ==
  ASSUME PanelInv, WriteBlank
  PROVE  PanelInv'
  <1>1. /\ savedRun' = [s \in Names |-> 0] /\ blank' = FALSE
        /\ \/ missed' = Names /\ panel' = panel
           \/ panel.load = "asked" /\ panel' = Emptied /\ missed' = {}
    BY DEF WriteBlank
  <1>2. ASSUME NEW q \in Presses, press[q] # Idle
        PROVE  /\ press'[q] \in PanelRequest /\ press'[q] # Idle /\ press'[q].of = press[q].of
               /\ press'[q].alone => press[q].alone /\ press[q].state # "saved"
               /\ press'[q].heard = press[q].heard /\ press'[q].creates = press[q].creates
               /\ press'[q].state = press[q].state /\ press'[q].version = press[q].version
    <2>1. press[q] \in PanelRequest
      BY <1>2, PressTypes
    <2>2. CASE press[q].state = "saved"
      <3>1. press'[q] = [press[q] EXCEPT !.alone = FALSE]
        BY <1>2, <2>2 DEF WriteBlank
      <3> QED BY <2>1, <3>1 DEF PanelRequest, Idle
    <2>3. CASE press[q].state # "saved"
      <3>1. press'[q] = press[q]
        BY <1>2, <2>3 DEF WriteBlank
      <3> QED BY <1>2, <2>1, <2>3, <3>1
    <2> QED BY <2>2, <2>3
  <1>3. ASSUME NEW q \in Presses, press[q] = Idle PROVE press'[q] = Idle
    BY <1>3 DEF WriteBlank
  <1>4. press' \in [Presses -> PanelRequest \cup {Idle}]
    <2>1. \A q \in Presses : press'[q] \in PanelRequest \cup {Idle}
      BY <1>2, <1>3
    <2>2. press' = [q \in Presses |-> press'[q]]
      BY DEF WriteBlank
    <2> QED BY <2>1, <2>2
  <1>5. /\ panel' \in Panel /\ FormIsOfActive' /\ ActiveFits'
        /\ \A q \in Presses : press[q] # Idle =>
              press[q].heard = FALSE \/ (panel' = panel /\ missed' = Names)
    <2>1. CASE missed' = Names /\ panel' = panel
      BY <2>1 DEF PanelInv, PanelTypeOK, FormIsOfActive, ActiveFits
    <2>2. CASE panel.load = "asked" /\ panel' = Emptied /\ missed' = {}
      BY <2>2, EmptiedIs, NoneHeard
    <2> QED BY <1>1, <2>1, <2>2
  <1>6. PanelTypeOK'
    <2>1. savedRun' \in [Names -> 0..MaxSaves] /\ missed' \subseteq Names
      BY <1>1, PanelAssumption
    <2> QED BY <1>1, <1>4, <1>5, <2>1 DEF PanelTypeOK
  <1>7. RequestsFit'
    <2> SUFFICES ASSUME NEW q \in Presses, press'[q] # Idle PROVE RequestFits(q)'
      BY DEF RequestsFit
    <2>1. press[q] # Idle
      BY <1>3
    <2>2. press[q].of \in Names /\ RequestFits(q)
      BY <2>1, PressTypes
    <2>3. /\ press'[q].of = press[q].of
          /\ press'[q].alone => press[q].alone /\ press[q].state # "saved"
          /\ press'[q].heard = press[q].heard /\ press'[q].creates = press[q].creates
          /\ press'[q].state = press[q].state /\ press'[q].version = press[q].version
      BY <1>2, <2>1
    <2>4. \A x \in Presses : press[x] = Idle \/ press[x].of # press[q].of
                               => press'[x] = Idle \/ press'[x].of # press[q].of
      BY <1>2, <1>3
    <2>5. press[q].heard = FALSE \/ (panel' = panel /\ missed' = Names)
      BY <1>5, <2>1
    <2> QED BY <2>2, <2>3, <2>4, <2>5 DEF RequestFits
  <1>8. ListFits'
    <2> SUFFICES ASSUME NEW n \in Names, n \notin missed'
                 PROVE  panel'.runs[n] = savedRun'[n]
      BY DEF ListFits
    <2> QED BY <1>1, EmptiedIs
  <1> QED BY <1>5, <1>6, <1>7, <1>8 DEF PanelInv

\* A refusal, and an answer that the panel will not hear, change one request alone; the
\* scenario of the latter is missed.
LEMMA RequestOnly ==
  ASSUME PanelInv, NEW p \in Presses, press[p] # Idle, NEW r \in PanelRequest,
         r.of = press[p].of, press' = [press EXCEPT ![p] = r],
         r.alone = press[p].alone, r.creates = press[p].creates,
         r.version = press[p].version,
         r.state \in {press[p].state, "refused"}, r.heard \in {press[p].heard, FALSE},
         missed \subseteq missed', missed' \subseteq Names,
         (press[p].of \in missed' /\ r.state = press[p].state)
            \/ (press[p].state = "sent" /\ r.heard = press[p].heard),
         UNCHANGED <<savedRun, panel, blank>>
  PROVE  PanelInv'
  <1>1. press[p] \in PanelRequest /\ press[p].of \in Names /\ RequestFits(p)
    BY PressTypes
  <1>2. /\ press' \in [Presses -> PanelRequest \cup {Idle}]
        /\ press'[p] = r /\ r # Idle
        /\ \A q \in Presses \ {p} : press'[q] = press[q]
        /\ \A q \in Presses : \A n : (press'[q] = Idle \/ press'[q].of # n)
                                   <=> (press[q] = Idle \/ press[q].of # n)
    BY OneChanges
  <1>3. PanelTypeOK'
    BY <1>2 DEF PanelInv, PanelTypeOK
  <1>4. RequestsFit'
    <2> SUFFICES ASSUME NEW q \in Presses, press'[q] # Idle PROVE RequestFits(q)'
      BY DEF RequestsFit
    <2>1. CASE q = p
      <3>1. press'[q].alone =>
               \A x \in Presses \ {q} : press'[x] = Idle \/ press'[x].of # press'[q].of
        BY <1>1, <1>2, <2>1 DEF RequestFits
      <3> QED BY <1>1, <1>2, <2>1, <3>1 DEF RequestFits
    <2>2. CASE q # p
      <3>1. press'[q] = press[q] /\ press[q] # Idle
        BY <1>2, <2>2
      <3>2. press[q] \in PanelRequest /\ RequestFits(q)
        BY <3>1, PressTypes
      <3>3. press[q].alone =>
               \A x \in Presses \ {q} : press'[x] = Idle \/ press'[x].of # press[q].of
        BY <1>2, <3>2 DEF RequestFits
      <3> QED BY <3>1, <3>2, <3>3 DEF RequestFits
    <2> QED BY <2>1, <2>2
  <1>5. ListFits'
    <2> SUFFICES ASSUME panel.load # "asked", NEW n \in Names, n \notin missed'
                 PROVE  panel.runs[n] = savedRun[n] \/ \E q \in Presses : Brings(q, n)'
      BY DEF ListFits
    <2>1. CASE panel.runs[n] = savedRun[n]
      BY <2>1
    <2>2. CASE panel.runs[n] # savedRun[n]
      <3>1. PICK q \in Presses : Brings(q, n)
        BY <2>2 DEF PanelInv, ListFits
      <3>2. q # p
        BY <3>1 DEF Brings
      <3>3. Brings(q, n)'
        BY <1>2, <3>1, <3>2 DEF Brings
      <3> QED BY <3>3
    <2> QED BY <2>1, <2>2
  <1> QED BY <1>3, <1>4, <1>5 DEF PanelInv, FormIsOfActive, ActiveFits

LEMMA RouteRefusesKeeps ==
  ASSUME PanelInv, NEW p \in Presses, RouteRefuses(p)
  PROVE  PanelInv'
  <1> DEFINE r == [press[p] EXCEPT !.state = "refused"]
  <1>1. press[p] \in PanelRequest /\ press[p] # Idle /\ press[p].state = "sent"
    BY PressTypes DEF RouteRefuses
  <1>2. /\ r \in PanelRequest /\ r.of = press[p].of /\ r.state = "refused"
        /\ r.heard = press[p].heard /\ r.alone = press[p].alone
        /\ r.creates = press[p].creates /\ r.version = press[p].version
    BY <1>1 DEF PanelRequest
  <1>3. press' = [press EXCEPT ![p] = r] /\ UNCHANGED <<savedRun, panel, missed, blank>>
    BY DEF RouteRefuses
  <1> HIDE DEF r
  <1>4. missed' \subseteq Names
    BY <1>3 DEF PanelInv, PanelTypeOK
  <1> QED BY <1>1, <1>2, <1>3, <1>4, RequestOnly

LEMMA LoseKeeps ==
  ASSUME PanelInv, NEW p \in Presses, Lose(p)
  PROVE  PanelInv'
  <1> DEFINE r == [press[p] EXCEPT !.heard = FALSE]
  <1>1. press[p] \in PanelRequest /\ press[p] # Idle /\ press[p].of \in Names
    BY PressTypes DEF Lose
  <1>2. /\ r \in PanelRequest /\ r.of = press[p].of /\ r.state = press[p].state
        /\ r.heard = FALSE /\ r.alone = press[p].alone
        /\ r.creates = press[p].creates /\ r.version = press[p].version
    BY <1>1 DEF PanelRequest
  <1>3. /\ press' = [press EXCEPT ![p] = r] /\ UNCHANGED <<savedRun, panel, blank>>
        /\ missed' = missed \cup {press[p].of}
    BY DEF Lose
  <1> HIDE DEF r
  <1>4. missed' \subseteq Names
    BY <1>1, <1>3 DEF PanelInv, PanelTypeOK
  <1> QED BY <1>1, <1>2, <1>3, <1>4, RequestOnly

\* A run becomes active with the form filled from it.
LEMMA ActiveIsShown ==
  ASSUME NEW holds \in Panel, NEW s \in Names, NEW v \in 0..MaxSaves
  PROVE  /\ SetActive(holds, s, v) \in Panel
         /\ SetActive(holds, s, v).active = s /\ SetActive(holds, s, v).version = v
         /\ SetActive(holds, s, v).form = [of |-> s, version |-> v]
         /\ SetActive(holds, s, v).runs = holds.runs
         /\ SetActive(holds, s, v).load = holds.load
  BY DEF Panel, SetActive

\* The run of an answer that the panel hears is in its list afterwards.
LEMMA ListedIs ==
  ASSUME NEW holds \in Panel, NEW r \in PanelRequest, r.creates \/ holds.runs[r.of] # 0
  PROVE  /\ Listed(holds, r) \in Panel /\ Listed(holds, r).load = holds.load
         /\ Listed(holds, r).runs[r.of] = r.version
         /\ \A s \in Names \ {r.of} : Listed(holds, r).runs[s] = holds.runs[s]
  <1>1. /\ r.of \in Names /\ r.version \in 0..MaxSaves
        /\ holds.runs \in [Names -> 0..MaxSaves]
    BY DEF Panel, PanelRequest
  <1> DEFINE list == [holds.runs EXCEPT ![r.of] = r.version]
  <1>2. list \in [Names -> 0..MaxSaves] /\ list[r.of] = r.version
        /\ \A s \in Names \ {r.of} : list[s] = holds.runs[s]
    BY <1>1
  <1>3. Listed(holds, r) = [holds EXCEPT !.runs = list]
    BY <1>1 DEF Listed, Panel
  <1> HIDE DEF list
  <1> QED BY <1>2, <1>3 DEF Panel

\* An answer that was heard: alone, it brings the list into step.
LEMMA AnswerKeeps ==
  ASSUME PanelInv, NEW p \in Presses, Answer(p)
  PROVE  PanelInv'
  <1> DEFINE s == press[p].of
             v == press[p].version
  <1>1. /\ press[p] \in PanelRequest /\ s \in Names /\ RequestFits(p) /\ press[p] # Idle
        /\ press[p].state # "sent" /\ v \in 0..MaxSaves
    BY PressTypes DEF Answer, PanelRequest
  <1>2. /\ press' = [press EXCEPT ![p] = Idle] /\ savedRun' = savedRun
        /\ blank' \in BOOLEAN
        /\ press \in [Presses -> PanelRequest \cup {Idle}]
        /\ panel \in Panel /\ missed \subseteq Names
    BY DEF Answer, PanelInv, PanelTypeOK
  <1>3. press'[p] = Idle /\ \A q \in Presses \ {p} : press'[q] = press[q]
    BY <1>2
  <1>4. \A q \in Presses : \A n : press[q] = Idle \/ press[q].of # n
                                => press'[q] = Idle \/ press'[q].of # n
    BY <1>3
  <1>5. press' \in [Presses -> PanelRequest \cup {Idle}]
    BY <1>2
  <1>6. ASSUME NEW q \in Presses, press'[q] # Idle
        PROVE  /\ q # p /\ press'[q] = press[q] /\ press[q] \in PanelRequest
               /\ press[q].of \in Names /\ RequestFits(q)
               /\ press[q].alone => press[q].of # s
               /\ press[q].alone =>
                     \A x \in Presses \ {q} : press'[x] = Idle \/ press'[x].of # press[q].of
    <2>1. q # p /\ press'[q] = press[q] /\ press[q] # Idle
      BY <1>3, <1>6
    <2>2. press[q] \in PanelRequest /\ press[q].of \in Names /\ RequestFits(q)
      BY <2>1, PressTypes
    <2>3. press[q].alone => press[q].of # s
      BY <1>1, <2>1, <2>2 DEF RequestFits
    <2>4. press[q].alone =>
             \A x \in Presses \ {q} : press'[x] = Idle \/ press'[x].of # press[q].of
      BY <1>4, <2>2 DEF RequestFits
    <2> QED BY <2>1, <2>2, <2>3, <2>4
  <1>7. CASE press[p].heard /\ press[p].state = "saved"
    <2> DEFINE list == Listed(panel, press[p])
    <2>1. /\ panel' = SetActive(list, s, v)
          /\ missed' = IF press[p].alone THEN missed \ {s} ELSE missed
      BY <1>7 DEF Answer
    <2>2. /\ panel.load = "shown" /\ (press[p].creates \/ panel.runs[s] # 0)
          /\ (press[p].alone \/ s \in missed) /\ v # 0
          /\ press[p].alone => v = savedRun[s]
      BY <1>1, <1>7 DEF RequestFits
    <2>3. /\ list \in Panel /\ list.load = panel.load /\ list.runs[s] = v
          /\ \A n \in Names \ {s} : list.runs[n] = panel.runs[n]
      BY <1>1, <1>2, <2>2, ListedIs
    <2> HIDE DEF list
    <2>4. /\ panel' \in Panel /\ panel'.active = s /\ panel'.version = v
          /\ panel'.form = [of |-> s, version |-> v]
          /\ panel'.runs = list.runs /\ panel'.load = "shown"
      BY <1>1, <2>1, <2>2, <2>3, ActiveIsShown
    <2>5. panel'.runs[s] = v /\ \A n \in Names \ {s} : panel'.runs[n] = panel.runs[n]
      BY <2>3, <2>4
    <2> HIDE DEF s, v
    <2>6. PanelTypeOK' /\ FormIsOfActive' /\ ActiveFits'
      BY <1>2, <1>5, <2>1, <2>2, <2>4, <2>5 DEF PanelInv, PanelTypeOK, FormIsOfActive, ActiveFits
    <2>7. RequestsFit'
      <3> SUFFICES ASSUME NEW q \in Presses, press'[q] # Idle PROVE RequestFits(q)'
        BY DEF RequestsFit
      <3>1. /\ q # p /\ press'[q] = press[q] /\ press[q] \in PanelRequest
            /\ press[q].of \in Names /\ RequestFits(q)
            /\ press[q].alone => press[q].of # s
            /\ press[q].alone =>
                  \A x \in Presses \ {q} : press'[x] = Idle \/ press'[x].of # press[q].of
        BY <1>6
      <3>2. panel.runs[press[q].of] # 0 => panel'.runs[press[q].of] # 0
        BY <2>2, <2>5, <3>1
      <3>3. press[q].alone \/ press[q].of \in missed => press[q].alone \/ press[q].of \in missed'
        <4>1. CASE press[q].of = s
          <5>1. press[q].of # s \/ ~ press[q].alone
            BY <3>1
          <5>2. ~ press[p].alone
            <6>1. press[p].alone => press[q] = Idle \/ press[q].of # s
              BY <1>1, <3>1 DEF RequestFits, s
            <6>2. press[q] # Idle
              BY <3>1 DEF PanelRequest, Idle
            <6> QED BY <4>1, <6>1, <6>2
          <5> QED BY <2>1, <5>2
        <4>2. CASE press[q].of # s
          BY <2>1, <4>2
        <4> QED BY <4>1, <4>2
      <3> QED BY <1>2, <2>4, <3>1, <3>2, <3>3 DEF RequestFits
    <2>8. ListFits'
      <3> SUFFICES ASSUME NEW n \in Names, n \notin missed'
                   PROVE  panel'.runs[n] = savedRun[n] \/ \E q \in Presses : Brings(q, n)'
        BY <1>2 DEF ListFits
      <3>1. CASE n = s
        BY <2>1, <2>2, <2>5, <3>1
      <3>2. CASE n # s /\ panel.runs[n] = savedRun[n]
        BY <2>5, <3>2
      <3>3. CASE n # s /\ panel.runs[n] # savedRun[n]
        <4>1. n \notin missed
          BY <2>1, <3>3
        <4>2. PICK q \in Presses : Brings(q, n)
          BY <2>2, <3>3, <4>1 DEF PanelInv, ListFits
        <4>3. Brings(q, n)'
          BY <1>3, <3>3, <4>2 DEF Brings, s
        <4> QED BY <4>3
      <3> QED BY <3>1, <3>2, <3>3
    <2> QED BY <2>6, <2>7, <2>8 DEF PanelInv
  <1>8. CASE ~ (press[p].heard /\ press[p].state = "saved")
    <2>1. panel' = panel /\ missed' = missed
      BY <1>8 DEF Answer
    <2>2. RequestsFit'
      <3> SUFFICES ASSUME NEW q \in Presses, press'[q] # Idle PROVE RequestFits(q)'
        BY DEF RequestsFit
      <3> QED BY <1>2, <1>6, <2>1 DEF RequestFits
    <2>3. ListFits'
      <3> SUFFICES ASSUME panel.load # "asked", NEW n \in Names, n \notin missed
                   PROVE  panel.runs[n] = savedRun[n] \/ \E q \in Presses : Brings(q, n)'
        BY <1>2, <2>1 DEF ListFits
      <3>1. CASE panel.runs[n] = savedRun[n]
        BY <3>1
      <3>2. CASE panel.runs[n] # savedRun[n]
        <4>1. PICK q \in Presses : Brings(q, n)
          BY <3>2 DEF PanelInv, ListFits
        <4>2. q # p
          BY <1>8, <4>1 DEF Brings
        <4>3. Brings(q, n)'
          BY <1>3, <4>1, <4>2 DEF Brings
        <4> QED BY <4>3
      <3> QED BY <3>1, <3>2
    <2> QED BY <1>2, <1>5, <2>1, <2>2, <2>3
         DEF PanelInv, PanelTypeOK, FormIsOfActive, ActiveFits
  <1> QED BY <1>7, <1>8

\* A run of the list becomes the active one, whether clicked or when the list is loaded.
LEMMA ChooseKeeps ==
  ASSUME PanelInv, NEW s \in Names, Choose(s)
  PROVE  PanelInv'
  <1>1. panel \in Panel /\ panel.load = "shown" /\ panel.runs[s] \in 1..MaxSaves
    BY PanelAssumption DEF Choose, PanelInv, PanelTypeOK, Panel
  <1>2. /\ panel' \in Panel /\ panel'.active = s /\ panel'.version = panel.runs[s]
        /\ panel'.form = [of |-> s, version |-> panel.runs[s]]
        /\ panel'.runs = panel.runs /\ panel'.load = "shown"
    BY <1>1, ActiveIsShown DEF Choose
  <1>3. UNCHANGED <<savedRun, press, missed, blank>>
    BY DEF Choose
  <1>4. PanelTypeOK' /\ FormIsOfActive' /\ ActiveFits'
    BY <1>1, <1>2, <1>3 DEF PanelInv, PanelTypeOK, FormIsOfActive, ActiveFits
  <1>5. RequestsFit'
    BY <1>1, <1>2, <1>3 DEF PanelInv, RequestsFit, RequestFits
  <1>6. ListFits'
    BY <1>1, <1>2, <1>3 DEF PanelInv, ListFits, Brings
  <1> QED BY <1>4, <1>5, <1>6 DEF PanelInv

\* A panel that is mounted anew hears none of the answers under way.
LEMMA OpenKeeps ==
  ASSUME PanelInv, Open
  PROVE  PanelInv'
  <1>1. Opened \in Panel /\ Opened.load = "asked" /\ Opened.active = NoActive
    BY PanelAssumption DEF Opened, Panel
  <1>2. ASSUME NEW q \in Presses, press[q] # Idle
        PROVE  /\ press'[q] \in PanelRequest /\ press'[q].of = press[q].of
               /\ press'[q].heard = FALSE /\ press'[q].alone = press[q].alone
               /\ press'[q].state = press[q].state /\ press'[q].version = press[q].version
               /\ RequestFits(q)
    <2>1. press'[q] = [press[q] EXCEPT !.heard = FALSE]
      BY <1>2 DEF Open
    <2>2. press[q] \in PanelRequest /\ RequestFits(q)
      BY <1>2, PressTypes
    <2> QED BY <2>1, <2>2 DEF PanelRequest
  <1>3. ASSUME NEW q \in Presses, press[q] = Idle PROVE press'[q] = Idle
    BY <1>3 DEF Open
  <1>4. press' \in [Presses -> PanelRequest \cup {Idle}]
    <2>1. \A q \in Presses : press'[q] \in PanelRequest \cup {Idle}
      BY <1>2, <1>3
    <2>2. press' = [q \in Presses |-> press'[q]]
      BY DEF Open
    <2> QED BY <2>1, <2>2
  <1>5. panel' = Opened /\ UNCHANGED <<savedRun, missed, blank>>
    BY DEF Open
  <1>6. RequestsFit'
    <2> SUFFICES ASSUME NEW q \in Presses, press'[q] # Idle PROVE RequestFits(q)'
      BY DEF RequestsFit
    <2>1. press[q] # Idle
      BY <1>3
    <2>2. /\ press'[q].of = press[q].of
          /\ press'[q].heard = FALSE /\ press'[q].alone = press[q].alone
          /\ press'[q].state = press[q].state /\ press'[q].version = press[q].version
          /\ RequestFits(q)
      BY <1>2, <2>1
    <2>3. \A x \in Presses : press[x] = Idle \/ press[x].of # press[q].of
                               => press'[x] = Idle \/ press'[x].of # press[q].of
      BY <1>2, <1>3
    <2> QED BY <2>2, <2>3 DEF RequestFits
  <1> QED BY <1>1, <1>4, <1>5, <1>6
       DEF PanelInv, PanelTypeOK, FormIsOfActive, ActiveFits, ListFits

LEMMA LoadKeeps ==
  ASSUME PanelInv, panel.load # "shown", panel' \in Panel,
         UNCHANGED <<savedRun, press, blank>>,
         missed' \subseteq Names, FormIsOfActive', ActiveFits',
         \A s \in Names \ missed' : panel'.runs[s] = savedRun[s]
  PROVE  PanelInv'
  <1>1. PanelTypeOK' /\ ListFits'
    BY DEF PanelInv, PanelTypeOK, ListFits
  <1>2. RequestsFit'
    <2> SUFFICES ASSUME NEW q \in Presses, press[q] # Idle PROVE RequestFits(q)'
      BY DEF RequestsFit
    <2>1. press[q].heard = FALSE /\ RequestFits(q)
      BY NoneHeard, PressTypes
    <2> QED BY <2>1 DEF RequestFits
  <1> QED BY <1>1, <1>2 DEF PanelInv

LEMMA LoadReadKeeps ==
  ASSUME PanelInv, LoadRead
  PROVE  PanelInv'
  <1>1. /\ panel \in Panel /\ savedRun \in [Names -> 0..MaxSaves]
        /\ panel.load = "asked" /\ panel.active = NoActive
    BY DEF LoadRead, PanelInv, PanelTypeOK, ActiveFits
  <1>2. /\ panel' \in Panel /\ panel'.load = "read" /\ panel'.active = NoActive
        /\ panel'.runs = savedRun
    BY <1>1 DEF LoadRead, Panel
  <1>3. missed' = {} /\ UNCHANGED <<savedRun, press, blank>>
    BY DEF LoadRead
  <1> QED BY <1>1, <1>2, <1>3, LoadKeeps DEF FormIsOfActive, ActiveFits

LEMMA LoadShownKeeps ==
  ASSUME PanelInv, LoadShown
  PROVE  PanelInv'
  <1> DEFINE shown == [panel EXCEPT !.load = "shown"]
  <1>1. panel \in Panel /\ panel.load = "read" /\ panel.active = NoActive
        /\ missed \subseteq Names /\ panel.runs \in [Names -> 0..MaxSaves]
    BY DEF LoadShown, PanelInv, PanelTypeOK, ActiveFits, Panel
  <1>2. /\ shown \in Panel /\ shown.load = "shown" /\ shown.runs = panel.runs
        /\ shown.active = NoActive
    BY <1>1 DEF Panel
  <1>3. \A s \in Names \ missed : panel.runs[s] = savedRun[s]
    <2> SUFFICES ASSUME NEW s \in Names \ missed, NEW q \in Presses, Brings(q, s) PROVE FALSE
      BY <1>1 DEF PanelInv, ListFits
    <2> QED BY <1>1, NoneHeard DEF Brings
  <1>4. UNCHANGED <<savedRun, press, missed, blank>>
    BY DEF LoadShown
  <1>5. \/ \E s \in Names : panel.runs[s] # 0 /\ panel' = SetActive(shown, s, shown.runs[s])
        \/ panel' = shown
    BY DEF LoadShown
  <1> HIDE DEF shown
  <1>6. CASE panel' = shown
    BY <1>1, <1>2, <1>3, <1>4, <1>6, LoadKeeps DEF FormIsOfActive, ActiveFits
  <1>7. CASE \E s \in Names : panel.runs[s] # 0 /\ panel' = SetActive(shown, s, shown.runs[s])
    <2>1. PICK s \in Names : panel.runs[s] # 0 /\ panel' = SetActive(shown, s, shown.runs[s])
      BY <1>7
    <2>2. panel.runs[s] \in 0..MaxSaves
      BY <1>1
    <2>3. /\ panel' \in Panel /\ panel'.active = s /\ panel'.version = panel.runs[s]
          /\ panel'.form = [of |-> s, version |-> panel.runs[s]]
          /\ panel'.runs = panel.runs /\ panel'.load = "shown"
      BY <1>2, <2>1, <2>2, ActiveIsShown
    <2> QED BY <1>1, <1>3, <1>4, <2>1, <2>3, LoadKeeps DEF FormIsOfActive, ActiveFits
  <1> QED BY <1>5, <1>6, <1>7

LEMMA LoadFailsKeeps ==
  ASSUME PanelInv, LoadFails
  PROVE  PanelInv'
  <1>1. /\ panel' \in Panel /\ panel'.load = "shown" /\ panel'.active = NoActive
    BY PanelAssumption DEF LoadFails, Opened, Panel
  <1> QED BY <1>1, LoadKeeps DEF LoadFails, FormIsOfActive, ActiveFits

LEMMA StepPanelInv == PanelInv /\ [PanelNext]_panelVars => PanelInv'
  <1> SUFFICES ASSUME PanelInv, [PanelNext]_panelVars PROVE PanelInv'
    OBVIOUS
  <1>1. ASSUME NEW p \in Presses, NEW s \in Names, PressCreate(p, s) PROVE PanelInv'
    BY <1>1, SendKeeps DEF PressCreate
  <1>2. ASSUME NEW p \in Presses, PressChange(p) PROVE PanelInv'
    <2>1. /\ panel.load = "shown" /\ press[p] = Idle /\ SendPress(p, panel.active, FALSE)
          /\ panel.active # NoActive
      BY <1>2 DEF PressChange
    <2>2. panel.active \in Names /\ panel.runs[panel.active] # 0
      BY <2>1 DEF PanelInv, PanelTypeOK, Panel, FormIsOfActive, ActiveFits
    <2>3. PICK s \in Names : s = panel.active
      BY <2>2
    <2> QED BY <2>1, <2>2, <2>3, SendKeeps
  <1>3. ASSUME UNCHANGED panelVars PROVE PanelInv'
    BY <1>3 DEF panelVars, PanelInv, PanelTypeOK, FormIsOfActive, ActiveFits, RequestsFit,
                RequestFits, ListFits, Brings
  <1> QED BY <1>1, <1>2, <1>3, RouteSavesKeeps, RouteRefusesKeeps, AnswerKeeps, LoseKeeps,
             ChooseKeeps, OpenKeeps, LoadReadKeeps, LoadShownKeeps, LoadFailsKeeps,
             WriteBlankKeeps
       DEF PanelNext

\* Where the panel missed nothing, its list is behind by at most one answer, which is under
\* way alone, and its form is filled from the run that its list shows as active.
THEOREM PanelInvariance == PanelSpec => []PanelInv
  BY InitPanelInv, StepPanelInv, PTL DEF PanelSpec

\* The evidence form is that of the run the operator sees, and unless requests of a scenario
\* were under way together or an answer was lost, what is seen is what is saved.
THEOREM PanelStaysInStep == PanelSpec => []PanelInStep
  <1>1. PanelInv => PanelInStep
    <2> SUFFICES ASSUME PanelInv, panel.load = "shown", NEW s \in Names \ missed,
                        UnderWay(s) = {}
                 PROVE  panel.runs[s] = savedRun[s]
      BY DEF PanelInStep, ListInStep, PanelInv
    <2>1. \A q \in Presses : ~ Brings(q, s)
      BY DEF Brings, UnderWay
    <2> QED BY <2>1 DEF PanelInv, ListFits
  <1> QED BY <1>1, PanelInvariance, PTL
=============================================================================
