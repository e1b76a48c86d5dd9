-------------------------- MODULE RehearsalWorkflow --------------------------
(***************************************************************************)
(* The rehearsal of one scenario (RehearsalWorkflowService.ts): the phases *)
(* and statuses of its run, the evidence package with its gate, the        *)
(* artifacts written beside it, and the incident handoff made for it.      *)
(*                                                                         *)
(* One mutation runs at a time (withRehearsalMutationLock, the same chain  *)
(* as that of IncidentHandoff); creation and evidence updates have a step  *)
(* outside the state file before they save.  Reads take no lock, and the   *)
(* first of them writes the file that it does not find.  A time stamp is   *)
(* abstracted to the round of the rehearsal it was taken in, 0 for none.   *)
(***************************************************************************)
EXTENDS Naturals, Sequences

CONSTANT MaxRounds  \* bound on the times the rehearsal is started
ASSUME RehearsalAssumption == MaxRounds \in Nat \ {0}

VARIABLES
    run,        \* the saved run of the scenario
    round,      \* the current rehearsal, 0 before the first
    pending,    \* what the running mutation will save, NoRun for none
    handoff,    \* whether the scenario has an incident handoff
    summary,    \* the gate and readiness written to summary.md and manifest.json
    deriving,   \* whether mitigation evidence is being derived, outside the lock
    emptying    \* whether a read that found no state file has yet to write an empty one

vars == <<run, round, pending, handoff, summary, deriving, emptying>>

\* REHEARSAL_PHASES
Phases == <<"preflight", "baseline", "injection", "detection", "prompt_gate",
            "diagnosis_gate", "restore", "recovery_verification", "evidence_package",
            "completed">>
Completed == Len(Phases)
Statuses == {"in_progress", "interrupted", "completed", "reset"}
Gates == {"PASS", "PASS_WITH_PENDING_HUMAN_PORTAL", "REDACTION_BLOCKED"}
Package == [complete : BOOLEAN, evidence : BOOLEAN, manifest : BOOLEAN, findings : BOOLEAN]
EmptyPackage == [complete |-> FALSE, evidence |-> FALSE, manifest |-> FALSE, findings |-> FALSE]
Run == [phase : DOMAIN Phases, status : Statuses, package : Package, gate : Gates,
        ready : BOOLEAN, mitigation : BOOLEAN, t : [0..5 -> 0..MaxRounds]]
NoRun == [status |-> "none"]
NoSummary == [gate |-> "none", ready |-> FALSE, findings |-> FALSE]

TypeOK ==
    /\ run \in Run \cup {NoRun} /\ pending \in Run \cup {NoRun}
    /\ round \in 0..MaxRounds
    /\ handoff \in BOOLEAN /\ deriving \in BOOLEAN /\ emptying \in BOOLEAN
    /\ summary \in [gate : Gates, ready : BOOLEAN, findings : BOOLEAN] \cup {NoSummary}

\* Before the first save there is no file, and a read may have found that there is none.
Init ==
    /\ run = NoRun /\ pending = NoRun /\ round = 0
    /\ handoff = FALSE /\ summary = NoSummary /\ deriving = FALSE
    /\ emptying \in BOOLEAN

-----------------------------------------------------------------------------
(***************************************************************************)
(* The gate                                                                *)
(***************************************************************************)

\* calculateGateStatus
Gate(package) ==
    CASE package.findings -> "REDACTION_BLOCKED"
      [] ~ package.findings /\ package.complete /\ package.evidence /\ package.manifest -> "PASS"
      [] OTHER -> "PASS_WITH_PENDING_HUMAN_PORTAL"

\* A faulty rating that leaves the gate of before.
StaleRating(r) == [r EXCEPT !.ready = r.gate = "PASS"]

\* How an evidence change ends: the gate is computed anew and decides on readiness, in
\* whatever phase the run is.
Rated(r) == [r EXCEPT !.gate = Gate(r.package), !.ready = Gate(r.package) = "PASS"]

Exists == run # NoRun
Unlocked == pending = NoRun

\* saveState at the end of a mutation that does nothing else.
Save(r) == run' = r /\ UNCHANGED <<pending, handoff, summary, deriving, emptying>>

-----------------------------------------------------------------------------
(***************************************************************************)
(* createRehearsalRun                                                      *)
(***************************************************************************)

\* createSeedRun; every caller gives the run another status than the seed's "pending".
Seed(status) ==
    [phase |-> 1, status |-> status, package |-> EmptyPackage,
     gate |-> "PASS_WITH_PENDING_HUMAN_PORTAL", ready |-> FALSE, mitigation |-> FALSE,
     t |-> [i \in 0..5 |-> 0]]

\* All of a restart but its phase; alone, a faulty restart.
RestartedInPhase(r) ==
    [r EXCEPT !.status = "in_progress",
              !.package.complete = FALSE, !.package.findings = FALSE,
              !.gate = "PASS_WITH_PENDING_HUMAN_PORTAL", !.ready = FALSE]

\* An existing run starts again: its paths, its time stamps and its mitigation evidence
\* stay.
Restarted(r) == [RestartedInPhase(r) EXCEPT !.phase = 1]

CreateAgain ==
    /\ Unlocked /\ Exists
    /\ round < MaxRounds /\ round' = round + 1
    /\ Save(Restarted(run))

\* A faulty creation that saves first and tells of the incident afterwards.
CreateSavedFirst ==
    /\ Unlocked /\ ~ Exists
    /\ round' = 1
    /\ run' = [Seed("in_progress") EXCEPT !.t[0] = 1]
    /\ pending' = run'
    /\ UNCHANGED <<handoff, summary, deriving, emptying>>

\* submitIncident with the scenario's name: a new incident, or the open one again.
syncIncidentHandoff == handoff' = TRUE

\* A new run: syncIncidentHandoff comes before the save.
Create ==
    /\ Unlocked /\ ~ Exists
    /\ round' = 1
    /\ syncIncidentHandoff
    /\ pending' = [Seed("in_progress") EXCEPT !.t[0] = 1]
    /\ UNCHANGED <<run, summary, deriving, emptying>>

\* The save that ends a creation or an evidence update.
SavePending ==
    /\ ~ Unlocked
    /\ run' = pending /\ pending' = NoRun
    /\ UNCHANGED <<round, handoff, summary, deriving, emptying>>

\* The save fails, or the process ends before it.
LosePending ==
    /\ ~ Unlocked \/ deriving
    /\ pending' = NoRun /\ deriving' = FALSE
    /\ UNCHANGED <<run, round, handoff, summary, emptying>>

\* getRehearsalState takes no lock: a read that found no file writes an empty one, over
\* what was saved since.  A mutation that had read before saves its run all the same.
EmptyFile ==
    /\ emptying /\ emptying' = FALSE
    /\ run' = NoRun
    /\ UNCHANGED <<round, pending, handoff, summary, deriving>>

-----------------------------------------------------------------------------
(***************************************************************************)
(* The other mutations                                                     *)
(***************************************************************************)

\* The time stamp that the entry into each phase sets, 0 for none.
Stamps == <<0, 1, 2, 3, 0, 4, 0, 0, 5, 0>>

Stamp(t, phase) ==
    IF Stamps[phase] = 0 THEN t ELSE [t EXCEPT ![Stamps[phase]] = round]

\* advanceRehearsalRun (a dry run saves nothing)
Advance ==
    /\ Unlocked /\ Exists
    /\ run.status = "in_progress" /\ run.phase < Completed
    /\ LET next == run.phase + 1
           moved == [run EXCEPT !.phase = next, !.t = Stamp(run.t, next),
                                !.gate = Gate(run.package)]
       IN  Save(IF next = Completed
                THEN [moved EXCEPT !.status = "completed", !.ready = moved.gate = "PASS"]
                ELSE moved)
    /\ UNCHANGED round

Interrupt ==
    /\ Unlocked /\ Exists
    /\ Save([run EXCEPT !.status = "interrupted", !.gate = Gate(run.package)])
    /\ UNCHANGED round

Resume ==
    /\ Unlocked /\ Exists
    /\ run.status = "interrupted"
    /\ Save([run EXCEPT !.status = "in_progress", !.gate = Gate(run.package)])
    /\ UNCHANGED round

\* resetRehearsalRun assigns a seed run over the old one: what a seed does not have,
\* the mitigation evidence, stays.
Reset ==
    /\ Unlocked /\ Exists
    /\ Save([Seed("reset") EXCEPT !.mitigation = run.mitigation])
    /\ UNCHANGED round

\* A request of PATCH /api/rehearsals/evidence: whether it names an evidence path, what
\* it says of completeness, and whether it has sensitive content or a bad checksum.
Update == [evidence : BOOLEAN, complete : {"yes", "no", "unsaid"}, sensitive : BOOLEAN]

\* manifest.json and summary.md, of the run as it is when they are written.
persistEvidenceArtifacts(r) == [gate |-> r.gate, ready |-> r.ready, findings |-> r.package.findings]

\* mergeEvidencePackage: a path the request leaves out is gone, findings only grow.
\* persistEvidenceArtifacts gives the package a manifest.
Merged(package, u) ==
    [complete |-> IF u.complete = "unsaid" THEN package.complete ELSE u.complete = "yes",
     evidence |-> u.evidence,
     manifest |-> TRUE,
     findings |-> package.findings \/ u.sensitive]

\* updateRehearsalEvidence: the artifacts are written with the gate and readiness that
\* the run had before, then the run is rated and saved.
UpdateEvidence(u) ==
    /\ Unlocked /\ Exists
    /\ LET merged == [run EXCEPT !.package = Merged(run.package, u)]
       IN  /\ summary' = persistEvidenceArtifacts(merged)
           /\ pending' = Rated(merged)
    /\ UNCHANGED <<run, round, handoff, deriving, emptying>>

\* The mitigation-evidence route derives before it takes the lock; then
\* attachRehearsalMitigationEvidence takes the run as it finds it.
DeriveMitigation ==
    /\ ~ deriving /\ deriving' = TRUE
    /\ UNCHANGED <<run, round, pending, handoff, summary, emptying>>

AttachMitigation ==
    /\ deriving /\ deriving' = FALSE
    /\ Unlocked
    /\ run' = IF Exists THEN Rated([run EXCEPT !.mitigation = TRUE]) ELSE run
    /\ UNCHANGED <<round, pending, handoff, summary, emptying>>

Next ==
    \/ Create \/ CreateAgain \/ Advance \/ Interrupt \/ Resume \/ Reset
    \/ \E u \in Update : UpdateEvidence(u)
    \/ DeriveMitigation \/ AttachMitigation
    \/ SavePending \/ LosePending \/ EmptyFile

Spec == Init /\ [][Next]_vars
-----------------------------------------------------------------------------
(***************************************************************************)
(* Properties                                                              *)
(***************************************************************************)

\* A run is customer-ready only on a package that passes its gate now, whatever was
\* interrupted, resumed, restarted or attached since.
ReadyIsBacked ==
    Exists => (run.gate = Gate(run.package) /\ (run.ready => run.gate = "PASS"))

\* A run completes only by going through every phase in the present rehearsal.
CompletedThisRound ==
    Exists /\ run.status = "completed" => \A i \in 1..5 : run.t[i] = round

\* A saved run has its incident handoff, and a saved package that names its manifest has
\* its artifacts on disk: both come before the save, and the process may end in between.
EffectsComeFirst ==
    Exists => handoff /\ (run.package.manifest => summary # NoSummary)

\* What holds of a run, saved or about to be saved: its rating, its artifacts, and the
\* time stamps of the phases it has entered, which are those of this rehearsal.
Sound(r) ==
    /\ r.gate = Gate(r.package) /\ (r.ready => r.gate = "PASS")
    /\ r.package.manifest => summary # NoSummary
    /\ \A p \in 1..r.phase : Stamps[p] # 0 => r.t[Stamps[p]] = round
    /\ r.status = "completed" => r.phase = Completed

\* The inductive invariant of the rehearsal.
RehearsalInv ==
    /\ TypeOK
    /\ Exists => Sound(run)
    /\ pending # NoRun => Sound(pending)
    /\ Exists \/ pending # NoRun => handoff

\* docs/REHEARSAL-WORKFLOW.md: customerReady is true only when the gate status is PASS
\* at completion.
ReadyOnlyWhenCompleted == Exists /\ run.ready => run.phase = Completed
=============================================================================
