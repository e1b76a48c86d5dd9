------------------------ MODULE ReviewModeMitigation ------------------------
(***************************************************************************)
(* The Review-mode mitigation of the MongoDBDown scenario: what happens    *)
(* (decisions in the SRE Agent portal, scale commands of the agent, other  *)
(* hands on the Deployment), what Mission Control sees of it (telemetry    *)
(* rows that arrive late or never, failed queries, its own observations),  *)
(* and the lifecycle state it derives (ReviewModeMitigationService.ts,     *)
(* mitigationLifecycle.ts, mitigationProbes.ts).                           *)
(*                                                                         *)
(* Time is a counter: every event of the world takes one tick, so time     *)
(* stamps are distinct.  The properties compare the derived state with     *)
(* what really happened.                                                   *)
(***************************************************************************)
EXTENDS Naturals, Sequences, FiniteSets, FiniteSetsExt, Functions

CONSTANTS
    MaxTime,      \* the last tick
    StaleAfter,   \* DEFAULT_MITIGATION_STALE_SECONDS, in ticks
    ProbeStale,   \* DEFAULT_PROBE_STALE_SECONDS and the transaction freshness, in ticks
    HistoryMax    \* HISTORY_MAX_ENTRIES

ASSUME MitigationAssumption ==
    /\ {StaleAfter, ProbeStale} \subseteq Nat
    /\ {MaxTime, HistoryMax} \subseteq Nat \ {0}

VARIABLES
    now,
    changes,      \* the ticks at which spec.replicas of energy/mongodb changed (0 <-> 1)
    events,       \* decisions, ToolStart and ToolEnd of allowlisted commands
    running,      \* the command the agent is executing
    lastSuccess,  \* the last golden transaction that succeeded, 0 for none
    history,      \* resourceStateHistory of the correlation key
    verdict       \* what the last step derived, when it was a poll

worldVars == <<changes, events, running, lastSuccess>>
vars == <<now, changes, events, running, lastSuccess, history, verdict>>

Commands == {"restore", "rollback"}
Outcomes == {"approved", "rejected", "unknown"}
Results == {"ok", "failed", "blocked"}
States == {"blocked-run-mode", "no-evidence", "proposed", "denied",
           "denied-with-unverified-state", "deny-violation", "approved", "executing",
           "execution-blocked", "execution-failed", "verification-passed",
           "verification-failed", "rolled-back"}
Event == [at : 1..MaxTime, kind : {"decision"}, what : Outcomes, result : {"none"}]
    \cup [at : 1..MaxTime, kind : {"start"}, what : Commands, result : {"none"}]
    \cup [at : 1..MaxTime, kind : {"end"}, what : Commands, result : Results]
NoVerdict == [state |-> "none", decision |-> 0, complete |-> FALSE]

TypeOK ==
    /\ now \in 1..MaxTime
    /\ changes \subseteq 1..MaxTime
    /\ events \subseteq Event
    /\ running \in Commands \cup {"none"}
    /\ lastSuccess \in 0..MaxTime
    /\ history \in Seq([at : 1..MaxTime, replicas : 0..1]) /\ Len(history) <= HistoryMax
    /\ verdict \in [state : States, decision : 0..MaxTime, complete : BOOLEAN] \cup {NoVerdict}

\* spec.replicas after tick t: the scenario set it to 0, unless somebody has scaled it
\* back at tick 1.
ReplicasAt(t) == Cardinality({c \in changes : c <= t}) % 2
Replicas == ReplicasAt(now)

Init ==
    /\ now = 1
    /\ changes \in {{}, {1}} /\ events = {}
    /\ running = "none" /\ lastSuccess = 0
    /\ history = <<>> /\ verdict = NoVerdict

-----------------------------------------------------------------------------
(***************************************************************************)
(* The world                                                               *)
(***************************************************************************)
Tick == now < MaxTime /\ now' = now + 1 /\ verdict' = NoVerdict /\ UNCHANGED history

Happens(e) == events' = events \cup {e}

\* Somebody decides in the portal.
Decide ==
    /\ Tick
    /\ \E outcome \in Outcomes :
           Happens([at |-> now + 1, kind |-> "decision", what |-> outcome, result |-> "none"])
    /\ UNCHANGED <<changes, running, lastSuccess>>

\* The agent runs an allowlisted command, as the policy says or past it.
Start ==
    /\ Tick
    /\ running = "none"
    /\ \E c \in Commands :
           /\ running' = c
           /\ Happens([at |-> now + 1, kind |-> "start", what |-> c, result |-> "none"])
    /\ UNCHANGED <<changes, lastSuccess>>

\* The command ends: done, refused by the API server, or with an error that may
\* come after its effect.
End ==
    /\ Tick
    /\ running # "none"
    /\ \E r \in Results, applied \in BOOLEAN :
           /\ r = "ok" => applied
           /\ r = "blocked" => ~ applied
           /\ Happens([at |-> now + 1, kind |-> "end", what |-> running, result |-> r])
           /\ changes' = IF applied /\ Replicas # (IF running = "restore" THEN 1 ELSE 0)
                         THEN changes \cup {now + 1} ELSE changes
    /\ running' = "none"
    /\ UNCHANGED <<lastSuccess>>

\* Somebody else scales the Deployment (the scenario, its repair, an operator).
ScaledByOthers ==
    /\ Tick
    /\ changes' = changes \cup {now + 1}
    /\ UNCHANGED <<events, running, lastSuccess>>

GoldenTransaction ==
    /\ Tick
    /\ Replicas = 1
    /\ lastSuccess' = now + 1
    /\ UNCHANGED <<changes, events, running>>

-----------------------------------------------------------------------------
(***************************************************************************)
(* mitigationLifecycle.ts                                                  *)
(***************************************************************************)
Fresh(t, from, limit) == from <= t \/ from - t <= limit

Latest(rows) == CHOOSE e \in rows : \A f \in rows : f.at <= e.at
Earliest(rows) == CHOOSE e \in rows : \A f \in rows : e.at <= f.at

Decisions(rows) == {e \in rows : e.kind = "decision"}
Starts(rows) == {e \in rows : e.kind = "start"}
Ends(rows) == {e \in rows : e.kind = "end"}

\* A faulty choice: the reading of the poll before.
PreviousObservation(t) == IF history = <<>> THEN {} ELSE {history[Len(history)]}

\* selectPreDecisionObservation: the newest reading at or before the decision.
PreDecision(t) ==
    {o \in Range(history) : o.at <= t /\ \A p \in Range(history) : p.at <= t => p.at <= o.at}

\* resolveMutationState; the "before" side is a set of at most one reading, and
\* the "after" side was read in this request.
Mutation(before, after) ==
    IF before = {} \/ after = {} THEN "unknown"
    ELSE IF \E o \in before, p \in after : o.replicas # p.replicas THEN "applied" ELSE "unchanged"

\* A faulty derivation without the ordering check.
NeverPrecedes(rows) == FALSE

\* An execution that Mission Control saw starting before the latest decision.
PrecedesApproval(rows) ==
    /\ Decisions(rows) # {} /\ Starts(rows) # {}
    /\ Earliest(Starts(rows)).at < Latest(Decisions(rows)).at

\* A faulty summary that takes probes of any time.
ProbesAnyTime(probes, end) == TRUE

\* summarizeVerification: every probe has a time after the end of the execution.
PostDates(probes, end) == \A p \in probes : p.at > end.at

\* The decision table for a rejected proposal.
DeniedState(decision, mutation, at) ==
    CASE mutation = "applied" -> "deny-violation"
      [] mutation = "unchanged" /\ Fresh(decision.at, at, StaleAfter) -> "denied"
      [] OTHER -> "denied-with-unverified-state"

\* The decision table for an approved proposal with a completed execution.
VerifiedState(end, probes, mutation, latest, at) ==
    IF PostDates(probes, end) /\ (\A p \in probes : p.status = "pass")
       /\ mutation # "unchanged" /\ Fresh(latest, at, StaleAfter)
    THEN IF end.what = "rollback" THEN "rolled-back" ELSE "verification-passed"
    ELSE "verification-failed"

\* deriveMitigationLifecycle, from its run-mode gate on.
Derive(rows, after, probes, at) ==
    LET decision == Latest(Decisions(rows))
        decided == Decisions(rows) # {}
        outcome == IF decided THEN decision.what ELSE "none"
        executed == Starts(rows) \cup Ends(rows) # {}
        ended == Ends(rows) # {}
        end == Latest(Ends(rows))
        anchor == IF ended THEN end ELSE Earliest(Starts(rows))
        latest == IF executed THEN Max({decision.at, anchor.at}) ELSE decision.at
        mutation == IF decided THEN Mutation(PreDecision(decision.at), after) ELSE "unknown"
    IN  IF PrecedesApproval(rows) THEN "execution-failed"
        ELSE IF outcome = "rejected" THEN DeniedState(decision, mutation, at)
        ELSE IF ended /\ end.result = "blocked" THEN "execution-blocked"
        ELSE IF outcome = "approved"
        THEN IF ~ executed THEN "approved"
             ELSE IF ~ ended THEN "executing"
             ELSE IF end.result = "failed" THEN "execution-failed"
             ELSE VerifiedState(end, probes, mutation, latest, at)
        ELSE IF executed THEN "execution-failed" ELSE "proposed"

-----------------------------------------------------------------------------
(***************************************************************************)
(* ReviewModeMitigationService.ts.  Bound: at most one poll a tick (a poll  *)
(* starts when no verdict stands).                                         *)
(***************************************************************************)

\* observeMitigationResourceState and buildVerificationProbes.  The rollout of the
\* pods, and the success rate of the journey, may lag behind: a probe may fail.  Only
\* whether all pass matters, so the two probes of the inventory fail together.
Reading == [at |-> now, replicas |-> Replicas]
Probe(name, status, at) == [probe |-> name, status |-> status, at |-> at]
Verdicts(passing) == IF passing THEN {"pass", "fail"} ELSE {"fail"}
ProbeSets(inventory) ==
    LET goldenAt == IF lastSuccess = 0 THEN now ELSE lastSuccess
        golden == lastSuccess # 0 /\ now - lastSuccess <= ProbeStale
    IN  {{Probe("kubernetes-readiness", ready, now),
          Probe("service-endpoint-health", ready, now),
          Probe("golden-transaction", g, goldenAt)} :
            ready \in Verdicts(inventory /\ Replicas = 1), g \in Verdicts(golden)}

\* recordMitigationObservation: one entry per reading, the oldest goes.
Recorded(o) ==
    IF history # <<>> /\ history[Len(history)].at = o.at THEN history
    ELSE LET h == Append(history, o)
         IN  IF Len(h) > HistoryMax THEN Tail(h) ELSE h

\* collectMitigationEvidence.  The clock was read when the request came, at most a
\* tick ago; of the rows, any may not have arrived when the telemetry was queried,
\* or its query failed; the inventory and the probes are read now, and the history
\* before the new reading is recorded.
Collect ==
    /\ verdict = NoVerdict
    /\ \E at \in {t \in {now - 1, now} : t > 0}, rows \in SUBSET events, inventory \in BOOLEAN :
       \E probes \in ProbeSets(inventory) :
           LET after == IF inventory THEN {Reading} ELSE {}
           IN  /\ history' = IF inventory THEN Recorded(Reading) ELSE history
               /\ verdict' = [state |-> Derive(rows, after, probes, at),
                              decision |-> IF Decisions(rows) = {} THEN 0
                                           ELSE Latest(Decisions(rows)).at,
                              complete |-> rows = events]
    /\ UNCHANGED <<now, worldVars>>

\* The incident row is missing, of another thread, or says something else than
\* Review; or the telemetry no longer has the documented schema.
CollectBlocked ==
    /\ verdict = NoVerdict
    /\ \E inventory \in BOOLEAN :
           history' = IF inventory THEN Recorded(Reading) ELSE history
    /\ \E s \in {"blocked-run-mode", "no-evidence"} : verdict' = [NoVerdict EXCEPT !.state = s]
    /\ UNCHANGED <<now, worldVars>>

Next ==
    Decide \/ Start \/ End \/ ScaledByOthers \/ GoldenTransaction
        \/ Collect \/ CollectBlocked

Spec == Init /\ [][Next]_vars
-----------------------------------------------------------------------------
(***************************************************************************)
(* Properties: what a derived state says of the world it was derived in.   *)
(***************************************************************************)

\* The incident is resolved (state verification-passed) only if somebody really
\* approved, a restore command really ended without an error, MongoDB served a
\* transaction after that, and the Deployment is not scaled to 0 now.
ResolvedIsTrue ==
    verdict.state = "verification-passed" =>
        /\ \E d \in Decisions(events) : d.what = "approved"
        /\ \E x \in Ends(events) :
               x.what = "restore" /\ x.result = "ok" /\ lastSuccess > x.at
        /\ Replicas = 1

\* docs/REVIEW-MODE-MITIGATION.md 6.1: a rejected proposal that did change the
\* resource is never reported as denied, however many polls come after.  The
\* replicas are those of the decision, unless they had already changed between
\* Mission Control's last look and the decision.
ChangeIsNeverDenied ==
    [][verdict'.state = "denied" =>
         \E o \in Range(history) :
            /\ o.at <= verdict'.decision
            /\ \/ ReplicasAt(verdict'.decision) = Replicas
               \/ \E c \in changes : o.at < c /\ c <= verdict'.decision]_vars

\* With every row of the decisions and executions at hand, an incident is not
\* resolved when the agent executed before the latest decision.
CompleteTelemetryCatchesBypass ==
    verdict.state = "verification-passed" /\ verdict.complete =>
        \A s \in Starts(events) : s.at > verdict.decision

\* mitigationLifecycle.ts: denied requires state before and after the decision that
\* proves no mutation.  Nothing changed since the decision.
DeniedProvesNoMutation ==
    verdict.state = "denied" => \A c \in changes : c <= verdict.decision
=============================================================================
