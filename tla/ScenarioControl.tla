-------------------------- MODULE ScenarioControl --------------------------
(***************************************************************************)
(* Break scenarios: ScenarioService.ts applies and deletes Kubernetes      *)
(* resources one kubectl call after the other and keeps, in memory, the    *)
(* set of scenarios it has enabled; MissionWallboard.vue turns a toggle    *)
(* into enable or disable by the list it shows, and polls that list.       *)
(*                                                                         *)
(* Nothing orders the requests: other requests run while one waits for     *)
(* kubectl, a call may fail with part of its effect, and a restart of the  *)
(* backend forgets the set, abandons the requests and leaves their kubectl *)
(* processes to end on their own.                                          *)
(*                                                                         *)
(* The cluster is the set of resources that are as a scenario left them:   *)
(* altered base resources, and resources a scenario has added.             *)
(***************************************************************************)
EXTENDS FiniteSets, Integers, Sequences, SequencesExt

CONSTANTS
    Registry,     \* SCENARIO_REGISTRY, the scenarios in order
    BaseBacked,   \* those whose repair plan applies the base manifest
    Extras,       \* deleteResources of each repair plan, in order
    Clicks,       \* the requests the page can have under way at a time
    MaxFaults,    \* how often a kubectl call fails or the backend ends
    NoName,       \* togglingScenario is null
    NoList        \* no list

ScenarioNames == Range(Registry)

Breaks(s) == IF s \in BaseBacked THEN {s} ELSE Range(Extras[s])
Resources == UNION {Breaks(s) : s \in ScenarioNames}

\* Each scenario alters a base resource of its own, or adds what its plan
\* deletes, and no other one does.
ASSUME ScenarioAssumption ==
    /\ Registry \in Seq(ScenarioNames) /\ IsInjective(Registry)
    /\ BaseBacked \subseteq ScenarioNames /\ NoName \notin ScenarioNames
    /\ \A s \in ScenarioNames :
          /\ Extras[s] \in Seq(Range(Extras[s]))
          /\ Extras[s] = <<>> <=> s \in BaseBacked
          /\ \A t \in ScenarioNames \ {s} : Breaks(s) \cap Breaks(t) = {}
    /\ MaxFaults \in Nat

Commands == [do : {"base"}] \cup [do : {"apply"}, on : ScenarioNames]
            \cup [do : {"delete"}, on : Resources \ BaseBacked]

VARIABLES
    enabled,   \* enabledScenarios
    broken,    \* the resources a scenario has altered or added
    stage,     \* how far each request of the page is
    order,     \* what it asks for
    todo,      \* the kubectl calls it has planned; the first one is running
    ran,       \* that one has had its effect
    stray,     \* kubectl calls of a backend that has ended
    listed,    \* the enabled ones of the list the page shows
    toggling,  \* togglingScenario
    alone,     \* history: requests that no other one, and no restart, met
    orderly,   \* history: no overlap, failure or restart so far
    faults     \* failures and restarts so far

scenarioVars == <<enabled, broken, stage, order, todo, ran, stray, listed, toggling, alone, orderly, faults>>
backend == <<enabled, broken, todo, ran, stray>>

Orders == [kind : {"enable", "disable"}, name : ScenarioNames] \cup [kind : {"fix-all"}]
Lists == SUBSET ScenarioNames \cup {NoList}

ScenarioTypeOK ==
    /\ enabled \subseteq ScenarioNames /\ broken \subseteq Resources
    /\ stage \in [Clicks -> {"idle", "change", "changed", "failed"}]
    /\ order \in [Clicks -> Orders]
    /\ \A c \in Clicks : Range(todo[c]) \subseteq Commands
    /\ ran \in [Clicks -> BOOLEAN]
    /\ stray \subseteq Commands
    /\ listed \in Lists
    /\ toggling \in ScenarioNames \cup {NoName}
    /\ alone \in [Clicks -> BOOLEAN] /\ orderly \in BOOLEAN /\ faults \in 0..MaxFaults

-----------------------------------------------------------------------------
(***************************************************************************)
(* ScenarioService.ts.                                                     *)
(***************************************************************************)
Deletes(resources) ==
    [i \in 1..Len(resources) |-> [do |-> "delete", on |-> resources[i]]]

repairScenario(s) ==
    IF s \in BaseBacked THEN <<[do |-> "base"]>> \o Deletes(Extras[s])
                        ELSE Deletes(Extras[s])

\* A faulty clean-up that trusts the set for what there is to delete.
DeleteEnabledExtras ==
    FlattenSeq([i \in 1..Len(Registry) |->
        IF Registry[i] \in enabled THEN Deletes(Extras[Registry[i]]) ELSE <<>>])
deleteAllExtraScenarioResources ==
    FlattenSeq([i \in 1..Len(Registry) |-> Deletes(Extras[Registry[i]])])

Planned(o) ==
    CASE o.kind = "enable"  -> <<[do |-> "apply", on |-> o.name]>>
      [] o.kind = "disable" -> repairScenario(o.name)
      [] o.kind = "fix-all" -> <<[do |-> "base"]>> \o deleteAllExtraScenarioResources

\* A faulty repair that leaves the others as the base manifest made them.
NoReapply(o, cmd) == <<>>
\* The base manifest has repaired the other scenarios too: each one that is
\* enabled when its turn comes is applied again.
reapplyEnabledScenariosExcept(o, cmd) ==
    LET done == IF cmd.do = "apply" THEN CHOOSE i \in DOMAIN Registry : Registry[i] = cmd.on ELSE 0
        later == {i \in (done + 1)..Len(Registry) :
                     Registry[i] # o.name /\ Registry[i] \in enabled}
    IN  IF o.kind = "disable" /\ o.name \in BaseBacked /\ later # {}
        THEN <<[do |-> "apply", on |-> Registry[CHOOSE i \in later : \A j \in later : i <= j]]>>
        ELSE <<>>

\* What kubectl does to the cluster, and the parts a failing call may have done.
Targets(cmd) ==
    CASE cmd.do = "base"   -> BaseBacked
      [] cmd.do = "apply"  -> Breaks(cmd.on)
      [] cmd.do = "delete" -> {cmd.on}

After(cmd, part) == IF cmd.do = "apply" THEN broken \cup part ELSE broken \ part

EnabledAfter(o) ==
    CASE o.kind = "enable"  -> enabled \cup {o.name}
      [] o.kind = "disable" -> enabled \ {o.name}
      [] o.kind = "fix-all" -> {}

ScenarioInit ==
    /\ enabled = {} /\ broken = {}
    /\ stage = [c \in Clicks |-> "idle"]
    /\ order = [c \in Clicks |-> [kind |-> "fix-all"]]
    /\ todo = [c \in Clicks |-> <<>>]
    /\ ran = [c \in Clicks |-> FALSE]
    /\ stray = {}
    /\ listed = NoList /\ toggling = NoName
    /\ alone = [c \in Clicks |-> FALSE] /\ orderly = TRUE
    /\ faults = 0

Changing == {c \in Clicks : stage[c] = "change"}

Request(c, o) ==
    /\ stage[c] = "idle"
    /\ stage' = [stage EXCEPT ![c] = "change"]
    /\ order' = [order EXCEPT ![c] = o]
    /\ todo' = [todo EXCEPT ![c] = Planned(o)]
    /\ orderly' = (orderly /\ Changing = {})
    /\ alone' = [d \in Clicks |-> d = c /\ Changing = {} /\ stray = {}]
    /\ UNCHANGED <<enabled, broken, ran, stray, listed, faults>>

\* The running kubectl call takes effect ...
Effect(c) ==
    /\ stage[c] = "change" /\ ~ran[c]
    /\ broken' = After(Head(todo[c]), Targets(Head(todo[c])))
    /\ ran' = [ran EXCEPT ![c] = TRUE]
    /\ UNCHANGED <<enabled, stage, order, todo, stray, listed, toggling, alone, orderly, faults>>

\* ... and ends: the next one starts, or the request is answered.
Ends(c) ==
    LET cmd == Head(todo[c])
        next == IF Len(todo[c]) > 1 THEN Tail(todo[c])
                ELSE reapplyEnabledScenariosExcept(order[c], cmd)
    IN  /\ stage[c] = "change" /\ ran[c]
        /\ todo' = [todo EXCEPT ![c] = next]
        /\ ran' = [ran EXCEPT ![c] = FALSE]
        /\ IF next = <<>> THEN /\ enabled' = EnabledAfter(order[c])
                               /\ stage' = [stage EXCEPT ![c] = "changed"]
                          ELSE UNCHANGED <<enabled, stage>>
        /\ UNCHANGED <<broken, order, stray, listed, toggling, alone, orderly, faults>>

\* kubectl fails or times out, with all, a part or nothing of its effect.
Fails(c) ==
    /\ stage[c] = "change" /\ faults < MaxFaults
    /\ faults' = faults + 1
    /\ IF ran[c] THEN UNCHANGED broken
       ELSE \E part \in SUBSET Targets(Head(todo[c])) : broken' = After(Head(todo[c]), part)
    /\ stage' = [stage EXCEPT ![c] = "failed"]
    /\ todo' = [todo EXCEPT ![c] = <<>>]
    /\ ran' = [ran EXCEPT ![c] = FALSE]
    /\ alone' = [alone EXCEPT ![c] = FALSE]
    /\ orderly' = FALSE
    /\ UNCHANGED <<enabled, order, stray, listed, toggling>>

\* The backend ends and is started again.
Restart ==
    /\ faults < MaxFaults
    /\ faults' = faults + 1
    /\ enabled' = {}
    /\ stray' = stray \cup {Head(todo[c]) : c \in {d \in Changing : ~ran[d]}}
    /\ stage' = [c \in Clicks |-> IF stage[c] = "change" THEN "failed" ELSE stage[c]]
    /\ todo' = [c \in Clicks |-> <<>>]
    /\ ran' = [c \in Clicks |-> FALSE]
    /\ alone' = [c \in Clicks |-> FALSE]
    /\ orderly' = FALSE
    /\ UNCHANGED <<broken, order, listed, toggling>>

StrayEffect ==
    \E cmd \in stray :
        /\ broken' = After(cmd, Targets(cmd))
        /\ stray' = stray \ {cmd}
        /\ UNCHANGED <<enabled, stage, order, todo, ran, listed, toggling, alone, orderly, faults>>

-----------------------------------------------------------------------------
(***************************************************************************)
(* MissionWallboard.vue and usePolling.ts.                                 *)
(***************************************************************************)
toggleScenario(c, s) ==
    /\ listed # NoList /\ toggling # s
    /\ Request(c, [kind |-> IF s \in listed THEN "disable" ELSE "enable", name |-> s])
    /\ toggling' = s

repairAllScenarios(c) ==
    /\ \A d \in Clicks : order[d].kind = "fix-all" => stage[d] = "idle"
    /\ Request(c, [kind |-> "fix-all"])
    /\ UNCHANGED toggling

\* After a change the page loads the list, which may fail too; an error skips
\* that; both end the handler.
HandlerEnds(c) ==
    /\ stage[c] \in {"changed", "failed"}
    /\ listed' \in IF stage[c] = "changed" THEN {enabled, NoList} ELSE {listed}
    /\ toggling' = IF order[c].kind = "fix-all" THEN toggling ELSE NoName
    /\ stage' = [stage EXCEPT ![c] = "idle"]
    /\ order' = [order EXCEPT ![c] = [kind |-> "fix-all"]]
    /\ alone' = [alone EXCEPT ![c] = FALSE]
    /\ UNCHANGED <<backend, orderly, faults>>

\* One poll at a time: its answer, which the page shows, is the set as it is
\* when the request is served, or an error.
Show(list) ==
    /\ listed' = list
    /\ UNCHANGED <<backend, stage, order, toggling, alone, orderly, faults>>

PollAnswered == Show(enabled)
PollFails == Show(NoList)

ScenarioNext ==
    \/ \E c \in Clicks :
          \/ \E s \in ScenarioNames : toggleScenario(c, s)
          \/ repairAllScenarios(c)
          \/ Effect(c) \/ Ends(c) \/ Fails(c) \/ HandlerEnds(c)
    \/ Restart \/ StrayEffect
    \/ PollAnswered \/ PollFails

ScenarioSpec == ScenarioInit /\ [][ScenarioNext]_scenarioVars

-----------------------------------------------------------------------------
(***************************************************************************)
(* Properties.                                                             *)
(***************************************************************************)
\* As long as no two requests overlapped and nothing failed, the enabled
\* scenarios are exactly the ones the cluster shows: repairing one by the base
\* manifest leaves the others broken in the end, and nothing else is.
EnabledMatchesCluster ==
    orderly /\ Changing = {} => broken = UNION {Breaks(s) : s \in enabled}

\* "Repair All" that met no other request heals the cluster and clears the
\* set, whatever overlaps, failures and restarts came before it.
FixAllHeals ==
    \A c \in Clicks :
        order[c].kind = "fix-all" /\ stage[c] = "changed" /\ alone[c] =>
            broken = {} /\ enabled = {}
=============================================================================
