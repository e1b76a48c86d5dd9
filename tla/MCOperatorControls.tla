------------------------- MODULE MCOperatorControls -------------------------
(***************************************************************************)
(* What the operator of a demo works with, checked together: rehearsals,   *)
(* the panel that shows them, the portal validation gate and the break     *)
(* scenarios.  They share no state, so a behaviour moves one of them,      *)
(* which is chosen at the start.                                           *)
(***************************************************************************)
EXTENDS RehearsalWorkflow, RehearsalPanel, PortalValidation, ScenarioControl, TLC

CONSTANTS oom, net, mongo, policy1

\* Two scenarios repaired by the base manifest, around one that adds resources.
MCRegistry == <<oom, net, mongo>>
MCExtras == [s \in {oom, net, mongo} |-> IF s = net THEN <<policy1>> ELSE <<>>]

\* A scenario of the portal gate, a request or a click is like any other; the
\* break scenarios are not, since they are repaired in the order of the registry.
Symmetry == Permutations(Scenarios) \cup Permutations(Reqs) \cup Permutations(Clicks)

VARIABLE part  \* the part that moves

MCInit ==
    /\ part \in {"rehearsals", "panel", "portal", "scenarios"}
    /\ Init /\ PanelInit /\ PortalInit /\ ScenarioInit
    /\ emptying => part = "rehearsals"
    /\ blank => part = "panel"

MCNext ==
    /\ UNCHANGED part
    /\ \/ part = "rehearsals" /\ Next /\ UNCHANGED <<panelVars, portalVars, scenarioVars>>
       \/ part = "panel" /\ PanelNext /\ UNCHANGED <<vars, portalVars, scenarioVars>>
       \/ part = "portal" /\ PortalNext /\ UNCHANGED <<vars, panelVars, scenarioVars>>
       \/ part = "scenarios" /\ ScenarioNext /\ UNCHANGED <<vars, panelVars, portalVars>>

MCSpec == MCInit /\ [][MCNext]_<<part, vars, panelVars, portalVars, scenarioVars>>
=============================================================================
