----------------------------- MODULE Diagnostics -----------------------------
(***************************************************************************)
(* The diagnostics drawer of MissionWallboard.vue.  Selecting a row clears *)
(* the drawer and asks for the logs of a pod and, for a deployment, for    *)
(* the endpoints of its service; whichever load ends last is what the      *)
(* drawer shows, and nothing ties a load to the selection it was made for. *)
(***************************************************************************)
EXTENDS Naturals

CONSTANTS
    PodRows,   \* rows of the pod list
    ItemRows,  \* rows of the inventory: a deployment with a pod and a service
    Loads,     \* bound: loads under way at a time
    NoRow      \* no selection, nothing shown

ASSUME DiagnosticsAssumption == NoRow \notin PodRows \cup ItemRows

VARIABLES
    selected,   \* the selected row
    logs,       \* the row whose pod's logs are shown
    endpoints,  \* the rows whose endpoints are shown
    trouble,    \* what diagnosticsError is about
    loading,    \* diagnosticsLoading
    loads,      \* the loads under way
    alone       \* history: no other load was under way since the selection

drawerVars == <<selected, logs, endpoints, trouble, loading, loads, alone>>

Rows == PodRows \cup ItemRows
Results == {"none", "pending", "failed", "read"}
Load == [row : Rows \cup {NoRow}, logs : Results, endpoints : Results]
NoLoad == [row |-> NoRow, logs |-> "none", endpoints |-> "none"]

DiagnosticsTypeOK ==
    /\ {selected, logs} \subseteq Rows \cup {NoRow} /\ endpoints \subseteq ItemRows
    /\ trouble \in {"none", "diagnostics", "deploy"}
    /\ loading \in BOOLEAN /\ alone \in BOOLEAN
    /\ loads \in [Loads -> Load]

DiagnosticsInit ==
    /\ selected = NoRow /\ logs = NoRow /\ endpoints = {}
    /\ trouble = "none" /\ loading = FALSE
    /\ loads = [l \in Loads |-> NoLoad] /\ alone = TRUE

-----------------------------------------------------------------------------
\* A deployment's endpoints are shown at once, from the inventory; what a load
\* brings is merged into those that are shown when it ends.
OwnEndpoints(row) == {row} \cap ItemRows

\* A faulty selection that clears the drawer only when the load succeeds.
SelectUncleared(row, l) ==
    /\ selected' = row
    /\ loading' = TRUE /\ trouble' = "none"
    /\ loads' = [loads EXCEPT ![l] = [row |-> row, logs |-> "pending",
                     endpoints |-> IF row \in ItemRows THEN "pending" ELSE "none"]]
    /\ UNCHANGED <<logs, endpoints>>

\* selectInventoryItem and selectPod, and what their loads do before they wait.
Select(row, l) ==
    /\ selected' = row
    /\ loading' = TRUE /\ trouble' = "none"
    /\ logs' = NoRow /\ endpoints' = OwnEndpoints(row)
    /\ loads' = [loads EXCEPT ![l] = [row |-> row, logs |-> "pending",
                     endpoints |-> IF row \in ItemRows THEN "pending" ELSE "none"]]

RowSelected ==
    \E row \in Rows, l \in Loads :
        /\ loads[l] = NoLoad
        /\ Select(row, l)
        /\ alone' = (\A other \in Loads : loads[other] = NoLoad)

ReadAnswered(l) ==
    /\ \E result \in {"failed", "read"} :
          \/ loads[l].logs = "pending" /\ loads' = [loads EXCEPT ![l].logs = result]
          \/ loads[l].endpoints = "pending" /\ loads' = [loads EXCEPT ![l].endpoints = result]
    /\ UNCHANGED <<selected, logs, endpoints, trouble, loading, alone>>

\* The answers are taken in order, up to the first that failed.
LoadEnds(l) ==
    LET load == loads[l]
        logsRead == load.logs = "read"
        allRead == logsRead /\ load.endpoints \in {"none", "read"}
    IN  /\ load # NoLoad /\ "pending" \notin {load.logs, load.endpoints}
        /\ logs' = IF logsRead THEN load.row ELSE logs
        /\ endpoints' = IF logsRead /\ load.endpoints = "read" THEN endpoints \cup {load.row} ELSE endpoints
        /\ trouble' = IF allRead THEN trouble ELSE "diagnostics"
        /\ loading' = FALSE
        /\ loads' = [loads EXCEPT ![l] = NoLoad]
        /\ UNCHANGED <<selected, alone>>

\* startDeploy and startDestroy report their failure in the drawer too.
JobFails ==
    /\ trouble' = "deploy"
    /\ UNCHANGED <<selected, logs, endpoints, loading, loads, alone>>

DiagnosticsNext ==
    RowSelected \/ JobFails \/ \E l \in Loads : ReadAnswered(l) \/ LoadEnds(l)

DiagnosticsSpec == DiagnosticsInit /\ [][DiagnosticsNext]_drawerVars

-----------------------------------------------------------------------------
\* As long as loads do not overlap, what the drawer shows is of the selected
\* row, whatever failed, it is loading exactly while the load is under way, and
\* logs that could not be read come with an error.
DrawerShowsSelection ==
    alone /\ selected # NoRow =>
        /\ logs \in {selected, NoRow} /\ endpoints \subseteq {selected}
        /\ loading <=> \E l \in Loads : loads[l].row = selected
        /\ ~loading /\ trouble = "none" => logs = selected
=============================================================================
