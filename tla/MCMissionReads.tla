--------------------------- MODULE MCMissionReads ---------------------------
(***************************************************************************)
(* The wallboard's ways of reading the system, checked together: the       *)
(* inventory, the governed queries, the assistant and the drawer.  They    *)
(* share no state, so a behaviour moves one of them, which is chosen at    *)
(* the start; their interleavings would add nothing but their product.     *)
(***************************************************************************)
EXTENDS KubeInventory, GovernedQueries, Assistant, Diagnostics

VARIABLE part  \* the part that moves

\* A deployment's pods are always restarted, and never finish.  What the code
\* treats alike is here once: a pod that waits for its image is as critical as
\* one that crashes, an evicted one warns like one that has ended in error, and
\* a restart is looked at when the container runs again.
MCOwnStates ==
    {pod \in PodState :
        /\ pod.phase \in {"Pending", "Running"} /\ pod.status # "ImagePullBackOff"
        /\ pod.restarted => pod.status = "Running"}

\* The pods of other controllers: running, crashing, or finished as a probe.
MCOtherStates ==
    {[phase |-> "Running", status |-> "Running", ready |-> TRUE, restarted |-> FALSE],
     [phase |-> "Running", status |-> "CrashLoopBackOff", ready |-> FALSE, restarted |-> TRUE],
     [phase |-> "Succeeded", status |-> "Completed", ready |-> FALSE, restarted |-> FALSE]}

MCInit ==
    /\ part \in {"inventory", "queries", "assistant", "drawer"}
    /\ InventoryInit /\ QueriesInit /\ AssistantInit /\ DiagnosticsInit
    /\ part # "queries" => workspace
    \* Each pod of another controller is taken in by one of the two, as those of
    \* the repository's own manifests are.
    /\ namesakes = IF part = "inventory" THEN Others \ lookalikes ELSE {}
    /\ part # "inventory" => lookalikes = {}

MCNext ==
    /\ UNCHANGED part
    /\ \/ /\ part = "inventory" /\ InventoryNext
          /\ UNCHANGED <<queryVars, assistantVars, drawerVars>>
       \/ /\ part = "queries" /\ QueriesNext
          /\ UNCHANGED <<inventoryVars, assistantVars, drawerVars>>
       \/ /\ part = "assistant" /\ AssistantNext
          /\ UNCHANGED <<inventoryVars, queryVars, drawerVars>>
       \/ /\ part = "drawer" /\ DiagnosticsNext
          /\ UNCHANGED <<inventoryVars, queryVars, assistantVars>>

MCSpec ==
    MCInit /\ [][MCNext]_<<part, inventoryVars, queryVars, assistantVars, drawerVars>>

\* No answer claims more than its reads delivered: neither a governed query,
\* of which one read may fail after another has answered, nor the assistant,
\* whose snapshot turns a failed read into an empty list.
EvidenceBacked == QueryEvidence /\ AssistantEvidence
=============================================================================
