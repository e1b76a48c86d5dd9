---------------------------- MODULE KubeInventory ----------------------------
(***************************************************************************)
(* What the wallboard says of a deployment.  KubeClient.ts classifies each *)
(* deployment of the namespace from its pods, its endpoints and its        *)
(* events; MissionWallboard.vue shows that answer and, when the inventory  *)
(* API fails, derives one of its own from three older endpoints, each of   *)
(* which may fail or answer at a moment of its own.                        *)
(*                                                                         *)
(* The two do not mean the same pods by "the deployment's".  The API takes *)
(* those that carry the labels of its selector, the page those whose name  *)
(* begins with its name.  The namespace has pods of other controllers that *)
(* are taken in by the one or the other: rabbitmq-secret-sync's pod has    *)
(* the name of rabbitmq, the CronJob's probe pods have the labels of       *)
(* meter-service, and stay for a while when they have finished.            *)
(*                                                                         *)
(* One deployment with one service stands for the namespace.  A pod is     *)
(* what toPod() makes of it.  Kubernetes changes the pods; the replica     *)
(* counts in the deployment's status and the endpoints follow later.       *)
(***************************************************************************)
EXTENDS FiniteSets, Naturals

CONSTANTS
    Own,          \* names for the pods the deployment itself starts
    Others,       \* names for the pods of other controllers
    OwnStates,    \* the states of the one and of the other
    OtherStates,  \* that an instance considers
    Replicas,     \* the most replicas a manifest asks for
    NoPod,        \* no pod of that name
    Pending,      \* a read that has not ended
    Failed        \* a read that has failed

VARIABLES
    namesakes,   \* the others whose name begins with the deployment's
    lookalikes,  \* the others that carry the labels its selector asks for
    cluster,     \* the deployment, its service and all pods of the namespace
    page,        \* what the page keeps of the pods from one refresh to the next
    poll,        \* the refresh under way, or the row the last one has shown
    steady       \* history: the cluster is as it was when the refresh began

relations == <<namesakes, lookalikes>>
inventoryVars == <<relations, cluster, page, poll, steady>>

\* One reason of each kind: reasons the code treats alike are one value here.
Waiting == {"ContainerCreating", "ImagePullBackOff"}
Exited == {"Error", "CrashLoopBackOff", "Completed"}
\* A pod's status names the reason of a container before the phase.
PodState ==
    [phase : {"Pending"}, status : Waiting, ready : {FALSE}, restarted : {FALSE}]
    \cup [phase : {"Running"}, status : {"Running"}, ready : BOOLEAN, restarted : BOOLEAN]
    \cup [phase : {"Running"}, status : Exited, ready : {FALSE}, restarted : BOOLEAN]
    \cup [phase : {"Failed"}, status : {"Error", "Failed"}, ready : {FALSE}, restarted : BOOLEAN]
    \cup [phase : {"Succeeded"}, status : {"Completed"}, ready : {FALSE}, restarted : BOOLEAN]

ASSUME InventoryAssumption ==
    /\ IsFiniteSet(Own) /\ IsFiniteSet(Others) /\ Own \cap Others = {}
    /\ OwnStates \subseteq PodState /\ OtherStates \subseteq PodState
    /\ [phase |-> "Pending", status |-> "ContainerCreating", ready |-> FALSE, restarted |-> FALSE] \in OwnStates
    /\ Replicas \in Nat
    /\ Cardinality({NoPod, Pending, Failed}) = 3

Slots == Own \cup Others
Pods == {pods \in [Slots -> OwnStates \cup OtherStates \cup {NoPod}] :
            /\ \A s \in Own : pods[s] \in OwnStates \cup {NoPod}
            /\ \A s \in Others : pods[s] \in OtherStates \cup {NoPod}}

\* The service leads to the pods with the deployment's labels; or it bears the
\* deployment's name only, and selects nothing; or no service is related to it.
Services == {"routed", "misrouted", "none"}

Counts == 0..Cardinality(Slots)
Cluster == [desired : 0..Replicas, service : Services, pods : Pods, readyReplicas : Counts,
            endpoints : [ready : Counts, notReady : Counts]]

Severities == {"healthy", "warning", "critical", "unknown"}
Page == [allReady : BOOLEAN, podError : BOOLEAN]
ShownRow == [row : Severities \cup {"none"}, source : {"inventory-api", "legacy-derived", "unavailable"},
         fromOldPods : BOOLEAN]
\* The row stays on the page until the next refresh has its own; what it says
\* in between is not looked at here.
Poll == [at : {"inventory"}]
    \cup [at : {"legacy"}, deployments : {Pending, Failed} \cup [desired : 0..Replicas, readyReplicas : Counts],
          pods : {Pending, Failed} \cup Pods]
    \cup [at : {"runtime", "idle"}, shown : ShownRow]

InventoryTypeOK ==
    /\ namesakes \subseteq Others /\ lookalikes \subseteq Others
    /\ cluster \in Cluster /\ page \in Page /\ poll \in Poll /\ steady \in BOOLEAN

-----------------------------------------------------------------------------
(***************************************************************************)
(* Reading pods.                                                           *)
(***************************************************************************)
\* The pods of a deployment, for the API and for the page.
Selected == Own \cup lookalikes
Related == Own \cup namesakes

isCriticalReason(reason) == reason \in {"CrashLoopBackOff", "ImagePullBackOff"}
isWarningReason(reason) == reason \in {"ContainerCreating", "Error", "Failed"}
\* The fallback's own idea of a failing pod.
isFailing(status) == status \in {"CrashLoopBackOff", "Error", "Failed"}

\* Those of the slots S that hold a pod, and a pod of some kind.
Listed(pods, S) == {s \in S : pods[s] # NoPod}
ReadyPods(pods, S) == {s \in Listed(pods, S) : pods[s].ready}
Restarted(pods, S) == {s \in Listed(pods, S) : pods[s].restarted}
InRunningPhase(pods, S) == {s \in Listed(pods, S) : pods[s].phase = "Running"}
SaidRunning(pods, S) == {s \in Listed(pods, S) : pods[s].status = "Running"}
Critical(pods, S) == {s \in Listed(pods, S) : isCriticalReason(pods[s].status)}
Warning(pods, S) == {s \in Listed(pods, S) : isWarningReason(pods[s].status)}
Failing(pods, S) == {s \in Listed(pods, S) : isFailing(pods[s].status)}
Serving(pods, S) == Cardinality(ReadyPods(pods, S))
\* Of all pods of the namespace, finished ones included.
AllReady(pods) == ReadyPods(pods, Slots) = Listed(pods, Slots)

\* A faulty classification that looks at the pods alone.
NoEndpoints(c, marked) == FALSE

\* A related service has no endpoint, though a scenario or the replicas ask
\* for one.
emptyService(c, marked) ==
    /\ c.service # "none"
    /\ c.desired > 0 \/ marked
    /\ c.endpoints.ready + c.endpoints.notReady = 0

isDeploymentCurrentlyHealthy(c) ==
    /\ c.desired > 0 /\ Listed(c.pods, Selected) # {}
    /\ Serving(c.pods, Selected) = c.desired
    /\ Cardinality(InRunningPhase(c.pods, Selected)) = c.desired
    /\ c.readyReplicas = c.desired
    /\ Restarted(c.pods, Selected) = {} /\ Warning(c.pods, Selected) = {}
    /\ c.endpoints.notReady = 0

\* Every critical condition is tested before any warning.  The deployment may
\* be marked by a scenario, and a recent event may be a warning.
classifyDeployment(c, marked, warned) ==
    IF \/ c.desired = 0 /\ marked
       \/ c.desired > 0 /\ Listed(c.pods, Selected) = {}
       \/ Critical(c.pods, Selected) # {}
       \/ Serving(c.pods, Selected) < c.desired
       \/ Cardinality(InRunningPhase(c.pods, Selected)) < c.desired
       \/ c.readyReplicas < c.desired
       \/ emptyService(c, marked)
    THEN "critical"
    ELSE IF \/ c.service # "none" /\ c.endpoints.notReady > 0
            \/ Warning(c.pods, Selected) # {}
            \/ Restarted(c.pods, Selected) # {}
            \/ warned /\ ~isDeploymentCurrentlyHealthy(c)
    THEN "warning"
    ELSE "healthy"

-----------------------------------------------------------------------------
(***************************************************************************)
(* The page's own derivation, from a list of deployments and one of pods.  *)
(***************************************************************************)
\* A faulty derivation that takes no pods for nothing to complain about.
DeriveFromPods(d, pods) ==
    IF Failing(pods, Related) # {} THEN "critical"
    ELSE IF Restarted(pods, Related) # {} \/ SaidRunning(pods, Related) # Listed(pods, Related)
    THEN "warning"
    ELSE "healthy"

deriveSeverity(d, pods) ==
    LET ready == IF ReadyPods(pods, Related) # {} THEN Serving(pods, Related) ELSE d.readyReplicas
    IN  IF \/ Failing(pods, Related) # {}
           \/ Cardinality(SaidRunning(pods, Related)) < d.desired
           \/ ready < d.desired
        THEN "critical"
        ELSE IF \/ Restarted(pods, Related) # {}
                \/ SaidRunning(pods, Related) # Listed(pods, Related)
        THEN "warning"
        ELSE "healthy"

\* With an active scenario nothing is nominal, and without every listed pod
\* ready neither.
overallSeverity(row, activeScenarios) ==
    IF row = "critical" THEN "critical"
    ELSE IF row = "warning" \/ activeScenarios > 0 THEN "warning"
    ELSE IF row # "none" /\ page.allReady THEN "healthy"
    ELSE "unknown"

-----------------------------------------------------------------------------
(***************************************************************************)
(* Kubernetes.                                                             *)
(***************************************************************************)
\* A row that is about to be shown, or is.
Shows(at, row, source, fromOldPods) ==
    [at |-> at, shown |-> [row |-> row, source |-> source, fromOldPods |-> fromOldPods]]

InventoryInit ==
    /\ namesakes \in SUBSET Others /\ lookalikes \in SUBSET Others
    /\ cluster = [desired |-> Replicas, service |-> "routed", pods |-> [s \in Slots |-> NoPod],
                  readyReplicas |-> 0, endpoints |-> [ready |-> 0, notReady |-> 0]]
    /\ page = [allReady |-> TRUE, podError |-> FALSE]
    /\ poll = Shows("idle", "none", "unavailable", FALSE)
    /\ steady = TRUE

\* Bound: one change while a refresh is under way.
Becomes(c) ==
    /\ c # cluster
    /\ poll.at = "idle" \/ steady
    /\ cluster' = c
    /\ steady' = FALSE
    /\ UNCHANGED <<relations, page, poll>>

\* A manifest is applied: replicas, the service and its selector.
ManifestApplied ==
    \E d \in 0..Replicas, service \in Services :
        Becomes([cluster EXCEPT !.desired = d, !.service = service])

PodAdded(s) ==
    /\ cluster.pods[s] = NoPod
    /\ Cardinality({t \in Listed(cluster.pods, Own) : cluster.pods[t].phase # "Failed"}) < cluster.desired
    /\ Becomes([cluster EXCEPT !.pods[s] =
                  [phase |-> "Pending", status |-> "ContainerCreating", ready |-> FALSE, restarted |-> FALSE]])

\* A container starts, becomes ready or not, ends, or waits to be started
\* again, which a deployment's pods do whatever the reason they ended for.
Follows(old, new) ==
    /\ old.phase \in {"Pending", "Running"} /\ new.phase # "Succeeded"
    /\ new.phase = "Pending" => old.phase = "Pending"
    /\ new.ready => old.status = "Running"
    /\ new.status \in {"Error", "Completed"} => old.status \in {"Running", new.status}
    /\ new.status = "CrashLoopBackOff" => old.status \in Exited
    /\ new.restarted = (old.restarted \/ (old.status \in Exited /\ new.status = "Running"))

PodChanges(s) ==
    /\ cluster.pods[s] # NoPod
    /\ \E pod \in OwnStates : Follows(cluster.pods[s], pod) /\ Becomes([cluster EXCEPT !.pods[s] = pod])

PodRemoved(s) == Becomes([cluster EXCEPT !.pods[s] = NoPod])

\* The pods of others come, change and go by rules of their own.
OtherChanges(s) ==
    \E pod \in OtherStates \cup {NoPod} : Becomes([cluster EXCEPT !.pods[s] = pod])

\* The deployment's status and the service's endpoints are brought up to date:
\* the one counts what the deployment owns, the others what the labels select.
StatusUpdated == Becomes([cluster EXCEPT !.readyReplicas = Serving(cluster.pods, Own)])

EndpointsOf(c) ==
    IF c.service = "routed"
    THEN [ready |-> Serving(c.pods, Selected),
          notReady |-> Cardinality(InRunningPhase(c.pods, Selected) \ ReadyPods(c.pods, Selected))]
    ELSE [ready |-> 0, notReady |-> 0]

EndpointsUpdated == Becomes([cluster EXCEPT !.endpoints = EndpointsOf(cluster)])

-----------------------------------------------------------------------------
(***************************************************************************)
(* The page.                                                               *)
(***************************************************************************)
RefreshBegins ==
    /\ poll.at = "idle"
    /\ poll' = [at |-> "inventory"] /\ steady' = TRUE
    /\ UNCHANGED <<relations, cluster, page>>

\* GET /api/inventory answers.
loadInventory ==
    /\ poll.at = "inventory"
    /\ \E marked, warned \in BOOLEAN :
          poll' = Shows("idle", classifyDeployment(cluster, marked, warned), "inventory-api", FALSE)
    /\ page' = [page EXCEPT !.allReady = AllReady(cluster.pods)]
    /\ UNCHANGED <<relations, cluster, steady>>

InventoryFails ==
    /\ poll.at = "inventory"
    /\ poll' = [at |-> "legacy", deployments |-> Pending, pods |-> Pending]
    /\ UNCHANGED <<relations, cluster, page, steady>>

\* The list of deployments, or that of pods, answers or fails.
LegacyRead ==
    /\ poll.at = "legacy"
    /\ \/ /\ poll.deployments = Pending
          /\ poll' \in {[poll EXCEPT !.deployments = Failed],
                        [poll EXCEPT !.deployments =
                            [desired |-> cluster.desired, readyReplicas |-> cluster.readyReplicas]]}
       \/ /\ poll.pods = Pending
          /\ poll' \in {[poll EXCEPT !.pods = Failed], [poll EXCEPT !.pods = cluster.pods]}
    /\ UNCHANGED <<relations, cluster, page, steady>>

\* The deployment when it could be listed, or else the service of its name,
\* with no severity, or nothing if that was not listed either.
Derived(pods) ==
    LET ShowsRow(row, source) == Shows("runtime", row, source, poll.pods = Failed)
    IN  IF poll.deployments # Failed THEN {ShowsRow(deriveSeverity(poll.deployments, pods), "legacy-derived")}
        ELSE {ShowsRow("unknown", "legacy-derived"), ShowsRow("none", "unavailable")}

\* All have ended.  Pods that could not be read stay as an earlier refresh
\* left them: any pods of which as many are ready as the page shows.
deriveInventory ==
    /\ poll.at = "legacy" /\ Pending \notin {poll.deployments, poll.pods}
    /\ \E pods \in IF poll.pods # Failed THEN {poll.pods}
                   ELSE {old \in Pods : AllReady(old) = page.allReady} :
          /\ poll' \in Derived(pods)
          /\ page' = [page EXCEPT !.allReady = AllReady(pods)]
    /\ UNCHANGED <<relations, cluster, steady>>

\* Without a bundled answer the pods are read once more; only this read says
\* so when they are not available.
loadRuntime ==
    /\ poll.at = "runtime"
    /\ page' \in {[page EXCEPT !.podError = TRUE],
                  [allReady |-> AllReady(cluster.pods), podError |-> FALSE]}
    /\ poll' = [poll EXCEPT !.at = "idle"]
    /\ UNCHANGED <<relations, cluster, steady>>

InventoryNext ==
    \/ ManifestApplied \/ StatusUpdated \/ EndpointsUpdated
    \/ \E s \in Own : PodAdded(s) \/ PodChanges(s) \/ PodRemoved(s)
    \/ \E s \in Others : OtherChanges(s)
    \/ RefreshBegins \/ loadInventory \/ InventoryFails
    \/ LegacyRead \/ deriveInventory \/ loadRuntime

InventorySpec == InventoryInit /\ [][InventoryNext]_inventoryVars

-----------------------------------------------------------------------------
(***************************************************************************)
(* Properties.                                                             *)
(***************************************************************************)
\* Kubernetes has not brought the replica counts, or the endpoints, up to date.
StatusLags == cluster.readyReplicas # Serving(cluster.pods, Own)
EndpointsLag == cluster.endpoints # EndpointsOf(cluster)

\* A ready pod of the slots S, of another controller, stands in for a pod the
\* deployment lacks.
StandsIn(S) == Serving(cluster.pods, Own) < cluster.desired /\ ReadyPods(cluster.pods, S) # {}

\* When a refresh has ended during which nothing moved and the page says
\* "Nominal" over the deployment, then
\*  - every pod of the namespace is ready, unless the page also says that pods
\*    are unavailable and has derived its row from older ones;
\*  - the deployment has the ready pods it asks for.  Another controller's pod
\*    can hide that one is missing: from the API one with the same labels, while
\*    the recorded replica count lags; from the fallback one whose name begins
\*    like the deployment's.  So can the pods of an earlier refresh, which the
\*    fallback does not tell from those of this one;
\*  - when the API said so, a service of the deployment's name that leads
\*    nowhere has not lost its endpoints yet.
NominalIsBacked ==
    poll.at = "idle" /\ steady /\ poll.shown.row = "healthy" /\ overallSeverity(poll.shown.row, 0) = "healthy" =>
        LET fromAPI == poll.shown.source = "inventory-api"
            fromOldPods == poll.shown.fromOldPods
        IN  /\ AllReady(cluster.pods) \/ (fromOldPods /\ page.podError)
            /\ \/ Serving(cluster.pods, Own) >= cluster.desired
               \/ fromAPI /\ StatusLags /\ StandsIn(lookalikes)
               \/ ~fromAPI /\ (fromOldPods \/ StandsIn(namesakes))
            /\ fromAPI /\ cluster.desired > 0 /\ cluster.service = "misrouted" => EndpointsLag

\* The fallback and the API contradict each other about a deployment only for
\* reasons that can be named, whatever lags.  What the fallback calls healthy is
\* critical for the API only for want of endpoints, as a scenario that asks for
\* no replicas, while the recorded count lags, behind a namesake's running pod,
\* or through a lookalike that fails; what the API calls healthy is critical for
\* the fallback only through a namesake that fails, or where a lookalike stands
\* in while the count lags.
FallbackAgrees ==
    \A marked, warned \in BOOLEAN :
        LET derived == deriveSeverity(cluster, cluster.pods)
            api == classifyDeployment(cluster, marked, warned)
        IN  /\ derived = "healthy" /\ api = "critical" =>
                  \/ emptyService(cluster, marked)
                  \/ cluster.desired = 0 /\ marked
                  \/ StatusLags
                  \/ StandsIn(namesakes)
                  \/ Critical(cluster.pods, lookalikes) # {}
            /\ api = "healthy" /\ derived = "critical" =>
                  \/ Failing(cluster.pods, namesakes) # {}
                  \/ StatusLags /\ StandsIn(lookalikes)
=============================================================================
