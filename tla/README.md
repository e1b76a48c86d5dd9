# Formal model of Mission Control and the meter-ingest path

This directory holds TLA+ models of the stateful parts of the energy-grid SRE
demo: the Mission Control backend and wallboard (`mission-control/`), and the
services of the meter-ingest journey (`services/`). TLC checks the models on
small instances; the TLA+ proof system checks theorems about eight of them for
every value of their constants.

`PROJECT.json` lists, for every definition that models code, the source lines it
stands for (`map`), the hazards of the code with the properties that watch them
(`hazards`), and for every property a faulty variant of the model that violates
it (`mutants`). A definition whose comment begins "A faulty ..." is such a variant: it
stands just before the definition it replaces and is used by nothing else.

Paths below are relative to the repository root; `B` stands for
`mission-control/backend/src` and `F` for `mission-control/frontend/src`.

    tlc -config JobConsole.cfg MCJobConsole     # one run
    tlapm JobManagerProofs.tla                  # one module of proofs

## 1. The system

    browser tab (F)  -- HTTP -->  backend (B)  -- spawn -->  deploy.ps1 / destroy.ps1
         ^                          |  |  |
         +------ WebSocket ---------+  |  +-- kubectl, Log Analytics, SRE Agent (MCP child), Copilot
                                       +-- JSON files (incidents, rehearsals, portal, threads)

    synthetic probe / customer -- POST --> meter-service -- AMQP --> RabbitMQ
         |                                                              |
         +-- GET /transactions/{id} --> dispatch-service (replicas) <---+
                                             |
                                          MongoDB (TTL and unique indexes)

The backend is one Node.js process: a callback runs to its next `await` without
interference, and everything that interleaves does so at an `await`, a timer or
an event. It has no database. Jobs, enabled scenarios, caches and running operations are
in memory; incidents, rehearsals, portal validations and investigation threads are JSON
files that are read and written whole.

### Inventory

| Component | State it keeps | Operations | Talks to | What is hard | What makes it correct | Model |
|---|---|---|---|---|---|---|
| Job manager and executor (`B/services/JobManager.ts`, `CommandExecutor.ts`) | `jobs` map, executor of the active job, child process, force-kill timer | start, cancel, close/error/timeout of the child, shutdown | routes deploy/destroy, `server.ts` broadcast | late child events after a cancel, timeout racing the exit, restart that orphans scripts | one active job; one final verdict that fits the exit; one completion event | `JobManager`, proved |
| Wallboard job controls and WebSocket (`F/components/MissionWallboard.vue`, `F/composables/useWebSocket.ts`) | per control: running, status, request id; one socket | click, answer, `job:complete` | the job manager | answer and completion in either order, socket never reconnects | shows only the real verdict, is never enabled while its job runs | `JobConsole`, proved |
| Meter ingest (`services/meter-service`, `services/dispatch-service`, RabbitMQ, MongoDB, probe) | channel, queue, delivery in hand, documents, probe run | POST, publish, consume, save, ack/nack, poll, expire | each other | retries, redelivery, two replicas, lost replies, TTL, crashes | success only for a stored record, stored once, nothing queued is lost | `MeterIngest`, proved |
| Review-mode mitigation (`B/services/ReviewModeMitigationService.ts`, `B/services/sre-agent/mitigation*.ts`) | history of resource observations, answer cache, collections under way | derive state on poll, recognise a command, cache | Log Analytics, kubectl, customer impact | late and missing rows, stale readings, changes between polls, caches on caches | "resolved" and "denied" are true of the world, "verified" is recent | `ReviewModeMitigation`, `EvidenceCache`, `MitigationCommand`, proved |
| Customer impact (`B/services/CustomerImpactService.ts`) | cached answer, collection under way | status | kubectl, Log Analytics | late rows, slow queries, shared requests, age counted from the start | "healthy" is recent, a failure is not hidden | `CustomerImpact`, proved |
| Incident handoffs (`B/services/IncidentHandoffService.ts`, `NativeIncidentReconciliationService.ts`, `B/routes/incidents.ts`) | JSON file, promise chain of mutations | submit, acknowledge, resolve, list, reconcile | Log Analytics, rehearsals | unlocked reads, a query between read and write, restarts | answers hold, one open incident a key | `IncidentHandoff`, proved |
| Rehearsal workflow (`B/services/RehearsalWorkflowService.ts`, `F/components/RehearsalWorkflow.vue`) | JSON file of runs, artifacts on disk; what the panel lists, its active run and evidence form | create, advance, interrupt, resume, reset, update evidence, attach mitigation, replay | handoffs, mitigation | failure between the steps of an update, state carried over a restart of the run, answers of several buttons | readiness backed by the package, completion through every phase; the form is that of the run shown | `RehearsalWorkflow`, `RehearsalPanel`, proved |
| Portal validations (`B/services/PortalValidationService.ts`, `F/components/PortalValidation.vue`) | JSON file of checklists, no lock; what each page shows | confirm, update, reset, reset all | filesystem | lost updates, truncated and overlapping writes, a request per keystroke | a confirmation was granted on evidence; without overlap a plain book | `PortalValidation`, `ValidationBook`, proved |
| Break scenarios (`B/services/ScenarioService.ts`, wallboard toggles) | enabled set in memory | enable, disable, fix all, poll | kubectl | commands that overlap and fail half way, a restart that forgets the set | enabled set matches the cluster, fix-all heals | `ScenarioControl`, proved |
| SRE Agent session and operations (`B/services/sre-agent/SreAgentMcpClient.ts`, `SreAgentService.ts`, routes) | session, connection attempt, idle timer, in-flight count, active operations, thread file | connect, call, list tools, cancel, idle close, dispose, record | `npx` child process (MCP) | close under a call, dispose during connect, cancel while waiting | one child at a time, none left behind, cancelled stays silent, threads recorded | `McpSession`, `SingleChild`, `SreAgentOperations`, proved |
| Kubernetes reads and wallboard inventory (`B/services/KubeClient.ts`, `F/components/MissionWallboard.vue`) | what the page shows; an inventory or a fallback of three reads | refresh, classify, derive | kubectl | counts and endpoints that lag, three reads of which each may fail | "Nominal" is backed, API and fallback agree | `KubeInventory`, proved |
| Diagnostics drawer (`F/components/MissionWallboard.vue`) | selected row, logs, endpoints, loading, error | select, load | kubectl | loads end in any order | shows the selected row | `Diagnostics`, proved |
| Analyst queries (`AnalystKubeQueryService.ts`, `LogAnalyticsQueryService.ts`, `SreAgentEvidenceService.ts`) | none between requests | governed query | kubectl, Log Analytics | parallel reads that fail late | an answer claims what its reads delivered | `GovernedQueries` |
| Assistant and mission state (`AssistantService.ts`, `MissionStateService.ts`, `B/routes/assistant.ts`) | counter of active requests, Copilot client | ask | kubectl, a model | a path that leaks the slot, failed reads as empty lists | the slot is held while a question runs; confidence is earned | `Assistant`, proved |
| SRE Agent texts (`redaction.ts`, `responseParser.ts`, `config.ts`, `preflight.ts`) | stream buffer | redact, parse | - | secrets that span chunks | what is released holds no secret | out |
| Preflight, tool detection, asset-service | none | collect, list | command line tools | - | - | out |
| meter-service connection loop (`services/meter-service/src/index.js`) | connection, channel, reconnect timer | connect, close, shutdown | RabbitMQ | a channel that closes alone | reconnect until shutdown | its outcome in `MeterIngest` |
| Deployment, teardown, Key Vault, validation scripts (`scripts/*.ps1`) | Azure resources | purge or reuse a vault, bootstrap secrets, check | az, kubectl | partial failure with roll-back | one consistent secret set | as processes in `JobManager` |
| Manifests, grid status API, dashboards (`k8s/`), infrastructure templates (`infra/bicep`) | none | - | - | - | - | parameters only |

The hard behaviour is of four kinds, and the models are split along them: *processes that
outlive the request that started them* (jobs, MCP child, kubectl), *whole-file updates* (incidents,
rehearsals, portal, threads), *answers that are older than they look* (mitigation, customer
impact, inventory, drawer) and *messages that are repeated, lost or reordered* (meter ingest,
WebSocket, telemetry rows).

## 2. The modules

Every action is one callback or one uninterrupted stretch of a handler, from one
`await` (or channel operation, in Go) to the next. A request that waits is a
process with a program counter.

### JobManager, JobSlot, JobManagerRefinement, JobConsole

`JobManager` has one function per field of a job (`status`, `executor`, `announced`)
and of its executor (`attached` for `activeProcess`, `settled` for the promise), and what
the operating system knows of the child (`proc`, `signals`). `Start`, `Cancel` and
`ForceKill` are `start()` with the first half of `runJob()`, `cancel()` and its timer
callback; `ChildEvent` and `CommandTimeout` are the listeners of `execute()` together
with the microtask in which `runJob()` settles the job (`Finish`). `ProcessExit` and
`BackendRestart` are the environment: a script may handle SIGTERM and exit with 0, or
ignore it; a restart loses the table and leaves the scripts running. No route gives
`options.timeout`; `TimeoutSet` lets the model take both builds of the command.

`JobSlot` is what the callers rely on: one slot, occupied by one job at a time, and a verdict
given once. `JobManagerRefinement` gives the refinement mapping (`getActiveJob()` is
the slot) and `ImplementsSlot` states it. `OutcomesAreReported` says what an end is told as: by its exit
code, and once.

`JobConsole` extends `JobManager` with the tab: two controls (deploy, destroy), each with the
request it has in flight, and a WebSocket with its queue of `job:complete`
messages. `Click` and `Answer` are the two halves of `startDeploy()`/`startDestroy()`
around their `await`; `Route` is the POST handler; `JobCallback` joins every callback
of the job table with the broadcast that `emit()` runs inside it; `WsMessage` is the
watcher of `wsData`. `Restart` joins the backend's end with the sockets and requests
that end with it. `Click` is bounded by the job ids that are left.

### MeterIngest

Messages of an event are counted in three bags: `requests` (on the way to
meter-service), `wire` (published, not received) and `queue`. `PostEvent` answers 202
without waiting for the broker, as the code does. A replica is `dispatch[w]` (process, typed
persistence, consumer) and `busy[w]`, the goroutine's place in `handleMessage()`: `Receive`,
`Insert`, `LookupDuplicate`, `Ack`, `Nack`. `store = FALSE` with `up = TRUE` is the
typed nil that a start without MongoDB leaves; the first delivery then panics. The
probe (`run`) posts with retries, polls, and has a total timeout. `Invalid` are the events whose correlation id dispatch-service
discards, of whatever kind (`services/dispatch-service/internal/service/service.go:120`). `inserts`, `dropped`,
`reached` and `lost` are history. RabbitMQ, MongoDB and the client libraries are
modelled by what the services use of them.

### ReviewModeMitigation, CustomerImpact, EvidenceCache, MitigationCommand

`ReviewModeMitigation` is one correlation key. The world (`changes` of `spec.replicas`,
`events` of decisions and executions, `lastSuccess`) evolves by ticks. `Collect` is one
poll: it sees any subset of the rows that exist, may or may not read the cluster, derives the
state (`Derive` follows `deriveMitigationLifecycle` branch by branch) and records the
observation. The properties compare the derived `verdict` with the world, which the code
cannot see. `CollectBlocked` stands for the run-mode and schema gates.

`CustomerImpact` keeps every moment as an age, so that its states are finite though time goes
on. `getCustomerImpact` answers from the cache, joins the collection under way or begins one;
`QueryEnds` and `InventoryEnds` are the two halves of `Promise.all`; `collectCustomerImpact`
derives the status and stores the answer with the time its collection *began*. Rows reach the
log late (`RowArrives`).

`EvidenceCache` stands on top of it, as the mitigation service does: answers by key in order of
use, a collection per key that reads the customer impact, itself perhaps cached, last.
`MitigationCommand` is the scan of `normalizeMitigationCommand`, word by word, beside
kubectl's own reading of the same words (external), which is a function of the words alone: which are
values of the flag before, which are arguments, what is given for a flag. A word is a record; spellings
that the scan treats alike are one kind.

### IncidentHandoff

The file (`present`, `incidents`), the promise chain (`queue`), and for each
request its program counter, what it asks and the state it has read (`draft`). `Read`,
`InitFile` and `Write` are the stretches of a mutation between the awaits of the file
system; `GetMissing` with `InitFile` is the unlocked read that creates the file; `PostReconcile`, `Query`
and then the mutation `attach` are the reconcile route. `Write` joins the rename with the answer that
follows it: the process may not end between the two, and `told` is what POST and PATCH answered. What a GET shows,
or a reconciliation that falls back on the stored incident with 200, is not counted as told: neither
says that anything was saved. `told`, `bound` and `erased` are
history: what answers said, which native incident an operator named, and whether a first
read wrote an empty file over incidents.

### RehearsalWorkflow, RehearsalPanel

The saved run of one scenario and the run a mutation is about to save (`pending`): a
creation makes the handoff first, an evidence update writes the artifacts first, and the
process may end in between (`LosePending`). A time stamp is reduced to the number
of the rehearsal it was taken in. `Rated` is the end of every change of evidence,
`Gate` is `calculateGateStatus`. Mitigation evidence is derived outside the lock
(`DeriveMitigation`) and attached to whatever run is there afterwards. As for incidents, a GET takes no
lock and writes an empty file when it found none (`RehearsalWorkflowService.ts:126`): `emptying`
is such a read under way, and `EmptyFile` its write, over whatever was saved since.

`RehearsalPanel` is the panel in front of it, where a saved run is no more than the number of its saves:
its load in two steps, the list, the active run and the form filled from it (`SetActive`), and any number of
buttons pressed before the first is answered. A new panel forgets the answers to the old one
(`Open`); an answer may be lost though the run was saved (`Lose`), and a first read may empty the file
(`WriteBlank`). `missed` is history: the scenarios whose
requests overlapped, whose answer the panel did not get, or whose run a first read has erased.

### PortalValidation, ValidationBook

A request reads the file (`Handle`, which also applies the change), opens it for writing, which
truncates it (`OpenFile`), writes it (`WriteFile`) and is answered (`Deliver`): nothing orders two
requests. The file is missing, empty, saved or garbled (a longer text's tail behind a shorter
one). A page (`Use`, `Mount`) sends a request per keystroke and shows whichever answer came last,
and an error in place of a state blanks it. `Crash` ends the backend at any step. `ValidationBook` is
what the page's user expects: a book in which a request is one step. `quiet` is the
history of overlap and crash, and `QuietRequestsKeepBook` the refinement as long as it holds.

### ScenarioControl

A click holds a plan, a sequence of kubectl calls; `Effect` is what a call does to the cluster,
`Ends` its exit, `Fails` its failure with or without the effect, `HandlerEnds` the answer. A
`Restart` forgets the enabled set and abandons the requests, whose last kubectl may still
have its effect (`StrayEffect`). The cluster is the set of resources as a scenario left them. The
wallboard's toggle goes by the list it shows, which a poll renews.

### McpSession, SingleChild, SreAgentOperations

An action is one macrotask with the microtasks that follow it. `McpSession` is the client:
children that start, live, are closing or have ended; the session, the connection attempt that
callers share, the count of calls, the idle shutdown, and `dispose()` in three steps.
`SingleChild` is its abstract specification: an owner of at most one child process, for ever
without one once disposed. `SreAgentOperations` composes it with the operations: of the kinds
investigate (a follow-up is one), thread-status and discover-agents, each registered, resolving
the agent, calling, recording its thread under the promise-chain lock of the file, cancelled by
key at any moment. `dropped` is history: the threads that a full file has let go. A lister is the preflight's `listTools`, which is not registered, not counted and
may be cut by the idle shutdown. `Proceed` splits off the microtask of the second call: it may find
every child of the bound in use.

### KubeInventory, GovernedQueries, Assistant, Diagnostics

`KubeInventory` has a deployment, the pods of the namespace, the status counts and endpoints that
follow them later, and the page's refresh: the inventory API, or, if that fails, the page's own
derivation from older endpoints (`LegacyRead`, `deriveInventory`, `loadRuntime`). The
classification of deployments, pods and services is translated branch by branch.

The two do not mean the same pods by "the deployment's". The API selects them by the labels of the
deployment's selector (`KubeClient.ts:89`, `Selected`), the page takes those whose name begins with
the deployment's name (`MissionWallboard.vue:1512`, `Related`). `Own` are the pods the deployment
starts, `Others` those of other controllers; `namesakes` are the others that the page takes in, and
`lookalikes` those the API takes in. The repository's manifests have one of each kind:
`rabbitmq-secret-sync` is a namesake of `rabbitmq` (`k8s/base/application.yaml:61`, `126`), and the
pods of the probe's CronJob carry `app: meter-service` (`k8s/base/application.yaml:683`), are never
started again and stay for up to ten minutes when they have finished, in phase `Succeeded`.
A `misrouted` service has the deployment's name and selects nothing.

`GovernedQueries` runs one governed query of the three routes: five kubectl queries, three log
templates, six evidence templates, each with the parameters it takes, those it requires and those
that narrow its query text (`buildKqlTemplate`, `buildSreAgentEvidenceKql`), and its reads in parallel.
`Assistant` has pages, questions and the one slot of the route: a request is refused for its question,
its history or its screen context before it takes the slot; then it collects a
snapshot, starts a Copilot session, and ends by answer, failure, or time limit.
`Diagnostics` is the drawer: a selection and its two loads.

### The modules for TLC

`MCReviewModeMitigation`, `MCOperatorControls` and `MCMissionReads` check several components
in one state space. Their parts share no state, so the part that moves is chosen at the start and
the idle parts start in one way: interleaving them would add only their product. The other MC modules
define the instance. The modules that do interact (console with job table, evidence cache
with customer impact, operations with MCP session) are composed truly.

## 3. The runs

States are distinct states of the whole search; no run stops early.

| Run | Instance | States | Shows |
|---|---|---|---|
| `job_console` | 1 tab with 2 controls, 2 jobs, timeouts on | 406,134 | verdicts fit the exit codes, one completion event, an ended process is reported, the job table implements `JobSlot`; a control shows only its own job's verdict and is enabled only when that job is over; a completion on its way ends the run |
| `meter_ingest` | probe and impostor with one correlation id, 1 retry, 2 replicas, 1 failure | 870,419 | success means stored, stored once, queued means never lost and discarded only for a cause |
| `meter_ingest_ends` | probe and an unparsable message, 1 replica, 2 failures | 175,178 | a queued event is finally stored or discarded, a probe run ends |
| `mitigation` | 5 ticks, history of 2, freshness of 2; 2 keys in a cache of 1, lifetimes of 2, queries of 1 tick; every word order of a command | 2,039,086 | "resolved" is true, full telemetry catches an execution before its approval, a changed resource is never "denied"; "healthy" and "verified" are recent, a failure is shown; a command is admitted exactly when kubectl does just the mitigation |
| `handoff` | 2 requests, 1 key, 1 native incident, 2 incidents, no file at the start | 474,730 | answers hold unless a first read erased them, one open incident a key, every request ends |
| `operator_controls` | 2 rehearsals of a scenario, 1 first read; a panel with 2 scenarios, 2 buttons, 2 saves, 1 first read; 2 portal scenarios, 1 page, 2 requests; 3 break scenarios, 2 clicks, 1 failure | 1,950,946 | readiness backed by the package, handoff and artifacts before the save, completion through every phase anew; the panel's form is of the run it shows; confirmations were granted, a page that waits is in step, quiet requests implement `ValidationBook`; the enabled set is what the cluster shows, fix-all heals |
| `sre_agent` | 2 operations of any kind, 1 preflight, 2 children, 1 earlier thread, file of 2 | 144,532 | one child at a time, none left behind, the idle timer cuts no counted call, nothing is sent after a cancellation, answered threads are recorded, every operation and the shutdown end |
| `mission_reads` | 1 deployment of at most 1 replica, 1 pod of its own and 1 of another controller; every query with 2 rows a read; 2 pages, 2 questions; 3 rows, 2 loads | 1,417,452 | "Nominal" is backed and fallback and API contradict each other only for reasons that are named, answers claim what their reads delivered, the slot is held, the drawer shows its selection |

Every action of every module fires in these runs.

### Bounds, and why they are enough

*Jobs*: an order problem needs the job that ends late and the one that took its place;
cancelled, timed out and lost jobs beside the active one all occur with two. Both controls of a tab
share the socket; tabs share no state with each other. *Ingest*: one retry gives two messages of
one event for two replicas, the impostor gives the conflict; each single failure occurs at every
point. The two runs split the instance because two failures with two replicas and liveness
are too large together. *Mitigation*: decision, start, end and transaction fill the four
ticks after the first; every permutation and omission of them occurs, with polls at
any of them; a history of two entries already evicts. *Caches*: a lifetime of two ticks lets an
answer be given at its oldest, a cache of one key evicts the other, and the ages are finite, so
that time is not bounded. *Handoff*: the races are between two requests; the second incident is
the one submitted after the first was resolved. *Rehearsal*: the second rehearsal meets
everything the first left behind. *Panel*: two buttons give every overlap, two scenarios an active run beside
another, and of two saves the second can be missed. *Portal*: a lost update needs two requests; two scenarios let
one be lost while another is changed. *Scenarios*: two base-backed scenarios and one that adds a
resource, since a repair of the first kind touches the others; one failure at every call.
*SRE Agent*: two operations share the child and the file's lock, a third caller is not counted;
the second child is the one that replaces the first. *Reads*: one change of the cluster during
a refresh at every point of it. Of each kind of pod one is enough to be missing and one to stand in
or to bring down; it is a namesake or a lookalike. `MCOwnStates` and `MCOtherStates` keep one pod of those the
code treats alike (the theorems have them all). The mark of a scenario and a recent warning event are chosen when the
row is derived, and so is whether the service can be read; available and ready replicas are one number, since no
manifest sets `minReadySeconds`. *First reads*: the file of rehearsals can be missing only before the first save,
so a read that found none is there from the start or not at all, and one is enough to erase what is saved. Two loads overlap in every order.

`CHECK_DEADLOCK FALSE` stands where a bound ends the behaviours: job ids used up,
events posted, ticks used up, or where the backend has shut down (`sre_agent`). The other runs check deadlock.

### Fairness

Safety needs none. `JobConsole` assumes only that the event loop delivers the end of a child and
that the browser handles a message that arrived; nothing obliges a script to end.
`JobManager`'s own `FairSpec`, of `job_force_kill`, adds that timers fire and SIGKILL ends a process.
`MeterIngest` assumes that the probe's timers run, that a started handler goes on,
that kubelet restarts a dead replica, and (strongly) that a replica which keeps consuming is
handed each queued message in its turn: RabbitMQ delivers from the head and puts a
requeued message back. The reopening of a connection or of the database is not assumed.
`IncidentHandoff` assumes that file operations and the query, which has a timeout, end.
`SreAgentOperations` assumes that a call and a handshake time out (`config.ts`, the SDK), that a
child which is told to end is killed, and that the thread file answers. `Proceed` follows at once in
the code; in the model it may find both children of the bound in use again and again, hence its
strong fairness. Nothing obliges a child to die, the idle timer to fire, or anybody to cancel or
shut down.

### Disagreements between the code and what is said of it

Four runs show a property that the repository states and the code does not have; each checks
one property and TLC finds it violated.

| Run | Said | Done |
|---|---|---|
| `job_force_kill` | `B/services/JobManager.ts:80` "Give it a moment, then force kill" | the timer tests `job.executor`, which `cancel()` has set to null: SIGKILL is never sent |
| `mitigation_denied` | `docs/REVIEW-MODE-MITIGATION.md:244` and `mitigationLifecycle.ts:13`: `denied` needs proof of no mutation | `observedGeneration` is never read, so a change and its reversal between two polls look like none |
| `handoff_first_read` | `B/services/IncidentHandoffService.test.ts:54` "without losing updates" | a GET that found no file writes an empty one over an incident already answered |
| `rehearsal_ready` | `mission-control/docs/REHEARSAL-WORKFLOW.md:84`: ready "only when gate status is `PASS` at completion" | an evidence update sets readiness in any phase |

Seen while modelling, and not kept as runs. They are consequences of the code that the
properties above are worded around.

*Jobs and console*

- A cancelled process may still run when the next job starts (`JobManager.ts:86`); the
  comment at line 16 and `mission-control/README.md:184` speak of one destructive job at a time.
  The refinement of `JobSlot` is about the table, not about processes.
- When the completion arrives before the answer that names the job
  (`MissionWallboard.vue:719`), or the socket has closed, a control stays running.
  `CompletionEndsRun` is about completions that find a control which knows its job.

*Mitigation*

- With the `ToolStart` row late or missing, an execution before its approval is not noticed
  (`mitigationLifecycle.ts:1042`); `CompleteTelemetryCatchesBypass` asks for the rows.
- A rollback counts as `rolled-back` only when the recovery probes pass
  (`mitigationLifecycle.ts:1157`), which a rollback to zero replicas cannot make them do.
- The scan of a command is conservative: `deployment -n energy mongodb` and replicas `01` are
  refused though kubectl accepts them. `AllowedIsMitigation` asks that an admitted command does the
  mitigation and nothing else, and that of the words the scan read to the end, those it refused do
  not.
- Pruning when an answer is stored goes by the *start* of its collection; the number of keys is bounded.

*Incidents and rehearsals*

- A reconciliation replaces the whole evidence: a pass that finds no row forgets the native incident,
  and the next pass may attach another one.
- Resolve, submit again, then acknowledge the first: two unresolved incidents of one key
  (`IncidentHandoffService.ts:299`). `OneOpenPerKey` is about open ones.
- A first GET that found no file erases rehearsals saved since, as for incidents; the panel then shows
  runs that are no longer there.
- A completed rehearsal that is interrupted and resumed is in progress in its last phase
  and cannot advance (`RehearsalWorkflowService.ts:662`).
- `summary.md` and `manifest.json` are written with the gate of before the update (line 794), so
  they may list findings and yet say ready; findings are only ever added (line 254);
  a reset keeps the mitigation evidence (line 707); a restart keeps the time stamps (line 530), so a
  duration taken between them can be negative.

*Portal and scenarios*

- Overlapping requests lose each other's confirmations, though
  `mission-control/UX-QA-IMPLEMENTATION-COMPLETE.md:66-67` says that they persist; two writers may leave a garbled
  file, and a crash between truncation and write an empty one, from which only reset-all recovers.
  Such a failure blanks the panel.
- Two overlapping disables of scenarios that the base manifest repairs re-apply each other: both
  stay broken while none is enabled. A second toggle overwrites `togglingScenario`.

*SRE Agent*

- Two discoveries at a time share a key, and the first can no longer be cancelled, unlike
  `SreAgentService.ts:11` says; a Stop that overtakes its POST finds nothing.
- `dispose()` may return while an idle disconnect still closes its child.
- A failure to read the thread file counts as an empty one: the next write erases the older references.
- A thread recorded again keeps its place in the file, so the one used last may be dropped as the oldest.

*Reads*

- In the fallback, `rabbitmq` counts the pods of `rabbitmq-secret-sync` as its own
  (`MissionWallboard.vue:1512`): with no ready pod of its own it can read healthy, and "Nominal", through a namesake's,
  and a namesake that crashes makes it critical. In the API a running probe pod counts as a ready pod of
  `meter-service`, and is one of its endpoints, while the recorded replica count lags.
  `NominalIsBacked` and `FallbackAgrees` name these as exceptions (`StandsIn`, `StatusLags`, a lookalike or
  namesake that fails): they say that there are no others.
- A service of the deployment's name that selects nothing is related to it; only when its endpoints have followed
  (`EndpointsLag`) does the API see that it leads nowhere.
- A finished probe pod is never ready, and the wallboard compares the ready pods with all that are listed
  (`MissionWallboard.vue:733-745`): while it is there, the overall state is "Unknown" at best. The CronJob
  runs every two minutes and its last finished job is kept (`k8s/base/application.yaml:670-677`).
- The wallboard says "Nominal" over service rows that are all `unknown`, and over a row that the
  fallback derived from the pods of an earlier refresh.
- Overlapping loads leave logs and endpoints of an earlier selection in the drawer and end its
  loading state early. Failures of deploy and destroy are written into the drawer's error.
- A Log Analytics process that the service's own time limit ends is answered 503, not 504.
- A Copilot client whose constructor throws is answered 500, with the slot returned; one whose `stop()` fails may
  leave its CLI running. `AssistantPanel.vue` is not mounted by any view.

## 4. The proofs

Each theorem is over every value of the constants that its module's assumptions admit. TLC first
checked the invariants below on the instances of section 3. Each invariant is proved inductive with one
lemma per action. Every safety invariant and every action property of the passing runs is a theorem.

**JobManagerProofs** needs only `JobsAssumption` (`None` is not a job, `TimeoutSet` is Boolean);
the set of jobs may be infinite. `JobInv` adds two facts to the checked invariants.

- `FreshIsUntouched`: an id that was never handed out has no process, no promise and no
  announcement. Without it `Start` could reuse a settled promise.
- `PendingPromiseIsCurrent`: a promise that is not settled belongs to an active or cancelled
  job. Without it a late `ChildEvent` could give a second verdict to a job that
  failed by timeout.

`OutcomesAreReported` follows; `FinalVerdicts` is an action property, and
`TableImplementsSlot` the refinement: `StatusStep` reduces a callback to what it does to the
status of one job, and each of its three cases is a stutter, an `Acquire` or a `Release`; a
restart is `Forget`.

The console, for any number of tabs: `ConsoleInv` adds to `JobInv` that a `job:complete` on the wire
has the verdict of its job, and that a control which knows a job follows it. A verdict that was true when sent is still true when shown,
because verdicts are final; hence `ShownVerdicts` and `Rearming`. `ConsoleDrivesTable` says that the console's
steps are steps of the job table, so its theorems hold under the console too.

**MeterIngestProofs** (`SuccessIsPersisted`, `DocumentsAreUnique`, `QueuedIsNotLost`): any number of
events, probes, replicas, retries and failures. The checked properties say nothing of a delivery in a
replica's hands, and an acknowledgement of an event that was never stored would break them one step
later. `HandsInv` says where a replica stands: what it may still acknowledge is stored, what it
looks up is synthetic, what it may still discard has expired or conflicts with another stored event.
`StoreInv` relates the documents to the history of insertions: a synthetic event that was inserted is
there or has expired, which is why a second insertion is refused.

**MitigationProofs** has four parts.

- *Customer impact* (`HealthIsRecent`, `FailureIsNotHidden`): any window, lifetime, query limit and
  freshness with `ImpactAssumption` (the horizon lies beyond what is compared). The log moves
  on while a collection or an answer is kept, so `FlightInv` and `CachedInv` compare the two clocks:
  the last success of the log is never older than that of the answer, which ages with it, and a failure
  the answer has not seen is not older than the answer.
- *Lifecycle*: `ReviewInv` says that no two events have one time and that each reading in the history is what the
  Deployment was at its time; a reading is taken before the changes that come after it, so it stays true.
  `ResolutionIsTrue` and `BypassIsCaught` concern the verdict, which a poll derives from rows that are a
  subset of the world. `DenialIsBacked` is an action property: a denial rests on a reading from before the
  decision, and the replicas are those of the decision unless they had changed between that reading and it. A
  change with its reversal between two polls stays unseen, which is what the run `mitigation_denied` finds.
- *Evidence cache* (`EvidenceIsRecent`): `EntriesInv` bounds by its age how old the success of an entry can be
  by now, `WaitInv` says that a collection which is about to read the customer impact finds one. This
  is a bound through two caches, each of which counts its age from the start of its collection.
- *Commands* (`AdmissionIsExact`), for commands of any length: as long as the scan has refused nothing, the words
  it takes as values are those kubectl takes as values (`WellRead`), and what it has noted is what kubectl
  would make of the words so far (`ScanInv`).

**IncidentHandoffProofs** (`KeysOpenOnce`, `ChainExcludes`, `AnswersAreKept`): any number of requests, keys,
native incidents and incidents. The file only takes what a mutation drafted from one reading of it, so
`HandoffInv` asks uniqueness of every draft as well; the chain of mutations is not needed for that. It is needed for the
answers: `OneWriter` is the mutual exclusion the promise chain gives, and `DraftIsCurrent`
says that what the writer holds is the file of now with its own change, unless a first read erased it.

**RehearsalWorkflowProofs** needs `MaxRounds \in Nat \ {0}` (there is no limit in the code; the
theorems hold for every one). The checked invariants speak of the saved run only, and
`SavePending` would break them: `RehearsalInv` asks the same, `Sound`, of the run about to be
saved. `Sound` also generalises `CompletedThisRound` from the completed run to every phase
entered so far (with no such fact, entering the last phase would prove nothing of the earlier ones),
and the handoff is required as soon as a creation is pending. The theorems are
`ReadinessIsBacked`, `NothingIsClaimedEarly` and `CompletionIsEarned`.

`PanelStaysInStep` is about the panel, for any scenarios and any number of buttons pressed at once. An
answer under way is the difference between list and file; `PanelInv` says that where nothing was missed, an erasing first read
included, it is the only one (`Brings`), and what a request under way says of itself (`RequestFits`).

**ScenarioProofs**: the portal validations, for any number of scenarios, pages and requests.
`ConfirmationsAreEarned` rests on `GrantInv`, which asks of every state a request is about to save or answer
with what the property asks of the file and the pages. `QuietRequestsImplementBook` is the refinement of
`ValidationBook`; its `BookInv` says that of quiet requests at most one is between reading and writing, and that
the file is whole except between opening and writing. `OnePageStaysInStep` adds `PageInv`: the page shows what is saved
except while its answer is under way, so that an update it asks for is one the file admits.

The break scenarios, for any registry and any resources: `ScenarioInv` says how far each kubectl call has brought
the cluster, of a request that meets no other (`OrderlyFits`) and of a Repair All after whatever disorder
(`HealerFits`). `OrderlyMatches` and `RepairAllHeals` follow.

**SreAgentProofs**: any number of operations, listers and children. `SessionInv` ties the three places a
child can be known from: a session excludes a connection attempt, and a disposed client has neither.
`NoOrphan`, `NothingLeft` and the refinement `ImplementsSingleChild` follow, and do not depend on the
operations. `CallsInv` and `RegistryInv` relate the calls and the registered keys to the phase
of the operations: `CancelledIsSilent` and `Cancellable`. `WireInv` compares the client's count with the calls on
the wire, which all use the present session (`CallsAreSpared`). `ThreadInv` says that who has read the
thread file is the head of its queue, so what it writes loses nobody's record (`ThreadsAreRecorded`).

**MissionReadsProofs**: any number of pages, questions, rows, loads, pods and replicas. `SlotFits` says which
question holds the assistant's slot, so that each way out of the route gives back what that question took
(`SlotIsNeverLeaked`). `AnswersAreBacked` counts no more than the reads delivered, for the governed queries and
the assistant. `DrawerFollows` rests on a load that met no other being the only one. `FallbackIsClose` is
about two classifications of one deployment, each from the pods that it takes for the deployment's, whichever
those are and whatever lags: by cases over the branches, and by counting. Its exceptions are in the
statement. `NominalBacked` follows the refresh through its reads: `BoardInv` says, while nothing has moved, what
each answer in hand is true of (`PollFits`) and what the row shown was derived from (`RowFits`), with the same
exceptions.

### What the proofs changed

- `AnsweredIsRecorded` held in the run only because its file was large enough for the threads of the instance:
  the code replaces a known thread in its place, so a thread that was just recorded again can be the oldest and
  be dropped next (`SreAgentService.ts`, `recordThread`). The model now remembers what was dropped, and the
  property asks that nothing is dropped while there is room.
- The fallback's classification was a `CASE` with overlapping guards, of which TLA+ leaves the choice open; it is
  now in the order of the code's conditions.
- `ReviewModeMitigation`, `EvidenceCache`, `CustomerImpact`, `ScenarioControl` and `GovernedQueries` said less of their
  constants than their definitions need (a limit that is not a number, a status equal to "nothing");
  the assumptions now say it, and TLC evaluates them.

### What is taken from where

The prover has no induction over data. Two facts that need it are proved by the least counterexample
(`LeastNatural`, from the library's theorem that `<` on `Nat` is well founded): what a flattened plan of
kubectl calls holds, and what the pruned cache keeps. What kubectl takes as a value is a recursive
function, whose equation is solved explicitly (`ValuePlaces`).

Only model-checked: liveness (`EndedProcessIsReported`, `CompletionEndsRun`, `EventuallySettled`,
`EveryRequestEnds`, `OperationEnds`), for which the prover has no rules of fairness and ENABLED; and the four
properties that the code does not have. Type correctness is a theorem of its own for the job table; elsewhere an
inductive invariant holds the types its proof needs.

## 5. Not modelled

Of the modelled components:

- `JobManager`: log lines and sequence numbers; `CommandExecutor.stream`, which nothing calls.
- `JobConsole`: log lines, page reloads (a reload starts a tab afresh), the typed confirmation of destroy.
- `MeterIngest`: telemetry, health endpoints and their probes, the shutdown of the services. The channel
  opens and closes at any moment, which allows more than the reconnect loop of meter-service does; that a
  channel which closes alone is not reopened (`services/meter-service/src/index.js:64`, only a
  failing liveness probe restarts the pod) is why its reopening is not assumed. The runs have no event of
  `Invalid`, so that a customer's event is discarded for its id is covered by the proofs only.
- `ReviewModeMitigation`: one correlation key; the correlation of rows by their identifiers, the temporal
  and the duplicate filter, the keys of the history.
- `CustomerImpact`: the texts of stages and recovery conditions.
- `IncidentHandoff`: texts, evidence lists and severities; the freshness of native
  evidence; `resetIncidentState`, which nothing calls.
- `RehearsalWorkflow`: the runs of the other scenarios, which share only the file and its lock
  (`IncidentHandoff` has the same lock); replay and dry runs, which save nothing. `RehearsalPanel`: what a
  change does to a run, and the panel's texts.
- `ScenarioControl`: what a manifest changes, beyond the resources a repair plan names. Poll answers
  are atomic. That requests end is not checked: it is kubectl's to end.
- `SreAgentOperations`: what an answer contains and how errors are classified.
- `GovernedQueries`: the wording of queries and the mapping of rows; `impactedService`, a second filter of one template.
- `Assistant`: prompts, citations, the limits of single fields of the screen context; the preflight checks taken with
  the snapshot, which turn their own failures into results.

Not modelled at all:

- SRE Agent texts (`redaction.ts`, `responseParser.ts`, `config.ts`, `preflight.ts`): what they promise is
  about characters and patterns, and a model that abstracts those has nothing left to check.
- The connection loop of meter-service as a machine of its own, for the reason above.
- Deployment, teardown, Key Vault and validation scripts: one operator's sequential `az` and `kubectl`
  calls. What can go wrong is what Azure does (soft delete, purge protection, role propagation), which
  the repository does not define.
- asset-service, preflight checks, tool detection, the grid status API: they keep no state between requests.
- Manifests, infrastructure templates and dashboards: declarative, or display only.

## 6. Plan

Done, in the order of what an operator would miss most: the jobs and their console; meter ingest;
the mitigation and its caches; handoffs and rehearsals; portal and break scenarios; the SRE
Agent session; the wallboard's reads; the proofs of section 4.

What would come next:

1. The reconnect loop of meter-service with its shutdown, in the place of the two channel actions.
2. Type correctness as a theorem of each module, and the proved invariants as theorems of the composed
   specifications that TLC checks.
3. Liveness of `ScenarioControl` under the assumption that kubectl ends.
4. The Key Vault scripts with a failure after any step.
