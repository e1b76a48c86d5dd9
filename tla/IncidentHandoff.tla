--------------------------- MODULE IncidentHandoff ---------------------------
(***************************************************************************)
(* The incident handoffs of Mission Control (IncidentHandoffService.ts and *)
(* routes/incidents.ts): a JSON file that every request reads whole and    *)
(* writes whole, a promise chain that serialises the mutations (but not    *)
(* the reads, which create the file when it is missing), and the           *)
(* reconciliation with the native incidents of Azure SRE Agent, whose      *)
(* query runs between an unlocked read and a locked write.                 *)
(***************************************************************************)
EXTENDS Naturals, Sequences, SequencesExt

CONSTANTS
    Clients,       \* concurrent requests
    Keys,          \* deduplication keys: source, scenario and alert name
    Natives,       \* incidents of Azure SRE Agent that match the scenario's service
    MaxIncidents,  \* bound on the incidents created
    FileExists     \* whether an earlier run of the process left the file

ASSUME HandoffAssumption ==
    MaxIncidents \in Nat /\ FileExists \in BOOLEAN /\ IsFiniteSet(Natives)

VARIABLES
    present,    \* whether the state file exists
    incidents,  \* its content
    queue,      \* stateMutationQueue: the head runs, the others wait for it
    pc, req,    \* the requests: how far each is, and what it asks
    draft,      \* the state a mutation has read and changed
    created,    \* incidents created so far, the source of ids
    visible,    \* the native incidents in the telemetry window
    told,       \* what the last answer about each incident said of its status
    bound,      \* the native incident that was attached on an operator's word
    erased      \* whether a first read has written its empty file over incidents

fileVars == <<present, incidents>>
ghostVars == <<told, bound, erased>>
vars == <<present, incidents, queue, pc, req, draft, created, visible, told, bound, erased>>

None == "none"
IdSet == 1..MaxIncidents
Statuses == {"open", "acknowledged", "resolved"}
Incident == [id : IdSet, key : Keys, status : Statuses, native : Natives \cup {None}]
Request ==
    [kind : {"get"}] \cup [kind : {"submit"}, key : Keys]
    \cup [kind : {"acknowledge", "resolve"}, id : IdSet]
    \cup [kind : {"reconcile"}, id : IdSet, known : Natives \cup {None}, named : BOOLEAN]
    \cup [kind : {"attach"}, id : IdSet, native : Natives \cup {None}, named : BOOLEAN]
Get == [kind |-> "get"]

TypeOK ==
    /\ present \in BOOLEAN /\ (~ present => incidents = <<>>)
    /\ incidents \in Seq(Incident)
    /\ queue \in Seq(Clients) /\ IsInjective(queue)
    /\ pc \in [Clients -> {"idle", "queued", "missing", "loaded", "querying"}]
    /\ \A c \in Clients : req[c] \in Request
    /\ \A c \in Clients : draft[c] \in Seq(Incident)
    /\ created \in 0..MaxIncidents
    /\ visible \subseteq Natives
    /\ told \in [IdSet -> Statuses \cup {None}]
    /\ bound \in [IdSet -> Natives \cup {None}]
    /\ erased \in BOOLEAN

Init ==
    /\ present = FileExists /\ incidents = <<>>
    /\ queue = <<>>
    /\ pc = [c \in Clients |-> "idle"] /\ req = [c \in Clients |-> Get]
    /\ draft = [c \in Clients |-> <<>>]
    /\ created = 0
    /\ visible = {}
    /\ told = [i \in IdSet |-> None] /\ bound = [i \in IdSet |-> None]
    /\ erased = FALSE

-----------------------------------------------------------------------------
(***************************************************************************)
(* Requests arrive.                                                        *)
(***************************************************************************)
Ids(s) == {inc.id : inc \in ToSet(s)}
Find(s, id) == CHOOSE i \in DOMAIN s : s[i].id = id

Submits == {c \in Clients : pc[c] # "idle" /\ req[c].kind = "submit"}
Room == created + Cardinality(Submits) < MaxIncidents

\* withIncidentMutationLock, before the operation: wait behind those who came first.
Enqueue(c, r) ==
    /\ pc' = [pc EXCEPT ![c] = "queued"]
    /\ req' = [req EXCEPT ![c] = r]
    /\ queue' = Append(queue, c)

\* An incident of the dashboard, or an alert of an Azure Monitor action group, fired or
\* resolved: of what it says, only the key decides which incident it is.
Submission(k) == [kind |-> "submit", key |-> k]

PostMutation(c) ==
    /\ pc[c] = "idle"
    /\ \/ Room /\ \E k \in Keys : Enqueue(c, Submission(k))
       \/ \E kind \in {"acknowledge", "resolve"}, id \in Ids(incidents) :
              Enqueue(c, [kind |-> kind, id |-> id])
    /\ UNCHANGED <<present, incidents, draft, created, visible, told, bound, erased>>

\* getIncidents when the file is missing; when it is there, a read changes nothing.
GetMissing(c) ==
    /\ pc[c] = "idle"
    /\ ~ present
    /\ pc' = [pc EXCEPT ![c] = "missing"]
    /\ UNCHANGED <<present, incidents, queue, req, draft, created, visible, told, bound, erased>>

\* The reconcile route: it reads the incident, and with it the native incident of the
\* last reconciliation, unless the operator names one (always the same for a card).
PostReconcile(c) ==
    /\ pc[c] = "idle"
    /\ \E id \in Ids(incidents), n \in Natives \cup {None} :
           /\ n # None => bound[id] \in {n, None}
           /\ req' = [req EXCEPT ![c] =
                  [kind |-> "reconcile", id |-> id, named |-> n # None,
                   known |-> IF n # None THEN n ELSE incidents[Find(incidents, id)].native]]
    /\ pc' = [pc EXCEPT ![c] = "querying"]
    /\ UNCHANGED <<present, incidents, queue, draft, created, visible, told, bound, erased>>

-----------------------------------------------------------------------------
(***************************************************************************)
(* Reconciliation                                                          *)
(***************************************************************************)

\* selectRowsForCorrelation and reconcileNativeIncidentEvidence: a known incident or
\* nothing; otherwise the only candidate of the service, if there is just one.
Reconciled(known) ==
    LET rows == IF known # None THEN visible \cap {known} ELSE visible
    IN  IF Cardinality(rows) = 1 THEN CHOOSE n \in rows : TRUE ELSE None

\* The query answers, or fails in a way that reconciles with no rows; then the
\* evidence waits for the lock.
Query(c) ==
    /\ pc[c] = "querying"
    /\ \E found \in {Reconciled(req[c].known), None} :
           Enqueue(c, [kind |-> "attach", id |-> req[c].id, native |-> found,
                       named |-> req[c].named])
    /\ UNCHANGED <<present, incidents, draft, created, visible, told, bound, erased>>

\* Any other failure is answered with 500.
QueryThrows(c) ==
    /\ pc[c] = "querying"
    /\ pc' = [pc EXCEPT ![c] = "idle"]
    /\ req' = [req EXCEPT ![c] = Get]
    /\ UNCHANGED <<present, incidents, queue, draft, created, visible, told, bound, erased>>

\* Rows enter the telemetry window and leave it.
TelemetryMoves ==
    /\ \E n \in Natives : visible' = IF n \in visible THEN visible \ {n} ELSE visible \cup {n}
    /\ UNCHANGED <<present, incidents, queue, pc, req, draft, created, told, bound, erased>>

-----------------------------------------------------------------------------
(***************************************************************************)
(* The mutations                                                           *)
(***************************************************************************)

\* A faulty chain that lets every waiting mutation run.
RunsUnordered(c) == c \in ToSet(queue)

\* The chain lets the first mutation run.
Runs(c) == queue # <<>> /\ Head(queue) = c

\* The incident that a submission updates.
SameIncident(inc, key) == inc.key = key /\ inc.status # "resolved"

\* A faulty submission that does not search.
SubmittedUnsearched(s, key, id) ==
    Append(s, [id |-> id, key |-> key, status |-> "open", native |-> None])

\* submitIncident: title, evidence and guidance of an unresolved incident are updated,
\* its status is not.
Submitted(s, key, id) ==
    IF \E inc \in ToSet(s) : SameIncident(inc, key) THEN s
    ELSE Append(s, [id |-> id, key |-> key, status |-> "open", native |-> None])

\* What the operation makes of the state it has read; <<>> when it finds nothing.
Applied(r, s, id) ==
    CASE r.kind = "submit" -> Submitted(s, r.key, id)
      [] r.kind # "submit" /\ r.id \notin Ids(s) -> <<>>
      [] r.kind = "attach" /\ r.id \in Ids(s) -> [s EXCEPT ![Find(s, r.id)].native = r.native]
      [] r.kind = "acknowledge" /\ r.id \in Ids(s) ->
             [s EXCEPT ![Find(s, r.id)].status = "acknowledged"]
      [] r.kind = "resolve" /\ r.id \in Ids(s) ->
             [s EXCEPT ![Find(s, r.id)].status = "resolved"]

\* A faulty end that forgets to let the next one run.
LeaveBlocked(c) ==
    /\ pc' = [pc EXCEPT ![c] = "idle"] /\ req' = [req EXCEPT ![c] = Get]
    /\ UNCHANGED <<draft, queue>>

\* withIncidentMutationLock, the end: the next one runs, whatever happened.  A read is not
\* in the chain.
Leave(c) ==
    /\ pc' = [pc EXCEPT ![c] = "idle"]
    /\ req' = [req EXCEPT ![c] = Get]
    /\ draft' = [draft EXCEPT ![c] = <<>>]
    /\ queue' = IF req[c].kind = "get" THEN queue ELSE Tail(queue)

\* The operation has the state s: it goes on to write, or answers 404.
Continue(c, s) ==
    LET next == Applied(req[c], s, created + 1)
    IN  IF next = <<>> THEN Leave(c)
        ELSE /\ draft' = [draft EXCEPT ![c] = next]
             /\ pc' = [pc EXCEPT ![c] = "loaded"]
             /\ UNCHANGED <<queue, req>>

\* readIncidentState
Read(c) ==
    /\ Runs(c)
    /\ pc[c] = "queued"
    /\ IF present THEN Continue(c, incidents)
       ELSE pc' = [pc EXCEPT ![c] = "missing"] /\ UNCHANGED <<queue, req, draft>>
    /\ UNCHANGED <<present, incidents, created, visible, told, bound, erased>>

\* readIncidentState, the file was missing: it is written empty.
InitFile(c) ==
    /\ pc[c] = "missing"
    /\ present' = TRUE /\ incidents' = <<>>
    /\ erased' = (erased \/ incidents # <<>>)
    /\ IF req[c].kind = "get" THEN Leave(c) ELSE Continue(c, <<>>)
    /\ UNCHANGED <<created, visible, told, bound>>

\* The incident a written request is about.
About(c) ==
    IF req[c].kind = "submit"
    THEN LET i == CHOOSE j \in DOMAIN draft[c] :
                      SameIncident(draft[c][j], req[c].key)
                      /\ \A h \in 1..(j - 1) : ~ SameIncident(draft[c][h], req[c].key)
         IN  draft[c][i]
    ELSE draft[c][Find(draft[c], req[c].id)]

\* writeIncidentStateAtomically renames a complete file, and the request is answered.  The
\* two are one step: told is what the answer says, as of the rename, whether or not it
\* arrives.  What a GET says, or the reconciliation of an incident that is gone (status 200
\* with the incident as it was read), is not counted as told.
Write(c) ==
    /\ pc[c] = "loaded"
    /\ present' = TRUE /\ incidents' = draft[c]
    /\ LET inc == About(c)
       IN  /\ told' = [told EXCEPT ![inc.id] = inc.status]
           /\ bound' = IF req[c].kind = "attach" /\ req[c].named /\ req[c].native # None
                       THEN [bound EXCEPT ![inc.id] = req[c].native] ELSE bound
    /\ created' = IF created + 1 \in Ids(draft[c]) THEN created + 1 ELSE created
    /\ Leave(c)
    /\ UNCHANGED <<visible, erased>>

\* Reading or writing the file fails, and the request with it.
FileFails(c) ==
    /\ pc[c] \in {"missing", "loaded"} \/ (pc[c] = "queued" /\ Runs(c))
    /\ Leave(c)
    /\ UNCHANGED <<present, incidents, created, visible, told, bound, erased>>

\* The process ends and starts again: only the file remains.
Restart ==
    /\ \E c \in Clients : pc[c] # "idle"
    /\ queue' = <<>>
    /\ pc' = [c \in Clients |-> "idle"]
    /\ req' = [c \in Clients |-> Get]
    /\ draft' = [c \in Clients |-> <<>>]
    /\ UNCHANGED <<present, incidents, created, visible, told, bound, erased>>

Proceeds(c) == Query(c) \/ Read(c) \/ InitFile(c) \/ Write(c)

Next ==
    \/ \E c \in Clients : PostMutation(c) \/ GetMissing(c) \/ PostReconcile(c)
    \/ \E c \in Clients : Proceeds(c) \/ QueryThrows(c) \/ FileFails(c)
    \/ TelemetryMoves
    \/ Restart

Spec == Init /\ [][Next]_vars

\* A query has a timeout and file operations end: what runs goes on.
FairSpec == Spec /\ \A c \in Clients : WF_vars(Proceeds(c))
-----------------------------------------------------------------------------
(***************************************************************************)
(* Properties                                                              *)
(***************************************************************************)

\* What a request was told of an incident holds until another answer about it: no
\* incident is lost, and no status is undone by a write that read an older state.
AnswersAlwaysHold ==
    \A id \in IdSet : told[id] # None =>
        \E inc \in ToSet(incidents) : inc.id = id /\ inc.status = told[id]

\* The mutation that has read the file, or found none to read, is the first of the chain:
\* there is one at a time.
OneWriter ==
    \A c \in Clients :
        pc[c] = "loaded" \/ (pc[c] = "missing" /\ req[c].kind # "get") => Runs(c)

\* What it is about to write is the file of now with its own change.
DraftIsCurrent ==
    \A c \in Clients : pc[c] = "loaded" =>
        /\ draft[c] # <<>>
        /\ ~ erased => draft[c] = Applied(req[c], incidents, created + 1)

\* The mutations of concurrent requests lose no answer of each other; only a first
\* read, outside the chain, can.
AnswersHold == ~ erased => AnswersAlwaysHold

\* Repeated submissions of one key never stand open side by side.
OneOpenPerKey ==
    \A i, j \in DOMAIN incidents :
        incidents[i].status = "open" /\ incidents[j].status = "open"
            /\ incidents[i].key = incidents[j].key => i = j

\* Every request ends, even when a mutation before it fails.
EveryRequestEnds == \A c \in Clients : pc[c] # "idle" ~> pc[c] = "idle"
=============================================================================
