--------------------------- MODULE GovernedQueries ---------------------------
(***************************************************************************)
(* The governed reads of the Local Analyst: fixed kubectl queries, Log     *)
(* Analytics templates and SRE Agent evidence templates, behind            *)
(* routes/analyst.ts.  A request is checked, then its reads run, for some  *)
(* queries several at once (Promise.all), and the answer says how much it  *)
(* can be trusted.  Requests share nothing, so one at a time is followed.  *)
(***************************************************************************)
EXTENDS FiniteSets, Naturals

CONSTANTS
    MaxRows,   \* bound: rows a read returns
    NoAnswer   \* no answer, or no request, yet

VARIABLES
    request,    \* the route, the template and the parameters
    workspace,  \* whether a Log Analytics workspace is configured
    reads,      \* the outcome of every read that was started
    answer      \* what the route sent

queryVars == <<request, workspace, reads, answer>>

Routes == {"aks", "logs", "sre-agent"}
Names == {"minutes", "service", "pod", "threadId", "incidentId", "workspaceId"}

\* The allowlists, with the parameters each template takes.  (impactedService,
\* which the snapshot takes beside incidentId, is left out.)
AksQueries == {"pod-resources", "node-capacity", "deployment-replicas", "namespace-events",
               "service-endpoints-health"}
LogTemplates == {"pod-restarts-lifecycle", "service-log-excerpts", "application-exceptions-errors"}
EvidenceTemplates == {"incident-activity-snapshot", "agent-execution-lifecycle", "agent-tool-execution",
                      "approval-decisions", "agent-az-cli-execution", "incident-thread-timeline"}

Allowed(template) ==
    {"minutes"} \cup
    CASE template = "service-log-excerpts" -> {"service", "pod"}
      [] template = "application-exceptions-errors" -> {"service"}
      [] template = "incident-activity-snapshot" -> {"incidentId"}
      [] template \in {"agent-tool-execution", "approval-decisions", "agent-az-cli-execution"} ->
            {"threadId", "incidentId"}
      [] template \in {"agent-execution-lifecycle", "incident-thread-timeline"} -> {"threadId"}
      [] OTHER -> {}

\* One of these must be there, so that the query does not read the whole
\* workspace; nothing is asked of the other templates.
Required(template) ==
    CASE template = "service-log-excerpts" -> {"service", "pod"}
      [] template = "application-exceptions-errors" -> {"service"}
      [] template = "incident-thread-timeline" -> {"threadId"}
      [] OTHER -> Names

Requests == [route : Routes, template : AksQueries \cup LogTemplates \cup EvidenceTemplates \cup {"other"},
             given : {g \in SUBSET Names : Cardinality(g) <= 2}, malformed : BOOLEAN, limit : 1..MaxRows]

Failures == {"missing", "failed", "killed", "timed out", "garbage", "schema"}
Running == [end |-> "running", rows |-> 0]
Outcomes == [end : Failures, rows : {0}] \cup [end : {"rows"}, rows : 0..MaxRows]
Answers == [status : {"denied", "unavailable", "complete"}, code : {200, 400, 502, 503, 504},
            rows : 0..MaxRows, confidence : {"none", "low", "medium"}]

ASSUME QueriesAssumption == MaxRows \in Nat /\ NoAnswer \notin Requests

QueriesTypeOK ==
    /\ request \in Requests \cup {NoAnswer}
    /\ workspace \in BOOLEAN
    /\ \E S \in SUBSET {"nodes", "pods", "deployments", "events", "services", "endpoints", "query"} : 
          reads \in [S -> Outcomes \cup {Running}]
    /\ answer \in Answers \cup {NoAnswer}

-----------------------------------------------------------------------------
TemplatesOf(route) ==
    CASE route = "aks" -> AksQueries
      [] route = "logs" -> LogTemplates
      [] route = "sre-agent" -> EvidenceTemplates

\* The parameters of an AKS query are not looked at.
Normalized(r) ==
    /\ r.template \in TemplatesOf(r.route)
    /\ r.route # "aks" =>
          /\ r.given \subseteq Allowed(r.template)
          /\ ~r.malformed
          /\ Required(r.template) = Names \/ r.given \cap Required(r.template) # {}

\* The parameters a query filters its rows by.
buildKqlTemplate(r) ==
    CASE r.template = "service-log-excerpts" -> r.given \cap {"service", "pod"}
      [] r.template = "application-exceptions-errors" -> r.given \cap {"service"}
      [] OTHER -> {}

buildSreAgentEvidenceKql(r) ==
    CASE r.template = "incident-activity-snapshot" -> r.given \cap {"incidentId"}
      [] r.template \in {"agent-execution-lifecycle", "incident-thread-timeline"} -> r.given \cap {"threadId"}
      [] OTHER -> r.given \cap {"threadId", "incidentId"}

FilteredBy(r) == IF r.route = "logs" THEN buildKqlTemplate(r) ELSE buildSreAgentEvidenceKql(r)

\* The reads a query starts together.
collect(template) ==
    CASE template = "pod-resources" -> {"pods"}
      [] template = "deployment-replicas" -> {"deployments"}
      [] template = "namespace-events" -> {"events"}
      [] template = "node-capacity" -> {"nodes", "pods"}
      [] template = "service-endpoints-health" -> {"services", "endpoints", "pods"}
      [] OTHER -> {"query"}

\* The rows of the answer come from one of them.
SubjectOf(template) ==
    CASE template = "node-capacity" -> "nodes"
      [] template = "service-endpoints-health" -> "services"
      [] template = "pod-resources" -> "pods"
      [] template = "deployment-replicas" -> "deployments"
      [] template = "namespace-events" -> "events"
      [] OTHER -> "query"

\* A process cut off by its timeout reports a failed command like any other:
\* 504 is for a timeout that the Azure CLI itself reports.
StatusCode(route, failure) ==
    CASE failure = "garbage" -> 502
      [] failure = "schema" /\ route = "sre-agent" -> 502
      [] failure = "timed out" /\ route # "aks" -> 504
      [] OTHER -> 503

Refusal(code, status) == [status |-> status, code |-> code, rows |-> 0, confidence |-> "none"]

Smaller(a, b) == IF a < b THEN a ELSE b

\* Log and evidence rows are cut to the limit of the request.
Complete(r, rows) ==
    LET shown == IF r.route = "aks" THEN rows ELSE Smaller(rows, r.limit)
    IN  [status |-> "complete", code |-> 200, rows |-> shown,
         confidence |-> IF shown > 0 THEN "medium" ELSE IF r.route = "aks" THEN "none" ELSE "low"]

-----------------------------------------------------------------------------
NoReads == [read \in {} |-> Running]

QueriesInit ==
    /\ request = NoAnswer /\ answer = NoAnswer /\ reads = NoReads
    /\ workspace \in BOOLEAN

\* A request arrives, is checked and starts its reads.
execute ==
    /\ request = NoAnswer
    /\ \E r \in Requests :
          /\ r.malformed => r.given # {}
          /\ request' = r
          /\ IF ~Normalized(r)
             THEN answer' = Refusal(400, "denied") /\ UNCHANGED reads
             ELSE IF r.route # "aks" /\ ~workspace
             THEN answer' = Refusal(503, "unavailable") /\ UNCHANGED reads
             ELSE /\ reads' = [read \in collect(r.template) |-> Running]
                  /\ UNCHANGED answer
    /\ UNCHANGED workspace

Unfinished(ends) == {read \in DOMAIN ends : ends[read] = Running}

\* A faulty collection that answers as soon as the rows themselves are there.
AnswerWithRows(ends) ==
    LET subject == ends[SubjectOf(request.template)]
    IN  IF subject.end \in Failures
        THEN Refusal(StatusCode(request.route, subject.end), "unavailable")
        ELSE IF subject = Running THEN NoAnswer ELSE Complete(request, subject.rows)

\* The first read that fails is the answer, while the others still run; the
\* last one of those that succeed completes it.
AnswerAfter(ends) ==
    LET failed == {read \in DOMAIN ends : ends[read].end \in Failures}
    IN  IF failed # {}
        THEN Refusal(StatusCode(request.route, ends[CHOOSE read \in failed : TRUE].end), "unavailable")
        ELSE IF Unfinished(ends) # {} THEN NoAnswer
        ELSE Complete(request, ends[SubjectOf(request.template)].rows)

ReadEnds ==
    /\ \E read \in Unfinished(reads), outcome \in Outcomes :
          /\ outcome.end = "schema" => request.route = "sre-agent"
          /\ outcome.end = "timed out" => request.route # "aks"
          /\ reads' = [reads EXCEPT ![read] = outcome]
          /\ answer' = IF answer # NoAnswer THEN answer ELSE AnswerAfter(reads')
    /\ UNCHANGED <<request, workspace>>

\* The next request, when the processes of the last one are gone.
QueryLeaves ==
    /\ answer # NoAnswer /\ Unfinished(reads) = {}
    /\ request' = NoAnswer /\ answer' = NoAnswer /\ reads' = NoReads
    /\ UNCHANGED workspace

QueriesNext == execute \/ ReadEnds \/ QueryLeaves

-----------------------------------------------------------------------------
\* What an answer claims is what its reads delivered: a complete one has every
\* read, a refused request started none, an unavailable one shows no row.  A
\* query over the workspace is narrowed by every parameter it was given, and by
\* the one its template asks for: one that was let through and then not used
\* would read everybody's rows, and the cut to the limit drop the right ones.
QueryEvidence ==
    /\ answer # NoAnswer =>
          /\ answer.status = "complete" =>
                /\ DOMAIN reads = collect(request.template)
                /\ \A read \in DOMAIN reads : reads[read].end = "rows"
                /\ answer.confidence = "medium" <=> reads[SubjectOf(request.template)].rows > 0
          /\ answer.status = "denied" => reads = NoReads
          /\ answer.status # "complete" => answer.rows = 0 /\ answer.confidence = "none"
    /\ "query" \in DOMAIN reads =>
          /\ FilteredBy(request) = request.given \ {"minutes"}
          /\ request.template \in {"service-log-excerpts", "application-exceptions-errors", "incident-thread-timeline"} =>
                FilteredBy(request) # {}
=============================================================================
