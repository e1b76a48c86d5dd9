------------------------------ MODULE Assistant ------------------------------
(***************************************************************************)
(* Explain This State: the pages' questions, the one slot of               *)
(* routes/assistant.ts, the snapshot that MissionStateService collects and *)
(* the Copilot session that AssistantService.ts starts for each question.  *)
(* A page that is reloaded forgets its question; the server does not.      *)
(***************************************************************************)
EXTENDS FiniteSets, Naturals

CONSTANTS
    Pages,      \* open wallboards
    Questions,  \* bound: requests that are followed at a time
    None        \* no request, no answer

ASSUME AssistantAssumption == None \notin Questions

VARIABLES
    activeAssistantRequests,  \* the counter of the route
    ask,                      \* the requests
    copilot,                  \* requests whose Copilot CLI runs
    waiting                   \* the request each page waits for

assistantVars == <<activeAssistantRequests, ask, copilot, waiting>>

Kinds == {"pods", "services", "deployments", "events"}
Answer == [code : {400, 429, 500, 503}, status : {"none"}, confidence : {"none"}]
    \cup [code : {200}, status : {"partial"}, confidence : {"low"}]
    \cup [code : {200}, status : {"ok"}, confidence : {"medium", "high"}]
InRoute == {"collecting", "starting", "answering", "stopping"}
Ask == [at : {"free", "replied"} \cup InRoute, toolUsed : BOOLEAN, answer : Answer \cup {None},
        reads : [Kinds -> {"pending", "error", "empty", "some"}]]

AssistantTypeOK ==
    /\ activeAssistantRequests \in 0..Cardinality(Questions)
    /\ ask \in [Questions -> Ask]
    /\ copilot \subseteq Questions
    /\ waiting \in [Pages -> Questions \cup {None}]

-----------------------------------------------------------------------------
Error(code) == [code |-> code, status |-> "none", confidence |-> "none"]

responseStatus(q) ==
    IF (\E k \in Kinds : q.reads[k] = "error") \/ ~q.toolUsed THEN "partial" ELSE "ok"

\* Resources that could not be read are empty lists.
Explained(q) ==
    [code |-> 200, status |-> responseStatus(q),
     confidence |-> IF responseStatus(q) = "partial" THEN "low"
                    ELSE IF q.reads["pods"] # "some" /\ q.reads["deployments"] # "some" THEN "medium"
                    ELSE "high"]

Unread == [k \in Kinds |-> "pending"]
Free == [at |-> "free", toolUsed |-> FALSE, answer |-> None, reads |-> Unread]

AssistantInit ==
    /\ activeAssistantRequests = 0
    /\ ask = [r \in Questions |-> Free]
    /\ copilot = {}
    /\ waiting = [p \in Pages |-> None]

\* What a page may send, as the route tells it apart.  A question must be there
\* and not too long; a history must be a list of at most 12 messages of the
\* known form, and no history is one; of the screen context every field is cut
\* or dropped, and only one that is not an object is refused.
Bodies == [question : {"none", "short", "long"}, history : {"list", "other"}, context : {"object", "other"}]

normalizeQuestion(body) == body.question = "short"

normalizeHistory(body) == body.history = "list"

normalizeClientContext(body) == body.context = "object"

\* The route, up to its first await: the question, the history and the screen
\* context are checked before the slot; a client that cannot be constructed
\* gives the slot back.
Admitted(r, body, constructed) ==
    IF ~ (normalizeQuestion(body) /\ normalizeHistory(body) /\ normalizeClientContext(body))
    THEN /\ ask' = [ask EXCEPT ![r].at = "replied", ![r].answer = Error(400)]
         /\ UNCHANGED activeAssistantRequests
    ELSE IF activeAssistantRequests >= 1
    THEN /\ ask' = [ask EXCEPT ![r].at = "replied", ![r].answer = Error(429)]
         /\ UNCHANGED activeAssistantRequests
    ELSE IF ~constructed
    THEN /\ ask' = [ask EXCEPT ![r].at = "replied", ![r].answer = Error(500)]
         /\ UNCHANGED activeAssistantRequests
    ELSE /\ ask' = [ask EXCEPT ![r].at = "collecting"]
         /\ activeAssistantRequests' = activeAssistantRequests + 1

\* The composer is disabled while the page waits.
askAnalyst(p, r) ==
    /\ waiting[p] = None /\ ask[r].at = "free"
    /\ \E body \in Bodies, constructed \in BOOLEAN : Admitted(r, body, constructed)
    /\ waiting' = [waiting EXCEPT ![p] = r]
    /\ UNCHANGED copilot

\* collectMissionState reads the four resources at once; a failed read is an
\* empty list and a line of errors.  (The preflight checks taken with them turn
\* their own failures into results, and are left out.)
collectKube(r, k) ==
    /\ ask[r].at = "collecting" /\ ask[r].reads[k] = "pending"
    /\ \E result \in {"error", "empty", "some"} : ask' = [ask EXCEPT ![r].reads[k] = result]
    /\ UNCHANGED <<activeAssistantRequests, copilot, waiting>>

SessionRequested(r) ==
    /\ ask[r].at = "collecting" /\ \A k \in Kinds : ask[r].reads[k] # "pending"
    /\ ask' = [ask EXCEPT ![r].at = "starting"]
    /\ copilot' = copilot \cup {r}
    /\ UNCHANGED <<activeAssistantRequests, waiting>>

SessionCreated(r) ==
    /\ ask[r].at = "starting"
    /\ ask' = [ask EXCEPT ![r].at = "answering"]
    /\ UNCHANGED <<activeAssistantRequests, copilot, waiting>>

\* The model calls the only tool it is offered, or does not.
ToolStarts(r) ==
    /\ ask[r].at = "answering" /\ ~ask[r].toolUsed
    /\ ask' = [ask EXCEPT ![r].toolUsed = TRUE]
    /\ UNCHANGED <<activeAssistantRequests, copilot, waiting>>

ModelAnswers(r) ==
    /\ ask[r].at = "answering"
    /\ ask' = [ask EXCEPT ![r].at = "stopping", ![r].answer = Explained(ask[r])]
    /\ UNCHANGED <<activeAssistantRequests, copilot, waiting>>

\* The session does not start, or fails, or is not done after 60 seconds.
SessionFails(r) ==
    /\ ask[r].at \in {"starting", "answering"}
    /\ ask' = [ask EXCEPT ![r].at = "stopping", ![r].answer = Error(503)]
    /\ UNCHANGED <<activeAssistantRequests, copilot, waiting>>

\* The snapshot goes with the request.
Replied(r) == [ask EXCEPT ![r] = [Free EXCEPT !.at = "replied", !.answer = ask[r].answer]]

\* A faulty route that gives the slot back only after an answer.
StopAfterAnswer(r) ==
    /\ ask[r].at = "stopping"
    /\ ask' = Replied(r)
    /\ activeAssistantRequests' =
          IF ask[r].answer.code = 200 THEN activeAssistantRequests - 1 ELSE activeAssistantRequests
    /\ copilot' \in {copilot, copilot \ {r}}
    /\ UNCHANGED waiting

\* client.stop() ends the CLI, or fails and is only logged; either way the
\* reply is sent and the slot is free.
Stopped(r) ==
    /\ ask[r].at = "stopping"
    /\ ask' = Replied(r)
    /\ activeAssistantRequests' = activeAssistantRequests - 1
    /\ copilot' \in {copilot, copilot \ {r}}
    /\ UNCHANGED waiting

AnswerShown(p) ==
    /\ waiting[p] # None /\ ask[waiting[p]].at = "replied"
    /\ waiting' = [waiting EXCEPT ![p] = None]
    /\ UNCHANGED <<activeAssistantRequests, ask, copilot>>

PageReloads(p) ==
    /\ waiting[p] # None
    /\ waiting' = [waiting EXCEPT ![p] = None]
    /\ UNCHANGED <<activeAssistantRequests, ask, copilot>>

\* A request nobody waits for any more may be used for the next question.
Forgotten(r) ==
    /\ ask[r].at = "replied" /\ \A p \in Pages : waiting[p] # r
    /\ ask' = [ask EXCEPT ![r] = Free]
    /\ copilot' = copilot \ {r}
    /\ UNCHANGED <<activeAssistantRequests, waiting>>

AssistantNext ==
    \/ \E p \in Pages : AnswerShown(p) \/ PageReloads(p) \/ \E r \in Questions : askAnalyst(p, r)
    \/ \E r \in Questions :
          \/ \E k \in Kinds : collectKube(r, k)
          \/ SessionRequested(r) \/ SessionCreated(r) \/ ToolStarts(r) \/ ModelAnswers(r)
          \/ SessionFails(r) \/ Stopped(r) \/ Forgotten(r)

AssistantSpec == AssistantInit /\ [][AssistantNext]_assistantVars

-----------------------------------------------------------------------------
InTheRoute == {r \in Questions : ask[r].at \in InRoute}

\* An explanation given with high confidence rests on a snapshot all of whose
\* reads succeeded and that the model asked for; nothing but that is "ok".
AssistantEvidence ==
    \A r \in Questions :
        ask[r].at = "stopping" /\ ask[r].answer.status = "ok" =>
            /\ ask[r].toolUsed
            /\ \A k \in Kinds : ask[r].reads[k] \in {"empty", "some"}
            /\ ask[r].answer.confidence = "high" => "some" \in {ask[r].reads["pods"], ask[r].reads["deployments"]}

\* The slot is taken exactly while a question is in the route, on every path
\* out of it, and no two sessions are worked on at a time: a leaked slot would
\* refuse every later question with 429.
SlotIsHeld ==
    /\ activeAssistantRequests = Cardinality(InTheRoute)
    /\ Cardinality(InTheRoute) <= 1
    /\ \A r \in Questions : ask[r].at \in {"starting", "answering"} => r \in copilot
=============================================================================
