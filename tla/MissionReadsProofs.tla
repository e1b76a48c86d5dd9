------------------------- MODULE MissionReadsProofs -------------------------
(***************************************************************************)
(* Proofs about what the wallboard reads, one part after the other:        *)
(*   - Assistant: the one slot of the route is held exactly while a        *)
(*     question is in it.  SlotInv says which question holds the slot, so  *)
(*     that every way out of the route is seen to give back what that      *)
(*     question had taken;                                                 *)
(*   - Diagnostics: the drawer shows the selection while loads do not      *)
(*     overlap.  DrawerInv says that such a load is the only one;          *)
(*   - GovernedQueries and Assistant: no answer claims more than its reads *)
(*     delivered (QueryInv, ReadsInv);                                     *)
(*   - KubeInventory: where the two classifications of a deployment part,  *)
(*     and what is behind "Nominal" (BoardInv).                            *)
(* All of it for any number of pages, questions, rows, loads, pods and     *)
(* replicas.                                                               *)
(***************************************************************************)
EXTENDS MCMissionReads, FiniteSetTheorems, TLAPS

AskTyped == ask \in [Questions -> Ask]

\* The counter and the holder go together.
SlotFits ==
    \/ activeAssistantRequests = 0 /\ \A q \in Questions : ask[q].at \notin InRoute
    \/ /\ activeAssistantRequests = 1
       /\ \E r \in Questions : \A q \in Questions : ask[q].at \in InRoute <=> q = r

SessionRuns == \A r \in Questions : ask[r].at \in {"starting", "answering"} => r \in copilot

SlotInv == AskTyped /\ SlotFits /\ SessionRuns

LEMMA ErrorIsAnswer ==
  ASSUME NEW code \in {400, 429, 500, 503}
  PROVE  Error(code) \in Answer
  BY DEF Error, Answer

LEMMA ExplainedIsAnswer ==
  ASSUME NEW q
  PROVE  Explained(q) \in Answer
  BY DEF Explained, responseStatus, Answer

LEMMA FreeTyped == Free \in Ask
  BY DEF Free, Unread, Ask

LEMMA InitSlotInv == AssistantInit => SlotInv
  BY FreeTyped DEF AssistantInit, SlotInv, AskTyped, SlotFits, SessionRuns, Free, InRoute

LEMMA SlotUnchanged ==
  ASSUME SlotInv, UNCHANGED <<activeAssistantRequests, ask, copilot>>
  PROVE  SlotInv'
  BY DEF SlotInv, AskTyped, SlotFits, SessionRuns

\* A step of one question that neither enters the route nor leaves it.
LEMMA StepInsideKeeps ==
  ASSUME SlotInv, NEW r \in Questions, ask[r].at \in InRoute, ask'[r].at \in InRoute,
         ask' \in [Questions -> Ask], \A q \in Questions \ {r} : ask'[q] = ask[q],
         ask'[r].at \in {"starting", "answering"} => r \in copilot',
         copilot \subseteq copilot', UNCHANGED activeAssistantRequests
  PROVE  SlotInv'
  <1>1. \A q \in Questions : ask'[q].at \in InRoute <=> ask[q].at \in InRoute
    OBVIOUS
  <1>2. SlotFits'
    BY <1>1 DEF SlotInv, SlotFits
  <1>3. SessionRuns'
    BY DEF SlotInv, SessionRuns
  <1> QED
    BY <1>2, <1>3 DEF SlotInv, AskTyped

\* A question that is refused before the slot is taken.
LEMMA RefusedKeeps ==
  ASSUME SlotInv, NEW r \in Questions, ask[r].at = "free", NEW given \in Answer,
         ask' = [ask EXCEPT ![r].at = "replied", ![r].answer = given],
         UNCHANGED <<activeAssistantRequests, copilot>>
  PROVE  SlotInv'
  <1>1. [ask[r] EXCEPT !.at = "replied", !.answer = given] \in Ask
    BY DEF SlotInv, AskTyped, Ask, InRoute
  <1>2. ask' = [ask EXCEPT ![r] = [ask[r] EXCEPT !.at = "replied", !.answer = given]]
    BY DEF SlotInv, AskTyped
  <1>3. AskTyped'
    BY <1>1, <1>2 DEF SlotInv, AskTyped
  <1>4. \A q \in Questions : ask'[q].at = IF q = r THEN "replied" ELSE ask[q].at
    BY <1>2 DEF SlotInv, AskTyped, Ask
  <1>5. ASSUME NEW q \in Questions
        PROVE  ask'[q].at \in InRoute <=> ask[q].at \in InRoute
    <2>1. CASE q = r
      <3>1. ask'[r].at \notin InRoute
        <4>1. ask'[r].at = "replied"
          BY <1>4, Zenon
        <4>2. "replied" \notin InRoute
          BY DEF InRoute
        <4> QED
          BY <4>1, <4>2, Zenon
      <3>2. ask[r].at \notin InRoute
        BY DEF InRoute
      <3> QED
        BY <2>1, <3>1, <3>2
    <2>2. CASE q # r
      BY <1>4, <2>2
    <2> QED
      BY <2>1, <2>2
  <1>6. SlotFits'
    BY <1>5 DEF SlotInv, SlotFits
  <1>7. SessionRuns'
    BY <1>4 DEF SlotInv, SessionRuns
  <1> QED
    BY <1>3, <1>6, <1>7 DEF SlotInv

LEMMA AdmittedKeeps ==
  ASSUME SlotInv, NEW r \in Questions, ask[r].at = "free", UNCHANGED copilot,
         NEW body \in Bodies, NEW constructed \in BOOLEAN, Admitted(r, body, constructed)
  PROVE  SlotInv'
  <1>1. CASE /\ UNCHANGED activeAssistantRequests
             /\ \E code \in {400, 429, 500} :
                   ask' = [ask EXCEPT ![r].at = "replied", ![r].answer = Error(code)]
    <2>1. PICK code \in {400, 429, 500} :
             ask' = [ask EXCEPT ![r].at = "replied", ![r].answer = Error(code)]
      BY <1>1
    <2>2. Error(code) \in Answer
      BY ErrorIsAnswer
    <2> QED
      BY <1>1, <2>1, <2>2, RefusedKeeps
  <1>2. CASE /\ ~ activeAssistantRequests >= 1
             /\ ask' = [ask EXCEPT ![r].at = "collecting"]
             /\ activeAssistantRequests' = activeAssistantRequests + 1
    <2>1. AskTyped'
      BY <1>2 DEF SlotInv, AskTyped, Ask, InRoute
    <2>2. \A q \in Questions : ask'[q].at = IF q = r THEN "collecting" ELSE ask[q].at
      BY <1>2 DEF SlotInv, AskTyped, Ask
    <2>3. SlotFits'
      BY <1>2, <2>2 DEF SlotInv, SlotFits, InRoute
    <2> QED
      BY <2>1, <2>2, <2>3 DEF SlotInv, SessionRuns
  <1> QED
    BY <1>1, <1>2 DEF Admitted

LEMMA AskAnalystKeeps ==
  ASSUME SlotInv, NEW p \in Pages, NEW r \in Questions, askAnalyst(p, r)
  PROVE  SlotInv'
  BY AdmittedKeeps DEF askAnalyst

-----------------------------------------------------------------------------
(***************************************************************************)
(* The steps inside the route                                              *)
(***************************************************************************)
LEMMA CollectKubeKeeps ==
  ASSUME SlotInv, NEW r \in Questions, NEW k \in Kinds, collectKube(r, k)
  PROVE  SlotInv'
  <1>1. PICK result \in {"error", "empty", "some"} : ask' = [ask EXCEPT ![r].reads[k] = result]
    BY DEF collectKube
  <1>2. [ask[r].reads EXCEPT ![k] = result] \in [Kinds -> {"pending", "error", "empty", "some"}]
    BY DEF SlotInv, AskTyped, Ask
  <1>3. ask' = [ask EXCEPT ![r] = [ask[r] EXCEPT !.reads = [ask[r].reads EXCEPT ![k] = result]]]
    BY <1>1 DEF SlotInv, AskTyped
  <1>4. ask' \in [Questions -> Ask] /\ ask'[r].at = "collecting"
    BY <1>2, <1>3 DEF SlotInv, AskTyped, Ask, collectKube
  <1> QED
    BY <1>3, <1>4, StepInsideKeeps DEF SlotInv, AskTyped, collectKube, InRoute

LEMMA SessionRequestedKeeps ==
  ASSUME SlotInv, NEW r \in Questions, SessionRequested(r)
  PROVE  SlotInv'
  <1>1. ask' \in [Questions -> Ask] /\ ask'[r].at = "starting"
    BY DEF SlotInv, AskTyped, Ask, SessionRequested, InRoute
  <1> QED
    BY <1>1, StepInsideKeeps DEF SlotInv, AskTyped, SessionRequested, InRoute

LEMMA SessionCreatedKeeps ==
  ASSUME SlotInv, NEW r \in Questions, SessionCreated(r)
  PROVE  SlotInv'
  <1>1. ask' \in [Questions -> Ask] /\ ask'[r].at = "answering" /\ r \in copilot
    BY DEF SlotInv, AskTyped, SessionRuns, Ask, SessionCreated, InRoute
  <1> QED
    BY <1>1, StepInsideKeeps DEF SlotInv, AskTyped, SessionCreated, InRoute

LEMMA ToolStartsKeeps ==
  ASSUME SlotInv, NEW r \in Questions, ToolStarts(r)
  PROVE  SlotInv'
  <1>1. ask' \in [Questions -> Ask] /\ ask'[r].at = "answering" /\ r \in copilot
    BY DEF SlotInv, AskTyped, SessionRuns, Ask, ToolStarts, InRoute
  <1> QED
    BY <1>1, StepInsideKeeps DEF SlotInv, AskTyped, ToolStarts, InRoute

\* What remains of a question whose session is about to be stopped.
LEMMA StoppingKeeps ==
  ASSUME SlotInv, NEW r \in Questions, ask[r].at \in InRoute, NEW given \in Answer,
         ask' = [ask EXCEPT ![r].at = "stopping", ![r].answer = given],
         UNCHANGED <<activeAssistantRequests, copilot>>
  PROVE  SlotInv'
  <1>1. [ask[r] EXCEPT !.at = "stopping", !.answer = given] \in Ask
    BY DEF SlotInv, AskTyped, Ask, InRoute
  <1>2. ask' = [ask EXCEPT ![r] = [ask[r] EXCEPT !.at = "stopping", !.answer = given]]
    BY DEF SlotInv, AskTyped
  <1>3. ask' \in [Questions -> Ask] /\ ask'[r].at = "stopping"
    BY <1>1, <1>2 DEF SlotInv, AskTyped, Ask
  <1> QED
    BY <1>2, <1>3, StepInsideKeeps DEF SlotInv, AskTyped, InRoute

LEMMA ModelAnswersKeeps ==
  ASSUME SlotInv, NEW r \in Questions, ModelAnswers(r)
  PROVE  SlotInv'
  <1>1. PICK given \in Answer : given = Explained(ask[r])
    BY ExplainedIsAnswer
  <1> QED
    BY <1>1, StoppingKeeps DEF ModelAnswers, InRoute

LEMMA SessionFailsKeeps ==
  ASSUME SlotInv, NEW r \in Questions, SessionFails(r)
  PROVE  SlotInv'
  <1>1. PICK given \in Answer : given = Error(503)
    BY ErrorIsAnswer
  <1> QED
    BY <1>1, StoppingKeeps DEF SessionFails, InRoute

-----------------------------------------------------------------------------
(***************************************************************************)
(* The way out                                                             *)
(***************************************************************************)
LEMMA StoppedKeeps ==
  ASSUME SlotInv, NEW r \in Questions, Stopped(r)
  PROVE  SlotInv'
  <1>1. [Free EXCEPT !.at = "replied", !.answer = ask[r].answer] \in Ask
    BY FreeTyped DEF SlotInv, AskTyped, Ask
  <1>2. ask' = [ask EXCEPT ![r] = [Free EXCEPT !.at = "replied", !.answer = ask[r].answer]]
    BY DEF Stopped, Replied
  <1>3. AskTyped'
    BY <1>1, <1>2 DEF SlotInv, AskTyped
  <1>4. \A q \in Questions : ask'[q].at = IF q = r THEN "replied" ELSE ask[q].at
    BY <1>2 DEF SlotInv, AskTyped, Free
  <1>5. activeAssistantRequests = 1 /\ \A q \in Questions : ask[q].at \in InRoute <=> q = r
    BY DEF SlotInv, SlotFits, Stopped, InRoute
  <1>6. SlotFits'
    <2>1. activeAssistantRequests' = 0
      BY <1>5 DEF Stopped
    <2>2. \A q \in Questions : ask'[q].at \notin InRoute
      BY <1>4, <1>5 DEF InRoute
    <2> QED
      BY <2>1, <2>2 DEF SlotFits
  <1>7. SessionRuns'
    BY <1>4, <1>5 DEF SessionRuns, InRoute
  <1> QED
    BY <1>3, <1>6, <1>7 DEF SlotInv

LEMMA ForgottenKeeps ==
  ASSUME SlotInv, NEW r \in Questions, Forgotten(r)
  PROVE  SlotInv'
  <1>1. AskTyped'
    BY FreeTyped DEF SlotInv, AskTyped, Forgotten
  <1>2. \A q \in Questions : ask'[q].at = IF q = r THEN "free" ELSE ask[q].at
    BY DEF SlotInv, AskTyped, Forgotten, Free
  <1>3. \A q \in Questions : ask'[q].at \in InRoute <=> ask[q].at \in InRoute
    BY <1>2 DEF InRoute, Forgotten
  <1>4. SlotFits'
    BY <1>3 DEF SlotInv, SlotFits, Forgotten
  <1>5. SessionRuns'
    BY <1>2 DEF SlotInv, SessionRuns, Forgotten
  <1> QED
    BY <1>1, <1>4, <1>5 DEF SlotInv

-----------------------------------------------------------------------------
LEMMA StepSlotInv == SlotInv /\ [AssistantNext]_assistantVars => SlotInv'
  <1> SUFFICES ASSUME SlotInv, [AssistantNext]_assistantVars
               PROVE  SlotInv'
    OBVIOUS
  <1>1. ASSUME NEW p \in Pages, AnswerShown(p) \/ PageReloads(p) PROVE SlotInv'
    BY <1>1, SlotUnchanged DEF AnswerShown, PageReloads
  <1>2. ASSUME NEW p \in Pages, NEW r \in Questions, askAnalyst(p, r) PROVE SlotInv'
    BY <1>2, AskAnalystKeeps
  <1>3. ASSUME NEW r \in Questions, NEW k \in Kinds, collectKube(r, k) PROVE SlotInv'
    BY <1>3, CollectKubeKeeps
  <1>4. ASSUME NEW r \in Questions, SessionRequested(r) PROVE SlotInv'
    BY <1>4, SessionRequestedKeeps
  <1>5. ASSUME NEW r \in Questions, SessionCreated(r) PROVE SlotInv'
    BY <1>5, SessionCreatedKeeps
  <1>6. ASSUME NEW r \in Questions, ToolStarts(r) PROVE SlotInv'
    BY <1>6, ToolStartsKeeps
  <1>7. ASSUME NEW r \in Questions, ModelAnswers(r) PROVE SlotInv'
    BY <1>7, ModelAnswersKeeps
  <1>8. ASSUME NEW r \in Questions, SessionFails(r) PROVE SlotInv'
    BY <1>8, SessionFailsKeeps
  <1>9. ASSUME NEW r \in Questions, Stopped(r) PROVE SlotInv'
    BY <1>9, StoppedKeeps
  <1>10. ASSUME NEW r \in Questions, Forgotten(r) PROVE SlotInv'
    BY <1>10, ForgottenKeeps
  <1>11. CASE UNCHANGED assistantVars
    BY <1>11, SlotUnchanged DEF assistantVars
  <1> QED
    BY <1>1, <1>2, <1>3, <1>4, <1>5, <1>6, <1>7, <1>8, <1>9, <1>10, <1>11 DEF AssistantNext

LEMMA SlotInvEnough == SlotInv => SlotIsHeld
  <1> SUFFICES ASSUME SlotInv PROVE SlotIsHeld
    OBVIOUS
  <1>1. /\ activeAssistantRequests = Cardinality(InTheRoute)
        /\ Cardinality(InTheRoute) <= 1
    <2>1. CASE activeAssistantRequests = 0 /\ \A q \in Questions : ask[q].at \notin InRoute
      <3>1. InTheRoute = {}
        BY <2>1 DEF InTheRoute
      <3>2. Cardinality(InTheRoute) = 0
        BY <3>1, FS_EmptySet
      <3> QED
        BY <2>1, <3>2
    <2>2. CASE /\ activeAssistantRequests = 1
               /\ \E r \in Questions : \A q \in Questions : ask[q].at \in InRoute <=> q = r
      <3>1. PICK r \in Questions : InTheRoute = {r}
        BY <2>2 DEF InTheRoute
      <3>2. Cardinality(InTheRoute) = 1
        BY <3>1, FS_Singleton
      <3> QED
        BY <2>2, <3>2
    <2> QED
      BY <2>1, <2>2 DEF SlotInv, SlotFits
  <1> QED
    BY <1>1 DEF SlotInv, SessionRuns, SlotIsHeld

\* The slot is taken exactly while a question is in the route, whatever fails on
\* the way: no failure leaks it, and no two questions share it.
THEOREM SlotIsNeverLeaked == AssistantSpec => []SlotIsHeld
  <1>1. AssistantSpec => []SlotInv
    BY InitSlotInv, StepSlotInv, PTL DEF AssistantSpec
  <1> QED
    BY <1>1, SlotInvEnough, PTL

-----------------------------------------------------------------------------
(***************************************************************************)
(* The diagnostics drawer                                                  *)
(***************************************************************************)
DrawerTyped ==
    /\ selected \in Rows \cup {NoRow}
    /\ loading \in BOOLEAN /\ alone \in BOOLEAN
    /\ loads \in [Loads -> Load]

\* Nothing is loaded, and the drawer has the logs it can have ...
Rests ==
    /\ \A l \in Loads : loads[l] = NoLoad
    /\ loading = FALSE
    /\ trouble = "none" => logs = selected

\* ... or one load is under way, and it was made for the selection.
LoadsSelection(l) ==
    /\ loads[l] # NoLoad /\ loads[l].row = selected /\ selected \in Rows
    /\ \A other \in Loads \ {l} : loads[other] = NoLoad
    /\ loading = TRUE

DrawerFits ==
    alone =>
        /\ logs \in {selected, NoRow} /\ endpoints \subseteq {selected}
        /\ Rests \/ \E l \in Loads : LoadsSelection(l)

DrawerInv == DrawerTyped /\ DrawerFits

LEMMA InitDrawerInv == DiagnosticsInit => DrawerInv
  <1> SUFFICES ASSUME DiagnosticsInit PROVE DrawerInv
    OBVIOUS
  <1>1. NoLoad \in Load
    BY DEF Load, NoLoad, Results
  <1>2. DrawerTyped
    BY <1>1 DEF DiagnosticsInit, DrawerTyped
  <1>3. Rests
    BY DEF DiagnosticsInit, Rests
  <1> QED
    BY <1>2, <1>3 DEF DiagnosticsInit, DrawerInv, DrawerFits

LEMMA RowSelectedKeeps == ASSUME DrawerInv, RowSelected PROVE DrawerInv'
  <1>1. PICK row \in Rows, l \in Loads :
           /\ loads[l] = NoLoad
           /\ Select(row, l)
           /\ alone' = (\A other \in Loads : loads[other] = NoLoad)
    BY DEF RowSelected
  <1> DEFINE load == [row |-> row, logs |-> "pending",
                      endpoints |-> IF row \in ItemRows THEN "pending" ELSE "none"]
  <1>2. load \in Load /\ load # NoLoad /\ load.row = row
    BY DEF Load, NoLoad, Results
  <1>3. loads' = [loads EXCEPT ![l] = load]
    BY <1>1 DEF Select
  <1> HIDE DEF load
  <1>4. DrawerTyped'
    BY <1>1, <1>2, <1>3 DEF DrawerInv, DrawerTyped, Select
  <1>5. ASSUME alone' PROVE DrawerFits'
    <2>1. \A other \in Loads \ {l} : loads'[other] = NoLoad
      BY <1>1, <1>3, <1>5 DEF DrawerInv, DrawerTyped
    <2>2. loads'[l] = load
      BY <1>3 DEF DrawerInv, DrawerTyped
    <2>3. LoadsSelection(l)'
      BY <1>1, <1>2, <2>1, <2>2 DEF LoadsSelection, Select
    <2> QED
      BY <1>1, <2>3 DEF DrawerFits, Select, OwnEndpoints
  <1> QED
    BY <1>4, <1>5 DEF DrawerInv, DrawerFits

LEMMA ReadAnsweredKeeps ==
  ASSUME DrawerInv, NEW l \in Loads, ReadAnswered(l)
  PROVE  DrawerInv'
  <1>1. PICK load \in Load : /\ loads' = [loads EXCEPT ![l] = load]
                             /\ load # NoLoad /\ loads[l] # NoLoad /\ load.row = loads[l].row
    <2>1. PICK result \in {"failed", "read"} :
             \/ loads[l].logs = "pending" /\ loads' = [loads EXCEPT ![l].logs = result]
             \/ loads[l].endpoints = "pending" /\ loads' = [loads EXCEPT ![l].endpoints = result]
      BY DEF ReadAnswered
    <2>2. loads[l] \in Load
      BY DEF DrawerInv, DrawerTyped
    <2>3. CASE loads[l].logs = "pending" /\ loads' = [loads EXCEPT ![l].logs = result]
      <3> DEFINE load == [loads[l] EXCEPT !.logs = result]
      <3>1. load \in Load /\ load # NoLoad /\ loads[l] # NoLoad /\ load.row = loads[l].row
        BY <2>1, <2>2, <2>3 DEF Load, NoLoad, Results
      <3> QED
        BY <2>3, <3>1
    <2>4. CASE loads[l].endpoints = "pending" /\ loads' = [loads EXCEPT ![l].endpoints = result]
      <3> DEFINE load == [loads[l] EXCEPT !.endpoints = result]
      <3>1. load \in Load /\ load # NoLoad /\ loads[l] # NoLoad /\ load.row = loads[l].row
        BY <2>1, <2>2, <2>4 DEF Load, NoLoad, Results
      <3> QED
        BY <2>4, <3>1
    <2> QED
      BY <2>1, <2>3, <2>4
  <1>2. DrawerTyped'
    BY <1>1 DEF DrawerInv, DrawerTyped, ReadAnswered
  <1>3. ASSUME alone PROVE DrawerFits'
    <2>1. PICK k \in Loads : LoadsSelection(k)
      BY <1>1, <1>3 DEF DrawerInv, DrawerFits, Rests
    <2>2. k = l
      BY <1>1, <2>1 DEF LoadsSelection
    <2>3. LoadsSelection(l)'
      BY <1>1, <2>1, <2>2 DEF LoadsSelection, DrawerInv, DrawerTyped, ReadAnswered
    <2> QED
      BY <1>3, <2>3 DEF DrawerInv, DrawerFits, ReadAnswered
  <1> QED
    BY <1>2, <1>3 DEF DrawerInv, DrawerFits, ReadAnswered

LEMMA LoadEndsKeeps ==
  ASSUME DrawerInv, NEW l \in Loads, LoadEnds(l)
  PROVE  DrawerInv'
  <1>1. NoLoad \in Load
    BY DEF Load, NoLoad, Results
  <1>2. DrawerTyped'
    BY <1>1 DEF DrawerInv, DrawerTyped, LoadEnds
  <1>3. ASSUME alone PROVE DrawerFits'
    <2>1. PICK k \in Loads : LoadsSelection(k)
      BY <1>3 DEF DrawerInv, DrawerFits, Rests, LoadEnds
    <2>2. k = l
      BY <2>1 DEF LoadsSelection, LoadEnds
    <2>3. \A other \in Loads : loads'[other] = NoLoad
      BY <2>1, <2>2 DEF LoadsSelection, LoadEnds, DrawerInv, DrawerTyped
    <2>4. trouble' = "none" => logs' = selected
      BY <2>1, <2>2 DEF LoadsSelection, LoadEnds
    <2>5. Rests'
      BY <2>3, <2>4 DEF Rests, LoadEnds
    <2>6. logs' \in {selected, NoRow} /\ endpoints' \subseteq {selected}
      BY <1>3, <2>1, <2>2 DEF DrawerInv, DrawerFits, LoadsSelection, LoadEnds
    <2> QED
      BY <2>5, <2>6 DEF DrawerFits, LoadEnds
  <1> QED
    BY <1>2, <1>3 DEF DrawerInv, DrawerFits, LoadEnds

LEMMA StepDrawerInv == DrawerInv /\ [DiagnosticsNext]_drawerVars => DrawerInv'
  <1> SUFFICES ASSUME DrawerInv, [DiagnosticsNext]_drawerVars
               PROVE  DrawerInv'
    OBVIOUS
  <1>1. CASE RowSelected
    BY <1>1, RowSelectedKeeps
  <1>2. CASE JobFails
    BY <1>2 DEF JobFails, DrawerInv, DrawerTyped, DrawerFits, Rests, LoadsSelection
  <1>3. ASSUME NEW l \in Loads, ReadAnswered(l) PROVE DrawerInv'
    BY <1>3, ReadAnsweredKeeps
  <1>4. ASSUME NEW l \in Loads, LoadEnds(l) PROVE DrawerInv'
    BY <1>4, LoadEndsKeeps
  <1>5. CASE UNCHANGED drawerVars
    BY <1>5 DEF drawerVars, DrawerInv, DrawerTyped, DrawerFits, Rests, LoadsSelection
  <1> QED
    BY <1>1, <1>2, <1>3, <1>4, <1>5 DEF DiagnosticsNext

LEMMA DrawerInvEnough == DrawerInv => DrawerShowsSelection
  <1> SUFFICES ASSUME DrawerInv, alone, selected # NoRow
               PROVE  /\ logs \in {selected, NoRow} /\ endpoints \subseteq {selected}
                      /\ loading <=> \E l \in Loads : loads[l].row = selected
                      /\ ~loading /\ trouble = "none" => logs = selected
    BY DEF DrawerShowsSelection
  <1>1. logs \in {selected, NoRow} /\ endpoints \subseteq {selected}
    BY DEF DrawerInv, DrawerFits
  <1>2. CASE Rests
    BY <1>1, <1>2 DEF Rests, NoLoad
  <1>3. CASE \E l \in Loads : LoadsSelection(l)
    BY <1>1, <1>3 DEF LoadsSelection
  <1> QED
    BY <1>2, <1>3 DEF DrawerInv, DrawerFits

\* While loads do not overlap the drawer shows the selected row, or nothing
\* with an error, for any rows and whatever fails.
THEOREM DrawerFollows == DiagnosticsSpec => []DrawerShowsSelection
  <1>1. DiagnosticsSpec => []DrawerInv
    BY InitDrawerInv, StepDrawerInv, PTL DEF DiagnosticsSpec
  <1> QED
    BY <1>1, DrawerInvEnough, PTL

-----------------------------------------------------------------------------
(***************************************************************************)
(* The governed queries                                                    *)
(***************************************************************************)
\* No request, a request refused before a read, or one whose reads have been
\* started: it is waited for, one read has failed, or all have answered.
NothingAsked == request = NoAnswer /\ answer = NoAnswer /\ reads = NoReads

NothingRead ==
    /\ request \in Requests
    /\ reads = NoReads
    /\ answer \in {Refusal(400, "denied"), Refusal(503, "unavailable")}

Supported ==
    \/ answer = NoAnswer
    \/ \E code \in Nat : answer = Refusal(code, "unavailable")
    \/ /\ \A read \in DOMAIN reads : reads[read].end = "rows"
       /\ answer = Complete(request, reads[SubjectOf(request.template)].rows)

ReadsStarted ==
    /\ request \in Requests
    /\ Normalized(request)
    /\ reads \in [collect(request.template) -> Outcomes \cup {Running}]
    /\ Supported

QueryInv == NothingAsked \/ NothingRead \/ ReadsStarted

LEMMA StatusIsNatural == \A route, failure : StatusCode(route, failure) \in Nat
  BY DEF StatusCode

LEMMA SubjectIsCollected == \A r \in Requests : SubjectOf(r.template) \in collect(r.template)
  BY DEF SubjectOf, collect

LEMMA ExecuteKeeps == ASSUME QueryInv, execute PROVE QueryInv'
  <1>1. NothingAsked
    BY QueriesAssumption DEF QueryInv, execute, NothingRead, ReadsStarted
  <1>2. PICK r \in Requests :
           /\ request' = r
           /\ IF ~Normalized(r)
              THEN answer' = Refusal(400, "denied") /\ UNCHANGED reads
              ELSE IF r.route # "aks" /\ ~workspace
              THEN answer' = Refusal(503, "unavailable") /\ UNCHANGED reads
              ELSE /\ reads' = [read \in collect(r.template) |-> Running]
                   /\ UNCHANGED answer
    BY DEF execute
  <1>3. CASE ~Normalized(r) \/ (r.route # "aks" /\ ~workspace)
    BY <1>1, <1>2, <1>3 DEF NothingAsked, NothingRead, QueryInv, NoReads
  <1>4. CASE Normalized(r) /\ ~(r.route # "aks" /\ ~workspace)
    <2>1. reads' \in [collect(r.template) -> Outcomes \cup {Running}]
      BY <1>2, <1>4
    <2>2. answer' = NoAnswer
      BY <1>1, <1>2, <1>4 DEF NothingAsked
    <2>3. Normalized(request)' /\ (request \in Requests)' /\ (collect(request.template))' = collect(r.template)
      BY <1>2, <1>4 DEF Normalized, TemplatesOf, Allowed, Required, collect
    <2> QED
      BY <2>1, <2>2, <2>3 DEF ReadsStarted, Supported, QueryInv
  <1> QED
    BY <1>3, <1>4

LEMMA ReadEndsKeeps == ASSUME QueryInv, ReadEnds PROVE QueryInv'
  <1>1. PICK read \in Unfinished(reads), outcome \in Outcomes :
           /\ reads' = [reads EXCEPT ![read] = outcome]
           /\ answer' = IF answer # NoAnswer THEN answer ELSE AnswerAfter(reads')
    BY DEF ReadEnds
  <1>2. ReadsStarted
    BY <1>1 DEF QueryInv, NothingAsked, NothingRead, NoReads, Unfinished
  <1>3. reads[read].end # "rows"
    BY DEF Unfinished, Running
  <1>4. reads' \in [collect(request.template) -> Outcomes \cup {Running}]
    BY <1>1, <1>2 DEF ReadsStarted, Unfinished
  <1> DEFINE ends == reads'
  <1>5. /\ request' = request
        /\ ends \in [collect(request.template) -> Outcomes \cup {Running}]
    BY <1>4 DEF ReadEnds
  <1>6. Supported'
    <2>1. CASE answer # NoAnswer
      BY <1>1, <1>2, <1>3, <2>1 DEF ReadsStarted, Supported, Unfinished, Refusal
    <2>2. CASE answer = NoAnswer
      <3> DEFINE failed == {d \in DOMAIN ends : ends[d].end \in Failures}
      <3>1. answer' = IF failed # {}
                      THEN Refusal(StatusCode(request.route, ends[CHOOSE d \in failed : TRUE].end), "unavailable")
                      ELSE IF Unfinished(ends) # {} THEN NoAnswer
                      ELSE Complete(request, ends[SubjectOf(request.template)].rows)
        BY <1>1, <2>2 DEF AnswerAfter
      <3>2. CASE failed # {}
        BY <3>1, <3>2, StatusIsNatural DEF Supported
      <3>3. CASE failed = {} /\ Unfinished(ends) # {}
        BY <3>1, <3>3 DEF Supported
      <3>4. CASE failed = {} /\ Unfinished(ends) = {}
        <4>1. ASSUME NEW d \in DOMAIN ends PROVE ends[d].end = "rows"
          <5>1. ends[d] \in Outcomes \cup {Running} /\ ends[d] # Running
            BY <1>5, <3>4 DEF Unfinished
          <5>2. ends[d].end \notin Failures
            BY <3>4
          <5> QED
            BY <5>1, <5>2 DEF Outcomes
        <4>2. answer' = Complete(request', reads'[SubjectOf(request'.template)].rows)
          BY <1>5, <3>1, <3>4
        <4> QED
          BY <4>1, <4>2 DEF Supported
      <3> QED
        BY <3>2, <3>3, <3>4
    <2> QED
      BY <2>1, <2>2
  <1>7. ReadsStarted'
    BY <1>2, <1>5, <1>6 DEF ReadsStarted, Normalized, TemplatesOf, Allowed, Required
  <1> QED
    BY <1>7 DEF QueryInv

LEMMA StepQueryInv == QueryInv /\ [QueriesNext]_queryVars => QueryInv'
  <1> SUFFICES ASSUME QueryInv, [QueriesNext]_queryVars
               PROVE  QueryInv'
    OBVIOUS
  <1>1. CASE execute
    BY <1>1, ExecuteKeeps
  <1>2. CASE ReadEnds
    BY <1>2, ReadEndsKeeps
  <1>3. CASE QueryLeaves
    BY <1>3 DEF QueryLeaves, QueryInv, NothingAsked, NoReads
  <1>4. CASE UNCHANGED queryVars
    BY <1>4 DEF queryVars, QueryInv, NothingAsked, NothingRead, ReadsStarted, Supported, NoReads,
                Normalized, TemplatesOf, Allowed, Required
  <1> QED
    BY <1>1, <1>2, <1>3, <1>4 DEF QueriesNext

LEMMA RowsAreBounded ==
  ASSUME NEW outcome \in Outcomes \cup {Running}, outcome.end = "rows"
  PROVE  outcome.rows \in 0..MaxRows
  <1>1. CASE outcome \in [end : Failures, rows : {0}]
    <2>1. outcome.end \in Failures
      BY <1>1
    <2> QED
      BY <2>1 DEF Failures
  <1>2. CASE outcome \in [end : {"rows"}, rows : 0..MaxRows]
    BY <1>2
  <1>3. CASE outcome = Running
    BY <1>3 DEF Running
  <1> QED
    BY <1>1, <1>2, <1>3 DEF Outcomes

\* A complete answer has confidence exactly when it has rows to show.
LEMMA ConfidenceFits ==
  ASSUME NEW r \in Requests, NEW rows \in 0..MaxRows
  PROVE  /\ Complete(r, rows).status = "complete"
         /\ Complete(r, rows).confidence = "medium" <=> rows > 0
  <1>1. r.limit \in 1..MaxRows
    BY DEF Requests
  <1> QED
    BY <1>1, QueriesAssumption DEF Complete, Smaller

\* Every parameter that is let through is filtered by, and a required one is
\* there.
LEMMA FilterIsThere ==
  ASSUME NEW r \in Requests, Normalized(r), "query" \in collect(r.template)
  PROVE  /\ FilteredBy(r) = r.given \ {"minutes"}
         /\ r.template \in {"service-log-excerpts", "application-exceptions-errors", "incident-thread-timeline"} =>
               FilteredBy(r) # {}
  <1>1. r.route \in {"aks", "logs", "sre-agent"}
    BY DEF Requests, Routes
  <1>2. CASE r.route = "aks"
    <2>1. r.template \in AksQueries
      BY <1>2 DEF Normalized, TemplatesOf
    <2> QED
      BY <2>1 DEF AksQueries, collect
  <1>3. CASE r.route # "aks"
    <2>1. /\ r.given \subseteq Allowed(r.template)
          /\ Required(r.template) = Names \/ r.given \cap Required(r.template) # {}
      BY <1>3 DEF Normalized
    <2>2. FilteredBy(r) = r.given \ {"minutes"}
      <3>1. CASE r.route = "logs"
        <4>1. r.template \in LogTemplates
          BY <3>1 DEF Normalized, TemplatesOf
        <4> QED
          BY <2>1, <3>1, <4>1 DEF LogTemplates, FilteredBy, buildKqlTemplate, Allowed
      <3>2. CASE r.route = "sre-agent"
        <4>1. r.template \in EvidenceTemplates
          BY <3>2 DEF Normalized, TemplatesOf
        <4> QED
          BY <2>1, <3>2, <4>1 DEF EvidenceTemplates, FilteredBy, buildSreAgentEvidenceKql, Allowed
      <3> QED
        BY <1>1, <1>3, <3>1, <3>2
    <2>3. ASSUME r.template \in {"service-log-excerpts", "application-exceptions-errors", "incident-thread-timeline"}
          PROVE  r.given \ {"minutes"} # {}
      BY <2>1, <2>3 DEF Required, Names
    <2> QED
      BY <2>2, <2>3
  <1> QED
    BY <1>2, <1>3

LEMMA QueryInvEnough == QueryInv => QueryEvidence
  <1>1. CASE NothingAsked
    BY <1>1 DEF NothingAsked, QueryEvidence, NoReads
  <1>2. CASE NothingRead
    BY <1>2 DEF NothingRead, QueryEvidence, NoReads, Refusal
  <1>3. CASE ReadsStarted
    <2>1. DOMAIN reads = collect(request.template)
      BY <1>3 DEF ReadsStarted
    <2>2. CASE answer = NoAnswer
      BY <1>3, <2>1, <2>2, FilterIsThere DEF ReadsStarted, QueryEvidence
    <2>3. CASE \E code \in Nat : answer = Refusal(code, "unavailable")
      BY <1>3, <2>1, <2>3, FilterIsThere DEF ReadsStarted, QueryEvidence, Refusal
    <2>4. CASE /\ \A read \in DOMAIN reads : reads[read].end = "rows"
               /\ answer = Complete(request, reads[SubjectOf(request.template)].rows)
      <3> DEFINE subject == reads[SubjectOf(request.template)]
      <3>1. subject \in Outcomes \cup {Running} /\ subject.end = "rows"
        BY <1>3, <2>1, <2>4, SubjectIsCollected DEF ReadsStarted
      <3>2. subject.rows \in 0..MaxRows
        BY <3>1, RowsAreBounded
      <3>3. /\ answer.status = "complete"
            /\ answer.confidence = "medium" <=> subject.rows > 0
        BY <1>3, <2>4, <3>2, ConfidenceFits DEF ReadsStarted
      <3> QED
        BY <1>3, <2>1, <2>4, <3>3, FilterIsThere DEF ReadsStarted, QueryEvidence
    <2> QED
      BY <1>3, <2>2, <2>3, <2>4 DEF ReadsStarted, Supported
  <1> QED
    BY <1>1, <1>2, <1>3 DEF QueryInv

-----------------------------------------------------------------------------
(***************************************************************************)
(* The assistant's answers                                                 *)
(***************************************************************************)
\* A session is asked for when every read has ended, and an answer that is on
\* its way out was made from those reads.
ReadsFit ==
    \A r \in Questions :
        /\ ask[r].at \in {"starting", "answering", "stopping"} =>
              \A k \in Kinds : ask[r].reads[k] # "pending"
        /\ ask[r].at = "stopping" => ask[r].answer \in {Error(503), Explained(ask[r])}

ReadsInv == AskTyped /\ ReadsFit

LEMMA InitReadsInv == AssistantInit => ReadsInv
  BY FreeTyped DEF AssistantInit, ReadsInv, AskTyped, ReadsFit, Free

\* A step of one question that leaves the others alone.
LEMMA QuestionKeeps ==
  ASSUME ReadsInv, NEW r \in Questions, NEW q \in Ask, ask' = [ask EXCEPT ![r] = q],
         q.at \in {"starting", "answering", "stopping"} => \A k \in Kinds : q.reads[k] # "pending",
         q.at = "stopping" => q.answer \in {Error(503), Explained(q)}
  PROVE  ReadsInv'
  <1>1. ask' \in [Questions -> Ask] /\ \A o \in Questions : ask'[o] = IF o = r THEN q ELSE ask[o]
    BY DEF ReadsInv, AskTyped
  <1>2. ASSUME NEW o \in Questions
        PROVE  /\ ask'[o].at \in {"starting", "answering", "stopping"} =>
                     \A k \in Kinds : ask'[o].reads[k] # "pending"
               /\ ask'[o].at = "stopping" => ask'[o].answer \in {Error(503), Explained(ask'[o])}
    <2>1. CASE o = r
      <3>1. ask'[o] = q
        BY <1>1, <2>1
      <3> QED
        BY <3>1
    <2>2. CASE o # r
      <3>1. ask'[o] = ask[o]
        BY <1>1, <2>2
      <3> QED
        BY <3>1 DEF ReadsInv, ReadsFit
    <2> QED
      BY <2>1, <2>2
  <1> QED
    BY <1>1, <1>2 DEF ReadsInv, AskTyped, ReadsFit

LEMMA OtherQuestionsKeep == ASSUME ReadsInv, UNCHANGED ask PROVE ReadsInv'
  BY DEF ReadsInv, AskTyped, ReadsFit, Explained, responseStatus

LEMMA AskAnalystReads ==
  ASSUME ReadsInv, NEW r \in Questions, NEW body \in Bodies, NEW constructed \in BOOLEAN,
         Admitted(r, body, constructed)
  PROVE  ReadsInv'
  <1>1. ASSUME NEW given \in Answer,
               ask' = [ask EXCEPT ![r].at = "replied", ![r].answer = given]
        PROVE  ReadsInv'
    <2> DEFINE q == [ask[r] EXCEPT !.at = "replied", !.answer = given]
    <2>1. q \in Ask /\ q.at = "replied"
      BY DEF ReadsInv, AskTyped, Ask
    <2>2. ask' = [ask EXCEPT ![r] = q]
      BY <1>1 DEF ReadsInv, AskTyped
    <2> HIDE DEF q
    <2> QED
      BY <2>1, <2>2, QuestionKeeps
  <1>2. ASSUME ask' = [ask EXCEPT ![r].at = "collecting"] PROVE ReadsInv'
    <2> DEFINE q == [ask[r] EXCEPT !.at = "collecting"]
    <2>1. q \in Ask /\ q.at = "collecting"
      BY DEF ReadsInv, AskTyped, Ask, InRoute
    <2>2. ask' = [ask EXCEPT ![r] = q]
      BY <1>2 DEF ReadsInv, AskTyped
    <2> HIDE DEF q
    <2> QED
      BY <2>1, <2>2, QuestionKeeps
  <1> QED
    BY <1>1, <1>2, ErrorIsAnswer DEF Admitted

LEMMA CollectKubeReads ==
  ASSUME ReadsInv, NEW r \in Questions, NEW k \in Kinds, collectKube(r, k)
  PROVE  ReadsInv'
  <1>1. PICK result \in {"error", "empty", "some"} : ask' = [ask EXCEPT ![r].reads[k] = result]
    BY DEF collectKube
  <1> DEFINE q == [ask[r] EXCEPT !.reads[k] = result]
  <1>2. q \in Ask /\ q.at = "collecting"
    BY <1>1 DEF ReadsInv, AskTyped, Ask, collectKube
  <1>3. ask' = [ask EXCEPT ![r] = q]
    BY <1>1 DEF ReadsInv, AskTyped
  <1> HIDE DEF q
  <1> QED
    BY <1>2, <1>3, QuestionKeeps

\* A session is asked for, is created, or its model asks for the snapshot.
LEMMA SessionReads ==
  ASSUME ReadsInv, NEW r \in Questions, SessionRequested(r) \/ SessionCreated(r) \/ ToolStarts(r)
  PROVE  ReadsInv'
  <1>1. ask[r] \in Ask
    BY DEF ReadsInv, AskTyped
  <1>2. \A k \in Kinds : ask[r].reads[k] # "pending"
    BY DEF ReadsInv, ReadsFit, SessionRequested, SessionCreated, ToolStarts
  <1>3. PICK at \in {"starting", "answering"}, used \in BOOLEAN :
           ask' = [ask EXCEPT ![r] = [ask[r] EXCEPT !.at = at, !.toolUsed = used]]
    <2>1. CASE SessionRequested(r)
      <3>1. ask' = [ask EXCEPT ![r] = [ask[r] EXCEPT !.at = "starting", !.toolUsed = ask[r].toolUsed]]
        BY <1>1, <2>1 DEF SessionRequested, ReadsInv, AskTyped, Ask
      <3> QED
        BY <1>1, <3>1 DEF Ask
    <2>2. CASE SessionCreated(r)
      <3>1. ask' = [ask EXCEPT ![r] = [ask[r] EXCEPT !.at = "answering", !.toolUsed = ask[r].toolUsed]]
        BY <1>1, <2>2 DEF SessionCreated, ReadsInv, AskTyped, Ask
      <3> QED
        BY <1>1, <3>1 DEF Ask
    <2>3. CASE ToolStarts(r)
      <3>1. ask' = [ask EXCEPT ![r] = [ask[r] EXCEPT !.at = "answering", !.toolUsed = TRUE]]
        BY <1>1, <2>3 DEF ToolStarts, ReadsInv, AskTyped, Ask
      <3> QED
        BY <3>1
    <2> QED
      BY <2>1, <2>2, <2>3
  <1> DEFINE q == [ask[r] EXCEPT !.at = at, !.toolUsed = used]
  <1>4. q \in Ask /\ q.at # "stopping" /\ \A k \in Kinds : q.reads[k] # "pending"
    BY <1>1, <1>2 DEF Ask, InRoute
  <1> HIDE DEF q
  <1> QED
    BY <1>3, <1>4, QuestionKeeps DEF q

LEMMA AnswerReads ==
  ASSUME ReadsInv, NEW r \in Questions, ModelAnswers(r) \/ SessionFails(r)
  PROVE  ReadsInv'
  <1>1. ask[r] \in Ask
    BY DEF ReadsInv, AskTyped
  <1>2. \A k \in Kinds : ask[r].reads[k] # "pending"
    BY DEF ReadsInv, ReadsFit, ModelAnswers, SessionFails
  <1>3. PICK given \in {Error(503), Explained(ask[r])} :
           ask' = [ask EXCEPT ![r] = [ask[r] EXCEPT !.at = "stopping", !.answer = given]]
    <2>1. PICK given \in {Error(503), Explained(ask[r])} :
             ask' = [ask EXCEPT ![r].at = "stopping", ![r].answer = given]
      BY DEF ModelAnswers, SessionFails
    <2>2. ASSUME NEW reply, ask' = [ask EXCEPT ![r].at = "stopping", ![r].answer = reply]
          PROVE  ask' = [ask EXCEPT ![r] = [ask[r] EXCEPT !.at = "stopping", !.answer = reply]]
      BY <2>2 DEF ReadsInv, AskTyped
    <2> QED
      BY <2>1, <2>2, Zenon
  <1>4. given \in Answer
    BY ErrorIsAnswer, ExplainedIsAnswer
  <1> DEFINE q == [ask[r] EXCEPT !.at = "stopping", !.answer = given]
  <1>5. /\ q \in Ask /\ q.answer = given
        /\ q.reads = ask[r].reads /\ q.toolUsed = ask[r].toolUsed
    BY <1>1, <1>4 DEF Ask, InRoute
  <1>6. ask' = [ask EXCEPT ![r] = q]
    BY <1>3
  <1> HIDE DEF q
  <1>7. Explained(q) = Explained(ask[r])
    BY <1>5 DEF Explained, responseStatus
  <1> QED
    BY <1>2, <1>5, <1>6, <1>7, QuestionKeeps

LEMMA LeavingReads ==
  ASSUME ReadsInv, NEW r \in Questions, Stopped(r) \/ Forgotten(r)
  PROVE  ReadsInv'
  <1>1. [Free EXCEPT !.at = "replied", !.answer = ask[r].answer] \in Ask
    BY FreeTyped DEF ReadsInv, AskTyped, Ask
  <1>2. PICK q \in Ask : q.at \in {"free", "replied"} /\ ask' = [ask EXCEPT ![r] = q]
    BY <1>1, FreeTyped DEF Stopped, Forgotten, Replied, Free
  <1> QED
    BY <1>2, QuestionKeeps

LEMMA StepReadsInv == ReadsInv /\ [AssistantNext]_assistantVars => ReadsInv'
  <1> SUFFICES ASSUME ReadsInv, [AssistantNext]_assistantVars
               PROVE  ReadsInv'
    OBVIOUS
  <1>1. ASSUME NEW p \in Pages, AnswerShown(p) \/ PageReloads(p) PROVE ReadsInv'
    BY <1>1, OtherQuestionsKeep DEF AnswerShown, PageReloads
  <1>2. ASSUME NEW p \in Pages, NEW r \in Questions, askAnalyst(p, r) PROVE ReadsInv'
    BY <1>2, AskAnalystReads DEF askAnalyst
  <1>3. ASSUME NEW r \in Questions, NEW k \in Kinds, collectKube(r, k) PROVE ReadsInv'
    BY <1>3, CollectKubeReads
  <1>4. ASSUME NEW r \in Questions, SessionRequested(r) \/ SessionCreated(r) \/ ToolStarts(r) PROVE ReadsInv'
    BY <1>4, SessionReads
  <1>5. ASSUME NEW r \in Questions, ModelAnswers(r) \/ SessionFails(r) PROVE ReadsInv'
    BY <1>5, AnswerReads
  <1>6. ASSUME NEW r \in Questions, Stopped(r) \/ Forgotten(r) PROVE ReadsInv'
    BY <1>6, LeavingReads
  <1>7. CASE UNCHANGED assistantVars
    BY <1>7, OtherQuestionsKeep DEF assistantVars
  <1> QED
    BY <1>1, <1>2, <1>3, <1>4, <1>5, <1>6, <1>7 DEF AssistantNext

LEMMA ReadsInvEnough == ReadsInv => AssistantEvidence
  <1> SUFFICES ASSUME ReadsInv, NEW r \in Questions,
                      ask[r].at = "stopping", ask[r].answer.status = "ok"
               PROVE  /\ ask[r].toolUsed
                      /\ \A k \in Kinds : ask[r].reads[k] \in {"empty", "some"}
                      /\ ask[r].answer.confidence = "high" =>
                            "some" \in {ask[r].reads["pods"], ask[r].reads["deployments"]}
    BY DEF AssistantEvidence
  <1>1. ask[r].answer = Explained(ask[r])
    BY DEF ReadsInv, ReadsFit, Error
  <1>2. responseStatus(ask[r]) = "ok"
    BY <1>1 DEF Explained
  <1>3. ask[r].toolUsed /\ \A k \in Kinds : ask[r].reads[k] # "error"
    BY <1>2 DEF responseStatus
  <1>4. \A k \in Kinds : ask[r].reads[k] \in {"empty", "some"}
    BY <1>3 DEF ReadsInv, ReadsFit, AskTyped, Ask
  <1>5. ask[r].answer.confidence = "high" =>
           "some" \in {ask[r].reads["pods"], ask[r].reads["deployments"]}
    BY <1>1, <1>2 DEF Explained
  <1> QED
    BY <1>3, <1>4, <1>5

-----------------------------------------------------------------------------
\* No answer claims more than its reads delivered, neither a governed query's
\* nor the assistant's, for any number of rows, pages and questions.
THEOREM AnswersAreBacked == MCSpec => []EvidenceBacked
  <1>1. MCInit => QueryInv /\ ReadsInv
    BY InitReadsInv DEF MCInit, QueriesInit, QueryInv, NothingAsked
  <1>2. QueryInv /\ ReadsInv /\ [MCNext]_<<part, inventoryVars, queryVars, assistantVars, drawerVars>>
        => QueryInv' /\ ReadsInv'
    <2> SUFFICES ASSUME QueryInv, ReadsInv,
                        [MCNext]_<<part, inventoryVars, queryVars, assistantVars, drawerVars>>
                 PROVE  QueryInv' /\ ReadsInv'
      OBVIOUS
    <2>1. [QueriesNext]_queryVars /\ [AssistantNext]_assistantVars
      BY DEF MCNext
    <2> QED
      BY <2>1, StepQueryInv, StepReadsInv
  <1>3. QueryInv /\ ReadsInv => EvidenceBacked
    BY QueryInvEnough, ReadsInvEnough DEF EvidenceBacked
  <1> QED
    BY <1>1, <1>2, <1>3, PTL DEF MCSpec

-----------------------------------------------------------------------------
(***************************************************************************)
(* Counting the pods of a deployment                                       *)
(***************************************************************************)
PodsTyped(pods) == pods \in [Slots -> PodState \cup {NoPod}]

\* The pods of others that the API, or the page, takes for the deployment's.
RelationsFit == namesakes \subseteq Others /\ lookalikes \subseteq Others

LEMMA SlotsFinite == IsFiniteSet(Slots)
  BY InventoryAssumption, FS_Union DEF Slots

LEMMA PodsAreCounted ==
  ASSUME NEW pods, NEW S \in SUBSET Slots
  PROVE  /\ IsFiniteSet(ReadyPods(pods, S)) /\ Serving(pods, S) \in Nat
         /\ IsFiniteSet(SaidRunning(pods, S)) /\ Cardinality(SaidRunning(pods, S)) \in Nat
         /\ IsFiniteSet(InRunningPhase(pods, S)) /\ Cardinality(InRunningPhase(pods, S)) \in Nat
  <1>1. /\ ReadyPods(pods, S) \subseteq Slots
        /\ SaidRunning(pods, S) \subseteq Slots
        /\ InRunningPhase(pods, S) \subseteq Slots
    BY DEF ReadyPods, SaidRunning, InRunningPhase, Listed
  <1> QED
    BY <1>1, SlotsFinite, FS_Subset, FS_CardinalityType DEF Serving

LEMMA ReadyMeansRunning ==
  \A pod \in PodState : /\ pod.ready => pod.status = "Running"
                        /\ pod.status = "Running" => pod.phase = "Running"
  BY DEF PodState, Waiting, Exited

\* A ready pod is running, and a running one in the running phase.
LEMMA PodsNest ==
  ASSUME NEW pods, PodsTyped(pods), NEW S \in SUBSET Slots
  PROVE  /\ ReadyPods(pods, S) \subseteq SaidRunning(pods, S)
         /\ Serving(pods, S) <= Cardinality(SaidRunning(pods, S))
         /\ Cardinality(SaidRunning(pods, S)) <= Cardinality(InRunningPhase(pods, S))
  <1>1. ReadyPods(pods, S) \subseteq SaidRunning(pods, S)
    BY ReadyMeansRunning DEF PodsTyped, ReadyPods, SaidRunning, Listed
  <1>2. SaidRunning(pods, S) \subseteq InRunningPhase(pods, S)
    BY ReadyMeansRunning DEF PodsTyped, SaidRunning, InRunningPhase, Listed
  <1> QED
    BY <1>1, <1>2, PodsAreCounted, FS_Subset DEF Serving

\* Pods of others that are taken for the deployment's add to what it has, and
\* make no difference while none of them is ready.
LEMMA OthersAdd ==
  ASSUME NEW pods, NEW S \in SUBSET Others
  PROVE  /\ Serving(pods, Own) <= Serving(pods, Own \cup S)
         /\ ReadyPods(pods, S) = {} => Serving(pods, Own \cup S) = Serving(pods, Own)
  <1>1. ReadyPods(pods, Own \cup S) = ReadyPods(pods, Own) \cup ReadyPods(pods, S)
    BY DEF ReadyPods, Listed
  <1>2. Own \cup S \in SUBSET Slots
    BY DEF Slots
  <1>3. IsFiniteSet(ReadyPods(pods, Own \cup S))
    BY <1>2, PodsAreCounted
  <1> QED
    BY <1>1, <1>3, FS_Subset DEF Serving

LEMMA NoneReady ==
  ASSUME NEW pods, NEW S
  PROVE  ReadyPods(pods, S) = {} => Serving(pods, S) = 0
  BY FS_EmptySet DEF Serving

-----------------------------------------------------------------------------
(***************************************************************************)
(* The cluster                                                             *)
(***************************************************************************)
Deployments ==
    [desired : Nat, service : Services, pods : [Slots -> PodState \cup {NoPod}],
     readyReplicas : Nat, endpoints : [ready : Nat, notReady : Nat]]

ClusterTyped == RelationsFit /\ cluster \in Deployments

LEMMA RelationsTyped ==
  ASSUME ClusterTyped
  PROVE  /\ Own \in SUBSET Slots /\ Selected \in SUBSET Slots /\ Related \in SUBSET Slots
         /\ Selected = Own \cup lookalikes /\ lookalikes \in SUBSET Others
         /\ Related = Own \cup namesakes /\ namesakes \in SUBSET Others
  BY DEF ClusterTyped, RelationsFit, Selected, Related, Slots

LEMMA EndpointsTyped == ClusterTyped => EndpointsOf(cluster) \in [ready : Nat, notReady : Nat]
  <1> SUFFICES ASSUME ClusterTyped PROVE EndpointsOf(cluster) \in [ready : Nat, notReady : Nat]
    OBVIOUS
  <1> DEFINE unready == InRunningPhase(cluster.pods, Selected) \ ReadyPods(cluster.pods, Selected)
  <1>1. IsFiniteSet(InRunningPhase(cluster.pods, Selected)) /\ Serving(cluster.pods, Selected) \in Nat
    BY RelationsTyped, PodsAreCounted
  <1>2. IsFiniteSet(unready)
    BY <1>1, FS_Subset
  <1>3. Cardinality(unready) \in Nat
    BY <1>2, FS_CardinalityType
  <1> QED
    BY <1>1, <1>3 DEF EndpointsOf

LEMMA StepClusterTyped ==
  ASSUME ClusterTyped, [InventoryNext]_inventoryVars
  PROVE  ClusterTyped'
  <1> SUFFICES cluster' \in Deployments
    BY DEF ClusterTyped, RelationsFit, InventoryNext, inventoryVars, relations, ManifestApplied,
           StatusUpdated, EndpointsUpdated, PodAdded, PodChanges, PodRemoved, OtherChanges, Becomes,
           RefreshBegins, loadInventory, InventoryFails, LegacyRead, deriveInventory, loadRuntime
  <1>1. CASE ManifestApplied
    <2>1. PICK d \in 0..Replicas, service \in Services :
             cluster' = [cluster EXCEPT !.desired = d, !.service = service]
      BY <1>1 DEF ManifestApplied, Becomes
    <2>2. d \in Nat
      BY <2>1, InventoryAssumption
    <2> QED
      BY <2>1, <2>2 DEF ClusterTyped, Deployments
  <1>2. CASE StatusUpdated
    <2>1. cluster' = [cluster EXCEPT !.readyReplicas = Serving(cluster.pods, Own)]
      BY <1>2 DEF StatusUpdated, Becomes
    <2>2. Serving(cluster.pods, Own) \in Nat
      BY RelationsTyped, PodsAreCounted
    <2> QED
      BY <2>1, <2>2 DEF ClusterTyped, Deployments
  <1>3. CASE EndpointsUpdated
    <2>1. cluster' = [cluster EXCEPT !.endpoints = EndpointsOf(cluster)]
      BY <1>3 DEF EndpointsUpdated, Becomes
    <2> QED
      BY <2>1, EndpointsTyped DEF ClusterTyped, Deployments
  <1>4. ASSUME NEW s \in Slots, NEW pod \in PodState \cup {NoPod},
               cluster' = [cluster EXCEPT !.pods[s] = pod]
        PROVE  cluster' \in Deployments
    BY <1>4 DEF ClusterTyped, Deployments
  <1>5. Own \subseteq Slots /\ Others \subseteq Slots
        /\ OwnStates \subseteq PodState /\ OtherStates \subseteq PodState
    BY InventoryAssumption DEF Slots
  <1>6. ASSUME NEW s \in Own, PodAdded(s) PROVE cluster' \in Deployments
    <2> DEFINE pod == [phase |-> "Pending", status |-> "ContainerCreating", ready |-> FALSE, restarted |-> FALSE]
    <2>1. cluster' = [cluster EXCEPT !.pods[s] = pod]
      BY <1>6 DEF PodAdded, Becomes
    <2>2. pod \in PodState
      BY InventoryAssumption
    <2> HIDE DEF pod
    <2> QED
      BY <1>4, <1>5, <2>1, <2>2
  <1>7. ASSUME NEW s \in Own, PodChanges(s) PROVE cluster' \in Deployments
    <2>1. PICK pod \in OwnStates : cluster' = [cluster EXCEPT !.pods[s] = pod]
      BY <1>7 DEF PodChanges, Becomes
    <2> QED
      BY <1>4, <1>5, <2>1
  <1>8. ASSUME NEW s \in Own, PodRemoved(s) PROVE cluster' \in Deployments
    <2>1. cluster' = [cluster EXCEPT !.pods[s] = NoPod]
      BY <1>8 DEF PodRemoved, Becomes
    <2> QED
      BY <1>4, <1>5, <2>1
  <1>9. ASSUME NEW s \in Others, OtherChanges(s) PROVE cluster' \in Deployments
    <2>1. PICK pod \in OtherStates \cup {NoPod} : cluster' = [cluster EXCEPT !.pods[s] = pod]
      BY <1>9 DEF OtherChanges, Becomes
    <2> QED
      BY <1>4, <1>5, <2>1
  <1>10. CASE UNCHANGED cluster
    BY <1>10 DEF ClusterTyped
  <1> QED
    BY <1>1, <1>2, <1>3, <1>6, <1>7, <1>8, <1>9, <1>10
       DEF InventoryNext, inventoryVars, RefreshBegins, loadInventory, InventoryFails, LegacyRead,
           deriveInventory, loadRuntime

LEMMA InitClusterTyped == InventoryInit => ClusterTyped
  BY InventoryAssumption DEF InventoryInit, ClusterTyped, RelationsFit, Deployments, Services

-----------------------------------------------------------------------------
(***************************************************************************)
(* The two classifications of a deployment                                 *)
(***************************************************************************)
\* What of a deployment the older list says, and what the fallback derives
\* depends on nothing else.
Seen(c) == [desired |-> c.desired, readyReplicas |-> c.readyReplicas]

LEMMA DerivedFromSeen == \A c, pods : deriveSeverity(Seen(c), pods) = deriveSeverity(c, pods)
  BY DEF deriveSeverity, Seen

\* The two ways to a number of ready pods: those it sees, or the recorded count.
CountedReady(d, pods) ==
    IF ReadyPods(pods, Related) # {} THEN Serving(pods, Related) ELSE d.readyReplicas

LEMMA DerivedBranches ==
  ASSUME NEW d, NEW pods
  PROVE  deriveSeverity(d, pods) =
            IF \/ Failing(pods, Related) # {}
               \/ Cardinality(SaidRunning(pods, Related)) < d.desired
               \/ CountedReady(d, pods) < d.desired THEN "critical"
            ELSE IF Restarted(pods, Related) # {} \/ SaidRunning(pods, Related) # Listed(pods, Related)
            THEN "warning"
            ELSE "healthy"
  BY DEF deriveSeverity, CountedReady

LEMMA DerivedHealthy ==
  ASSUME NEW d, NEW pods, deriveSeverity(d, pods) = "healthy"
  PROVE  /\ SaidRunning(pods, Related) = Listed(pods, Related) /\ Failing(pods, Related) = {}
         /\ ~(Cardinality(SaidRunning(pods, Related)) < d.desired)
         /\ ~(CountedReady(d, pods) < d.desired)
  BY DerivedBranches, Zenon

LEMMA DerivedCritical ==
  ASSUME NEW d, NEW pods, deriveSeverity(d, pods) = "critical"
  PROVE  \/ Failing(pods, Related) # {}
         \/ Cardinality(SaidRunning(pods, Related)) < d.desired
         \/ CountedReady(d, pods) < d.desired
  BY DerivedBranches, Zenon

LEMMA ClassifiedHealthy ==
  ASSUME NEW c, NEW marked, NEW warned, classifyDeployment(c, marked, warned) = "healthy"
  PROVE  /\ Critical(c.pods, Selected) = {} /\ Warning(c.pods, Selected) = {}
         /\ ~(Serving(c.pods, Selected) < c.desired) /\ ~(c.readyReplicas < c.desired)
         /\ ~emptyService(c, marked)
  BY Zenon DEF classifyDeployment

LEMMA ClassifiedCritical ==
  ASSUME NEW c, NEW marked, NEW warned, classifyDeployment(c, marked, warned) = "critical"
  PROVE  \/ c.desired = 0 /\ marked
         \/ c.desired > 0 /\ Listed(c.pods, Selected) = {}
         \/ Critical(c.pods, Selected) # {}
         \/ Serving(c.pods, Selected) < c.desired
         \/ Cardinality(InRunningPhase(c.pods, Selected)) < c.desired
         \/ c.readyReplicas < c.desired
         \/ emptyService(c, marked)
  BY Zenon DEF classifyDeployment

LEMMA DerivesTyped ==
  /\ \A d, pods : deriveSeverity(d, pods) \in Severities
  /\ \A c, marked, warned : classifyDeployment(c, marked, warned) \in Severities
  <1>1. ASSUME NEW d, NEW pods PROVE deriveSeverity(d, pods) \in Severities
    <2>1. deriveSeverity(d, pods) \in {"critical", "warning", "healthy"}
      BY Zenon DEF deriveSeverity
    <2> QED
      BY <2>1 DEF Severities
  <1>2. ASSUME NEW c, NEW marked, NEW warned PROVE classifyDeployment(c, marked, warned) \in Severities
    <2>1. classifyDeployment(c, marked, warned) \in {"critical", "warning", "healthy"}
      BY Zenon DEF classifyDeployment
    <2> QED
      BY <2>1 DEF Severities
  <1> QED
    BY <1>1, <1>2

\* Counting the ready and the running pods of the cluster, of the deployment and
\* with those of others.
LEMMA ClusterCounts ==
  ASSUME ClusterTyped
  PROVE  LET own == Serving(cluster.pods, Own)
             matched == Serving(cluster.pods, Selected)
             related == Serving(cluster.pods, Related)
             running == Cardinality(SaidRunning(cluster.pods, Related))
             phase == Cardinality(InRunningPhase(cluster.pods, Selected))
         IN  /\ cluster.desired \in Nat /\ cluster.readyReplicas \in Nat
             /\ own \in Nat /\ matched \in Nat /\ related \in Nat /\ running \in Nat /\ phase \in Nat
             /\ own <= matched /\ matched <= phase /\ own <= related /\ related <= running
             /\ ReadyPods(cluster.pods, lookalikes) = {} => matched = own
             /\ ReadyPods(cluster.pods, namesakes) = {} => related = own
             /\ ReadyPods(cluster.pods, Related) = {} => related = 0
  <1>1. PodsTyped(cluster.pods) /\ cluster.desired \in Nat /\ cluster.readyReplicas \in Nat
    BY DEF ClusterTyped, Deployments, PodsTyped
  <1>2. /\ Serving(cluster.pods, Own) \in Nat /\ Serving(cluster.pods, Selected) \in Nat
        /\ Serving(cluster.pods, Related) \in Nat
        /\ Cardinality(SaidRunning(cluster.pods, Related)) \in Nat
        /\ Cardinality(SaidRunning(cluster.pods, Selected)) \in Nat
        /\ Cardinality(InRunningPhase(cluster.pods, Selected)) \in Nat
    BY RelationsTyped, PodsAreCounted
  <1>3. /\ Serving(cluster.pods, Own) <= Serving(cluster.pods, Selected)
        /\ Serving(cluster.pods, Own) <= Serving(cluster.pods, Related)
        /\ ReadyPods(cluster.pods, lookalikes) = {} => Serving(cluster.pods, Selected) = Serving(cluster.pods, Own)
        /\ ReadyPods(cluster.pods, namesakes) = {} => Serving(cluster.pods, Related) = Serving(cluster.pods, Own)
    BY RelationsTyped, OthersAdd
  <1>4. /\ Serving(cluster.pods, Related) <= Cardinality(SaidRunning(cluster.pods, Related))
        /\ Serving(cluster.pods, Selected) <= Cardinality(SaidRunning(cluster.pods, Selected))
        /\ Cardinality(SaidRunning(cluster.pods, Selected)) <= Cardinality(InRunningPhase(cluster.pods, Selected))
    BY <1>1, RelationsTyped, PodsNest
  <1> QED
    BY <1>1, <1>2, <1>3, <1>4, NoneReady

\* What the fallback calls healthy is critical for the API only for the reasons
\* that FallbackAgrees names.
LEMMA HealthyNotCritical ==
  ASSUME ClusterTyped, NEW marked \in BOOLEAN, NEW warned \in BOOLEAN,
         deriveSeverity(cluster, cluster.pods) = "healthy",
         classifyDeployment(cluster, marked, warned) = "critical",
         ~StatusLags, ~StandsIn(namesakes), Critical(cluster.pods, lookalikes) = {}
  PROVE  emptyService(cluster, marked) \/ (cluster.desired = 0 /\ marked)
  <1> DEFINE own == Serving(cluster.pods, Own)
             matched == Serving(cluster.pods, Selected)
             related == Serving(cluster.pods, Related)
             running == Cardinality(SaidRunning(cluster.pods, Related))
             phase == Cardinality(InRunningPhase(cluster.pods, Selected))
  <1>1. /\ cluster.desired \in Nat /\ own \in Nat /\ matched \in Nat /\ related \in Nat /\ phase \in Nat
        /\ own <= matched /\ matched <= phase
        /\ ReadyPods(cluster.pods, namesakes) = {} => related = own
    BY ClusterCounts
  <1>2. /\ SaidRunning(cluster.pods, Related) = Listed(cluster.pods, Related)
        /\ ~(CountedReady(cluster, cluster.pods) < cluster.desired)
    BY DerivedHealthy
  <1>3. cluster.readyReplicas = own
    BY DEF StatusLags
  <1>4. CountedReady(cluster, cluster.pods) \in {related, own}
    BY <1>3 DEF CountedReady
  <1>5. ReadyPods(cluster.pods, namesakes) = {} \/ ~(own < cluster.desired)
    BY DEF StandsIn
  <1>6. Critical(cluster.pods, Selected) = {}
    <2>1. Critical(cluster.pods, Own) = {}
      BY <1>2 DEF Critical, SaidRunning, Listed, isCriticalReason, Related
    <2> QED
      BY <2>1 DEF Critical, Listed, Selected
  <1>7. Listed(cluster.pods, Selected) = {} => matched = 0
    BY NoneReady DEF ReadyPods
  <1> HIDE DEF own, matched, related, running, phase
  <1>8. ~(own < cluster.desired)
    BY <1>1, <1>2, <1>4, <1>5
  <1>9. /\ ~(matched < cluster.desired) /\ ~(phase < cluster.desired)
        /\ ~(cluster.readyReplicas < cluster.desired)
        /\ ~(cluster.desired > 0 /\ Listed(cluster.pods, Selected) = {})
    BY <1>1, <1>3, <1>7, <1>8
  <1> QED
    BY <1>6, <1>9, ClassifiedCritical DEF matched, phase

\* What the API calls healthy the fallback does not call critical, but for the
\* reasons that FallbackAgrees names.
LEMMA HealthyNotDerivedCritical ==
  ASSUME ClusterTyped, NEW marked \in BOOLEAN, NEW warned \in BOOLEAN,
         classifyDeployment(cluster, marked, warned) = "healthy",
         deriveSeverity(cluster, cluster.pods) = "critical",
         Failing(cluster.pods, namesakes) = {}
  PROVE  StatusLags /\ StandsIn(lookalikes)
  <1> DEFINE own == Serving(cluster.pods, Own)
             matched == Serving(cluster.pods, Selected)
             related == Serving(cluster.pods, Related)
             running == Cardinality(SaidRunning(cluster.pods, Related))
  <1>1. /\ cluster.desired \in Nat /\ cluster.readyReplicas \in Nat
        /\ own \in Nat /\ matched \in Nat /\ related \in Nat /\ running \in Nat
        /\ own <= related /\ related <= running
        /\ ReadyPods(cluster.pods, lookalikes) = {} => matched = own
        /\ ReadyPods(cluster.pods, Related) = {} => related = 0
    BY ClusterCounts
  <1>2. /\ Critical(cluster.pods, Selected) = {} /\ Warning(cluster.pods, Selected) = {}
        /\ ~(matched < cluster.desired) /\ ~(cluster.readyReplicas < cluster.desired)
    BY ClassifiedHealthy
  <1>3. Failing(cluster.pods, Related) = {}
    <2>1. Failing(cluster.pods, Own) = {}
      BY <1>2 DEF Failing, Critical, Warning, Listed, isFailing, isCriticalReason, isWarningReason, Selected
    <2> QED
      BY <2>1 DEF Failing, Listed, Related
  <1>4. running < cluster.desired \/ CountedReady(cluster, cluster.pods) < cluster.desired
    BY <1>3, DerivedCritical
  <1>5. CountedReady(cluster, cluster.pods) =
           IF ReadyPods(cluster.pods, Related) # {} THEN related ELSE cluster.readyReplicas
    BY DEF CountedReady
  <1>6. own < cluster.desired /\ ReadyPods(cluster.pods, lookalikes) # {} /\ cluster.readyReplicas # own
        => StatusLags /\ StandsIn(lookalikes)
    BY DEF StatusLags, StandsIn
  <1> HIDE DEF own, matched, related, running
  <1>7. own < cluster.desired
    BY <1>1, <1>2, <1>4, <1>5
  <1>8. ReadyPods(cluster.pods, lookalikes) # {} /\ cluster.readyReplicas # own
    BY <1>1, <1>2, <1>7
  <1> QED
    BY <1>6, <1>7, <1>8

\* Whatever happens to the cluster, and for any number of pods of any state, the
\* two classifications contradict each other only for the reasons FallbackAgrees
\* names: want of endpoints, a scenario without replicas, a replica count that
\* lags, and pods of other controllers that one of the two takes in.
THEOREM FallbackIsClose == InventorySpec => []FallbackAgrees
  <1>1. InventorySpec => []ClusterTyped
    BY InitClusterTyped, StepClusterTyped, PTL DEF InventorySpec
  <1>2. ClusterTyped => FallbackAgrees
    BY HealthyNotCritical, HealthyNotDerivedCritical DEF FallbackAgrees
  <1> QED
    BY <1>1, <1>2, PTL

-----------------------------------------------------------------------------
(***************************************************************************)
(* What the page says of the cluster                                       *)
(***************************************************************************)
ClassifiedNominal ==
    \E marked, warned \in BOOLEAN : classifyDeployment(cluster, marked, warned) = "healthy"

DerivedNominal == deriveSeverity(Seen(cluster), cluster.pods) = "healthy"

\* While nothing moves, what the reads of the fallback brought is the cluster.
PollFits ==
    \/ poll = [at |-> "inventory"]
    \/ \E at \in {"runtime", "idle"}, row \in ShownRow : poll = [at |-> at, shown |-> row]
    \/ \E d, pods :
          /\ poll = [at |-> "legacy", deployments |-> d, pods |-> pods]
          /\ steady => /\ d \in {Pending, Failed, Seen(cluster)}
                       /\ pods \in {Pending, Failed, cluster.pods}

\* While nothing moves, the readiness of the listed pods is that of the cluster,
\* unless they are old and have not been read again, and a healthy row is the
\* answer for the cluster as it is, unless it was derived from old pods.
RowFits ==
    steady /\ poll.at \in {"idle", "runtime"} =>
        /\ ~poll.shown.fromOldPods \/ (poll.at = "idle" /\ ~page.podError) =>
              page.allReady = AllReady(cluster.pods)
        /\ poll.shown.row = "healthy" =>
              \/ poll.shown.source = "inventory-api" /\ ~poll.shown.fromOldPods /\ ClassifiedNominal
              \/ poll.shown.source = "legacy-derived" /\ (poll.shown.fromOldPods \/ DerivedNominal)

BoardInv == ClusterTyped /\ page \in Page /\ PollFits /\ RowFits

LEMMA InitBoardInv == InventoryInit => BoardInv
  <1> SUFFICES ASSUME InventoryInit PROVE page \in Page /\ PollFits /\ RowFits
    BY InitClusterTyped DEF BoardInv
  <1>1. page \in Page
    BY DEF InventoryInit, Page
  <1>2. poll = [at |-> "idle", shown |-> [row |-> "none", source |-> "unavailable", fromOldPods |-> FALSE]]
    BY DEF InventoryInit, Shows
  <1>3. PollFits
    BY <1>2 DEF PollFits, ShownRow
  <1>4. AllReady(cluster.pods) /\ page.allReady
    BY DEF InventoryInit, AllReady, ReadyPods, Listed
  <1>5. AllReady(cluster.pods) \in BOOLEAN /\ page.allReady \in BOOLEAN
    BY <1>1 DEF AllReady, Page
  <1>6. RowFits
    BY <1>2, <1>4, <1>5 DEF RowFits
  <1> QED
    BY <1>1, <1>3, <1>6

LEMMA ClusterUnchanged ==
  ASSUME UNCHANGED <<relations, cluster>>
  PROVE  /\ ClassifiedNominal' = ClassifiedNominal /\ DerivedNominal' = DerivedNominal
         /\ AllReady(cluster.pods)' = AllReady(cluster.pods) /\ Seen(cluster)' = Seen(cluster)
  BY DEF relations, ClassifiedNominal, DerivedNominal, AllReady, Seen, classifyDeployment, deriveSeverity,
         isDeploymentCurrentlyHealthy, emptyService, Selected, Related, Listed, ReadyPods, Restarted,
         InRunningPhase, SaidRunning, Critical, Warning, Failing, Serving

\* Kubernetes moves: the refresh under way no longer shows the cluster as it is.
LEMMA BecomesKeeps ==
  ASSUME BoardInv, NEW c, Becomes(c) PROVE page' \in Page /\ PollFits' /\ RowFits'
  BY DEF BoardInv, Becomes, PollFits, RowFits

LEMMA LegacyReadKeeps == ASSUME BoardInv, LegacyRead PROVE page' \in Page /\ PollFits' /\ RowFits'
  <1>1. PICK d, pods :
           /\ poll = [at |-> "legacy", deployments |-> d, pods |-> pods]
           /\ steady => /\ d \in {Pending, Failed, Seen(cluster)}
                        /\ pods \in {Pending, Failed, cluster.pods}
    BY DEF LegacyRead, BoardInv, PollFits
  <1>2. \/ poll' = [at |-> "legacy", deployments |-> Failed, pods |-> pods]
        \/ poll' = [at |-> "legacy", deployments |-> Seen(cluster), pods |-> pods]
        \/ poll' = [at |-> "legacy", deployments |-> d, pods |-> Failed]
        \/ poll' = [at |-> "legacy", deployments |-> d, pods |-> cluster.pods]
    BY <1>1 DEF LegacyRead, Seen
  <1>3. cluster' = cluster /\ steady' = steady /\ page' = page /\ Seen(cluster)' = Seen(cluster)
    BY DEF LegacyRead, Seen
  <1>4. PollFits'
    BY <1>1, <1>2, <1>3 DEF PollFits
  <1>5. poll'.at = "legacy"
    BY <1>2
  <1> QED
    BY <1>3, <1>4, <1>5 DEF BoardInv, RowFits

LEMMA DeriveInventoryKeeps ==
  ASSUME BoardInv, deriveInventory PROVE page' \in Page /\ PollFits' /\ RowFits'
  <1>1. poll.at = "legacy" /\ UNCHANGED <<relations, cluster, steady>>
    BY DEF deriveInventory
  <1>2. PICK pods : /\ poll.pods # Failed => pods = poll.pods
                    /\ poll' \in Derived(pods)
                    /\ page' = [page EXCEPT !.allReady = AllReady(pods)]
    BY DEF deriveInventory
  <1>3. PICK row, source :
           /\ poll' = [at |-> "runtime",
                       shown |-> [row |-> row, source |-> source, fromOldPods |-> poll.pods = Failed]]
           /\ row \in Severities \cup {"none"} /\ source \in {"legacy-derived", "unavailable"}
           /\ row = "healthy" => /\ poll.deployments # Failed /\ source = "legacy-derived"
                                 /\ deriveSeverity(poll.deployments, pods) = "healthy"
    <2>1. CASE poll.deployments # Failed
      <3> DEFINE row == deriveSeverity(poll.deployments, pods)
      <3>1. poll' = [at |-> "runtime",
                     shown |-> [row |-> row, source |-> "legacy-derived", fromOldPods |-> poll.pods = Failed]]
        BY <1>2, <2>1 DEF Derived, Shows
      <3>2. row \in Severities
        BY DerivesTyped
      <3> QED
        BY <2>1, <3>1, <3>2
    <2>2. CASE poll.deployments = Failed
      <3>1. \/ poll' = [at |-> "runtime", shown |-> [row |-> "unknown", source |-> "legacy-derived",
                                                      fromOldPods |-> poll.pods = Failed]]
            \/ poll' = [at |-> "runtime", shown |-> [row |-> "none", source |-> "unavailable",
                                                      fromOldPods |-> poll.pods = Failed]]
        BY <1>2, <2>2 DEF Derived, Shows
      <3> QED
        BY <3>1 DEF Severities
    <2> QED
      BY <2>1, <2>2
  <1>4. AllReady(pods) \in BOOLEAN /\ (poll.pods = Failed) \in BOOLEAN
    BY DEF AllReady
  <1>5. page' \in Page /\ page'.allReady = AllReady(pods)
    BY <1>2, <1>4 DEF BoardInv, Page
  <1>6. PollFits'
    BY <1>3, <1>4 DEF PollFits, ShownRow
  <1>7. ASSUME steady, poll.pods # Failed
        PROVE  /\ pods = cluster.pods
               /\ row = "healthy" => DerivedNominal
    <2>1. /\ poll.pods = cluster.pods
          /\ poll.deployments \in {Failed, Seen(cluster)}
      BY <1>1, <1>7 DEF BoardInv, PollFits, deriveInventory
    <2> QED
      BY <1>2, <1>3, <1>7, <2>1 DEF DerivedNominal
  <1>8. RowFits'
    <2>1. poll'.at = "runtime" /\ poll'.shown.row = row /\ poll'.shown.source = source
          /\ poll'.shown.fromOldPods = (poll.pods = Failed)
      BY <1>3
    <2>2. row = "healthy" => source = "legacy-derived"
      BY <1>3
    <2>3. DerivedNominal' = DerivedNominal /\ AllReady(cluster.pods)' = AllReady(cluster.pods)
      BY <1>1, ClusterUnchanged
    <2>4. steady' = steady
      BY <1>1
    <2>5. ASSUME steady, poll.pods # Failed PROVE page'.allReady = AllReady(cluster.pods)
      BY <1>5, <1>7, <2>5
    <2> QED
      BY <1>7, <2>1, <2>2, <2>3, <2>4, <2>5 DEF RowFits
  <1> QED
    BY <1>5, <1>6, <1>8

LEMMA LoadInventoryKeeps ==
  ASSUME BoardInv, loadInventory PROVE page' \in Page /\ PollFits' /\ RowFits'
  <1>1. PICK marked \in BOOLEAN, warned \in BOOLEAN :
           poll' = Shows("idle", classifyDeployment(cluster, marked, warned), "inventory-api", FALSE)
    BY DEF loadInventory
  <1> DEFINE row == classifyDeployment(cluster, marked, warned)
  <1>2. poll' = [at |-> "idle", shown |-> [row |-> row, source |-> "inventory-api", fromOldPods |-> FALSE]]
    BY <1>1 DEF Shows
  <1>3. row \in Severities
    BY DerivesTyped
  <1>4. row = "healthy" => ClassifiedNominal
    BY DEF ClassifiedNominal
  <1> HIDE DEF row
  <1>5. page' = [page EXCEPT !.allReady = AllReady(cluster.pods)] /\ AllReady(cluster.pods) \in BOOLEAN
    BY DEF loadInventory, AllReady
  <1>6. page' \in Page /\ page'.allReady = AllReady(cluster.pods)
    BY <1>5 DEF BoardInv, Page
  <1>7. ClassifiedNominal' = ClassifiedNominal /\ AllReady(cluster.pods)' = AllReady(cluster.pods)
    BY ClusterUnchanged DEF loadInventory
  <1>8. PollFits'
    BY <1>2, <1>3 DEF PollFits, ShownRow
  <1>9. RowFits'
    BY <1>2, <1>4, <1>6, <1>7 DEF RowFits
  <1> QED
    BY <1>6, <1>8, <1>9

LEMMA LoadRuntimeKeeps ==
  ASSUME BoardInv, loadRuntime PROVE page' \in Page /\ PollFits' /\ RowFits'
  <1>1. PICK row \in ShownRow : poll = [at |-> "runtime", shown |-> row]
    BY DEF loadRuntime, BoardInv, PollFits
  <1>2. poll' = [at |-> "idle", shown |-> row] /\ UNCHANGED <<relations, cluster, steady>>
    BY <1>1 DEF loadRuntime
  <1>3. /\ ClassifiedNominal' = ClassifiedNominal /\ DerivedNominal' = DerivedNominal
        /\ AllReady(cluster.pods)' = AllReady(cluster.pods)
    BY <1>2, ClusterUnchanged
  <1>4. PollFits'
    BY <1>2 DEF PollFits
  <1>5. AllReady(cluster.pods) \in BOOLEAN
    BY DEF AllReady
  <1>6. steady => /\ ~row.fromOldPods => page.allReady = AllReady(cluster.pods)
                  /\ row.row = "healthy" =>
                        \/ row.source = "inventory-api" /\ ~row.fromOldPods /\ ClassifiedNominal
                        \/ row.source = "legacy-derived" /\ (row.fromOldPods \/ DerivedNominal)
    BY <1>1 DEF BoardInv, RowFits
  <1>7. CASE page' = [page EXCEPT !.podError = TRUE]
    <2>1. page' \in Page /\ page'.podError /\ page'.allReady = page.allReady
      BY <1>7 DEF BoardInv, Page
    <2> QED
      BY <1>2, <1>3, <1>4, <1>6, <2>1 DEF RowFits
  <1>8. CASE page' = [allReady |-> AllReady(cluster.pods), podError |-> FALSE]
    <2>1. page' \in Page /\ page'.allReady = AllReady(cluster.pods)
      BY <1>5, <1>8 DEF Page
    <2> QED
      BY <1>2, <1>3, <1>4, <1>6, <2>1 DEF RowFits
  <1> QED
    BY <1>7, <1>8 DEF loadRuntime

LEMMA StepBoardInv == BoardInv /\ [InventoryNext]_inventoryVars => BoardInv'
  <1> SUFFICES ASSUME BoardInv, [InventoryNext]_inventoryVars
               PROVE  page' \in Page /\ PollFits' /\ RowFits'
    BY StepClusterTyped DEF BoardInv
  <1>1. ASSUME \E c : Becomes(c) PROVE page' \in Page /\ PollFits' /\ RowFits'
    BY <1>1, BecomesKeeps
  <1>2. CASE RefreshBegins
    BY <1>2 DEF RefreshBegins, BoardInv, PollFits, RowFits
  <1>3. CASE loadInventory
    BY <1>3, LoadInventoryKeeps
  <1>4. CASE InventoryFails
    BY <1>4 DEF InventoryFails, BoardInv, PollFits, RowFits
  <1>5. CASE LegacyRead
    BY <1>5, LegacyReadKeeps
  <1>6. CASE deriveInventory
    BY <1>6, DeriveInventoryKeeps
  <1>7. CASE loadRuntime
    BY <1>7, LoadRuntimeKeeps
  <1>8. CASE UNCHANGED inventoryVars
    <2>1. /\ ClassifiedNominal' = ClassifiedNominal /\ DerivedNominal' = DerivedNominal
          /\ AllReady(cluster.pods)' = AllReady(cluster.pods) /\ Seen(cluster)' = Seen(cluster)
      BY <1>8, ClusterUnchanged DEF inventoryVars
    <2> QED
      BY <1>8, <2>1 DEF inventoryVars, BoardInv, PollFits, RowFits
  <1> QED
    BY <1>1, <1>2, <1>3, <1>4, <1>5, <1>6, <1>7, <1>8
       DEF InventoryNext, ManifestApplied, StatusUpdated, EndpointsUpdated,
           PodAdded, PodChanges, PodRemoved, OtherChanges

\* A row the API calls healthy: enough ready pods carry the labels, and when they
\* are not the deployment's own one of another controller stands in.
LEMMA ClassifiedBacked ==
  ASSUME ClusterTyped, ClassifiedNominal
  PROVE  /\ Serving(cluster.pods, Own) >= cluster.desired \/ (StatusLags /\ StandsIn(lookalikes))
         /\ cluster.desired > 0 /\ cluster.service = "misrouted" => EndpointsLag
  <1>1. PICK marked \in BOOLEAN, warned \in BOOLEAN : classifyDeployment(cluster, marked, warned) = "healthy"
    BY DEF ClassifiedNominal
  <1> DEFINE own == Serving(cluster.pods, Own)
             matched == Serving(cluster.pods, Selected)
  <1>2. /\ ~(matched < cluster.desired) /\ ~(cluster.readyReplicas < cluster.desired)
        /\ ~emptyService(cluster, marked)
    BY <1>1, ClassifiedHealthy
  <1>3. /\ cluster.desired \in Nat /\ cluster.readyReplicas \in Nat /\ own \in Nat /\ matched \in Nat
        /\ ReadyPods(cluster.pods, lookalikes) = {} => matched = own
    BY ClusterCounts
  <1>4. own < cluster.desired /\ ReadyPods(cluster.pods, lookalikes) # {} /\ cluster.readyReplicas # own
        => StatusLags /\ StandsIn(lookalikes)
    BY DEF StatusLags, StandsIn
  <1>5. cluster.desired > 0 /\ cluster.service = "misrouted" => EndpointsLag
    BY <1>2 DEF emptyService, EndpointsLag, EndpointsOf
  <1> HIDE DEF own, matched
  <1>6. own >= cluster.desired \/ (StatusLags /\ StandsIn(lookalikes))
    BY <1>2, <1>3, <1>4
  <1> QED
    BY <1>5, <1>6 DEF own

\* A row the fallback calls healthy, with every pod ready.
LEMMA DerivedBacked ==
  ASSUME ClusterTyped, DerivedNominal, AllReady(cluster.pods)
  PROVE  Serving(cluster.pods, Own) >= cluster.desired \/ StandsIn(namesakes)
  <1> DEFINE own == Serving(cluster.pods, Own)
             related == Serving(cluster.pods, Related)
             running == Cardinality(SaidRunning(cluster.pods, Related))
  <1>1. /\ cluster.desired \in Nat /\ own \in Nat /\ related \in Nat
        /\ ReadyPods(cluster.pods, namesakes) = {} => related = own
    BY ClusterCounts
  <1>2. /\ SaidRunning(cluster.pods, Related) = Listed(cluster.pods, Related)
        /\ ~(running < cluster.desired)
    BY DerivedFromSeen, DerivedHealthy DEF DerivedNominal
  <1>3. ReadyPods(cluster.pods, Related) = Listed(cluster.pods, Related)
    BY RelationsTyped DEF AllReady, ReadyPods, Listed
  <1>4. related = running
    BY <1>2, <1>3 DEF Serving
  <1>5. own < cluster.desired /\ ReadyPods(cluster.pods, namesakes) # {} => StandsIn(namesakes)
    BY DEF StandsIn
  <1> HIDE DEF own, related, running
  <1>6. own >= cluster.desired \/ StandsIn(namesakes)
    BY <1>1, <1>2, <1>4, <1>5
  <1> QED
    BY <1>6 DEF own

LEMMA BoardInvEnough == BoardInv => NominalIsBacked
  <1> SUFFICES ASSUME BoardInv, poll.at = "idle", steady, poll.shown.row = "healthy",
                      overallSeverity(poll.shown.row, 0) = "healthy"
               PROVE  NominalIsBacked
    BY DEF NominalIsBacked
  <1>1. page.allReady
    BY DEF overallSeverity
  <1>2. PICK row \in ShownRow : poll = [at |-> "idle", shown |-> row]
    BY DEF BoardInv, PollFits
  <1>3. row.fromOldPods \in BOOLEAN /\ page.podError \in BOOLEAN /\ poll.shown = row
    BY <1>2 DEF ShownRow, BoardInv, Page
  <1>4. AllReady(cluster.pods) \/ (row.fromOldPods /\ page.podError)
    BY <1>1, <1>3 DEF BoardInv, RowFits
  <1>5. CASE row.source = "inventory-api" /\ ClassifiedNominal
    <2>1. /\ Serving(cluster.pods, Own) >= cluster.desired \/ (StatusLags /\ StandsIn(lookalikes))
          /\ cluster.desired > 0 /\ cluster.service = "misrouted" => EndpointsLag
      BY <1>5, ClassifiedBacked DEF BoardInv
    <2> QED
      BY <1>3, <1>4, <1>5, <2>1 DEF NominalIsBacked
  <1>6. CASE row.source = "legacy-derived" /\ row.fromOldPods
    BY <1>3, <1>4, <1>6 DEF NominalIsBacked
  <1>7. CASE row.source = "legacy-derived" /\ ~row.fromOldPods /\ DerivedNominal
    <2>1. Serving(cluster.pods, Own) >= cluster.desired \/ StandsIn(namesakes)
      BY <1>4, <1>7, DerivedBacked DEF BoardInv
    <2> QED
      BY <1>3, <1>4, <1>7, <2>1 DEF NominalIsBacked
  <1> QED
    BY <1>3, <1>5, <1>6, <1>7 DEF BoardInv, RowFits

\* "Nominal" over a deployment after a refresh in which nothing moved has every
\* pod ready behind it and the pods the deployment asks for, with no exception
\* but those NominalIsBacked names: rows derived from the pods of an earlier
\* refresh, and pods of other controllers that stand in.  For any number of pods
\* of any state, and whatever lags.
THEOREM NominalBacked == InventorySpec => []NominalIsBacked
  <1>1. InventorySpec => []BoardInv
    BY InitBoardInv, StepBoardInv, PTL DEF InventorySpec
  <1> QED
    BY <1>1, BoardInvEnough, PTL
=============================================================================
