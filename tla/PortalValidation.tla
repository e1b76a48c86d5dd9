-------------------------- MODULE PortalValidation --------------------------
(***************************************************************************)
(* The portal evidence gate: PortalValidationService.ts keeps the          *)
(* checklists of all scenarios in one JSON file that every request reads,  *)
(* changes and rewrites without a lock, and PortalValidation.vue sends a   *)
(* request at every keystroke and shows whatever the last answer held.     *)
(*                                                                         *)
(* Writing a file truncates it first, so a request that reads at that      *)
(* moment fails, a crash leaves it empty, and of two writers that overlap  *)
(* the second may leave a tail of the first one's longer text behind.      *)
(*                                                                         *)
(* A checklist is abstracted to its status and to whether it has evidence  *)
(* (captured, with a path).  Initials and timestamp travel with the        *)
(* confirmation, after the page has made the same test as the service.     *)
(***************************************************************************)
EXTENDS FiniteSets, Naturals

CONSTANTS
    Scenarios,  \* PORTAL_VALIDATION_SCENARIOS
    Reqs,       \* the requests that can be under way at a time
    Tabs,       \* the open pages
    NoTab,      \* the page that sent a request was reloaded since
    Nothing     \* no usable state

ASSUME PortalAssumption == NoTab \notin Tabs /\ IsFiniteSet(Scenarios)

VARIABLES
    file,    \* portal-validations.json: absent, empty, garbled or the saved state
    pc,      \* how far each request is
    op,      \* what it asks for
    tab,     \* the page that waits for its answer
    work,    \* the state it is about to save, then its answer
    shown,   \* what each page shows
    earned,  \* history: the scenarios a confirmation was granted for
    past     \* history: whether requests overlapped or a crash hit one

portalVars == <<file, pc, op, tab, work, shown, earned, past>>

Entry == [status : {"awaiting", "confirmed"}, evidence : BOOLEAN]
Entries == [Scenarios -> Entry]
\* State # Nothing: the entries and the count that is saved with them.
States == [entries : Entries, confirmedCount : 0..Cardinality(Scenarios)]

ASSUME NothingAssumption == Nothing \notin States

Ops == [kind : {"get", "reset-all"}]
        \cup [kind : {"update"}, scenario : Scenarios, evidence : BOOLEAN]
        \cup [kind : {"confirm", "reset"}, scenario : Scenarios]

PortalTypeOK ==
    /\ file \in [is : {"absent", "empty", "garbled"}] \cup [is : {"saved"}, state : States]
    /\ pc \in [Reqs -> {"idle", "sent", "saving", "writing", "answered", "failed", "lost"}]
    /\ op \in [Reqs -> Ops]
    /\ tab \in [Reqs -> Tabs \cup {NoTab}]
    /\ work \in [Reqs -> States \cup {Nothing}]
    /\ shown \in [Tabs -> States \cup {Nothing}]
    /\ earned \subseteq Scenarios
    /\ past \in {"orderly", "crashed", "overlapped"}

-----------------------------------------------------------------------------
(***************************************************************************)
(* PortalValidationService.ts.                                             *)
(***************************************************************************)
AwaitingEntry == [status |-> "awaiting", evidence |-> FALSE]

calculateConfirmedCount(entries) ==
    Cardinality({s \in Scenarios : entries[s].status = "confirmed"})

WithCount(entries) ==
    [entries |-> entries, confirmedCount |-> calculateConfirmedCount(entries)]

getDefaultState == WithCount([s \in Scenarios |-> AwaitingEntry])

\* existsSync, then readFile and JSON.parse: Nothing when that throws.
loadState ==
    CASE file.is = "absent" -> getDefaultState
      [] file.is = "saved"  -> file.state
      [] OTHER -> Nothing

updateValidation(state, o) ==
    WithCount([state.entries EXCEPT ![o.scenario].evidence = o.evidence])

\* A faulty grant that trusts the page for the evidence.
GrantUnseen(state, o) == TRUE
\* The evidence asked for is the saved one.
MayConfirm(state, o) == state.entries[o.scenario].evidence

confirmValidation(state, o) ==
    WithCount([state.entries EXCEPT ![o.scenario].status = "confirmed"])

\* A faulty reset that keeps the evidence.
resetStatus(state, o) ==
    WithCount([state.entries EXCEPT ![o.scenario].status = "awaiting"])
resetValidation(state, o) ==
    WithCount([state.entries EXCEPT ![o.scenario] = AwaitingEntry])

\* What a request makes of the state it has loaded; a reset of all loads none.
Changed(state, o) ==
    CASE o.kind = "get"       -> state
      [] o.kind = "update"    -> updateValidation(state, o)
      [] o.kind = "confirm"   -> confirmValidation(state, o)
      [] o.kind = "reset"     -> resetValidation(state, o)
      [] o.kind = "reset-all" -> getDefaultState

\* The request neither throws while loading nor is refused.
Served(state, o) ==
    CASE o.kind = "reset-all" -> TRUE
      [] o.kind = "confirm"   -> IF state = Nothing THEN FALSE ELSE MayConfirm(state, o)
      [] OTHER                -> state # Nothing

-----------------------------------------------------------------------------
(***************************************************************************)
(* PortalValidation.vue.  Fields and Mark Confirmed are enabled while the  *)
(* page shows the entry as awaiting, Reset while it shows it as confirmed. *)
(***************************************************************************)
canConfirm(entry) == entry.evidence

\* A faulty page that leaves the fields of a confirmed entry enabled.
ClickableAlways(state) ==
    [kind : {"update", "confirm", "reset"}, scenario : Scenarios, evidence : BOOLEAN]
Clickable(state) ==
    LET Awaiting == {s \in Scenarios : state.entries[s].status = "awaiting"}
    IN  [kind : {"update"}, scenario : Awaiting, evidence : BOOLEAN]
        \cup [kind : {"confirm"}, scenario : {s \in Awaiting : canConfirm(state.entries[s])}]
        \cup [kind : {"reset"}, scenario : Scenarios \ Awaiting]

PortalInit ==
    /\ file = [is |-> "absent"]
    /\ pc = [r \in Reqs |-> "idle"]
    /\ op = [r \in Reqs |-> [kind |-> "get"]]
    /\ tab = [r \in Reqs |-> NoTab]
    /\ work = [r \in Reqs |-> Nothing]
    /\ shown = [t \in Tabs |-> Nothing]
    /\ earned = {}
    /\ past = "orderly"

Send(r, t, o) ==
    /\ pc[r] = "idle"
    /\ pc' = [pc EXCEPT ![r] = "sent"]
    /\ op' = [op EXCEPT ![r] = o]
    /\ tab' = [tab EXCEPT ![r] = t]
    /\ past' = IF \A q \in Reqs : pc[q] = "idle" THEN past ELSE "overlapped"
    /\ UNCHANGED <<file, work, earned>>

\* The operator uses a control of the page.
Use(r, t) ==
    /\ \/ Send(r, t, [kind |-> "reset-all"])
       \/ shown[t] # Nothing /\ \E o \in Clickable(shown[t]) : Send(r, t, o)
    /\ UNCHANGED shown

\* The page is loaded (again): what it had asked for before is forgotten.
Mount(r, t) ==
    /\ pc[r] = "idle"
    /\ pc' = [pc EXCEPT ![r] = "sent"]
    /\ op' = [op EXCEPT ![r] = [kind |-> "get"]]
    /\ tab' = [q \in Reqs |-> IF q = r THEN t ELSE IF tab[q] = t THEN NoTab ELSE tab[q]]
    /\ shown' = [shown EXCEPT ![t] = Nothing]
    /\ past' = IF \A q \in Reqs : pc[q] = "idle" THEN past ELSE "overlapped"
    /\ UNCHANGED <<file, work, earned>>

\* The handler reads the file and computes the new state.
Handle(r) ==
    /\ pc[r] = "sent"
    /\ LET o == op[r] IN
       IF Served(loadState, o)
       THEN /\ pc' = [pc EXCEPT ![r] = IF o.kind = "get" THEN "answered" ELSE "saving"]
            /\ work' = [work EXCEPT ![r] = Changed(loadState, o)]
            /\ earned' = earned \cup
                  {s \in Scenarios : /\ o.kind = "confirm" /\ s = o.scenario
                                     /\ loadState.entries[s].evidence}
       ELSE /\ pc' = [pc EXCEPT ![r] = "failed"]
            /\ UNCHANGED <<work, earned>>
    /\ UNCHANGED <<file, op, tab, shown, past>>

\* saveState opens the file, which empties it ...
OpenFile(r) ==
    /\ pc[r] = "saving"
    /\ pc' = [pc EXCEPT ![r] = "writing"]
    /\ file' = [is |-> "empty"]
    /\ UNCHANGED <<op, tab, work, shown, earned, past>>

\* ... and writes at its start.  A text that another writer has put there
\* since may be longer: its tail stays, and the file is not JSON any more.
Written(r) ==
    LET mine == [is |-> "saved", state |-> work[r]]
    IN  IF file.is = "empty" THEN {mine} ELSE {mine, [is |-> "garbled"]}

WriteFile(r) ==
    /\ pc[r] = "writing"
    /\ pc' = [pc EXCEPT ![r] = "answered"]
    /\ file' \in Written(r)
    /\ UNCHANGED <<op, tab, work, shown, earned, past>>

\* Only confirmScenario looks at response.ok; the other handlers take the
\* fields of an error body, which has none.
ShownAfter(r, old) ==
    CASE pc[r] = "answered" -> work[r]
      [] pc[r] = "lost"     -> old
      [] pc[r] = "failed"   -> IF op[r].kind = "confirm" THEN old ELSE Nothing

\* The answer, or the loss of the connection, arrives at the page.
Deliver(r) ==
    /\ pc[r] \in {"answered", "failed", "lost"}
    /\ shown' = IF tab[r] = NoTab THEN shown
                ELSE [shown EXCEPT ![tab[r]] = ShownAfter(r, @)]
    /\ pc' = [pc EXCEPT ![r] = "idle"]
    /\ op' = [op EXCEPT ![r] = [kind |-> "get"]]
    /\ tab' = [tab EXCEPT ![r] = NoTab]
    /\ work' = [work EXCEPT ![r] = Nothing]
    /\ UNCHANGED <<file, earned, past>>

\* The backend process ends and is started again.
Crash ==
    /\ \E r \in Reqs : pc[r] \in {"sent", "saving", "writing"}
    /\ pc' = [r \in Reqs |-> IF pc[r] = "idle" THEN "idle" ELSE "lost"]
    /\ past' = IF past = "overlapped" \/ \E r \in Reqs : pc[r] = "writing"
                 THEN "overlapped" ELSE "crashed"
    /\ UNCHANGED <<file, op, tab, work, shown, earned>>

PortalNext ==
    \/ \E r \in Reqs, t \in Tabs : Use(r, t) \/ Mount(r, t)
    \/ \E r \in Reqs : Handle(r) \/ OpenFile(r) \/ WriteFile(r) \/ Deliver(r)
    \/ Crash

PortalSpec == PortalInit /\ [][PortalNext]_portalVars

-----------------------------------------------------------------------------
(***************************************************************************)
(* Properties.                                                             *)
(***************************************************************************)
InFile == IF file.is = "saved" THEN {file.state} ELSE {}
Shown == {shown[t] : t \in Tabs} \ {Nothing}

\* No two requests overlapped, and no crash left a file half written.
quiet == past # "overlapped"

\* A scenario is saved or shown as confirmed only after a confirmation of it
\* was granted that found its evidence in the file; stale writes may bring a
\* confirmation back, but none comes from nowhere.
ConfirmedWasGranted ==
    \A state \in InFile \cup Shown, s \in Scenarios :
        state.entries[s].status = "confirmed" => s \in earned

OnePage == \A t, u \in Tabs : t = u

\* One page that waits for every answer, with a backend that stays up, never
\* shows anything but what is saved, and a confirmed entry has its evidence.
OnePageInStep ==
    past = "orderly" /\ OnePage =>
        /\ \A state \in InFile, s \in Scenarios :
              state.entries[s].status = "confirmed" => canConfirm(state.entries[s])
        /\ (\A r \in Reqs : pc[r] = "idle") =>
              \A state \in Shown : state = loadState

\* The entries of the gate: a request that has emptied the file counts as
\* having changed them.
Book ==
    IF \E r \in Reqs : pc[r] = "writing"
        THEN LET r == CHOOSE q \in Reqs : pc[q] = "writing" IN work[r].entries
        ELSE IF loadState = Nothing THEN getDefaultState.entries ELSE loadState.entries

B == INSTANCE ValidationBook WITH book <- Book

\* Requests that wait for each other implement the book: each changes one
\* entry in the way it asked for, or resets all, and nothing is lost, also
\* when the backend crashes between two writes.
QuietRequestsKeepBook == [][quiet' => B!Next]_Book

=============================================================================
