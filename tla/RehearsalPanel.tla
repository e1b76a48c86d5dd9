---------------------------- MODULE RehearsalPanel ----------------------------
(***************************************************************************)
(* The rehearsal panel of the wallboard (RehearsalWorkflow.vue) with the   *)
(* routes that serve it (routes/rehearsals.ts): what the panel lists, the  *)
(* run it has active and the evidence form filled from that run, while the *)
(* answers of several buttons are under way.                               *)
(*                                                                         *)
(* What a mutation does to a run is RehearsalWorkflow's; here a saved run  *)
(* is the number of times its scenario was saved, 0 for no run.  No button *)
(* waits for the answer to another: the panel shows the answer that came   *)
(* last, whichever was saved last.  Opening the control panel mounts it    *)
(* anew, and answers to the one before go nowhere.  A read that found no   *)
(* file writes an empty one, without the lock of the mutations.            *)
(***************************************************************************)
EXTENDS Naturals

CONSTANTS
    Names,     \* the scenarios that can be rehearsed
    Presses,   \* the requests of buttons that can be under way at once
    MaxSaves,  \* bound on the saves of a scenario's run
    NoActive   \* a panel without an active run
ASSUME PanelAssumption == MaxSaves \in Nat \ {0} /\ NoActive \notin Names

VARIABLES
    savedRun,  \* the saves of each scenario's run
    panel,     \* what the panel holds
    press,     \* the request of each button pressed
    missed,    \* scenarios saved without the panel being sure to see it (history)
    blank      \* whether a read that found no file has yet to write an empty one

panelVars == <<savedRun, panel, press, missed, blank>>

\* The refs of the component: what it lists (runs), the scenario of activeRun with the
\* save it shows, and the run that evidenceForm was filled from.
Panel == [load : {"asked", "read", "shown"}, runs : [Names -> 0..MaxSaves],
          active : Names \cup {NoActive}, version : 0..MaxSaves,
          form : [of : Names \cup {NoActive}, version : 0..MaxSaves]]

Opened == [load |-> "asked", runs |-> [s \in Names |-> 0], active |-> NoActive,
           version |-> 0, form |-> [of |-> NoActive, version |-> 0]]

\* A request: whether it creates a run, its scenario, and the save it was answered with.
\* It is alone when no other request of its scenario was under way with it.
Idle == [state |-> "idle"]
PanelRequest ==
    [state : {"sent", "saved", "refused"}, creates : BOOLEAN, of : Names,
     version : 0..MaxSaves, heard : BOOLEAN, alone : BOOLEAN]

PanelTypeOK ==
    /\ savedRun \in [Names -> 0..MaxSaves]
    /\ panel \in Panel
    /\ press \in [Presses -> PanelRequest \cup {Idle}]
    /\ missed \subseteq Names
    /\ blank \in BOOLEAN

PanelInit ==
    /\ savedRun = [s \in Names |-> 0] /\ panel = Opened
    /\ press = [p \in Presses |-> Idle] /\ missed = {}
    /\ blank \in BOOLEAN

UnderWay(s) == {p \in Presses : press[p] # Idle /\ press[p].of = s}

-----------------------------------------------------------------------------
(***************************************************************************)
(* The buttons and the routes                                              *)
(***************************************************************************)

\* A request of scenario s is sent; one under way with it makes both of them doubtful.
SendPress(p, s, creates) ==
    LET alone == UnderWay(s) = {}
    IN  /\ press' = [q \in Presses |->
                        IF q = p
                        THEN [state |-> "sent", creates |-> creates, of |-> s,
                              version |-> 0, heard |-> TRUE, alone |-> alone]
                        ELSE IF q \in UnderWay(s) THEN [press[q] EXCEPT !.alone = FALSE]
                        ELSE press[q]]
        /\ missed' = IF alone THEN missed ELSE missed \cup {s}
        /\ UNCHANGED <<savedRun, panel, blank>>

\* createRun: the select box may name any scenario.
PressCreate(p, s) ==
    /\ panel.load = "shown" /\ press[p] = Idle
    /\ SendPress(p, s, TRUE)

\* advanceRun, interruptRun, resumeRun, resetRun and saveEvidence name the active run.
PressChange(p) ==
    /\ panel.load = "shown" /\ press[p] = Idle
    /\ panel.active # NoActive
    /\ SendPress(p, panel.active, FALSE)

\* The list of a panel whose read finds no run.
Emptied == [panel EXCEPT !.load = "read", !.runs = [s \in Names |-> 0]]

\* The routes: the run is saved and is the answer, or any error is answered with 400.  A
\* change is refused when its scenario has no run.  A mutation that had read before an
\* empty file was written saves over it; a panel may read the list in between.
RouteSaves(p) ==
    LET s == press[p].of
    IN  /\ press[p] # Idle /\ press[p].state = "sent"
        /\ savedRun[s] < MaxSaves
        /\ press[p].creates \/ savedRun[s] > 0
        /\ savedRun' = [savedRun EXCEPT ![s] = @ + 1]
        /\ press' = [press EXCEPT ![p].state = "saved", ![p].version = savedRun[s] + 1]
        /\ \/ /\ missed' = IF press[p].heard THEN missed ELSE missed \cup {s}
              /\ blank' \in {blank, FALSE}
              /\ UNCHANGED panel
           \/ /\ blank /\ blank' = FALSE
              /\ panel.load = "asked" /\ panel' = Emptied
              /\ missed' = Names

RouteRefuses(p) ==
    /\ press[p] # Idle /\ press[p].state = "sent"
    /\ press' = [press EXCEPT ![p].state = "refused"]
    /\ UNCHANGED <<savedRun, panel, missed, blank>>

\* The read that found no file writes an empty one over the saved runs; it may be the
\* panel's own, which is answered with no run.  Whoever else has seen a run is behind.
WriteBlank ==
    /\ blank /\ blank' = FALSE
    /\ savedRun' = [s \in Names |-> 0]
    /\ press' = [p \in Presses |->
                    IF press[p] # Idle /\ press[p].state = "saved"
                    THEN [press[p] EXCEPT !.alone = FALSE] ELSE press[p]]
    /\ \/ missed' = Names /\ UNCHANGED panel
       \/ panel.load = "asked" /\ panel' = Emptied /\ missed' = {}

-----------------------------------------------------------------------------
(***************************************************************************)
(* The panel                                                               *)
(***************************************************************************)

\* A faulty setActiveRun that leaves the form of the run before.
KeepForm(holds, s, version) == [holds EXCEPT !.active = s, !.version = version]

\* setActiveRun fills the form from the run that becomes active.
SetActive(holds, s, version) ==
    [holds EXCEPT !.active = s, !.version = version,
                  !.form = [of |-> s, version |-> version]]

\* createRun puts the run in the list, the others replace the one that is there.
Listed(holds, r) ==
    [holds EXCEPT !.runs[r.of] = IF r.creates \/ @ # 0 THEN r.version ELSE @]

\* An answer reaches the panel that asked: an error leaves all but its message.
Answer(p) ==
    /\ press[p] # Idle /\ press[p].state # "sent"
    /\ press' = [press EXCEPT ![p] = Idle]
    /\ IF press[p].heard /\ press[p].state = "saved"
       THEN /\ panel' = SetActive(Listed(panel, press[p]), press[p].of, press[p].version)
            /\ missed' = IF press[p].alone THEN missed \ {press[p].of} ELSE missed
       ELSE UNCHANGED <<panel, missed>>
    /\ UNCHANGED <<savedRun, blank>>

\* The panel is told of an error while the request may still be served, or has been.
Lose(p) ==
    /\ press[p] # Idle /\ press[p].heard
    /\ press' = [press EXCEPT ![p].heard = FALSE]
    /\ missed' = missed \cup {press[p].of}
    /\ UNCHANGED <<savedRun, panel, blank>>

\* A run of the list is clicked.
Choose(s) ==
    /\ panel.load = "shown" /\ panel.runs[s] # 0
    /\ panel' = SetActive(panel, s, panel.runs[s])
    /\ UNCHANGED <<savedRun, press, missed, blank>>

\* The control panel is closed and opened: a new component, which loads.
Open ==
    /\ panel' = Opened
    /\ press' = [p \in Presses |->
                    IF press[p] = Idle THEN Idle ELSE [press[p] EXCEPT !.heard = FALSE]]
    /\ UNCHANGED <<savedRun, missed, blank>>

\* GET /api/rehearsals reads the saved runs.
LoadRead ==
    /\ panel.load = "asked"
    /\ panel' = [panel EXCEPT !.load = "read", !.runs = savedRun]
    /\ missed' = {}
    /\ UNCHANGED <<savedRun, press, blank>>

\* The rest of loadState: the run the file lists last becomes active.
LoadShown ==
    /\ panel.load = "read"
    /\ LET shown == [panel EXCEPT !.load = "shown"]
           listed == {s \in Names : panel.runs[s] # 0}
       IN  \/ \E s \in listed : panel' = SetActive(shown, s, shown.runs[s])
           \/ listed = {} /\ panel' = shown
    /\ UNCHANGED <<savedRun, press, missed, blank>>

\* Either request of loadState fails: the list stays empty.
LoadFails ==
    /\ panel.load # "shown"
    /\ panel' = [Opened EXCEPT !.load = "shown"]
    /\ missed' = Names
    /\ UNCHANGED <<savedRun, press, blank>>

PanelNext ==
    \/ \E p \in Presses :
          \/ \E s \in Names : PressCreate(p, s)
          \/ PressChange(p) \/ RouteSaves(p) \/ RouteRefuses(p) \/ Answer(p) \/ Lose(p)
    \/ \E s \in Names : Choose(s)
    \/ Open \/ LoadRead \/ LoadShown \/ LoadFails \/ WriteBlank

PanelSpec == PanelInit /\ [][PanelNext]_panelVars

-----------------------------------------------------------------------------
(***************************************************************************)
(* Properties                                                              *)
(***************************************************************************)

\* The form is that of the active run, which is the one the list shows: evidence typed
\* for one scenario is never saved for another, nor over a run the operator did not see.
FormIsOfActive ==
    panel.active # NoActive =>
        /\ panel.form = [of |-> panel.active, version |-> panel.version]
        /\ panel.runs[panel.active] = panel.version

\* Unless requests of a scenario were under way together, an answer was lost, or the runs
\* were erased by a first read, the panel comes to show what is saved of it.
ListInStep ==
    panel.load = "shown" =>
        \A s \in Names \ missed : UnderWay(s) = {} => panel.runs[s] = savedRun[s]

\* What the panel promises its operator.
PanelInStep == FormIsOfActive /\ ListInStep

\* What a request under way says of itself: one that is alone is the only one of its
\* scenario, and will bring what is saved; one that is not cannot be trusted.
RequestFits(p) ==
    /\ press[p].alone =>
          \A q \in Presses \ {p} : press[q] = Idle \/ press[q].of # press[p].of
    /\ press[p].heard => /\ panel.load = "shown"
                         /\ press[p].creates \/ panel.runs[press[p].of] # 0
                         /\ press[p].alone \/ press[p].of \in missed
    /\ press[p].state = "saved" => press[p].version # 0
    /\ press[p].state = "saved" /\ press[p].heard /\ press[p].alone =>
          press[p].version = savedRun[press[p].of]

\* An answer under way that will bring the list into step.
Brings(p, s) ==
    /\ press[p] # Idle /\ press[p].of = s
    /\ press[p].heard /\ press[p].alone /\ press[p].state = "saved"

RequestsFit == \A p \in Presses : press[p] # Idle => RequestFits(p)

ActiveFits ==
    IF panel.load = "shown" THEN panel.active # NoActive => panel.version # 0
                            ELSE panel.active = NoActive

ListFits ==
    panel.load # "asked" =>
        \A s \in Names \ missed :
            panel.runs[s] = savedRun[s] \/ \E p \in Presses : Brings(p, s)

\* The inductive invariant of the panel: where nothing was missed, the list is behind by
\* one answer at most, and that answer is under way alone.
PanelInv == PanelTypeOK /\ FormIsOfActive /\ ActiveFits /\ RequestsFit /\ ListFits
=============================================================================
