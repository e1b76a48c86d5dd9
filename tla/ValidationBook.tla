--------------------------- MODULE ValidationBook ---------------------------
(***************************************************************************)
(* What the portal validation gate promises: a book with an entry for each *)
(* scenario, changed by one request at a time, in which an entry becomes   *)
(* confirmed only while it has its evidence.                               *)
(***************************************************************************)
CONSTANT Scenarios

VARIABLE book

\* A new entry: no evidence, not confirmed.
Blank == [status |-> "awaiting", evidence |-> FALSE]

Init == book = [s \in Scenarios |-> Blank]

\* The operator records, or takes back, the evidence of a scenario.
Edit(s) == \E evidence \in BOOLEAN : book' = [book EXCEPT ![s].evidence = evidence]

\* The operator confirms the evidence of a scenario.
Confirm(s) ==
    /\ book[s].evidence
    /\ book' = [book EXCEPT ![s].status = "confirmed"]

Reset(s) == book' = [book EXCEPT ![s] = Blank]

ResetAll == Init'

Next == ResetAll \/ \E s \in Scenarios : Edit(s) \/ Confirm(s) \/ Reset(s)

Spec == Init /\ [][Next]_book
=============================================================================
