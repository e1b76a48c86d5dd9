---------------------------- MODULE SingleChild ----------------------------
(***************************************************************************)
(* What the SRE Agent MCP client promises about the processes it owns: at  *)
(* most one child at a time, and none once the client is disposed.         *)
(***************************************************************************)
CONSTANT Children

VARIABLES
    open,  \* the child processes that run and were not told to end
    over   \* the client is disposed

Init == open = {} /\ over = FALSE

\* A child is started, never beside another one.
Start ==
    /\ open = {} /\ ~ over
    /\ \E t \in Children : open' = {t}
    /\ UNCHANGED over

\* The child ends, or is told to.
Stop ==
    /\ open' = {}
    /\ UNCHANGED over

\* The client is disposed, with no child left.
End ==
    /\ open = {}
    /\ over' = TRUE
    /\ UNCHANGED open

Next == Start \/ Stop \/ End

Spec == Init /\ [][Next]_<<open, over>>
=============================================================================
