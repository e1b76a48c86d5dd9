----------------------- MODULE MCReviewModeMitigation -----------------------
(***************************************************************************)
(* Review-mode mitigation, checked in three parts that share no state: how *)
(* the lifecycle of one correlation key is derived, for how long the       *)
(* answers of two keys are kept on top of the cached customer impact, and  *)
(* which commands count as the mitigation.  A behaviour moves one of them, *)
(* which is chosen at the start.                                           *)
(***************************************************************************)
EXTENDS ReviewModeMitigation, EvidenceCache, MitigationCommand, TLC

Symmetry == Permutations(Keys)

VARIABLE part  \* the part that moves

MCInit ==
    /\ part \in {"lifecycle", "cache", "command"}
    /\ Init /\ EvidenceInit /\ CommandInit
    /\ part # "lifecycle" => changes = {}  \* the parts that do not move start in one way

MCNext ==
    /\ UNCHANGED part
    /\ \/ part = "lifecycle" /\ Next /\ UNCHANGED <<answerVars, commandVars>>
       \/ part = "cache" /\ EvidenceNext /\ UNCHANGED <<vars, commandVars>>
       \/ part = "command" /\ CommandNext /\ UNCHANGED <<vars, answerVars>>

MCSpec == MCInit /\ [][MCNext]_<<part, vars, answerVars, commandVars>>
=============================================================================
