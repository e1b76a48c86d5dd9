--------------------------- MODULE MCMeterIngest ---------------------------
(***************************************************************************)
(* TLC instance of MeterIngest: a run of the probe, an impostor with the   *)
(* run's correlation id and an event that cannot be parsed.                *)
(***************************************************************************)
EXTENDS MeterIngest, TLC

CONSTANTS probe, impostor, garbled, c1, c2

\* The impostor carries the probe's correlation id, the others one of their own.
CorrelationId == [e \in Events |-> IF e \in {probe, impostor} THEN c1 ELSE c2]

\* The replicas of dispatch-service are alike.
Symmetry == Permutations(Workers)
=============================================================================
