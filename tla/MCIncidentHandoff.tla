------------------------- MODULE MCIncidentHandoff -------------------------
(***************************************************************************)
(* TLC instance of IncidentHandoff.                                        *)
(***************************************************************************)
EXTENDS IncidentHandoff
=============================================================================
