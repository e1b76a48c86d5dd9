---------------------------- MODULE MCJobConsole ----------------------------
(***************************************************************************)
(* TLC instance of the job table with its console, and of the refinement   *)
(* of JobSlot.                                                             *)
(***************************************************************************)
EXTENDS JobConsole, JobManagerRefinement, TLC
=============================================================================
