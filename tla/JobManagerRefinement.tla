------------------------ MODULE JobManagerRefinement ------------------------
(***************************************************************************)
(* The job table implements the single slot of JobSlot.                    *)
(***************************************************************************)
EXTENDS JobManager

\* getActiveJob()
ActiveJob ==
    IF NoActiveJob THEN None ELSE CHOOSE j \in Jobs : IsActive(j)

Verdict ==
    [j \in Jobs |-> IF status[j] \in Terminal \cup {"lost"} THEN status[j] ELSE "none"]

Slot == INSTANCE JobSlot WITH slot <- ActiveJob, verdict <- Verdict

\* Every callback of the job table is a step of the single slot, or invisible.
ImplementsSlot == Slot!Spec
=============================================================================
