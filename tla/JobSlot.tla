------------------------------- MODULE JobSlot -------------------------------
(***************************************************************************)
(* What the job table promises its callers: a single slot that one job at  *)
(* a time occupies, and a verdict that is given once and never rewritten.  *)
(***************************************************************************)
CONSTANTS Jobs, None

VARIABLES
    slot,    \* the job that occupies the slot, or None
    verdict  \* the verdict of every job, "none" while it has none

slotVars == <<slot, verdict>>

Init ==
    /\ slot = None
    /\ verdict = [j \in Jobs |-> "none"]

Acquire(j) ==
    /\ slot = None
    /\ verdict[j] = "none"
    /\ slot' = j
    /\ UNCHANGED verdict

Release(v) ==
    /\ slot # None
    /\ verdict' = [verdict EXCEPT ![slot] = v]
    /\ slot' = None

\* The table is in memory: a restart empties the slot and forgets verdicts.
Forget ==
    /\ slot' = None
    /\ verdict' = [j \in Jobs |-> IF verdict[j] = "none" /\ j # slot THEN "none" ELSE "lost"]

Next ==
    \/ \E j \in Jobs : Acquire(j)
    \/ \E v \in {"completed", "failed", "cancelled"} : Release(v)
    \/ Forget

Spec == Init /\ [][Next]_slotVars
=============================================================================
