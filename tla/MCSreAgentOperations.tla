------------------------ MODULE MCSreAgentOperations ------------------------
(* Two operations and a preflight; the kinds are fixed by Init. *)
EXTENDS SreAgentOperations

CONSTANTS o1, o2, l1, t0, t1, t2

MCOps == {o1, o2}
MCListers == {l1}
MCThreads == {t0, t1, t2}
MCEarlier == <<t0>>
MCCallers == {o1, o2, l1}
=============================================================================
