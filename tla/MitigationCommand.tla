-------------------------- MODULE MitigationCommand --------------------------
(***************************************************************************)
(* Which commands of the SRE Agent count as the mitigation                 *)
(* (mitigationLifecycle.ts, normalizeMitigationCommand): a scan over the   *)
(* words after `kubectl scale` that has to recognise every one of them,    *)
(* against what kubectl itself makes of the same words.                    *)
(*                                                                         *)
(* A word is a record.  The spellings that the scan treats alike (-n and   *)
(* --namespace, deployment and deployments.apps) are one kind; "option" is *)
(* any other word with a dash, "shell" one with a metacharacter.           *)
(***************************************************************************)
EXTENDS Naturals, FiniteSets, SequencesExt

VARIABLES
    words,                        \* the words read so far
    target, namespace, replicas,  \* what they named, None or NoTarget at first
    scan                          \* "running", "allowed" or "refused"

commandVars == <<words, target, namespace, replicas, scan>>

None == "none"
NoTarget == [kind |-> "none", name |-> "none"]
Values == {"0", "1", "2", "mongodb", "energy"}
Word == [kind : {"-n", "--replicas", "deployment", "option", "shell"}, value : {""}]
    \cup [kind : {"--namespace=", "--replicas=", "deployment/", "plain"}, value : Values]
NoWord == [kind |-> "end", value |-> ""]  \* no word follows, or none is looked at

\* A word as the value of another: what matters is which of the Values it is.
Text(w) == IF w.kind = "plain" THEN w.value ELSE w.kind
Texts == {Text(w) : w \in Word}

CommandTypeOK ==
    /\ words \in Seq(Word)
    /\ target \in {NoTarget} \cup [kind : {"deployment/", "plain"}, name : Texts]
    /\ namespace \in Texts \cup {None} /\ replicas \in Texts \cup {None}
    /\ scan \in {"running", "allowed", "refused"}

CommandInit ==
    words = <<>> /\ target = NoTarget /\ namespace = None /\ replicas = None /\ scan = "running"

-----------------------------------------------------------------------------
Dashed(w) == w.kind \in {"-n", "--namespace=", "--replicas", "--replicas=", "option"}
OfNamespace(w) == w.kind \in {"-n", "--namespace="}
OfReplicas(w) == w.kind \in {"--replicas", "--replicas="}
TakesNext(w) == w.kind \in {"-n", "--replicas", "deployment"}

\* A faulty test that passes over the options it does not know.
RefusedButOptions(w, next) ==
    \/ "shell" \in {w.kind, next.kind}
    \/ OfNamespace(w) /\ namespace # None
    \/ OfReplicas(w) /\ replicas # None
    \/ ~ Dashed(w) /\ target # NoTarget
    \/ TakesNext(w) /\ (next = NoWord \/ Dashed(next))

\* The word is not known, a flag or the target is given a second time, or the next word
\* cannot be its value.  (A metacharacter refuses the command before the scan.)
Refused(w, next) ==
    \/ w.kind = "option" \/ "shell" \in {w.kind, next.kind}
    \/ OfNamespace(w) /\ namespace # None
    \/ OfReplicas(w) /\ replicas # None
    \/ ~ Dashed(w) /\ target # NoTarget
    \/ TakesNext(w) /\ (next = NoWord \/ Dashed(next))

Named(w, next) == IF TakesNext(w) THEN Text(next) ELSE w.value

ScanWord ==
    /\ scan = "running"
    /\ \E w \in Word : \E next \in (IF TakesNext(w) THEN Word \cup {NoWord} ELSE {NoWord}) :
           /\ ~ Refused(w, next)
           /\ words' = words \o (IF TakesNext(w) THEN <<w, next>> ELSE <<w>>)
           /\ namespace' = IF OfNamespace(w) THEN Named(w, next) ELSE namespace
           /\ replicas' = IF OfReplicas(w) THEN Named(w, next) ELSE replicas
           /\ target' = IF Dashed(w) THEN target
                        ELSE [kind |-> IF w.kind = "plain" THEN "plain" ELSE "deployment/",
                              name |-> Named(w, next)]
    /\ UNCHANGED scan

ScanRefuses ==
    /\ scan = "running"
    /\ {w \in Word \X (Word \cup {NoWord}) : Refused(w[1], w[2])} # {}
    /\ scan' = "refused"
    /\ words' = <<>> /\ target' = NoTarget /\ namespace' = None /\ replicas' = None

\* isAllowlistedMitigationCommand: restore or rollback, in the canonical spelling.
CommandEnds ==
    /\ scan = "running"
    /\ scan' = IF target = [kind |-> "deployment/", name |-> "mongodb"]
                  /\ namespace = "energy" /\ replicas \in {"0", "1"}
               THEN "allowed" ELSE "refused"
    /\ UNCHANGED <<words, target, namespace, replicas>>

CommandNext == ScanWord \/ ScanRefuses \/ CommandEnds

CommandSpec == CommandInit /\ [][CommandNext]_commandVars
-----------------------------------------------------------------------------
(***************************************************************************)
(* How kubectl reads the words: -n and --replicas take whatever comes next *)
(* and may be repeated, the last one counts; the words that are left are   *)
(* TYPE NAME... or TYPE/NAME...                                            *)
(***************************************************************************)
TakesValue(w) == w.kind \in {"-n", "--replicas"}

IsValue(ws) ==
    LET value[i \in DOMAIN ws] == i > 1 /\ TakesValue(ws[i - 1]) /\ ~ value[i - 1]
    IN  value

Given(ws, inline, flag) ==
    LET isValue == IsValue(ws)
    IN  {ws[i].value : i \in {j \in DOMAIN ws : ws[j].kind = inline /\ ~ isValue[j]}}
            \cup {Text(ws[i]) : i \in {j \in DOMAIN ws : isValue[j] /\ ws[j - 1].kind = flag}}

Arguments(ws) ==
    LET isValue == IsValue(ws) IN {j \in DOMAIN ws : ~ isValue[j] /\ ~ Dashed(ws[j])}

Targets(ws) ==
    LET places == Arguments(ws)
    IN  IF places = {} THEN {}
        ELSE IF ws[Min(places)].kind = "deployment"
        THEN {Text(ws[j]) : j \in places \ {Min(places)}}
        ELSE IF \A j \in places : ws[j].kind = "deployment/"
        THEN {ws[j].value : j \in places} ELSE {}

\* kubectl would scale energy/mongodb, and nothing else, to 0 or 1, under no other option.
IsMitigation(ws) ==
    /\ Targets(ws) = {"mongodb"}
    /\ Given(ws, "--namespace=", "-n") = {"energy"}
    /\ Given(ws, "--replicas=", "--replicas") \in {{"0"}, {"1"}}
    /\ \A w \in ToSet(ws) : w.kind \notin {"option", "shell"}

\* A command is admitted as the mitigation only if kubectl does exactly that; and it is,
\* in whatever order and spelling, if the scan came to its end.
AllowedIsMitigation ==
    /\ scan = "allowed" => IsMitigation(words)
    /\ scan = "refused" /\ words # <<>> => ~ IsMitigation(words)
=============================================================================
