----------------------------- MODULE MCRelease -----------------------------
(***************************************************************************)
(* A published sample (a) whose masked bytes ship and fire another rule    *)
(* than its collected bytes do, a local miss (b), and two builds of the    *)
(* scanner: the old one reports nothing on b and one rule more on a.       *)
(* Each behaviour is one menu: the scripts and people at work together,    *)
(* and the places they may run in.                                         *)
(***************************************************************************)
EXTENDS Release, TLC

CONSTANTS a, b, old, new, r1, r2, t1, t2, X, Y

Source(v, s) == IF s = b /\ v = old THEN {} ELSE {X}
Shipped(v, s) == IF s = b THEN Source(v, s) ELSE IF v = old THEN {X, Y} ELSE {Y}
MCSays == [v \in {old, new} |-> [s \in {a, b} |->
             [source |-> Source(v, s), shipped |-> Shipped(v, s)]]]

Miss(k) == [malicious |-> TRUE, publishable |-> TRUE, must |-> {},
            miss |-> TRUE, kind |-> k]

Detected == [Miss("<unclassified>") EXCEPT !.must = {Y}, !.miss = FALSE]

MCBegin ==
  {[published |-> [s \in {a, b} |-> IF s = a THEN row ELSE Absent],
    local |-> [s \in {a, b} |-> IF s = b THEN Miss("rule-gap") ELSE Absent]] :
     row \in {Miss("<unclassified>"), Detected}}

MCMenus ==
  {{r1, r2, "promote", "classify", "publish", "handoff", "rebuild", "stage"},
   {r1, r2, "promote", "refresh", "handoff", "gate"},
   {r1, t1, "census", "manifest", "promote", "handoff", "publish", "stage", "pack"},
   {r1, t1, t2, "derive", "open", "publish", "stage", "gate"},
   {r1, t1, t2, "summary", "figures", "promote", "classify", "handoff"},
   {r1, t1, "summary", "figures", "verify", "push", "promote", "handoff"},
   {t1, t2, "summary", "push", "gate"},
   {t1, t2, "figures", "push", "gate"},
   {t1, "verify", "summary", "push", "gate", "rebuild"},
   {t1, "push", "edit", "gate"},
   {t1, "push", "figures", "restore"}}

MCSymmetry == Permutations({r1, r2}) \cup Permutations({t1, t2})
=============================================================================
