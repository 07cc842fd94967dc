---------------------------- MODULE MCGateRecord ----------------------------
(* A small instance of GateRecord: what each version of the tools and of the *)
(* maps finds is written out, so that an edit can change the finding, keep   *)
(* it under another stamp, or make it go away.                               *)
EXTENDS GateRecord, TLC

CONSTANTS p1, p2

Slots == {p1, p2}
OneGate == {"plaintext_gate"}
TagSets == {{"path"}, {"secret"}, {"pii", "unreviewed"}}

V(t, m) == [tools |-> t, map |-> m]

SaysTable ==
  [v \in Version |->
     [g \in StampedGate |->
        CASE v = V(1, 1) -> IF g = "secret_gate" THEN "clean" ELSE "f1"
          [] v = V(1, 2) -> "f1"
          [] v = V(2, 1) -> IF g = "secret_gate" THEN "clean" ELSE "f2"
          [] OTHER       -> "clean"]]

Symmetry == Permutations(Slots)
=============================================================================
