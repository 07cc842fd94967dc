------------------------------ MODULE Custody ------------------------------
(***************************************************************************)
(* What quarantine owes an investigator, whatever the filesystem and       *)
(* whoever else is running: a sample leaves the scanned tree only into the *)
(* quarantine directory, and what the directory has accepted stays there.  *)
(* An interruption may leave a sample in both places, never in none        *)
(* (core/Quarantine.h:57-84).                                              *)
(***************************************************************************)
CONSTANT Sample

VARIABLES
  inTree,  \* the samples still in the scanned tree
  inVault  \* the samples the quarantine directory holds, whole and for good

custodyVars == <<inTree, inVault>>

CustodyInit == inTree = Sample /\ inVault = {}

\* The move: one instant in which the sample changes sides.
Contain(x) ==
  /\ x \in inTree
  /\ inVault' = inVault \cup {x}
  /\ inTree' = inTree \ {x}

\* An interrupted move: the copy is whole and the original is still there.
Duplicate(x) ==
  /\ x \in inTree
  /\ inVault' = inVault \cup {x}
  /\ UNCHANGED inTree

CustodyNext == \E x \in Sample : Contain(x) \/ Duplicate(x)

CustodySpec == CustodyInit /\ [][CustodyNext]_custodyVars

=============================================================================
