------------------------------- MODULE MCScan -------------------------------
(* Small instances of Scan: files and members are interchangeable.          *)
EXTENDS Scan, TLC

FileSymmetry == Permutations(File)

AllOptions == [quarantine : BOOLEAN, reportExcluded : BOOLEAN, maxDepth : {0, 2}]
AllFindings == SUBSET {"name", "content"}

\* Each option on and off, and each kind of finding alone: room for two members.
SomeOptions == {[quarantine |-> TRUE,  reportExcluded |-> FALSE, maxDepth |-> 2],
                [quarantine |-> FALSE, reportExcluded |-> TRUE,  maxDepth |-> 2],
                [quarantine |-> TRUE,  reportExcluded |-> TRUE,  maxDepth |-> 0]}
OneFinding == {{}, {"name"}, {"content"}}
=============================================================================
