----------------------------- MODULE Quarantine -----------------------------
(***************************************************************************)
(* Scanner::quarantineFile() and quarantine::moveWithoutReplacing(), one   *)
(* action per system call: the rename that refuses to replace, the         *)
(* exclusive create, the copy, the unlink of the source, the clean-up, and *)
(* the loop over `shell.php', `shell.1.php', ... when a name is taken.     *)
(*                                                                         *)
(* Several scanners run beside each other, any of them may die between two *)
(* calls, other programs create names in the quarantine directory, and a   *)
(* scanned path may be a symbolic link (scan.follow_symlinks).  All movers *)
(* want the same destination name, as in a flat quarantine directory or    *)
(* when a path is quarantined a second time: names that differ never meet. *)
(***************************************************************************)
EXTENDS Naturals, FiniteSets

CONSTANTS
  Mover,       \* the scanner processes
  Source,      \* the scanned paths with a hostile finding
  Link,        \* those of them that are symbolic links
  Target,      \* what a link leads to
  Renames,     \* whether renameat2(RENAME_NOREPLACE) may work, may fail, or both
  MaxAttempt,  \* kMaxDisambiguators
  MaxCrashes,  \* bound: processes that die
  NoSample     \* nothing: an empty name, a closed descriptor

ASSUME QuarantineAssumption ==
  /\ Link \subseteq Source
  /\ Target \in [Link -> Source \ Link]
  /\ Renames \subseteq {"works", "fails"}
  /\ MaxAttempt \in Nat
  /\ MaxCrashes \in Nat
  /\ NoSample \notin Source

\* Each regular file holds the sample named after it.
Sample == Source \ Link

VARIABLES
  tree,     \* is the path there?
  vault,    \* the candidate destinations: attempt n is the name with suffix n
  pc,       \* where each mover is
  src,      \* the path it was asked to move
  attempt,  \* the loop counter
  held,     \* the sample behind the descriptor `in'
  crashes   \* how many processes have died

quarantineVars == <<tree, vault, pc, src, attempt, held, crashes>>

Slot == 0..MaxAttempt

\* What a name in the quarantine directory may hold.  "part" is a copy in
\* progress or abandoned, "link" a symbolic link that was renamed into place.
Free == [kind |-> "free", of |-> NoSample]
Other == [kind |-> "other", of |-> NoSample]
MovedLink == [kind |-> "link", of |-> NoSample]
Part(x) == [kind |-> "part", of |-> x]
Whole(x) == [kind |-> "whole", of |-> x]

\* Opening a path follows a link; renaming and unlinking do not.
Behind(s) == IF s \in Link THEN Target[s] ELSE s
Opens(s) == tree[s] /\ tree[Behind(s)]

-----------------------------------------------------------------------------
Init ==
  /\ tree = [s \in Source |-> TRUE]
  /\ vault = [n \in Slot |-> Free]
  /\ pc = [m \in Mover |-> "idle"]
  /\ src \in [Mover -> Source]
  /\ attempt = [m \in Mover |-> 0]
  /\ held = [m \in Mover |-> NoSample]
  /\ crashes = 0

Goto(m, label) == pc' = [pc EXCEPT ![m] = label]

\* quarantineFile(source).
Begin(m, s) ==
  /\ pc[m] \in {"idle", "moved", "failed"}
  /\ Goto(m, "rename")
  /\ src' = [src EXCEPT ![m] = s]
  /\ attempt' = [attempt EXCEPT ![m] = 0]
  /\ held' = [held EXCEPT ![m] = NoSample]
  /\ UNCHANGED <<tree, vault, crashes>>

\* create_directories() throws: the file stays where it is.
NoDirectory(m) ==
  /\ pc[m] = "rename"
  /\ Goto(m, "failed")
  /\ UNCHANGED <<tree, vault, src, attempt, held, crashes>>

\* Mutant: the names are tried round and round.
NextName_Unbounded(m) ==
  Goto(m, "rename") /\ attempt' = [attempt EXCEPT ![m] = (@ + 1) % (MaxAttempt + 1)]

\* MoveResult::DestinationExists: the next name, or none left.
NextName(m) ==
  IF attempt[m] = MaxAttempt
  THEN Goto(m, "failed") /\ UNCHANGED attempt
  ELSE Goto(m, "rename") /\ attempt' = [attempt EXCEPT ![m] = @ + 1]

\* Mutant: a plain rename, which replaces.
RenameMoves_Replacing(m) ==
  /\ pc[m] = "rename" /\ "works" \in Renames
  /\ tree[src[m]]
  /\ tree' = [tree EXCEPT ![src[m]] = FALSE]
  /\ vault' = [vault EXCEPT ![attempt[m]] =
                 IF src[m] \in Link THEN MovedLink ELSE Whole(src[m])]
  /\ Goto(m, "moved")
  /\ UNCHANGED <<src, attempt, held, crashes>>

\* The refusing rename succeeds: the entry itself changes directory.
RenameMoves(m) ==
  /\ pc[m] = "rename" /\ "works" \in Renames
  /\ tree[src[m]] /\ vault[attempt[m]] = Free
  /\ tree' = [tree EXCEPT ![src[m]] = FALSE]
  /\ vault' = [vault EXCEPT ![attempt[m]] =
                 IF src[m] \in Link THEN MovedLink ELSE Whole(src[m])]
  /\ Goto(m, "moved")
  /\ UNCHANGED <<src, attempt, held, crashes>>

RenameFindsNameTaken(m) ==
  /\ pc[m] = "rename" /\ "works" \in Renames
  /\ tree[src[m]] /\ vault[attempt[m]] # Free
  /\ NextName(m)
  /\ UNCHANGED <<tree, vault, src, held, crashes>>

\* Any other errno, a source that is gone included: try the copy.
RenameUnavailable(m) ==
  /\ pc[m] = "rename"
  /\ "fails" \in Renames \/ ~tree[src[m]]
  /\ Goto(m, "open")
  /\ UNCHANGED <<tree, vault, src, attempt, held, crashes>>

OpenSource(m) ==
  /\ pc[m] = "open" /\ Opens(src[m])
  /\ held' = [held EXCEPT ![m] = Behind(src[m])]
  /\ Goto(m, "create")
  /\ UNCHANGED <<tree, vault, src, attempt, crashes>>

\* The source is gone, or may not be read.
OpenFails(m) ==
  /\ pc[m] = "open"
  /\ Goto(m, "failed")
  /\ UNCHANGED <<tree, vault, src, attempt, held, crashes>>

\* open(dest, O_CREAT | O_EXCL | O_NOFOLLOW).
CreateDestination(m) ==
  /\ pc[m] = "create" /\ vault[attempt[m]] = Free
  /\ vault' = [vault EXCEPT ![attempt[m]] = Part(held[m])]
  /\ Goto(m, "copy")
  /\ UNCHANGED <<tree, src, attempt, held, crashes>>

CreateFindsNameTaken(m) ==
  /\ pc[m] = "create" /\ vault[attempt[m]] # Free
  /\ NextName(m)
  /\ UNCHANGED <<tree, vault, src, held, crashes>>

CreateRefused(m) ==
  /\ pc[m] = "create" /\ vault[attempt[m]] = Free
  /\ Goto(m, "failed")
  /\ UNCHANGED <<tree, vault, src, attempt, held, crashes>>

\* Every byte read, written and flushed.
Copy(m) ==
  /\ pc[m] = "copy"
  /\ vault' = [vault EXCEPT ![attempt[m]] = Whole(held[m])]
  /\ Goto(m, "unlink")
  /\ UNCHANGED <<tree, src, attempt, held, crashes>>

\* Mutant: the error is forgotten, and the original goes.
CopyFails_Forgotten(m) ==
  /\ pc[m] = "copy"
  /\ Goto(m, "unlink")
  /\ UNCHANGED <<tree, vault, src, attempt, held, crashes>>

\* A read, a write or the fsync fails.
CopyFails(m) ==
  /\ pc[m] = "copy"
  /\ Goto(m, "cleanup")
  /\ UNCHANGED <<tree, vault, src, attempt, held, crashes>>

\* Only now is the original allowed to go.
UnlinkSource(m) ==
  /\ pc[m] = "unlink" /\ tree[src[m]]
  /\ tree' = [tree EXCEPT ![src[m]] = FALSE]
  /\ Goto(m, "moved")
  /\ UNCHANGED <<vault, src, attempt, held, crashes>>

\* Mutant: the copy is whole, so the move is called done.
UnlinkFails_Ignored(m) ==
  /\ pc[m] = "unlink"
  /\ Goto(m, "moved")
  /\ UNCHANGED <<tree, vault, src, attempt, held, crashes>>

\* The original is gone already, or will not go.
UnlinkFails(m) ==
  /\ pc[m] = "unlink"
  /\ Goto(m, "cleanup")
  /\ UNCHANGED <<tree, vault, src, attempt, held, crashes>>

\* Mutant: the undisambiguated name is removed.
CleanUp_FirstName(m) ==
  /\ pc[m] = "cleanup"
  /\ vault' = [vault EXCEPT ![0] = Free]
  /\ Goto(m, "failed")
  /\ UNCHANGED <<tree, src, attempt, held, crashes>>

\* unlink(dest), by name.
CleanUp(m) ==
  /\ pc[m] = "cleanup"
  /\ vault' = [vault EXCEPT ![attempt[m]] = Free]
  /\ Goto(m, "failed")
  /\ UNCHANGED <<tree, src, attempt, held, crashes>>

\* The process dies between two calls; a later run starts over.
Crash(m) ==
  /\ pc[m] \notin {"idle", "moved", "failed"} /\ crashes < MaxCrashes
  /\ crashes' = crashes + 1
  /\ Goto(m, "idle")
  /\ UNCHANGED <<tree, vault, src, attempt, held>>

\* Another program creates a file in the quarantine directory.
OtherCreates(n) ==
  /\ vault[n] = Free
  /\ vault' = [vault EXCEPT ![n] = Other]
  /\ UNCHANGED <<tree, pc, src, attempt, held, crashes>>

-----------------------------------------------------------------------------
Move(m) ==
  \/ NoDirectory(m)
  \/ RenameMoves(m) \/ RenameFindsNameTaken(m) \/ RenameUnavailable(m)
  \/ OpenSource(m) \/ OpenFails(m)
  \/ CreateDestination(m) \/ CreateFindsNameTaken(m) \/ CreateRefused(m)
  \/ Copy(m) \/ CopyFails(m)
  \/ UnlinkSource(m) \/ UnlinkFails(m)
  \/ CleanUp(m)

Next ==
  \/ \E m \in Mover : Move(m) \/ Crash(m) \/ (\E s \in Source : Begin(m, s))
  \/ \E n \in Slot : OtherCreates(n)

\* A mover that has begun is not starved; nobody owes the program a new call.
Spec == Init /\ [][Next]_quarantineVars /\ \A m \in Mover : WF_quarantineVars(Move(m))

-----------------------------------------------------------------------------
TypeOK ==
  /\ tree \in [Source -> BOOLEAN]
  /\ vault \in [Slot -> [kind : {"free", "other", "link", "part", "whole"},
                         of : Sample \cup {NoSample}]]
  /\ pc \in [Mover -> {"idle", "rename", "open", "create", "copy", "unlink",
                       "cleanup", "moved", "failed"}]
  /\ src \in [Mover -> Source]
  /\ attempt \in [Mover -> Slot]
  /\ held \in [Mover -> Sample \cup {NoSample}]
  /\ crashes \in 0..MaxCrashes

\* The mover made this name and has not let go of it yet.
Making(m, n) == pc[m] \in {"copy", "unlink", "cleanup"} /\ attempt[m] = n

\* A whole copy nobody is about to take away again.
Settled(n, x) == vault[n] = Whole(x) /\ \A m \in Mover : ~Making(m, n)

\* Whatever dies when, and whoever moves the same file at the same time, every
\* sample is in the tree or whole in quarantine (Quarantine.h:80-81).
EvidenceSurvives == \A x \in Sample : tree[x] \/ \E n \in Slot : Settled(n, x)

\* A name in the quarantine directory has at most one maker, and it holds that
\* maker's copy: the clean-up, which removes by name, removes nobody else's.
OneMaker ==
  \A m \in Mover, n \in Slot : Making(m, n) =>
    /\ vault[n] \in {Part(held[m]), Whole(held[m])}
    /\ \A k \in Mover \ {m} : ~Making(k, n)

\* Nothing in the quarantine directory is ever written over: an occupied name
\* changes only under the hand of the mover that created it.
NothingIsWrittenOver ==
  [][\A n \in Slot : (vault[n] # Free /\ vault'[n] # vault[n]) =>
       \E m \in Mover : Making(m, n) /\ pc'[m] # pc[m]]_quarantineVars

\* A file reported as moved is whole at the address the report gives, and the
\* tree no longer leads to its bytes: "a quarantine that reports success while
\* the original is still live" is what must not happen (Quarantine.h:82-84).
Contained(m) == Settled(attempt[m], Behind(src[m])) /\ ~tree[Behind(src[m])]

MovedIsContained == \A m \in Mover : (pc[m] = "moved" /\ src[m] \notin Link) => Contained(m)

\* The same of a path that is a link, for which the code does not keep it.
MovedLinkIsContained == \A m \in Mover : (pc[m] = "moved" /\ src[m] \in Link) => Contained(m)

\* A move that has begun ends, with a verdict or with its process.
MoveEnds ==
  \A m \in Mover : (pc[m] = "rename") ~> (pc[m] \in {"moved", "failed", "idle"})

\* The custody the abstract module promises.
InVault == {x \in Sample : \E n \in Slot : Settled(n, x)}
InTree == {x \in Sample : tree[x]}
Custodian == INSTANCE Custody WITH Sample <- Sample, inTree <- InTree, inVault <- InVault
KeepsCustody == Custodian!CustodySpec

=============================================================================
