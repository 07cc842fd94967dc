------------------------------- MODULE Walker -------------------------------
(***************************************************************************)
(* FileWalker::walk() and walkDirectory(): an explicit stack of            *)
(* directories, the chain of identities that refuses a directory already   *)
(* open above itself, and one decision per entry of a listing.  Other      *)
(* threads and programs intervene between any two steps: the interrupt     *)
(* flag goes up, and directories are removed from under the walk.          *)
(*                                                                         *)
(* A path is a sequence of steps, each the name taken and the directory it *)
(* leads to.  What the filters and the size limit say of a file is part of *)
(* what fileCallback is told (module Scan); here a file is handed over     *)
(* whatever they say.                                                      *)
(***************************************************************************)
EXTENDS Naturals, Sequences, FiniteSets, SequencesExt

CONSTANTS
  Dir,          \* directories, by identity
  Name,         \* names of entries
  Scenarios,    \* the file systems, options and lists of roots a walk may meet
  MaxLinks,     \* links the host follows in resolving one path (40 on Linux)
  MaxRemovals,  \* bound: directories removed during the walk
  NoDir,        \* no directory
  NoName        \* the step to a root, which no listing names

\* What a status query that follows links answers of an entry.
Status == {"directory", "regular", "special", "notFound", "loop", "refused"}

Entry == [link : BOOLEAN, status : Status, to : Dir \cup {NoDir}]

\* entries: each directory's listing.  listing: whether it can be opened, and
\* whether reading it may fail part-way.  named: the directories whose identity
\* the host gives.
IsFileSystem(host) ==
  /\ DOMAIN host = {"entries", "listing", "named"}
  /\ DOMAIN host.entries = Dir
  /\ \A d \in Dir :
       /\ DOMAIN host.entries[d] \subseteq Name
       /\ \A n \in DOMAIN host.entries[d] :
            /\ host.entries[d][n] \in Entry
            /\ host.entries[d][n].status = "directory" <=> host.entries[d][n].to \in Dir
  /\ host.listing \in [Dir -> {"whole", "closed", "breaks"}]
  /\ host.named \subseteq Dir

ASSUME WalkerAssumption ==
  /\ NoDir \notin Dir /\ NoName \notin Name
  /\ \A s \in Scenarios :
       /\ IsFileSystem(s.fs)
       /\ s.options \in [follow : BOOLEAN, recursive : BOOLEAN]
       /\ s.asked \in Seq(Dir \cup {NoDir})
  /\ MaxLinks \in Nat /\ MaxRemovals \in Nat

VARIABLES
  fs, options, asked, \* the scenario, chosen at the start
  gone,               \* directories removed since
  interrupt,          \* g_interrupted
  pc,                 \* "root": in walk(); "pop" and "list": in walkDirectory()
  root,               \* the position in `asked'
  stopped,            \* the flag walk() and walkDirectory() share
  pending,            \* the stack of directories still to read
  chain,              \* identities of the directories above the current one
  cur,                \* the directory being listed
  todo,               \* its entries the iterator has not produced yet
  children,           \* its subdirectories, in listing order
  counts,             \* the walk's answer and its out parameters
  entered,            \* history: paths of the directories entered
  handed,             \* history: the files handed to the callback
  calls               \* history: how often the callback was called

chosen == <<fs, options, asked>>
walkerVars == <<chosen, gone, interrupt, pc, root, stopped, pending, chain, cur,
                todo, children, counts, entered, handed, calls>>

Step(name, d) == [name |-> name, dir |-> d]

\* PendingDir.
Pending(path, depth) == [path |-> path, depth |-> depth]

-----------------------------------------------------------------------------
Init ==
  /\ \E s \in Scenarios : fs = s.fs /\ options = s.options /\ asked = s.asked
  /\ gone = {} /\ interrupt = FALSE
  /\ pc = "root" /\ root = 1 /\ stopped = FALSE
  /\ pending = << >> /\ chain = << >> /\ children = << >>
  /\ cur = Pending(<< >>, 0) /\ todo = {}
  /\ counts = [dirs |-> 0, unreadable |-> 0, loops |-> 0, links |-> 0,
               refused |-> 0, missing |-> 0]
  /\ entered = {} /\ handed = {} /\ calls = 0

Count(field) == counts' = [counts EXCEPT ![field] = @ + 1]

(***************************************************************************)
(* walk(): one root after the other.                                       *)
(***************************************************************************)

\* A root that cannot be walked is recorded; any other is the first directory
\* on an empty stack, whatever kind of path leads to it.
NextRoot ==
  /\ pc = "root" /\ root <= Len(asked)
  /\ LET d == asked[root] IN
       IF d = NoDir \/ d \in gone
       THEN /\ Count("missing")
            /\ root' = root + 1
            /\ UNCHANGED <<pc, pending, chain>>
       ELSE /\ pending' = <<Pending(<<Step(NoName, d)>>, 0)>>
            /\ chain' = << >>
            /\ pc' = "pop"
            /\ UNCHANGED <<root, counts>>
  /\ UNCHANGED <<chosen, gone, interrupt, stopped, cur, todo, children, entered,
                 handed, calls>>

NoMoreRoots ==
  /\ pc = "root" /\ root > Len(asked)
  /\ pc' = "done"
  /\ UNCHANGED <<chosen, gone, interrupt, root, stopped, pending, chain, cur,
                 todo, children, counts, entered, handed, calls>>

\* walkDirectory() returns.  A walk that was stopped leaves later roots alone.
RootWalked ==
  /\ pc = "pop" /\ (pending = << >> \/ stopped)
  /\ pc' = IF stopped THEN "done" ELSE "root"
  /\ root' = root + 1
  /\ UNCHANGED <<chosen, gone, interrupt, stopped, pending, chain, cur, todo,
                 children, counts, entered, handed, calls>>

(***************************************************************************)
(* The loop over the stack.                                                *)
(***************************************************************************)

\* The interrupt, per directory.
StopBetweenDirectories ==
  /\ pc = "pop" /\ pending # << >> /\ ~stopped /\ interrupt
  /\ stopped' = TRUE
  /\ UNCHANGED <<chosen, gone, interrupt, pc, root, pending, chain, cur, todo,
                 children, counts, entered, handed, calls>>

Top == Last(pending)
TopDir == Last(Top.path).dir

\* A directory removed takes every path through it along.
TopIsGone == \E i \in DOMAIN Top.path : Top.path[i].dir \in gone

\* chain.resize(): identities below the current depth are retired.
Above == [i \in 1..Top.depth |-> IF i <= Len(chain) THEN chain[i] ELSE NoDir]

\* What probeDirectory() calls it; NoDir when the host will not say.
Id(d) == IF d \in fs.named THEN d ELSE NoDir

ClosesALoop == Id(TopDir) # NoDir /\ \E i \in DOMAIN Above : Above[i] = Id(TopDir)

Pop ==
  /\ pc = "pop" /\ pending # << >> /\ ~stopped /\ ~interrupt
  /\ pending' = Front(pending)
  /\ UNCHANGED <<chosen, gone, interrupt, root, stopped, handed, calls>>

\* Mutant: a directory that vanished ends the walk of its root.
SkipVanished_Returns ==
  /\ pc = "pop" /\ pending # << >> /\ ~stopped /\ ~interrupt /\ TopIsGone
  /\ pending' = << >>
  /\ UNCHANGED <<chosen, gone, interrupt, pc, root, stopped, chain, cur, todo,
                 children, counts, entered, handed, calls>>

\* Mutant: a directory that vanished is looked at and left on the stack.
SkipVanished_NotPopped ==
  /\ pc = "pop" /\ pending # << >> /\ ~stopped /\ ~interrupt /\ TopIsGone
  /\ chain' = Above
  /\ UNCHANGED <<chosen, gone, interrupt, pc, root, stopped, pending, cur, todo,
                 children, counts, entered, handed, calls>>

\* Removed since it was queued: a race, and nobody's error.
SkipVanished ==
  /\ Pop /\ TopIsGone
  /\ chain' = Above
  /\ UNCHANGED <<pc, cur, todo, children, counts, entered>>

\* Already open above itself: refused, and counted.
SkipLoop ==
  /\ Pop /\ ~TopIsGone /\ ClosesALoop
  /\ chain' = Above
  /\ Count("loops")
  /\ UNCHANGED <<pc, cur, todo, children, entered>>

Enter ==
  /\ Pop /\ ~TopIsGone /\ ~ClosesALoop
  /\ chain' = Append(Above, Id(TopDir))
  /\ entered' = entered \cup {Top.path}
  /\ Count("dirs")
  /\ children' = << >>
  /\ cur' = Top
  /\ pc' = "open"
  /\ UNCHANGED todo

CurDir == Last(cur.path).dir
CurIsGone == \E i \in DOMAIN cur.path : cur.path[i].dir \in gone

OpenListing ==
  /\ pc = "open" /\ fs.listing[CurDir] # "closed" /\ ~CurIsGone
  /\ todo' = DOMAIN fs.entries[CurDir]
  /\ pc' = "list"
  /\ UNCHANGED <<chosen, gone, interrupt, root, stopped, pending, chain, cur,
                 children, counts, entered, handed, calls>>

\* Mutant: what may not be listed is empty.
ListingRefused_NotCounted ==
  /\ pc = "open" /\ (fs.listing[CurDir] = "closed" \/ CurIsGone)
  /\ pc' = "pop"
  /\ UNCHANGED <<chosen, gone, interrupt, root, stopped, pending, chain, cur,
                 todo, children, counts, entered, handed, calls>>

\* The listing will not open, or the directory went away since the probe.
ListingRefused ==
  /\ pc = "open" /\ (fs.listing[CurDir] = "closed" \/ CurIsGone)
  /\ Count("unreadable")
  /\ pc' = "pop"
  /\ UNCHANGED <<chosen, gone, interrupt, root, stopped, pending, chain, cur,
                 todo, children, entered, handed, calls>>

(***************************************************************************)
(* processEntry().                                                         *)
(***************************************************************************)

EntryAt(n) == fs.entries[CurDir][n]

\* How many links a path goes through.
LinksIn(path) ==
  Cardinality({i \in 2..Len(path) : fs.entries[path[i - 1].dir][path[i].name].link})

\* The answer of a status query: nothing behind a directory that was removed,
\* and ELOOP once the path goes through more links than the host follows.
StatusOf(n) ==
  LET e == EntryAt(n) IN
  IF e.to \in gone THEN "notFound"
  ELSE IF e.link /\ LinksIn(cur.path) >= MaxLinks THEN "loop"
  ELSE e.status

LeadsNowhere(status) == status \in {"notFound", "loop"}

\* The interrupt poll, and an entry off the iterator.
Reads(n) ==
  /\ pc = "list" /\ n \in todo /\ ~interrupt
  /\ todo' = todo \ {n}
  /\ UNCHANGED <<chosen, gone, interrupt, pc, root, stopped, pending, chain, cur,
                 entered>>

\* With follow_symlinks off a link is recognised before its type is asked.
IsPassedBy(n) == EntryAt(n).link /\ ~options.follow

\* Counted wherever content may be behind it.
PassUnfollowedLink(n) ==
  /\ Reads(n) /\ IsPassedBy(n)
  /\ IF \/ StatusOf(n) \in {"regular", "refused"}
        \/ StatusOf(n) = "directory" /\ options.recursive
     THEN Count("links")
     ELSE UNCHANGED counts
  /\ UNCHANGED <<children, handed, calls>>

\* noteTypeRefused(): counted unless the answer is that nothing is there.
NoteTypeRefused(n) ==
  /\ Reads(n) /\ ~IsPassedBy(n) /\ StatusOf(n) \in {"refused", "notFound", "loop"}
  /\ IF LeadsNowhere(StatusOf(n)) /\ (StatusOf(n) = "notFound" \/ EntryAt(n).link)
     THEN UNCHANGED counts
     ELSE Count("refused")
  /\ UNCHANGED <<children, handed, calls>>

QueueDirectory(n) ==
  /\ Reads(n) /\ ~IsPassedBy(n) /\ StatusOf(n) = "directory"
  /\ children' = IF options.recursive THEN Append(children, Step(n, EntryAt(n).to)) ELSE children
  /\ UNCHANGED <<counts, handed, calls>>

\* A FIFO, a socket, a device: no content, and no count.
PassSpecial(n) ==
  /\ Reads(n) /\ ~IsPassedBy(n) /\ StatusOf(n) = "special"
  /\ UNCHANGED <<children, counts, handed, calls>>

HandOver(n) ==
  /\ Reads(n) /\ ~IsPassedBy(n) /\ StatusOf(n) = "regular"
  /\ handed' = handed \cup {[path |-> cur.path, name |-> n]}
  /\ calls' = calls + 1
  /\ UNCHANGED <<children, counts>>

(***************************************************************************)
(* After the listing: the children go on the stack, last first.            *)
(***************************************************************************)

Child(step) == Pending(Append(cur.path, step), cur.depth + 1)

PushChildren ==
  /\ pending' = pending \o Reverse([i \in DOMAIN children |-> Child(children[i])])
  /\ pc' = "pop"
  /\ UNCHANGED <<chosen, gone, interrupt, root, chain, cur, children, entered,
                 handed, calls>>

ListingEnds ==
  /\ pc = "list" /\ todo = {}
  /\ PushChildren
  /\ UNCHANGED <<stopped, todo, counts>>

\* The iterator's increment throws.
ListingBreaks ==
  /\ pc = "list" /\ fs.listing[CurDir] = "breaks"
  /\ PushChildren
  /\ Count("unreadable")
  /\ todo' = {}
  /\ UNCHANGED stopped

\* The interrupt, per entry.
StopInListing ==
  /\ pc = "list" /\ todo # {} /\ interrupt
  /\ PushChildren
  /\ stopped' = TRUE
  /\ todo' = {}
  /\ UNCHANGED counts

(***************************************************************************)
(* What the walk does not control.                                         *)
(***************************************************************************)

Signal ==
  /\ pc # "done" /\ ~interrupt
  /\ interrupt' = TRUE
  /\ UNCHANGED <<chosen, gone, pc, root, stopped, pending, chain, cur, todo,
                 children, counts, entered, handed, calls>>

\* rmdir, or a whole tree removed from the leaves up.
HostRemoves(d) ==
  /\ pc # "done" /\ d \notin gone /\ Cardinality(gone) < MaxRemovals
  /\ \A n \in DOMAIN fs.entries[d] : fs.entries[d][n].link
                                     \/ fs.entries[d][n].to \in gone \cup {NoDir}
  /\ gone' = gone \cup {d}
  /\ UNCHANGED <<chosen, interrupt, pc, root, stopped, pending, chain, cur, todo,
                 children, counts, entered, handed, calls>>

Finished == pc = "done" /\ UNCHANGED walkerVars

-----------------------------------------------------------------------------
Take == SkipVanished \/ SkipLoop \/ Enter \/ OpenListing \/ ListingRefused

ReadEntry(n) ==
  PassUnfollowedLink(n) \/ NoteTypeRefused(n) \/ QueueDirectory(n)
    \/ PassSpecial(n) \/ HandOver(n)

Walk ==
  \/ NextRoot \/ NoMoreRoots \/ RootWalked
  \/ StopBetweenDirectories \/ Take
  \/ \E n \in Name : ReadEntry(n)
  \/ ListingEnds \/ ListingBreaks \/ StopInListing

Next == Walk \/ Signal \/ (\E d \in Dir : HostRemoves(d)) \/ Finished

\* The walking thread is never starved.
Spec == Init /\ [][Next]_walkerVars /\ WF_walkerVars(Walk)

-----------------------------------------------------------------------------
(***************************************************************************)
(* Type invariant.                                                         *)
(***************************************************************************)
StepType == [name : Name \cup {NoName}, dir : Dir]
PathType == Seq(StepType)
PendingType == [path : PathType, depth : Nat]

TypeOK ==
  /\ IsFileSystem(fs)
  /\ options \in [follow : BOOLEAN, recursive : BOOLEAN]
  /\ asked \in Seq(Dir \cup {NoDir})
  /\ gone \subseteq Dir /\ interrupt \in BOOLEAN /\ stopped \in BOOLEAN
  /\ pc \in {"root", "pop", "open", "list", "done"}
  /\ root \in Nat
  /\ pending \in Seq(PendingType)
  /\ chain \in Seq(Dir \cup {NoDir})
  /\ cur \in PendingType
  /\ todo \subseteq Name
  /\ children \in Seq(StepType)
  /\ counts \in [{"dirs", "unreadable", "loops", "links", "refused", "missing"} -> Nat]
  /\ entered \subseteq PathType
  /\ handed \subseteq [path : PathType, name : Name]
  /\ calls \in Nat

(***************************************************************************)
(* Safety.                                                                 *)
(***************************************************************************)

\* While a directory is read the chain holds its own identity and those of the
\* directories above it, and nothing else: neither a sibling's, which would
\* refuse a second path to a directory, nor one too few, which would let a
\* loop through (FileWalker.cpp:410-435, 697-702).
ChainIsAncestry ==
  pc \in {"open", "list"} => chain = [i \in DOMAIN cur.path |-> Id(cur.path[i].dir)]

\* No path is entered that goes through one directory twice, as long as the
\* host gives its identity.
NoLoopEntered ==
  \A path \in entered : \A i, j \in DOMAIN path :
    (i # j /\ path[i].dir = path[j].dir) => path[i].dir \notin fs.named

\* The directories a search over `edges' from the roots arrives at.
RootDirs == {asked[i] : i \in DOMAIN asked} \ ({NoDir} \cup gone)

Reachable(edges(_)) ==
  {d \in Dir : \A S \in SUBSET Dir :
     (RootDirs \subseteq S /\ \A x \in S : edges(x) \subseteq S) => d \in S}

Subdirectories(d, follow) ==
  {e.to : e \in {fs.entries[d][n] : n \in
     {n \in DOMAIN fs.entries[d] : options.recursive /\ fs.entries[d][n].status = "directory"
                                     /\ (follow \/ ~fs.entries[d][n].link)}}} \ gone

FilesOf(d, follow) ==
  {n \in DOMAIN fs.entries[d] : fs.entries[d][n].status = "regular"
                                  /\ (follow \/ ~fs.entries[d][n].link)}

HandedFrom(d, n) == \E file \in handed : Last(file.path).dir = d /\ file.name = n

\* A walk that was not stopped hands over every file of every directory it can
\* reach and list and that is still there at the end, whatever loops it refused
\* and whatever vanished beside them: "everything it refuses is being walked
\* anyway and nothing is lost" (FileWalker.cpp:417-419).
Listed(d) == IF fs.listing[d] = "whole" THEN Subdirectories(d, options.follow) ELSE {}

NothingIsLost ==
  (pc = "done" /\ ~stopped) =>
    \A d \in Reachable(Listed) : fs.listing[d] = "whole" =>
      \A n \in FilesOf(d, options.follow) : HandedFrom(d, n)

\* A walk that counts no gap leaves no gap: with nothing unreadable, refused,
\* missing or not followed, every file that any reader reaches from the roots,
\* through links too, has been handed over, and no entry there is one whose
\* type the host kept to itself (FileWalker.h:96-118).
Readable(d) == Subdirectories(d, TRUE)

HidesContent(d) == \E n \in DOMAIN fs.entries[d] : fs.entries[d][n].status = "refused"

SilentMeansComplete ==
  (/\ pc = "done" /\ ~stopped
   /\ \A gap \in {"unreadable", "links", "refused", "missing"} : counts[gap] = 0) =>
    \A d \in Reachable(Readable) :
      /\ ~HidesContent(d)
      /\ \A n \in FilesOf(d, TRUE) : HandedFrom(d, n)

(***************************************************************************)
(* Action property and liveness.                                           *)
(***************************************************************************)

\* Once the flag is up no directory is entered and no file handed over, in a
\* tree without a single file too (FileWalker.cpp:544-551).
InterruptStopsTheWalk == [][interrupt => UNCHANGED <<entered, handed, calls>>]_walkerVars

\* Every walk ends, whatever leads back into what.
WalkEnds == <>(pc = "done")

=============================================================================
