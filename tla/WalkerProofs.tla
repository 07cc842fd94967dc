---------------------------- MODULE WalkerProofs ----------------------------
(***************************************************************************)
(* Proofs about Walker, for every file system, every list of roots and any *)
(* removals: what the chain of identities holds, that it is enough to keep *)
(* the walk out of loops, and that the loops it refuses cost it no file.   *)
(***************************************************************************)
EXTENDS Walker, SequenceTheorems, FiniteSetTheorems, TLAPS

(***************************************************************************)
(* The invariant.                                                          *)
(***************************************************************************)

Reading == pc \in {"open", "list"}

\* A depth is the number of directories above the last of the path, and an
\* entry still to read is one of the listing.
Shape ==
  /\ \A i \in DOMAIN pending : Len(pending[i].path) = pending[i].depth + 1
  /\ Reading => Len(cur.path) = cur.depth + 1
  /\ pc = "list" => todo \subseteq DOMAIN fs.entries[CurDir]
  /\ pc = "root" => pending = << >>
  /\ root # 0

\* The stack grows deeper upwards, and never deeper than what is read now.
Deepening ==
  /\ \A i, j \in DOMAIN pending : i <= j => pending[i].depth <= pending[j].depth
  /\ Reading => \A i \in DOMAIN pending : pending[i].depth <= cur.depth

\* The first n identities are those of the path.
Follows(ids, path, n) ==
  \A k \in 1..n : k \in DOMAIN ids /\ ids[k] = Id(path[k].dir)

\* Whatever waits on the stack finds its ancestors on the chain: between the
\* push and the pop the chain was only cut deeper than that, or grown.
Ancestors ==
  /\ \A i \in DOMAIN pending : Follows(chain, pending[i].path, pending[i].depth)
  /\ ChainIsAncestry

\* No directory with an identity is twice among the first n of the path.
Simple(path, n) ==
  \A i, j \in 1..n :
    (i # j /\ path[i].dir = path[j].dir) => path[i].dir \notin fs.named

Straight ==
  /\ \A i \in DOMAIN pending : Simple(pending[i].path, pending[i].depth)
  /\ Reading => Simple(cur.path, Len(cur.path))
  /\ NoLoopEntered

WalkInv == TypeOK /\ Shape /\ Deepening /\ Ancestors /\ Straight

(***************************************************************************)
(* Sequences.                                                              *)
(***************************************************************************)

LEMMA TableIsSeq ==
  ASSUME NEW S, NEW n \in Nat, NEW f \in [1..n -> S]
  PROVE  f \in Seq(S) /\ Len(f) = n
<1>1. f \in Seq(S)
  BY SeqDef
<1>2. Len(f) \in Nat /\ DOMAIN f = 1..Len(f)
  BY <1>1, LenProperties
<1> QED BY <1>1, <1>2

LEMMA FrontIsPrefix ==
  ASSUME NEW S, NEW s \in Seq(S), s # << >>
  PROVE  /\ Front(s) \in Seq(S) /\ Len(Front(s)) = Len(s) - 1
         /\ \A i \in 1..Len(s) - 1 : Front(s)[i] = s[i]
         /\ Last(s) = s[Len(s)] /\ Last(s) \in S /\ Len(s) \in Nat \ {0}
<1>1. Len(s) \in Nat \ {0} /\ \A i \in 1..Len(s) : s[i] \in S
  BY LenProperties, EmptySeq, ElementOfSeq
<1>2. \A i \in 1..Len(s) - 1 : s[i] \in S
  BY <1>1
<1> DEFINE n == Len(s) - 1
<1>3. 1 \in Int /\ n \in Int /\ \A i \in 1..n : s[i] \in S
  BY <1>1, <1>2
<1> HIDE DEF n
<1>4. /\ SubSeq(s, 1, n) \in Seq(S)
      /\ Len(SubSeq(s, 1, n)) = IF 1 <= n THEN n - 1 + 1 ELSE 0
      /\ \A i \in 1..n - 1 + 1 : SubSeq(s, 1, n)[i] = s[1 + i - 1]
  BY <1>3, SubSeqProperties
<1>5. n \in Nat /\ n = Len(s) - 1
  BY <1>1 DEF n
<1>6. Len(SubSeq(s, 1, n)) = n
  BY <1>4, <1>5
<1>7. \A i \in 1..n : SubSeq(s, 1, n)[i] = s[i]
  <2> TAKE i \in 1..n
  <2>1. i \in 1..n - 1 + 1 /\ 1 + i - 1 = i
    BY <1>5
  <2> QED BY <1>4, <2>1
<1>8. Front(s) = SubSeq(s, 1, n) /\ Last(s) = s[Len(s)]
  BY DEF Front, Last, n
<1> QED BY <1>1, <1>4, <1>5, <1>6, <1>7, <1>8

(***************************************************************************)
(* What is on the stack, and what goes on it.                              *)
(***************************************************************************)

\* The directory on top, and what the chain is cut down to for it.
LEMMA TopOfTheStack ==
  ASSUME WalkInv, pending # << >>
  PROVE  /\ Top \in PendingType /\ Top = pending[Len(pending)]
         /\ Len(pending) \in DOMAIN pending
         /\ Len(Top.path) = Top.depth + 1 /\ TopDir = Top.path[Top.depth + 1].dir
         /\ TopDir \in Dir
         /\ Above \in Seq(Dir \cup {NoDir}) /\ Len(Above) = Top.depth
         /\ \A k \in 1..Top.depth : Above[k] = Id(Top.path[k].dir)
         /\ \A k \in 1..Top.depth : Above[k] = chain[k]
         /\ Front(pending) \in Seq(PendingType)
         /\ \A i \in DOMAIN Front(pending) :
              /\ i \in DOMAIN pending /\ Front(pending)[i] = pending[i]
              /\ pending[i].depth <= Top.depth
<1>1. pending \in Seq(PendingType) /\ chain \in Seq(Dir \cup {NoDir})
  BY DEF WalkInv, TypeOK
<1>2. /\ Front(pending) \in Seq(PendingType)
      /\ Len(Front(pending)) = Len(pending) - 1
      /\ \A i \in 1..Len(pending) - 1 : Front(pending)[i] = pending[i]
      /\ Top = pending[Len(pending)] /\ Top \in PendingType
      /\ Len(pending) \in Nat \ {0}
  BY <1>1, FrontIsPrefix DEF Top
<1>3. DOMAIN pending = 1..Len(pending) /\ DOMAIN chain = 1..Len(chain) /\ Len(chain) \in Nat
      /\ DOMAIN Front(pending) = 1..Len(Front(pending))
  BY <1>1, <1>2, LenProperties
<1>4. Len(pending) \in DOMAIN pending
  BY <1>2, <1>3
<1>5. Top.path \in Seq(StepType) /\ Top.depth \in Nat
  BY <1>2 DEF PendingType, PathType
<1>6. Len(Top.path) = Top.depth + 1
  BY <1>2, <1>4 DEF WalkInv, Shape
<1>7. TopDir = Top.path[Top.depth + 1].dir /\ TopDir \in Dir
  <2>1. Top.path[Top.depth + 1] \in StepType
    BY <1>5, <1>6, ElementOfSeq
  <2> QED BY <1>6, <2>1 DEF TopDir, Last, StepType
<1>8. \A k \in 1..Top.depth : k \in DOMAIN chain /\ chain[k] = Id(Top.path[k].dir)
  BY <1>2, <1>4 DEF WalkInv, Ancestors, Follows
<1>9. \A k \in 1..Top.depth : chain[k] \in Dir \cup {NoDir} /\ k <= Len(chain)
  BY <1>1, <1>3, <1>8, ElementOfSeq
<1>10. Above = [k \in 1..Top.depth |-> chain[k]]
  BY <1>9 DEF Above
<1>11. Above \in [1..Top.depth -> Dir \cup {NoDir}]
  BY <1>9, <1>10
<1>12. Above \in Seq(Dir \cup {NoDir}) /\ Len(Above) = Top.depth
  BY <1>5, <1>11, TableIsSeq
<1>13. \A i \in DOMAIN Front(pending) :
         /\ i \in DOMAIN pending /\ Front(pending)[i] = pending[i]
         /\ pending[i].depth <= Top.depth
  <2>1. \A i \in DOMAIN Front(pending) :
          i \in DOMAIN pending /\ Front(pending)[i] = pending[i] /\ i <= Len(pending)
    BY <1>2, <1>3
  <2> QED BY <1>2, <1>4, <2>1 DEF WalkInv, Deepening
<1> QED BY <1>2, <1>4, <1>6, <1>7, <1>8, <1>10, <1>12, <1>13

\* The directory being read.
LEMMA CurrentDirectory ==
  ASSUME WalkInv, Reading
  PROVE  /\ cur \in PendingType /\ cur.path \in PathType /\ cur.depth \in Nat
         /\ Len(cur.path) = cur.depth + 1
         /\ CurDir \in Dir /\ DOMAIN fs.entries[CurDir] \subseteq Name
<1>1. cur \in PendingType /\ cur.path \in Seq(StepType) /\ cur.depth \in Nat
  BY DEF WalkInv, TypeOK, PendingType, PathType
<1>2. Len(cur.path) = cur.depth + 1
  BY DEF WalkInv, Shape
<1>3. cur.path[Len(cur.path)] \in StepType
  BY <1>1, <1>2, ElementOfSeq
<1>4. CurDir \in Dir
  BY <1>3 DEF CurDir, Last, StepType
<1> QED BY <1>1, <1>2, <1>4 DEF WalkInv, TypeOK, IsFileSystem, PathType

\* A child lies one below the directory being read.
LEMMA ChildOfCurrent ==
  ASSUME WalkInv, Reading, NEW step \in StepType
  PROVE  /\ Child(step) \in PendingType
         /\ Child(step).depth = cur.depth + 1
         /\ Len(Child(step).path) = Child(step).depth + 1
         /\ \A k \in 1..Child(step).depth : Child(step).path[k] = cur.path[k]
<1>1. cur.path \in Seq(StepType) /\ cur.depth \in Nat /\ Len(cur.path) = cur.depth + 1
  BY CurrentDirectory DEF PathType
<1>2. /\ Append(cur.path, step) \in Seq(StepType)
      /\ Len(Append(cur.path, step)) = Len(cur.path) + 1
      /\ \A k \in 1..Len(cur.path) : Append(cur.path, step)[k] = cur.path[k]
  BY <1>1
<1> QED BY <1>1, <1>2 DEF Child, Pending, PendingType, PathType

\* The children go above everything that waits.
LEMMA PushedOnTop ==
  ASSUME WalkInv, Reading, PushChildren
  PROVE  /\ pending' \in Seq(PendingType)
         /\ \A i \in DOMAIN pending' :
              \/ i \in DOMAIN pending /\ pending'[i] = pending[i]
              \/ /\ \A j \in DOMAIN pending : j < i
                 /\ \E step \in StepType : pending'[i] = Child(step)
         /\ \A i \in DOMAIN pending' :
              \/ i \in DOMAIN pending /\ pending'[i] = pending[i]
              \/ \E j \in DOMAIN children : pending'[i] = Child(children[j])
<1> DEFINE kids == [i \in DOMAIN children |-> Child(children[i])]
           flip == Reverse(kids)
<1>1. pending \in Seq(PendingType) /\ children \in Seq(StepType)
  BY DEF WalkInv, TypeOK
<1>2. /\ DOMAIN pending = 1..Len(pending) /\ Len(pending) \in Nat
      /\ DOMAIN children = 1..Len(children) /\ Len(children) \in Nat
  BY <1>1, LenProperties
<1>3. \A i \in DOMAIN children : children[i] \in StepType
  BY <1>1, <1>2, ElementOfSeq
<1>4. \A i \in DOMAIN children : Child(children[i]) \in PendingType
  BY <1>3, ChildOfCurrent
<1>5. kids \in [1..Len(children) -> PendingType]
  BY <1>2, <1>4
<1>6. Len(kids) = Len(children)
  BY <1>2, <1>5, TableIsSeq
<1>7. flip = [i \in 1..Len(children) |-> kids[Len(children) - i + 1]]
  BY <1>6 DEF Reverse
<1>8. \A i \in 1..Len(children) :
         \E j \in DOMAIN children : flip[i] = Child(children[j])
  <2> TAKE i \in 1..Len(children)
  <2>1. Len(children) - i + 1 \in DOMAIN children
    BY <1>2
  <2>2. flip[i] = Child(children[Len(children) - i + 1])
    BY <1>7, <2>1
  <2> QED BY <2>1, <2>2
<1>9. \A i \in 1..Len(children) : \E step \in StepType : flip[i] = Child(step)
  BY <1>3, <1>8
<1>10. flip \in [1..Len(children) -> PendingType]
  BY <1>7, <1>9, ChildOfCurrent
<1>11. flip \in Seq(PendingType) /\ Len(flip) = Len(children)
  BY <1>2, <1>10, TableIsSeq
<1>12. pending' = pending \o flip
  BY DEF PushChildren
<1> HIDE DEF flip, kids
<1>13. /\ pending' \in Seq(PendingType)
       /\ Len(pending') = Len(pending) + Len(children)
       /\ \A i \in 1..Len(pending) + Len(children) :
            pending'[i] = IF i <= Len(pending) THEN pending[i] ELSE flip[i - Len(pending)]
  <2>1. /\ pending \o flip \in Seq(PendingType)
        /\ Len(pending \o flip) = Len(pending) + Len(flip)
        /\ \A i \in 1..Len(pending) + Len(flip) :
             (pending \o flip)[i] = IF i <= Len(pending) THEN pending[i]
                                    ELSE flip[i - Len(pending)]
    BY <1>1, <1>11, ConcatProperties
  <2> QED BY <1>11, <1>12, <2>1
<1>14. DOMAIN pending' = 1..Len(pending) + Len(children)
  BY <1>13, LenProperties
<1>15. ASSUME NEW i \in DOMAIN pending'
       PROVE  \/ i \in DOMAIN pending /\ pending'[i] = pending[i]
              \/ /\ \A j \in DOMAIN pending : j < i
                 /\ \E step \in StepType : pending'[i] = Child(step)
                 /\ \E j \in DOMAIN children : pending'[i] = Child(children[j])
  <2>1. CASE i <= Len(pending)
    BY <1>2, <1>13, <1>14, <2>1
  <2>2. CASE i > Len(pending)
    <3>1. i - Len(pending) \in 1..Len(children)
      BY <1>2, <1>14, <2>2
    <3>2. pending'[i] = flip[i - Len(pending)]
      BY <1>2, <1>13, <1>14, <2>2
    <3>3. \E step \in StepType : pending'[i] = Child(step)
      BY <1>9, <3>1, <3>2
    <3>4. \A j \in DOMAIN pending : j < i
      BY <1>2, <1>14, <2>2
    <3>5. \E j \in DOMAIN children : pending'[i] = Child(children[j])
      BY <1>8, <3>1, <3>2
    <3> QED BY <3>3, <3>4, <3>5
  <2> QED BY <1>2, <1>14, <2>1, <2>2
<1> QED BY <1>13, <1>15

(***************************************************************************)
(* Steps that leave the stack alone, that pop it, and that push on it.     *)
(***************************************************************************)

LEMMA SameStack ==
  ASSUME WalkInv, UNCHANGED <<fs, pending, chain, cur, entered>>,
         Reading' => Reading,
         pc' = "list" => todo' \subseteq DOMAIN fs.entries[CurDir],
         pc' = "root" => pending = << >>, root' \in {root, root + 1}
  PROVE  Shape' /\ Deepening' /\ Ancestors' /\ Straight'
<1>1. Shape'
  <2>1. root' # 0
    BY DEF WalkInv, TypeOK, Shape
  <2> QED BY <2>1 DEF WalkInv, Shape, Reading, CurDir
<1>2. Deepening'
  BY DEF WalkInv, Deepening, Reading
<1>3. Ancestors'
  <2>1. (\A i \in DOMAIN pending : Follows(chain, pending[i].path, pending[i].depth))'
    BY DEF WalkInv, Ancestors, Follows, Id
  <2>2. ChainIsAncestry'
    BY DEF WalkInv, Ancestors, ChainIsAncestry, Reading, Id
  <2> QED BY <2>1, <2>2 DEF Ancestors
<1>4. Straight'
  <2>1. (\A i \in DOMAIN pending : Simple(pending[i].path, pending[i].depth))'
    BY DEF WalkInv, Straight, Simple
  <2>2. (Reading => Simple(cur.path, Len(cur.path)))'
    BY DEF WalkInv, Straight, Simple
  <2>3. NoLoopEntered'
    BY DEF WalkInv, Straight, NoLoopEntered
  <2> QED BY <2>1, <2>2, <2>3 DEF Straight
<1> QED BY <1>1, <1>2, <1>3, <1>4

\* What still waits lies no deeper than what was popped, and the chain is cut
\* no shorter than that: it still holds every ancestor of it.
LEMMA RestOfTheStack ==
  ASSUME WalkInv, pending # << >>, pending' = Front(pending), fs' = fs,
         \A k \in 1..Top.depth : k \in DOMAIN chain' /\ chain'[k] = chain[k]
  PROVE  /\ pending' \in Seq(PendingType)
         /\ \A i \in DOMAIN pending' :
              /\ Len(pending'[i].path) = pending'[i].depth + 1
              /\ pending'[i].depth <= Top.depth
              /\ Follows(chain', pending'[i].path, pending'[i].depth)
              /\ Simple(pending'[i].path, pending'[i].depth)
         /\ \A i, j \in DOMAIN pending' : i <= j => pending'[i].depth <= pending'[j].depth
<1>1. /\ pending' \in Seq(PendingType) /\ Top.depth \in Nat
      /\ \A i \in DOMAIN pending' :
           /\ i \in DOMAIN pending /\ pending'[i] = pending[i]
           /\ pending[i].depth <= Top.depth
  BY TopOfTheStack DEF PendingType
<1>2. \A i \in DOMAIN pending' : pending'[i].depth \in Nat
  <2>1. \A i \in DOMAIN pending' : pending'[i] \in PendingType
    BY <1>1, LenProperties, ElementOfSeq
  <2> QED BY <2>1 DEF PendingType
<1>3. ASSUME NEW i \in DOMAIN pending'
      PROVE  /\ Len(pending'[i].path) = pending'[i].depth + 1
             /\ Follows(chain', pending'[i].path, pending'[i].depth)
             /\ Simple(pending'[i].path, pending'[i].depth)
  <2>1. Len(pending'[i].path) = pending'[i].depth + 1
    BY <1>1 DEF WalkInv, Shape
  <2>2. \A k \in 1..pending'[i].depth : /\ k \in 1..Top.depth
                                        /\ k \in DOMAIN chain
                                        /\ chain[k] = Id(pending'[i].path[k].dir)
    BY <1>1, <1>2 DEF WalkInv, Ancestors, Follows
  <2>3. \A k \in 1..pending'[i].depth : /\ k \in DOMAIN chain'
                                        /\ chain'[k] = Id(pending'[i].path[k].dir)
    BY <2>2 DEF Id
  <2>4. Simple(pending'[i].path, pending'[i].depth)
    BY <1>1 DEF WalkInv, Straight, Simple
  <2> QED BY <2>1, <2>3, <2>4 DEF Follows
<1>4. \A i, j \in DOMAIN pending' : i <= j => pending'[i].depth <= pending'[j].depth
  BY <1>1 DEF WalkInv, Deepening
<1> QED BY <1>1, <1>3, <1>4

LEMMA Skipped ==
  ASSUME WalkInv, Pop, chain' = Above, UNCHANGED <<pc, cur, entered>>
  PROVE  /\ pending' \in Seq(PendingType) /\ chain' \in Seq(Dir \cup {NoDir})
         /\ Shape' /\ Deepening' /\ Ancestors' /\ Straight'
<1>1. pending # << >> /\ pending' = Front(pending) /\ fs' = fs /\ pc' = "pop"
      /\ root' # 0
  BY DEF Pop, chosen, WalkInv, Shape
<1>2. /\ Above \in Seq(Dir \cup {NoDir}) /\ Len(Above) = Top.depth
      /\ \A k \in 1..Top.depth : Above[k] = chain[k]
  BY <1>1, TopOfTheStack
<1>3. DOMAIN Above = 1..Top.depth
  BY <1>2, LenProperties
<1>4. \A k \in 1..Top.depth : k \in DOMAIN chain' /\ chain'[k] = chain[k]
  BY <1>2, <1>3
<1>5. /\ pending' \in Seq(PendingType)
      /\ \A i \in DOMAIN pending' :
           /\ Len(pending'[i].path) = pending'[i].depth + 1
           /\ Follows(chain', pending'[i].path, pending'[i].depth)
           /\ Simple(pending'[i].path, pending'[i].depth)
      /\ \A i, j \in DOMAIN pending' : i <= j => pending'[i].depth <= pending'[j].depth
  BY <1>1, <1>4, RestOfTheStack
<1>6. ~Reading'
  BY <1>1 DEF Reading
<1>7. Shape' /\ Deepening'
  BY <1>1, <1>5, <1>6 DEF Shape, Deepening
<1>8. Ancestors'
  BY <1>1, <1>5 DEF Ancestors, ChainIsAncestry, Follows, Id
<1>9. NoLoopEntered'
  BY <1>1 DEF WalkInv, Straight, NoLoopEntered
<1> QED BY <1>1, <1>2, <1>5, <1>6, <1>7, <1>8, <1>9 DEF Straight, Simple

\* A directory whose identity is not on the chain is a new one on its path.
LEMMA NewOnItsPath ==
  ASSUME WalkInv, pending # << >>, ~ClosesALoop
  PROVE  Simple(Top.path, Top.depth + 1)
<1> DEFINE n == Top.depth + 1
<1>1. /\ Top.depth \in Nat /\ TopDir = Top.path[n].dir /\ TopDir \in Dir
      /\ Len(pending) \in DOMAIN pending /\ Top = pending[Len(pending)]
      /\ DOMAIN Above = 1..Top.depth
      /\ \A k \in 1..Top.depth : Above[k] = Id(Top.path[k].dir)
  BY TopOfTheStack, LenProperties DEF PendingType
<1>2. Simple(Top.path, Top.depth)
  BY <1>1 DEF WalkInv, Straight
<1>3. ASSUME NEW k \in 1..Top.depth, Top.path[k].dir = TopDir, TopDir \in fs.named
      PROVE  FALSE
  <2>1. Id(TopDir) = TopDir /\ TopDir # NoDir
    BY <1>1, <1>3, WalkerAssumption DEF Id
  <2>2. Above[k] = Id(TopDir) /\ k \in DOMAIN Above
    BY <1>1, <1>3
  <2> QED BY <2>1, <2>2 DEF ClosesALoop
<1>4. ASSUME NEW i \in 1..n, NEW j \in 1..n, i # j, Top.path[i].dir = Top.path[j].dir
      PROVE  Top.path[i].dir \notin fs.named
  <2>1. CASE i \in 1..Top.depth /\ j \in 1..Top.depth
    BY <1>2, <1>4, <2>1 DEF Simple
  <2>2. CASE i = n
    <3>1. j \in 1..Top.depth
      BY <1>1, <1>4, <2>2
    <3> QED BY <1>1, <1>3, <1>4, <2>2, <3>1
  <2>3. CASE j = n
    <3>1. i \in 1..Top.depth
      BY <1>1, <1>4, <2>3
    <3> QED BY <1>1, <1>3, <1>4, <2>3, <3>1
  <2> QED BY <1>1, <2>1, <2>2, <2>3
<1> QED BY <1>4 DEF Simple

LEMMA Entered ==
  ASSUME WalkInv, Enter
  PROVE  /\ pending' \in Seq(PendingType) /\ chain' \in Seq(Dir \cup {NoDir})
         /\ cur' \in PendingType /\ entered' \subseteq PathType
         /\ Shape' /\ Deepening' /\ Ancestors' /\ Straight'
<1>1. /\ pending # << >> /\ pending' = Front(pending) /\ fs' = fs /\ ~ClosesALoop
      /\ chain' = Append(Above, Id(TopDir)) /\ cur' = Top /\ pc' = "open"
      /\ entered' = entered \cup {Top.path} /\ root' # 0
  BY DEF Enter, Pop, chosen, WalkInv, Shape
<1>2. /\ Top \in PendingType /\ Top.depth \in Nat /\ Top.path \in PathType
      /\ Len(Top.path) = Top.depth + 1
      /\ TopDir = Top.path[Top.depth + 1].dir /\ TopDir \in Dir
      /\ Above \in Seq(Dir \cup {NoDir}) /\ Len(Above) = Top.depth
      /\ \A k \in 1..Top.depth : Above[k] = Id(Top.path[k].dir)
      /\ \A k \in 1..Top.depth : Above[k] = chain[k]
  BY <1>1, TopOfTheStack DEF PendingType
<1>3. Id(TopDir) \in Dir \cup {NoDir}
  BY <1>2 DEF Id
<1>4. /\ chain' \in Seq(Dir \cup {NoDir}) /\ Len(chain') = Top.depth + 1
      /\ \A k \in 1..Top.depth : chain'[k] = Above[k]
      /\ chain'[Top.depth + 1] = Id(TopDir)
  BY <1>1, <1>2, <1>3
<1>5. DOMAIN chain' = 1..Top.depth + 1
  BY <1>4, LenProperties
<1>6. \A k \in 1..Top.depth : k \in DOMAIN chain' /\ chain'[k] = chain[k]
  BY <1>2, <1>4, <1>5
<1>7. /\ pending' \in Seq(PendingType)
      /\ \A i \in DOMAIN pending' :
           /\ Len(pending'[i].path) = pending'[i].depth + 1
           /\ pending'[i].depth <= Top.depth
           /\ Follows(chain', pending'[i].path, pending'[i].depth)
           /\ Simple(pending'[i].path, pending'[i].depth)
      /\ \A i, j \in DOMAIN pending' : i <= j => pending'[i].depth <= pending'[j].depth
  BY <1>1, <1>6, RestOfTheStack
<1>8. DOMAIN Top.path = 1..Top.depth + 1
  BY <1>2, LenProperties DEF PathType
<1>9. \A k \in 1..Top.depth + 1 : chain'[k] = Id(Top.path[k].dir)
  BY <1>1, <1>2, <1>4 DEF Id
<1>10. chain' = [k \in DOMAIN cur'.path |-> Id(cur'.path[k].dir)]
  <2>1. chain' \in [1..Top.depth + 1 -> Dir \cup {NoDir}]
    BY <1>4, LenProperties
  <2> QED BY <1>1, <1>5, <1>8, <1>9, <2>1
<1>11. Shape'
  BY <1>1, <1>2, <1>7 DEF Shape, Reading
<1>12. Deepening'
  BY <1>1, <1>7 DEF Deepening
<1>13. Ancestors'
  BY <1>1, <1>7, <1>10 DEF Ancestors, ChainIsAncestry, Follows, Id
<1>14. Simple(Top.path, Len(Top.path))
  <2>1. Simple(Top.path, Top.depth + 1)
    BY <1>1, NewOnItsPath
  <2> QED BY <1>1, <1>2, <2>1 DEF Simple
<1>15. NoLoopEntered'
  <2>1. \A path \in entered : \A i, j \in DOMAIN path :
          (i # j /\ path[i].dir = path[j].dir) => path[i].dir \notin fs.named
    BY DEF WalkInv, Straight, NoLoopEntered
  <2>2. \A i, j \in DOMAIN Top.path :
          (i # j /\ Top.path[i].dir = Top.path[j].dir) => Top.path[i].dir \notin fs.named
    <3>1. Simple(Top.path, Top.depth + 1)
      BY <1>1, NewOnItsPath
    <3> QED BY <1>8, <3>1 DEF Simple
  <2> QED BY <1>1, <2>1, <2>2 DEF NoLoopEntered
<1>16. Straight'
  BY <1>1, <1>7, <1>14, <1>15 DEF Straight, Simple
<1>17. entered' \subseteq PathType
  BY <1>1, <1>2 DEF WalkInv, TypeOK
<1> QED BY <1>1, <1>2, <1>4, <1>7, <1>11, <1>12, <1>13, <1>16, <1>17

LEMMA Pushed ==
  ASSUME WalkInv, Reading, PushChildren
  PROVE  /\ pending' \in Seq(PendingType)
         /\ Shape' /\ Deepening' /\ Ancestors' /\ Straight'
<1>1. fs' = fs /\ chain' = chain /\ cur' = cur /\ entered' = entered /\ pc' = "pop"
      /\ root' # 0
  BY DEF PushChildren, chosen, WalkInv, Shape
<1>2. /\ cur.path \in Seq(StepType) /\ cur.depth \in Nat /\ Len(cur.path) = cur.depth + 1
      /\ DOMAIN cur.path = 1..cur.depth + 1
  BY CurrentDirectory, LenProperties DEF PathType
<1>3. /\ pending' \in Seq(PendingType)
      /\ \A i \in DOMAIN pending' :
           \/ i \in DOMAIN pending /\ pending'[i] = pending[i]
           \/ /\ \A j \in DOMAIN pending : j < i
              /\ \E step \in StepType : pending'[i] = Child(step)
  BY PushedOnTop
<1>4. \A i \in DOMAIN pending' : i \in Nat
  BY <1>3, LenProperties
<1>5. ASSUME NEW i \in DOMAIN pending'
      PROVE  /\ Len(pending'[i].path) = pending'[i].depth + 1
             /\ Follows(chain', pending'[i].path, pending'[i].depth)
             /\ Simple(pending'[i].path, pending'[i].depth)
  <2>1. CASE i \in DOMAIN pending /\ pending'[i] = pending[i]
    <3>1. Len(pending'[i].path) = pending'[i].depth + 1
      BY <2>1 DEF WalkInv, Shape
    <3>2. Follows(chain', pending'[i].path, pending'[i].depth)
      BY <1>1, <2>1 DEF WalkInv, Ancestors, Follows, Id
    <3>3. Simple(pending'[i].path, pending'[i].depth)
      BY <1>1, <2>1 DEF WalkInv, Straight, Simple
    <3> QED BY <3>1, <3>2, <3>3
  <2>2. CASE \E step \in StepType : pending'[i] = Child(step)
    <3>1. PICK step \in StepType : pending'[i] = Child(step)
      BY <2>2
    <3>2. /\ Child(step).depth = cur.depth + 1
          /\ Len(Child(step).path) = Child(step).depth + 1
          /\ \A k \in 1..Child(step).depth : Child(step).path[k] = cur.path[k]
      BY ChildOfCurrent
    <3>3. chain = [k \in DOMAIN cur.path |-> Id(cur.path[k].dir)]
      BY DEF WalkInv, Ancestors, ChainIsAncestry, Reading
    <3>4. Simple(cur.path, cur.depth + 1)
      BY <1>2 DEF WalkInv, Straight
    <3>5. \A k \in 1..cur.depth + 1 :
            k \in DOMAIN chain /\ chain[k] = Id(Child(step).path[k].dir)
      BY <1>2, <3>2, <3>3
    <3>6. \A k \in 1..pending'[i].depth :
            k \in DOMAIN chain' /\ chain'[k] = Id(pending'[i].path[k].dir)
      BY <1>1, <3>1, <3>2, <3>5 DEF Id
    <3>7. Simple(pending'[i].path, pending'[i].depth)
      BY <1>1, <3>1, <3>2, <3>4 DEF Simple
    <3> QED BY <3>1, <3>2, <3>6, <3>7 DEF Follows
  <2> QED BY <1>3, <2>1, <2>2
<1>6. ASSUME NEW i \in DOMAIN pending', NEW j \in DOMAIN pending', i <= j
      PROVE  pending'[i].depth <= pending'[j].depth
  <2>1. \A k \in DOMAIN pending : pending[k].depth <= cur.depth /\ pending[k].depth \in Nat
    <3>1. \A k \in DOMAIN pending : pending[k] \in PendingType
      BY LenProperties, ElementOfSeq DEF WalkInv, TypeOK
    <3> QED BY <3>1 DEF WalkInv, Deepening, PendingType
  <2>2. \A step \in StepType : Child(step).depth = cur.depth + 1
    BY ChildOfCurrent
  <2>3. CASE j \in DOMAIN pending /\ pending'[j] = pending[j]
    <3>1. i \in DOMAIN pending /\ pending'[i] = pending[i]
      BY <1>3, <1>4, <1>6, <2>3
    <3> QED BY <1>6, <2>3, <3>1 DEF WalkInv, Deepening
  <2>4. CASE \E step \in StepType : pending'[j] = Child(step)
    BY <1>2, <1>3, <2>1, <2>2, <2>4
  <2> QED BY <1>3, <2>3, <2>4
<1>7. Shape' /\ Deepening'
  BY <1>1, <1>5, <1>6 DEF Shape, Deepening, Reading
<1>8. Ancestors'
  BY <1>1, <1>5 DEF Ancestors, ChainIsAncestry, Follows, Id
<1>9. Straight'
  <2>1. NoLoopEntered'
    BY <1>1 DEF WalkInv, Straight, NoLoopEntered
  <2> QED BY <1>1, <1>5, <2>1 DEF Straight, Simple, Reading
<1> QED BY <1>3, <1>7, <1>8, <1>9

(***************************************************************************)
(* Every step keeps the invariant.                                         *)
(***************************************************************************)

LEMMA CountIsTyped ==
  ASSUME TypeOK,
         NEW field \in {"dirs", "unreadable", "loops", "links", "refused", "missing"},
         Count(field)
  PROVE  counts' \in
           [{"dirs", "unreadable", "loops", "links", "refused", "missing"} -> Nat]
  BY DEF TypeOK, Count

LEMMA WalkInit == ASSUME Init PROVE WalkInv
<1>1. PICK s \in Scenarios : fs = s.fs /\ options = s.options /\ asked = s.asked
  BY DEF Init
<1>2. IsFileSystem(fs) /\ options \in [follow : BOOLEAN, recursive : BOOLEAN]
      /\ asked \in Seq(Dir \cup {NoDir})
  BY <1>1, WalkerAssumption
<1>3. counts \in [{"dirs", "unreadable", "loops", "links", "refused", "missing"} -> Nat]
  BY DEF Init
<1>4. pending \in Seq(PendingType) /\ chain \in Seq(Dir \cup {NoDir})
      /\ children \in Seq(StepType) /\ cur \in PendingType
  BY EmptySeq DEF Init, Pending, PendingType, PathType
<1>5. TypeOK
  BY <1>2, <1>3, <1>4 DEF Init, TypeOK
<1>6. Shape /\ Deepening
  BY DEF Init, Shape, Deepening, Reading
<1>7. Ancestors /\ Straight
  BY DEF Init, Ancestors, ChainIsAncestry, Straight, NoLoopEntered, Reading
<1> QED BY <1>5, <1>6, <1>7 DEF WalkInv

LEMMA RootStep ==
  ASSUME WalkInv, NextRoot \/ NoMoreRoots \/ RootWalked
  PROVE  WalkInv'
<1>1. CASE NextRoot /\ pending' # pending
  <2>1. /\ asked[root] \in Dir \cup {NoDir} /\ asked[root] # NoDir
        /\ pending' = <<Pending(<<Step(NoName, asked[root])>>, 0)>>
        /\ chain' = << >> /\ pc' = "pop" /\ fs' = fs /\ entered' = entered
    <3>1. asked[root] \in Dir \cup {NoDir}
      <4>1. root \in 1..Len(asked)
        BY <1>1 DEF NextRoot, WalkInv, TypeOK, Shape
      <4> QED BY <4>1, ElementOfSeq DEF WalkInv, TypeOK
    <3> QED BY <1>1, <3>1 DEF NextRoot, chosen
  <2> DEFINE path == <<Step(NoName, asked[root])>>
  <2>2. path \in PathType /\ Len(path) = 1
    BY <2>1 DEF Step, StepType, PathType
  <2>3. pending' = <<[path |-> path, depth |-> 0]>> /\ pending' \in Seq(PendingType)
    BY <2>1, <2>2 DEF Pending, PendingType
  <2>4. DOMAIN pending' = {1} /\ pending'[1] = [path |-> path, depth |-> 0]
    BY <2>3
  <2> HIDE DEF path
  <2>5. TypeOK'
    BY <1>1, <2>1, <2>3, EmptySeq DEF NextRoot, WalkInv, TypeOK, chosen
  <2>6. Shape' /\ Deepening'
    <3>1. root' # 0
      BY <1>1 DEF NextRoot, WalkInv, Shape
    <3>2. \A i, j \in DOMAIN pending' : pending'[i].depth <= pending'[j].depth
      BY <2>4
    <3>3. \A i \in DOMAIN pending' : Len(pending'[i].path) = pending'[i].depth + 1
      <4>1. pending'[1].path = path /\ pending'[1].depth = 0
        BY <2>4
      <4>2. Len(pending'[1].path) = pending'[1].depth + 1
        BY <2>2, <4>1
      <4> QED BY <2>4, <4>2
    <3> QED BY <2>1, <3>1, <3>2, <3>3 DEF Shape, Deepening, Reading
  <2>7. Ancestors'
    BY <2>1, <2>4 DEF Ancestors, Follows, ChainIsAncestry
  <2>8. Straight'
    BY <2>1, <2>4 DEF WalkInv, Straight, Simple, NoLoopEntered, Reading
  <2> QED BY <2>5, <2>6, <2>7, <2>8 DEF WalkInv
<1>2. CASE NextRoot /\ pending' = pending
  <2>1. Count("missing") /\ root' = root + 1 /\ pc' = pc /\ chain' = chain
    BY <1>2 DEF NextRoot, WalkInv, Shape, Pending
  <2>2. counts' \in [{"dirs", "unreadable", "loops", "links", "refused", "missing"} -> Nat]
    BY <2>1, CountIsTyped DEF WalkInv
  <2>3. TypeOK'
    BY <1>2, <2>1, <2>2 DEF NextRoot, WalkInv, TypeOK, chosen
  <2>4. Shape' /\ Deepening' /\ Ancestors' /\ Straight'
    BY <1>2, <2>1, SameStack DEF NextRoot, chosen, Reading, WalkInv, Shape
  <2> QED BY <2>3, <2>4 DEF WalkInv
<1>3. CASE NoMoreRoots
  <2>1. TypeOK'
    BY <1>3 DEF NoMoreRoots, WalkInv, TypeOK, chosen
  <2>2. Shape' /\ Deepening' /\ Ancestors' /\ Straight'
    BY <1>3, SameStack DEF NoMoreRoots, chosen, Reading
  <2> QED BY <2>1, <2>2 DEF WalkInv
<1>4. CASE RootWalked
  <2>1. TypeOK'
    BY <1>4 DEF RootWalked, WalkInv, TypeOK, chosen
  <2>2. Shape' /\ Deepening' /\ Ancestors' /\ Straight'
    BY <1>4, SameStack DEF RootWalked, chosen, Reading
  <2> QED BY <2>1, <2>2 DEF WalkInv
<1> QED BY <1>1, <1>2, <1>3, <1>4

LEMMA PopStep ==
  ASSUME WalkInv, StopBetweenDirectories \/ SkipVanished \/ SkipLoop \/ Enter
  PROVE  WalkInv'
<1>1. CASE StopBetweenDirectories
  <2>1. TypeOK'
    BY <1>1 DEF StopBetweenDirectories, WalkInv, TypeOK, chosen
  <2>2. Shape' /\ Deepening' /\ Ancestors' /\ Straight'
    BY <1>1, SameStack DEF StopBetweenDirectories, chosen, Reading
  <2> QED BY <2>1, <2>2 DEF WalkInv
<1>2. CASE SkipVanished
  <2>1. /\ pending' \in Seq(PendingType) /\ chain' \in Seq(Dir \cup {NoDir})
        /\ Shape' /\ Deepening' /\ Ancestors' /\ Straight'
    BY <1>2, Skipped DEF SkipVanished
  <2>2. TypeOK'
    BY <1>2, <2>1 DEF SkipVanished, Pop, WalkInv, TypeOK, chosen
  <2> QED BY <2>1, <2>2 DEF WalkInv
<1>3. CASE SkipLoop
  <2>1. /\ pending' \in Seq(PendingType) /\ chain' \in Seq(Dir \cup {NoDir})
        /\ Shape' /\ Deepening' /\ Ancestors' /\ Straight'
    BY <1>3, Skipped DEF SkipLoop
  <2>2. counts' \in [{"dirs", "unreadable", "loops", "links", "refused", "missing"} -> Nat]
    BY <1>3, CountIsTyped DEF SkipLoop, WalkInv
  <2>3. TypeOK'
    BY <1>3, <2>1, <2>2 DEF SkipLoop, Pop, WalkInv, TypeOK, chosen
  <2> QED BY <2>1, <2>3 DEF WalkInv
<1>4. CASE Enter
  <2>1. /\ pending' \in Seq(PendingType) /\ chain' \in Seq(Dir \cup {NoDir})
        /\ cur' \in PendingType /\ entered' \subseteq PathType
        /\ Shape' /\ Deepening' /\ Ancestors' /\ Straight'
    BY <1>4, Entered
  <2>2. counts' \in [{"dirs", "unreadable", "loops", "links", "refused", "missing"} -> Nat]
    BY <1>4, CountIsTyped DEF Enter, WalkInv
  <2>3. children' \in Seq(StepType)
    BY <1>4, EmptySeq DEF Enter
  <2>4. TypeOK'
    BY <1>4, <2>1, <2>2, <2>3 DEF Enter, Pop, WalkInv, TypeOK, chosen
  <2> QED BY <2>1, <2>4 DEF WalkInv
<1> QED BY <1>1, <1>2, <1>3, <1>4

LEMMA OpenStep ==
  ASSUME WalkInv, OpenListing \/ ListingRefused
  PROVE  WalkInv'
<1>1. Reading
  BY DEF OpenListing, ListingRefused, Reading
<1>2. DOMAIN fs.entries[CurDir] \subseteq Name
  BY <1>1, CurrentDirectory
<1>3. CASE OpenListing
  <2>1. TypeOK'
    BY <1>2, <1>3 DEF OpenListing, WalkInv, TypeOK, chosen
  <2>2. Shape' /\ Deepening' /\ Ancestors' /\ Straight'
    BY <1>1, <1>3, SameStack DEF OpenListing, chosen
  <2> QED BY <2>1, <2>2 DEF WalkInv
<1>4. CASE ListingRefused
  <2>1. counts' \in [{"dirs", "unreadable", "loops", "links", "refused", "missing"} -> Nat]
    BY <1>4, CountIsTyped DEF ListingRefused, WalkInv
  <2>2. TypeOK'
    BY <1>4, <2>1 DEF ListingRefused, WalkInv, TypeOK, chosen
  <2>3. Shape' /\ Deepening' /\ Ancestors' /\ Straight'
    BY <1>1, <1>4, SameStack DEF ListingRefused, chosen
  <2> QED BY <2>2, <2>3 DEF WalkInv
<1> QED BY <1>3, <1>4

LEMMA EntryStep ==
  ASSUME WalkInv, NEW n \in Name, ReadEntry(n)
  PROVE  WalkInv'
<1>1. Reads(n)
  BY DEF ReadEntry, PassUnfollowedLink, NoteTypeRefused, QueueDirectory, PassSpecial, HandOver
<1>2. Reading /\ pc' = "list" /\ n \in DOMAIN fs.entries[CurDir]
  BY <1>1 DEF Reads, Reading, WalkInv, Shape
<1>3. /\ cur.path \in PathType /\ CurDir \in Dir
      /\ fs.entries[CurDir][n].status = "directory" => fs.entries[CurDir][n].to \in Dir
  BY <1>2, CurrentDirectory DEF WalkInv, TypeOK, IsFileSystem
<1>4. counts' \in [{"dirs", "unreadable", "loops", "links", "refused", "missing"} -> Nat]
  <2>1. counts' = counts \/ Count("links") \/ Count("refused")
    BY DEF ReadEntry, PassUnfollowedLink, NoteTypeRefused, QueueDirectory, PassSpecial, HandOver
  <2> QED BY <2>1, CountIsTyped DEF WalkInv, TypeOK
<1>5. children' \in Seq(StepType)
  <2>1. CASE QueueDirectory(n) /\ options.recursive
    <3>1. fs.entries[CurDir][n].status = "directory"
      BY <2>1 DEF QueueDirectory, StatusOf, EntryAt
    <3>2. Step(n, fs.entries[CurDir][n].to) \in StepType
      BY <1>3, <3>1 DEF Step, StepType
    <3>3. children' = Append(children, Step(n, fs.entries[CurDir][n].to))
      BY <2>1 DEF QueueDirectory, EntryAt
    <3> QED BY <3>2, <3>3 DEF WalkInv, TypeOK
  <2>2. CASE ~(QueueDirectory(n) /\ options.recursive)
    <3>1. children' = children
      BY <2>2 DEF ReadEntry, PassUnfollowedLink, NoteTypeRefused, QueueDirectory,
                  PassSpecial, HandOver
    <3> QED BY <3>1 DEF WalkInv, TypeOK
  <2> QED BY <2>1, <2>2
<1>6. handed' \subseteq [path : PathType, name : Name] /\ calls' \in Nat
  <2>1. \/ handed' = handed /\ calls' = calls
        \/ /\ handed' = handed \cup {[path |-> cur.path, name |-> n]}
           /\ calls' = calls + 1
    BY DEF ReadEntry, PassUnfollowedLink, NoteTypeRefused, QueueDirectory, PassSpecial, HandOver
  <2> QED BY <1>3, <2>1 DEF WalkInv, TypeOK
<1>7. TypeOK'
  BY <1>1, <1>4, <1>5, <1>6 DEF Reads, WalkInv, TypeOK, chosen
<1>8. Shape' /\ Deepening' /\ Ancestors' /\ Straight'
  <2>1. todo' \subseteq DOMAIN fs.entries[CurDir]
    BY <1>1 DEF Reads, WalkInv, Shape
  <2> QED BY <1>1, <1>2, <2>1, SameStack DEF Reads, chosen
<1> QED BY <1>7, <1>8 DEF WalkInv

LEMMA EndOfListingStep ==
  ASSUME WalkInv, ListingEnds \/ ListingBreaks \/ StopInListing
  PROVE  WalkInv'
<1>1. Reading /\ PushChildren
  BY DEF ListingEnds, ListingBreaks, StopInListing, Reading
<1>2. /\ pending' \in Seq(PendingType)
      /\ Shape' /\ Deepening' /\ Ancestors' /\ Straight'
  BY <1>1, Pushed
<1>3. counts' \in [{"dirs", "unreadable", "loops", "links", "refused", "missing"} -> Nat]
  <2>1. counts' = counts \/ Count("unreadable")
    BY DEF ListingEnds, ListingBreaks, StopInListing
  <2> QED BY <2>1, CountIsTyped DEF WalkInv, TypeOK
<1>4. stopped' \in BOOLEAN /\ todo' \subseteq Name
  BY DEF ListingEnds, ListingBreaks, StopInListing, WalkInv, TypeOK
<1>5. TypeOK'
  BY <1>1, <1>2, <1>3, <1>4 DEF PushChildren, WalkInv, TypeOK, chosen
<1> QED BY <1>2, <1>5 DEF WalkInv

LEMMA OutsideStep ==
  ASSUME WalkInv,
         \/ Signal \/ UNCHANGED walkerVars
         \/ \E d \in Dir : HostRemoves(d)
  PROVE  WalkInv'
<1>1. /\ UNCHANGED <<chosen, pc, root, stopped, pending, chain, cur, todo, children,
                     counts, entered, handed, calls>>
      /\ interrupt' \in BOOLEAN /\ gone' \subseteq Dir
  BY DEF Signal, HostRemoves, walkerVars, chosen, WalkInv, TypeOK
<1>2. TypeOK'
  BY <1>1 DEF WalkInv, TypeOK, chosen
<1>3. Shape' /\ Deepening' /\ Ancestors' /\ Straight'
  BY <1>1, SameStack DEF chosen, Reading, WalkInv, Shape
<1> QED BY <1>2, <1>3 DEF WalkInv

LEMMA WalkStep == ASSUME WalkInv, [Next]_walkerVars PROVE WalkInv'
<1>1. CASE NextRoot \/ NoMoreRoots \/ RootWalked
  BY <1>1, RootStep
<1>2. CASE StopBetweenDirectories \/ SkipVanished \/ SkipLoop \/ Enter
  BY <1>2, PopStep
<1>3. CASE OpenListing \/ ListingRefused
  BY <1>3, OpenStep
<1>4. CASE \E n \in Name : ReadEntry(n)
  BY <1>4, EntryStep
<1>5. CASE ListingEnds \/ ListingBreaks \/ StopInListing
  BY <1>5, EndOfListingStep
<1>6. CASE Signal \/ UNCHANGED walkerVars \/ (\E d \in Dir : HostRemoves(d))
  BY <1>6, OutsideStep
<1> QED BY <1>1, <1>2, <1>3, <1>4, <1>5, <1>6 DEF Next, Walk, Take, Finished

(***************************************************************************)
(* What the walk keeps to.                                                 *)
(***************************************************************************)

\* The invariant, and with it every type of Walker.
THEOREM WalkKeepsItsInvariant == Spec => []WalkInv
<1>1. Init => WalkInv
  BY WalkInit
<1>2. WalkInv /\ [Next]_walkerVars => WalkInv'
  BY WalkStep
<1> QED BY <1>1, <1>2, PTL DEF Spec

\* Stack, chain, counts and history keep their types for any file system.
THEOREM WalkerTyped == Spec => []TypeOK
<1>1. WalkInv => TypeOK
  BY DEF WalkInv
<1> QED BY <1>1, WalkKeepsItsInvariant, PTL

\* However deep the tree and whatever is refused or vanishes, the chain is the
\* ancestry of the directory being read (walkDirectory: ancestors.resize).
THEOREM ChainIsTheAncestry == Spec => []ChainIsAncestry
<1>1. WalkInv => ChainIsAncestry
  BY DEF WalkInv, Ancestors
<1> QED BY <1>1, WalkKeepsItsInvariant, PTL

\* A path never goes through one directory twice (FileWalker.cpp:410-435).
THEOREM NoLoopIsEntered == Spec => []NoLoopEntered
<1>1. WalkInv => NoLoopEntered
  BY DEF WalkInv, Straight
<1> QED BY <1>1, WalkKeepsItsInvariant, PTL

\* With the flag up the walk only finds its way out.
THEOREM InterruptStops == Spec => InterruptStopsTheWalk
<1>1. [Next]_walkerVars => [interrupt => UNCHANGED <<entered, handed, calls>>]_walkerVars
  <2> SUFFICES ASSUME Next, interrupt
               PROVE  UNCHANGED <<entered, handed, calls>>
    BY DEF walkerVars
  <2>1. ASSUME NEW n \in Name PROVE ~ReadEntry(n)
    BY DEF ReadEntry, PassUnfollowedLink, NoteTypeRefused, QueueDirectory, PassSpecial,
           HandOver, Reads
  <2>2. ~SkipVanished /\ ~SkipLoop /\ ~Enter
    BY DEF SkipVanished, SkipLoop, Enter, Pop
  <2>3. CASE NextRoot \/ NoMoreRoots \/ RootWalked \/ StopBetweenDirectories
    BY <2>3 DEF NextRoot, NoMoreRoots, RootWalked, StopBetweenDirectories
  <2>4. CASE OpenListing \/ ListingRefused
    BY <2>4 DEF OpenListing, ListingRefused
  <2>5. CASE ListingEnds \/ ListingBreaks \/ StopInListing
    BY <2>5 DEF ListingEnds, ListingBreaks, StopInListing, PushChildren
  <2>6. CASE Signal \/ Finished \/ (\E d \in Dir : HostRemoves(d))
    BY <2>6 DEF Signal, Finished, HostRemoves, walkerVars
  <2> QED BY <2>1, <2>2, <2>3, <2>4, <2>5, <2>6 DEF Next, Walk, Take
<1> QED BY <1>1, PTL DEF Spec, InterruptStopsTheWalk

(***************************************************************************)
(* What the walk has dealt with.  The stack, the children in hand and the  *)
(* entries still to read are together what remains of the search: every    *)
(* entry of every directory entered is one of them, or was handed over, or *)
(* was followed, or there is a reason for its absence.                     *)
(***************************************************************************)

OnPath(d, path) == \E i \in DOMAIN path : path[i].dir = d

Removed(path) == \E i \in DOMAIN path : path[i].dir \in gone

Waiting(path) == \E i \in DOMAIN pending : pending[i].path = path

Upto(path, k) == [i \in 1..k |-> path[i]]

\* Whoever is entered, or waits, was reached through directories entered.
Rooted ==
  /\ \A path \in entered :
       path # << >> /\ \A k \in 1..Len(path) : Upto(path, k) \in entered
  /\ \A i \in DOMAIN pending :
       \A k \in 1..pending[i].depth : Upto(pending[i].path, k) \in entered
  /\ Reading => cur.path \in entered

InHand(path, step) ==
  pc = "list" /\ cur.path = path /\ \E i \in DOMAIN children : children[i] = step

\* A subdirectory was entered, or will be, or is one of those above it.
Followed(path, step) ==
  \/ OnPath(step.dir, path)
  \/ Append(path, step) \in entered
  \/ Waiting(Append(path, step))
  \/ InHand(path, step)

\* What an entry that can still be resolved gets of the walk.
Answered(path, n, e) ==
  IF e.link /\ ~options.follow
  THEN (\/ e.status \in {"regular", "refused"}
        \/ e.status = "directory" /\ options.recursive) => counts["links"] > 0
  ELSE /\ e.status = "refused" => counts["refused"] > 0
       /\ e.status = "regular" => [path |-> path, name |-> n] \in handed
       /\ (e.status = "directory" /\ options.recursive)
            => Followed(path, Step(n, e.to))

EntryOf(path, n) == fs.entries[Last(path).dir][n]

Dealt(path, n) ==
  LET e == EntryOf(path, n)
  IN \/ e.to \in gone \/ Removed(path)
     \/ fs.listing[Last(path).dir] # "whole" /\ counts["unreadable"] > 0
     \/ e.link /\ LinksIn(path) >= MaxLinks
     \/ Answered(path, n, e)

BeingRead(path, n) == Reading /\ cur.path = path /\ (pc = "open" \/ n \in todo)

Accounted ==
  ~stopped => \A path \in entered : \A n \in DOMAIN fs.entries[Last(path).dir] :
                BeingRead(path, n) \/ Dealt(path, n)

RootPath(d) == <<Step(NoName, d)>>

TakenRoot(d) ==
  d \in gone \cup {NoDir} \/ RootPath(d) \in entered \/ Waiting(RootPath(d))

RootsTaken ==
  ~stopped => \A i \in DOMAIN asked :
    (i < root \/ (i = root /\ pc \in {"pop", "open", "list"})) => TakenRoot(asked[i])

AtTheEnd == (pc = "done" /\ ~stopped) => pending = << >> /\ root > Len(asked)

SearchInv == WalkInv /\ Rooted /\ Accounted /\ RootsTaken /\ AtTheEnd

\* What was dealt with stays so: histories, counts and removals only grow, and
\* a directory that waited is still in hand or was taken for a reason.
Grows ==
  /\ UNCHANGED chosen
  /\ gone \subseteq gone' /\ entered \subseteq entered' /\ handed \subseteq handed'
  /\ \A field \in {"unreadable", "links", "refused"} :
       counts[field] > 0 => counts'[field] > 0

LEMMA DealtStays ==
  ASSUME Grows, NEW path, NEW n, Dealt(path, n),
         \A step : Followed(path, step)
           => Followed(path, step)' \/ Removed(path)' \/ step.dir \in gone'
  PROVE  Dealt(path, n)'
<1> SUFFICES ASSUME NEW e, e = EntryOf(path, n) PROVE Dealt(path, n)'
  OBVIOUS
<1>1. UNCHANGED <<fs, options>> /\ EntryOf(path, n)' = e /\ LinksIn(path)' = LinksIn(path)
  BY DEF Grows, chosen, EntryOf, LinksIn
<1>2. CASE e.to \in gone \/ Removed(path)
  BY <1>1, <1>2 DEF Grows, Removed, Dealt
<1>3. CASE fs.listing[Last(path).dir] # "whole" /\ counts["unreadable"] > 0
  BY <1>1, <1>3 DEF Grows, Dealt
<1>4. CASE e.link /\ LinksIn(path) >= MaxLinks
  BY <1>1, <1>4 DEF Dealt
<1>5. CASE Answered(path, n, e)
  <2>1. CASE e.link /\ ~options.follow
    <3>1. Answered(path, n, e)'
      BY <1>1, <1>5, <2>1 DEF Grows, Answered
    <3> QED BY <1>1, <3>1 DEF Dealt
  <2>2. CASE ~ (e.link /\ ~options.follow)
    <3>1. CASE (e.status = "directory" /\ options.recursive)
                 => Followed(path, Step(n, e.to))'
      <4>1. Answered(path, n, e)'
        BY <1>1, <1>5, <2>2, <3>1 DEF Grows, Answered
      <4> QED BY <1>1, <4>1 DEF Dealt
    <3>2. CASE ~ ((e.status = "directory" /\ options.recursive)
                    => Followed(path, Step(n, e.to))')
      <4>1. Followed(path, Step(n, e.to))
        BY <1>5, <2>2, <3>2 DEF Answered
      <4>2. Removed(path)' \/ Step(n, e.to).dir \in gone'
        BY <3>2, <4>1
      <4>3. Removed(path)' \/ e.to \in gone'
        BY <4>2 DEF Step
      <4> QED BY <1>1, <4>3 DEF Dealt
    <3> QED BY <3>1, <3>2
  <2> QED BY <2>1, <2>2
<1> QED BY <1>2, <1>3, <1>4, <1>5 DEF Dealt

(***************************************************************************)
(* Steps that leave the stack alone.                                       *)
(***************************************************************************)

LEMMA QuietRooted ==
  ASSUME SearchInv, UNCHANGED <<pending, cur, entered>>, Reading' => Reading
  PROVE  Rooted'
  BY DEF SearchInv, Rooted

LEMMA FollowedStays ==
  ASSUME Grows, UNCHANGED <<pending, cur>>,
         pc = "list" => /\ pc' = "list"
                        /\ \A i \in DOMAIN children :
                             \E j \in DOMAIN children' : children'[j] = children[i],
         NEW path, NEW step, Followed(path, step)
  PROVE  Followed(path, step)'
<1>1. CASE OnPath(step.dir, path)
  BY <1>1 DEF Followed, OnPath
<1>2. CASE Append(path, step) \in entered
  BY <1>2 DEF Followed, Grows
<1>3. CASE Waiting(Append(path, step))
  BY <1>3 DEF Followed, Waiting
<1>4. CASE InHand(path, step)
  BY <1>4 DEF Followed, InHand
<1> QED BY <1>1, <1>2, <1>3, <1>4 DEF Followed

LEMMA QuietAccounted ==
  ASSUME SearchInv, Grows, UNCHANGED <<pending, cur, entered, stopped>>,
         pc = "list" => /\ pc' = "list"
                        /\ \A i \in DOMAIN children :
                             \E j \in DOMAIN children' : children'[j] = children[i],
         ~stopped => \A path \in entered : \A n \in DOMAIN fs.entries[Last(path).dir] :
                       BeingRead(path, n) => BeingRead(path, n)' \/ Dealt(path, n)'
  PROVE  Accounted'
<1> SUFFICES ASSUME ~stopped, NEW path \in entered,
                    NEW n \in DOMAIN fs.entries[Last(path).dir]
             PROVE  BeingRead(path, n)' \/ Dealt(path, n)'
  BY DEF Accounted, Grows, chosen
<1>1. BeingRead(path, n) \/ Dealt(path, n)
  BY DEF SearchInv, Accounted
<1>2. \A step : Followed(path, step) => Followed(path, step)'
  BY FollowedStays
<1>3. CASE Dealt(path, n)
  BY <1>2, <1>3, DealtStays
<1> QED BY <1>1, <1>3

LEMMA TakenRootStays ==
  ASSUME Grows, NEW d, TakenRoot(d),
         Waiting(RootPath(d)) => \/ Waiting(RootPath(d))'
                                 \/ RootPath(d) \in entered' \/ d \in gone'
  PROVE  TakenRoot(d)'
  BY DEF Grows, TakenRoot, RootPath, Step

LEMMA QuietRoots ==
  ASSUME SearchInv, Grows, UNCHANGED <<pending, entered, stopped, root>>,
         pc' \in {"pop", "open", "list"} => pc \in {"pop", "open", "list"},
         pc' # "done" \/ pc = "done"
  PROVE  RootsTaken' /\ AtTheEnd'
<1>1. asked' = asked
  BY DEF Grows, chosen
<1>2. \A d : TakenRoot(d) => TakenRoot(d)'
  BY TakenRootStays DEF Waiting, RootPath
<1>3. RootsTaken'
  BY <1>1, <1>2 DEF SearchInv, RootsTaken
<1>4. AtTheEnd'
  BY <1>1 DEF SearchInv, AtTheEnd
<1> QED BY <1>3, <1>4

\* A walk that was stopped owes nothing more.
LEMMA StoppedOwesNothing ==
  ASSUME stopped' PROVE Accounted' /\ RootsTaken' /\ AtTheEnd'
  BY DEF Accounted, RootsTaken, AtTheEnd

LEMMA CountGrows ==
  ASSUME TypeOK,
         \/ UNCHANGED counts
         \/ \E field \in {"dirs", "unreadable", "loops", "links", "refused", "missing"} :
              Count(field)
  PROVE  /\ \A field \in {"unreadable", "links", "refused"} :
              counts[field] > 0 => counts'[field] > 0
         /\ \A field \in {"unreadable", "links", "refused"} :
              Count(field) => counts'[field] > 0
<1> DEFINE Fields == {"dirs", "unreadable", "loops", "links", "refused", "missing"}
<1>1. counts \in [Fields -> Nat]
  BY DEF TypeOK
<1>2. ASSUME NEW field \in Fields, Count(field)
      PROVE  /\ counts'[field] = counts[field] + 1 /\ counts[field] \in Nat
             /\ \A other \in Fields : other # field => counts'[other] = counts[other]
  BY <1>1, <1>2 DEF Count
<1>3. CASE UNCHANGED counts
  <2>1. \A field \in Fields : ~Count(field)
    BY <1>2, <1>3
  <2> QED BY <1>3, <2>1
<1>4. ASSUME NEW field \in Fields, Count(field)
      PROVE  \A other \in Fields : counts[other] > 0 => counts'[other] > 0
  BY <1>2, <1>4
<1>5. \A field \in Fields : Count(field) => counts'[field] > 0
  BY <1>2
<1> QED BY <1>3, <1>4, <1>5

\* The host, the flag, and no step at all.
LEMMA OutsideSearch ==
  ASSUME SearchInv,
         \/ Signal \/ UNCHANGED walkerVars
         \/ \E d \in Dir : HostRemoves(d)
  PROVE  Rooted' /\ Accounted' /\ RootsTaken' /\ AtTheEnd'
<1>1. /\ UNCHANGED <<chosen, pc, root, stopped, pending, chain, cur, todo, children,
                     counts, entered, handed, calls>>
      /\ gone \subseteq gone'
  BY DEF Signal, HostRemoves, walkerVars, chosen
<1>2. Grows
  BY <1>1 DEF Grows
<1>3. \A path, n : BeingRead(path, n) => BeingRead(path, n)'
  BY <1>1 DEF BeingRead, Reading
<1>4. Rooted'
  BY <1>1, QuietRooted DEF Reading
<1>5. Accounted'
  BY <1>1, <1>2, <1>3, QuietAccounted
<1>6. RootsTaken' /\ AtTheEnd'
  BY <1>1, <1>2, QuietRoots
<1> QED BY <1>4, <1>5, <1>6

LEMMA RootSearch ==
  ASSUME SearchInv, NextRoot \/ NoMoreRoots \/ RootWalked
  PROVE  Rooted' /\ Accounted' /\ RootsTaken' /\ AtTheEnd'
<1>1. /\ UNCHANGED <<chosen, gone, stopped, cur, entered, handed>>
      /\ pc \in {"root", "pop"} /\ pc' \in {"root", "pop", "done"} /\ root \in Nat
  BY DEF NextRoot, NoMoreRoots, RootWalked, chosen, SearchInv, WalkInv, TypeOK
<1>2. Grows
  <2>1. UNCHANGED counts \/ Count("missing")
    BY DEF NextRoot, NoMoreRoots, RootWalked
  <2> QED BY <1>1, <2>1, CountGrows DEF Grows, SearchInv, WalkInv
<1>3. asked' = asked
  BY <1>1 DEF chosen
<1>4. CASE NextRoot /\ ~(asked[root] = NoDir \/ asked[root] \in gone)
  <2> DEFINE top == Pending(RootPath(asked[root]), 0)
  <2>1. /\ pending' = <<top>> /\ pc' = "pop" /\ pc = "root" /\ root' = root
        /\ pending = << >>
    BY <1>4 DEF NextRoot, RootPath, SearchInv, WalkInv, Shape
  <2>2. top.path = RootPath(asked[root]) /\ top.depth = 0
    BY DEF Pending
  <2> HIDE DEF top
  <2>3. DOMAIN pending' = {1} /\ pending'[1] = top
    BY <2>1
  <2>4. Rooted'
    BY <1>1, <2>1, <2>2, <2>3 DEF SearchInv, Rooted, Reading
  <2>5. \A path : ~Waiting(path)
    BY <2>1 DEF Waiting
  <2>6. Accounted'
    <3> SUFFICES ASSUME ~stopped, NEW path \in entered,
                        NEW n \in DOMAIN fs.entries[Last(path).dir]
                 PROVE  Dealt(path, n)'
      BY <1>1 DEF Accounted, chosen
    <3>1. Dealt(path, n)
      BY <2>1 DEF SearchInv, Accounted, BeingRead, Reading
    <3>2. \A step : Followed(path, step) => Followed(path, step)'
      BY <1>1, <2>1, <2>5 DEF Followed, OnPath, InHand
    <3> QED BY <1>2, <3>1, <3>2, DealtStays
  <2>7. Waiting(RootPath(asked[root]))'
    BY <1>3, <2>1, <2>2, <2>3 DEF Waiting, RootPath
  <2>8. RootsTaken'
    <3> SUFFICES ASSUME ~stopped, NEW i \in DOMAIN asked, i <= root
                 PROVE  TakenRoot(asked[i])'
      BY <1>1, <1>3, <2>1, LenProperties DEF RootsTaken, SearchInv, WalkInv, TypeOK
    <3>1. CASE i = root
      BY <1>3, <2>1, <2>7, <3>1 DEF TakenRoot, RootPath
    <3>2. CASE i # root
      <4>1. i < root
        BY <1>1, <3>2, LenProperties DEF SearchInv, WalkInv, TypeOK
      <4>2. TakenRoot(asked[i])
        BY <4>1 DEF SearchInv, RootsTaken
      <4>3. \A d : TakenRoot(d) => TakenRoot(d)'
        BY <1>2, <2>5, TakenRootStays
      <4> QED BY <1>3, <4>2, <4>3
    <3> QED BY <3>1, <3>2
  <2>9. AtTheEnd'
    BY <2>1 DEF AtTheEnd
  <2> QED BY <2>4, <2>6, <2>8, <2>9
<1>5. CASE ~(NextRoot /\ ~(asked[root] = NoDir \/ asked[root] \in gone))
  <2>1. pending' = pending
    BY <1>5 DEF NextRoot, NoMoreRoots, RootWalked
  <2>2. Rooted'
    BY <1>1, <2>1, QuietRooted DEF Reading
  <2>3. Accounted'
    <3>1. \A path, n : ~BeingRead(path, n)
      BY <1>1 DEF BeingRead, Reading
    <3> QED BY <1>1, <1>2, <2>1, <3>1, QuietAccounted
  <2>4. \A d : TakenRoot(d) => TakenRoot(d)'
    BY <1>1, <1>2, <2>1, TakenRootStays DEF Waiting, RootPath
  <2>5. \A i \in DOMAIN asked : i \in Nat
    BY LenProperties DEF SearchInv, WalkInv, TypeOK
  <2>6. CASE NextRoot
    <3>1. /\ asked[root] = NoDir \/ asked[root] \in gone
          /\ root' = root + 1 /\ pc' = "root"
      BY <1>5, <2>6 DEF NextRoot
    <3>2. TakenRoot(asked[root])
      BY <3>1 DEF TakenRoot
    <3>3. \A i \in DOMAIN asked : i < root + 1 => i < root \/ i = root
      BY <1>1, <2>5
    <3>4. RootsTaken'
      BY <1>1, <1>3, <2>4, <3>1, <3>2, <3>3 DEF SearchInv, RootsTaken
    <3>5. AtTheEnd'
      BY <3>1 DEF AtTheEnd
    <3> QED BY <2>2, <2>3, <3>4, <3>5
  <2>7. CASE NoMoreRoots
    <3>1. /\ root > Len(asked) /\ pc = "root" /\ pc' = "done" /\ root' = root
          /\ pending = << >>
      BY <2>7 DEF NoMoreRoots, SearchInv, WalkInv, Shape
    <3>2. RootsTaken'
      BY <1>1, <1>3, <2>4, <3>1 DEF SearchInv, RootsTaken
    <3>3. AtTheEnd'
      BY <1>3, <2>1, <3>1 DEF AtTheEnd
    <3> QED BY <2>2, <2>3, <3>2, <3>3
  <2>8. CASE RootWalked
    <3>1. /\ pc = "pop" /\ root' = root + 1
          /\ ~stopped => pc' = "root"
      BY <2>8 DEF RootWalked
    <3>2. \A i \in DOMAIN asked : i < root + 1 => i < root \/ i = root
      BY <1>1, <2>5
    <3>3. RootsTaken'
      BY <1>1, <1>3, <2>4, <3>1, <3>2 DEF SearchInv, RootsTaken
    <3>4. AtTheEnd'
      BY <1>1, <3>1 DEF AtTheEnd
    <3> QED BY <2>2, <2>3, <3>3, <3>4
  <2> QED BY <2>6, <2>7, <2>8
<1> QED BY <1>4, <1>5

LEMMA OpenSearch ==
  ASSUME SearchInv, OpenListing \/ ListingRefused
  PROVE  Rooted' /\ Accounted' /\ RootsTaken' /\ AtTheEnd'
<1>1. /\ UNCHANGED <<chosen, gone, root, stopped, pending, cur, entered, handed>>
      /\ pc = "open" /\ pc' \in {"list", "pop"}
  BY DEF OpenListing, ListingRefused
<1>2. Grows
  <2>1. UNCHANGED counts \/ Count("unreadable")
    BY DEF OpenListing, ListingRefused
  <2> QED BY <1>1, <2>1, CountGrows DEF Grows, SearchInv, WalkInv
<1>3. ASSUME NEW path \in entered, NEW n \in DOMAIN fs.entries[Last(path).dir],
             BeingRead(path, n)
      PROVE  BeingRead(path, n)' \/ Dealt(path, n)'
  <2>1. path = cur.path /\ Last(path).dir = CurDir
    BY <1>3 DEF BeingRead, CurDir
  <2>2. CASE OpenListing
    BY <1>1, <2>1, <2>2 DEF OpenListing, BeingRead, Reading
  <2>3. CASE ListingRefused
    <3>1. CASE fs.listing[CurDir] = "closed"
      <4>1. counts'["unreadable"] > 0
        BY <2>3, CountGrows DEF ListingRefused, SearchInv, WalkInv
      <4> QED BY <1>1, <2>1, <3>1, <4>1 DEF Dealt, chosen
    <3>2. CASE CurIsGone
      BY <1>1, <2>1, <3>2 DEF CurIsGone, Removed, Dealt
    <3> QED BY <2>3, <3>1, <3>2 DEF ListingRefused
  <2> QED BY <2>2, <2>3
<1>4. Rooted'
  BY <1>1, QuietRooted DEF Reading
<1>5. Accounted'
  BY <1>1, <1>2, <1>3, QuietAccounted
<1>6. RootsTaken' /\ AtTheEnd'
  BY <1>1, <1>2, QuietRoots
<1> QED BY <1>4, <1>5, <1>6

\* An entry off the iterator is dealt with in the same step.
LEMMA EntryDealt ==
  ASSUME SearchInv, NEW n \in Name, ReadEntry(n),
         NEW path, path = cur.path, NEW e, e = EntryOf(path, n)
  PROVE  Dealt(path, n)'
<1>1. /\ Reads(n) /\ e = EntryAt(n) /\ pc = "list"
      /\ UNCHANGED <<fs, options, gone, cur, pc>>
  BY DEF ReadEntry, PassUnfollowedLink, NoteTypeRefused, QueueDirectory, PassSpecial,
         HandOver, Reads, chosen, EntryOf, EntryAt, CurDir
<1>2. Reading /\ n \in DOMAIN fs.entries[CurDir] /\ CurDir \in Dir
  BY <1>1, CurrentDirectory DEF Reads, Reading, SearchInv, WalkInv, Shape
<1>3. e \in Entry
  BY <1>1, <1>2 DEF EntryAt, SearchInv, WalkInv, TypeOK, IsFileSystem
<1>4. EntryOf(path, n)' = e /\ LinksIn(path)' = LinksIn(path) /\ path = cur'.path
  BY <1>1 DEF EntryOf, LinksIn
<1>5. CASE e.to \in gone
  BY <1>1, <1>4, <1>5 DEF Dealt
<1>6. CASE e.link /\ LinksIn(path) >= MaxLinks
  BY <1>4, <1>6 DEF Dealt
<1>7. CASE e.to \notin gone /\ ~(e.link /\ LinksIn(path) >= MaxLinks)
  <2>1. StatusOf(n) = e.status
    BY <1>1, <1>7 DEF StatusOf
  <2>2. IsPassedBy(n) <=> e.link /\ ~options.follow
    BY <1>1 DEF IsPassedBy
  <2>3. Answered(path, n, e)'
    <3>1. CASE PassUnfollowedLink(n)
      <4>1. e.link /\ ~options.follow
        BY <2>2, <3>1 DEF PassUnfollowedLink
      <4>2. (\/ e.status \in {"regular", "refused"}
             \/ e.status = "directory" /\ options.recursive) => counts'["links"] > 0
        BY <2>1, <3>1, CountGrows DEF PassUnfollowedLink, SearchInv, WalkInv
      <4> QED BY <1>1, <4>1, <4>2 DEF Answered
    <3>2. CASE NoteTypeRefused(n)
      <4>1. ~(e.link /\ ~options.follow) /\ e.status \in {"refused", "notFound", "loop"}
        BY <2>1, <2>2, <3>2 DEF NoteTypeRefused
      <4>2. e.status = "refused" => counts'["refused"] > 0
        BY <2>1, <3>2, CountGrows DEF NoteTypeRefused, LeadsNowhere, SearchInv, WalkInv
      <4> QED BY <1>1, <4>1, <4>2 DEF Answered
    <3>3. CASE QueueDirectory(n)
      <4>1. ~(e.link /\ ~options.follow) /\ e.status = "directory"
        BY <2>1, <2>2, <3>3 DEF QueueDirectory
      <4>2. ASSUME options.recursive PROVE Followed(path, Step(n, e.to))'
        <5>1. children \in Seq(StepType) /\ children' = Append(children, Step(n, e.to))
          BY <1>1, <3>3, <4>2 DEF QueueDirectory, SearchInv, WalkInv, TypeOK
        <5>2. \E i \in DOMAIN children' : children'[i] = Step(n, e.to)
          <6>1. /\ Len(children) \in Nat
                /\ DOMAIN children' = 1..Len(children) + 1
                /\ children'[Len(children) + 1] = Step(n, e.to)
            BY <5>1, LenProperties
          <6> QED BY <6>1
        <5>3. InHand(path, Step(n, e.to))'
          BY <1>1, <1>4, <5>2 DEF InHand
        <5> QED BY <5>3 DEF Followed
      <4> QED BY <1>1, <4>1, <4>2 DEF Answered
    <3>4. CASE PassSpecial(n)
      BY <1>1, <2>1, <2>2, <3>4 DEF PassSpecial, Answered
    <3>5. CASE HandOver(n)
      <4>1. /\ ~(e.link /\ ~options.follow) /\ e.status = "regular"
            /\ [path |-> path, name |-> n] \in handed'
        BY <2>1, <2>2, <3>5 DEF HandOver
      <4> QED BY <1>1, <4>1 DEF Answered
    <3> QED BY <3>1, <3>2, <3>3, <3>4, <3>5 DEF ReadEntry
  <2> QED BY <1>4, <2>3 DEF Dealt
<1> QED BY <1>5, <1>6, <1>7

LEMMA EntrySearch ==
  ASSUME SearchInv, NEW n \in Name, ReadEntry(n)
  PROVE  Rooted' /\ Accounted' /\ RootsTaken' /\ AtTheEnd'
<1>1. /\ UNCHANGED <<chosen, gone, root, stopped, pending, cur, entered>>
      /\ pc = "list" /\ pc' = "list" /\ todo' = todo \ {n} /\ handed \subseteq handed'
  <2>1. Reads(n)
    BY DEF ReadEntry, PassUnfollowedLink, NoteTypeRefused, QueueDirectory, PassSpecial,
           HandOver
  <2>2. handed \subseteq handed'
    BY DEF ReadEntry, PassUnfollowedLink, NoteTypeRefused, QueueDirectory, PassSpecial,
           HandOver
  <2> QED BY <2>1, <2>2 DEF Reads
<1>2. Grows
  <2>1. UNCHANGED counts \/ Count("links") \/ Count("refused")
    BY DEF ReadEntry, PassUnfollowedLink, NoteTypeRefused, QueueDirectory, PassSpecial,
           HandOver
  <2> QED BY <1>1, <2>1, CountGrows DEF Grows, SearchInv, WalkInv
<1>3. ASSUME NEW i \in DOMAIN children
      PROVE  \E j \in DOMAIN children' : children'[j] = children[i]
  <2>1. CASE children' = children
    BY <2>1
  <2>2. ASSUME NEW step, children' = Append(children, step)
        PROVE  \E j \in DOMAIN children' : children'[j] = children[i]
    <3>1. i \in 1..Len(children) /\ Len(children) \in Nat /\ children \in Seq(StepType)
      BY LenProperties DEF SearchInv, WalkInv, TypeOK
    <3>2. DOMAIN children' = 1..Len(children) + 1 /\ children'[i] = children[i]
      BY <2>2, <3>1
    <3> QED BY <3>1, <3>2
  <2>3. \/ children' = children
        \/ \E step : children' = Append(children, step)
    BY DEF ReadEntry, PassUnfollowedLink, NoteTypeRefused, QueueDirectory, PassSpecial,
           HandOver
  <2> QED BY <2>1, <2>2, <2>3
<1>4. ASSUME NEW path, NEW m, BeingRead(path, m), ~BeingRead(path, m)'
      PROVE  Dealt(path, m)'
  <2>1. path = cur.path /\ m = n
    BY <1>1, <1>4 DEF BeingRead, Reading
  <2> QED BY <2>1, EntryDealt
<1>5. Rooted'
  BY <1>1, QuietRooted DEF Reading
<1>6. Accounted'
  BY <1>1, <1>2, <1>3, <1>4, QuietAccounted
<1>7. RootsTaken' /\ AtTheEnd'
  BY <1>1, <1>2, QuietRoots
<1> QED BY <1>5, <1>6, <1>7

(***************************************************************************)
(* Steps that pop the stack.                                               *)
(***************************************************************************)

\* Where a path on the stack leads: the top, or what stays below it.
LEMMA WaitingBelow ==
  ASSUME SearchInv, Pop, NEW path, Waiting(path)
  PROVE  path = Top.path \/ Waiting(path)'
<1>1. pending \in Seq(PendingType) /\ pending # << >> /\ pending' = Front(pending)
  BY DEF Pop, SearchInv, WalkInv, TypeOK
<1>2. PICK i \in DOMAIN pending : pending[i].path = path
  BY DEF Waiting
<1>3. /\ Len(Front(pending)) = Len(pending) - 1 /\ Len(pending) \in Nat \ {0}
      /\ \A k \in 1..Len(pending) - 1 : Front(pending)[k] = pending[k]
      /\ Front(pending) \in Seq(PendingType) /\ Top = pending[Len(pending)]
  BY <1>1, FrontIsPrefix DEF Top
<1>4. i \in 1..Len(pending) /\ DOMAIN pending' = 1..Len(pending) - 1
  BY <1>1, <1>2, <1>3, LenProperties
<1>5. CASE i = Len(pending)
  BY <1>2, <1>3, <1>5
<1>6. CASE i # Len(pending)
  <2>1. i \in DOMAIN pending' /\ pending'[i] = pending[i]
    BY <1>1, <1>3, <1>4, <1>6
  <2> QED BY <1>2, <2>1 DEF Waiting
<1> QED BY <1>5, <1>6

\* A path one step longer: its last directory is the step's, the others are
\* those of the shorter one.
LEMMA OneStepOn ==
  ASSUME NEW path \in PathType, NEW step
  PROVE  LET longer == Append(path, step)
         IN /\ Len(longer) = Len(path) + 1 /\ Len(path) \in Nat
            /\ DOMAIN longer = 1..Len(path) + 1 /\ DOMAIN path = 1..Len(path)
            /\ longer[Len(path) + 1] = step
            /\ \A k \in 1..Len(path) : longer[k] = path[k]
            /\ \A k \in 1..Len(path) : Upto(longer, k) = Upto(path, k)
            /\ \A d : OnPath(d, longer) => OnPath(d, path) \/ d = step.dir
<1> DEFINE longer == Append(path, step)
<1>1. path \in Seq(StepType)
  BY DEF PathType
<1>2. /\ Len(longer) = Len(path) + 1 /\ Len(path) \in Nat
      /\ DOMAIN longer = 1..Len(path) + 1 /\ DOMAIN path = 1..Len(path)
      /\ longer[Len(path) + 1] = step
      /\ \A k \in 1..Len(path) : longer[k] = path[k]
  BY <1>1, LenProperties
<1> HIDE DEF longer
<1>3. \A k \in 1..Len(path) : Upto(longer, k) = Upto(path, k)
  BY <1>2 DEF Upto
<1>4. ASSUME NEW d, OnPath(d, longer) PROVE OnPath(d, path) \/ d = step.dir
  <2>1. PICK i \in DOMAIN longer : longer[i].dir = d
    BY <1>4 DEF OnPath
  <2>2. i = Len(path) + 1 \/ i \in 1..Len(path)
    BY <1>2, <2>1
  <2> QED BY <1>2, <2>1, <2>2 DEF OnPath
<1> QED BY <1>2, <1>3, <1>4 DEF longer

\* The walk refuses a directory as a loop only where it is on its own path.
LEMMA LoopIsOnPath ==
  ASSUME SearchInv, pending # << >>, ClosesALoop
  PROVE  \E i \in 1..Top.depth : Top.path[i].dir = TopDir
<1>1. /\ Top.depth \in Nat /\ DOMAIN Above = 1..Top.depth
      /\ \A k \in 1..Top.depth : Above[k] = Id(Top.path[k].dir)
  BY TopOfTheStack, LenProperties DEF SearchInv, PendingType
<1>2. PICK i \in DOMAIN Above : Above[i] = Id(TopDir) /\ Id(TopDir) # NoDir
  BY DEF ClosesALoop
<1>3. Id(Top.path[i].dir) = Id(TopDir) /\ i \in 1..Top.depth
  BY <1>1, <1>2
<1>4. Top.path[i].dir = TopDir
  BY <1>2, <1>3 DEF Id
<1> QED BY <1>3, <1>4

LEMMA PopSearch ==
  ASSUME SearchInv, SkipVanished \/ SkipLoop \/ Enter
  PROVE  Rooted' /\ Accounted' /\ RootsTaken' /\ AtTheEnd'
<1>1. /\ Pop /\ pending # << >> /\ pc = "pop" /\ pc' \in {"pop", "open"}
      /\ UNCHANGED <<chosen, gone, root, stopped, handed>>
      /\ entered \subseteq entered'
  BY DEF SkipVanished, SkipLoop, Enter, Pop
<1>2. Grows
  <2>1. UNCHANGED counts \/ Count("loops") \/ Count("dirs")
    BY DEF SkipVanished, SkipLoop, Enter
  <2> QED BY <1>1, <2>1, CountGrows DEF Grows, SearchInv, WalkInv
<1>3. /\ Top \in PendingType /\ Top.path \in PathType /\ Top.depth \in Nat
      /\ Len(Top.path) = Top.depth + 1 /\ TopDir = Top.path[Top.depth + 1].dir
      /\ DOMAIN Top.path = 1..Top.depth + 1
      /\ \A i \in DOMAIN pending' : i \in DOMAIN pending /\ pending'[i] = pending[i]
      /\ Len(pending) \in DOMAIN pending /\ Top = pending[Len(pending)]
  BY <1>1, TopOfTheStack, LenProperties DEF Pop, SearchInv, PendingType, PathType
\* What becomes of the directory on top.
<1>4. \/ Removed(Top.path)
      \/ \E i \in 1..Top.depth : Top.path[i].dir = TopDir
      \/ Top.path \in entered'
  BY <1>1, LoopIsOnPath DEF SkipVanished, SkipLoop, Enter, TopIsGone, Removed
<1>5. Rooted'
  <2>1. \A k \in 1..Top.depth : Upto(Top.path, k) \in entered
    BY <1>3 DEF SearchInv, Rooted
  <2>2. \A i \in DOMAIN pending' : \A k \in 1..pending'[i].depth :
          Upto(pending'[i].path, k) \in entered'
    BY <1>1, <1>3 DEF SearchInv, Rooted
  <2>3. CASE Enter
    <3>1. entered' = entered \cup {Top.path} /\ cur' = Top
      BY <2>3 DEF Enter
    <3>2. Upto(Top.path, Top.depth + 1) = Top.path
      <4>1. Top.path \in [1..Len(Top.path) -> StepType]
        BY <1>3, SeqDef, LenProperties DEF PathType
      <4> QED BY <1>3, <4>1 DEF Upto
    <3>3. Top.path # << >>
      BY <1>3
    <3>4. \A k \in 1..Len(Top.path) : Upto(Top.path, k) \in entered'
      <4>1. \A k \in 1..Len(Top.path) : k \in 1..Top.depth \/ k = Top.depth + 1
        BY <1>3
      <4> QED BY <2>1, <3>1, <3>2, <4>1
    <3> QED BY <2>2, <3>1, <3>3, <3>4 DEF SearchInv, Rooted, Upto
  <2>4. CASE ~Enter
    <3>1. entered' = entered /\ ~Reading'
      BY <1>1, <2>4 DEF SkipVanished, SkipLoop, Reading
    <3> QED BY <2>2, <3>1 DEF SearchInv, Rooted
  <2> QED BY <2>3, <2>4
<1>6. ASSUME NEW path \in entered, NEW step, Followed(path, step)
      PROVE  Followed(path, step)' \/ Removed(path)' \/ step.dir \in gone'
  <2>1. CASE OnPath(step.dir, path) \/ Append(path, step) \in entered
    BY <1>1, <2>1 DEF Followed, OnPath
  <2>2. CASE Waiting(Append(path, step))
    <3>1. CASE Waiting(Append(path, step))'
      BY <3>1 DEF Followed
    <3>2. CASE Top.path = Append(path, step)
      <4>1. path \in PathType
        BY DEF SearchInv, WalkInv, TypeOK
      <4>2. /\ Len(path) = Top.depth /\ TopDir = step.dir /\ DOMAIN path = 1..Top.depth
            /\ \A k \in 1..Top.depth : Top.path[k] = path[k]
            /\ \A d : OnPath(d, Top.path) => OnPath(d, path) \/ d = step.dir
        <5> DEFINE longer == Append(path, step)
        <5>0. /\ Len(longer) = Len(path) + 1 /\ Len(path) \in Nat
              /\ DOMAIN path = 1..Len(path) /\ longer[Len(path) + 1] = step
              /\ \A k \in 1..Len(path) : longer[k] = path[k]
              /\ \A d : OnPath(d, longer) => OnPath(d, path) \/ d = step.dir
          BY <4>1, OneStepOn
        <5>1. /\ Len(Top.path) = Len(path) + 1 /\ Len(path) \in Nat
              /\ DOMAIN path = 1..Len(path) /\ Top.path[Len(path) + 1] = step
              /\ \A k \in 1..Len(path) : Top.path[k] = path[k]
              /\ \A d : OnPath(d, Top.path) => OnPath(d, path) \/ d = step.dir
          BY <3>2, <5>0
        <5>2. Len(path) = Top.depth
          BY <1>3, <5>1
        <5> QED BY <1>3, <5>1, <5>2
      <4>3. CASE Removed(Top.path)
        BY <1>1, <4>2, <4>3 DEF Removed, OnPath
      <4>4. CASE \E i \in 1..Top.depth : Top.path[i].dir = TopDir
        BY <4>2, <4>4 DEF Followed, OnPath
      <4>5. CASE Top.path \in entered'
        BY <3>2, <4>5 DEF Followed
      <4> QED BY <1>4, <4>3, <4>4, <4>5
    <3> QED BY <1>1, <2>2, <3>1, <3>2, WaitingBelow
  <2>3. ~InHand(path, step)
    BY <1>1 DEF InHand
  <2> QED BY <1>6, <2>1, <2>2, <2>3 DEF Followed
<1>7. Accounted'
  <2> SUFFICES ASSUME ~stopped, NEW path \in entered',
                      NEW n \in DOMAIN fs.entries[Last(path).dir]
               PROVE  BeingRead(path, n)' \/ Dealt(path, n)'
    BY <1>1 DEF Accounted, chosen
  <2>1. CASE path \in entered
    <3>1. Dealt(path, n)
      BY <1>1, <2>1 DEF SearchInv, Accounted, BeingRead, Reading
    <3>2. \A step : Followed(path, step)
            => Followed(path, step)' \/ Removed(path)' \/ step.dir \in gone'
      BY <1>6, <2>1
    <3> QED BY <1>2, <3>1, <3>2, DealtStays
  <2>2. CASE path \notin entered
    <3>1. cur' = Top /\ path = Top.path /\ pc' = "open"
      BY <2>2 DEF SkipVanished, SkipLoop, Enter
    <3> QED BY <3>1 DEF BeingRead, Reading
  <2> QED BY <2>1, <2>2
<1>8. ASSUME NEW d, TakenRoot(d) PROVE TakenRoot(d)'
  <2>1. CASE Waiting(RootPath(d)) /\ ~Waiting(RootPath(d))'
    <3>1. Top.path = RootPath(d)
      BY <1>1, <2>1, WaitingBelow
    <3>2. Len(Top.path) = 1 /\ Top.path[1].dir = d /\ DOMAIN Top.path = {1}
      BY <3>1 DEF RootPath, Step
    <3>3. Top.depth = 0
      BY <1>3, <3>2
    <3>4. Removed(Top.path) \/ Top.path \in entered'
      BY <1>4, <3>3
    <3>5. d \in gone \/ RootPath(d) \in entered'
      BY <3>1, <3>2, <3>4 DEF Removed
    <3> QED BY <1>1, <3>5 DEF TakenRoot, RootPath, Step
  <2>2. CASE ~(Waiting(RootPath(d)) /\ ~Waiting(RootPath(d))')
    BY <1>2, <1>8, <2>2, TakenRootStays
  <2> QED BY <2>1, <2>2
<1>9. RootsTaken'
  BY <1>1, <1>8 DEF SearchInv, RootsTaken, chosen
<1>10. AtTheEnd'
  BY <1>1 DEF AtTheEnd
<1> QED BY <1>5, <1>7, <1>9, <1>10

(***************************************************************************)
(* Steps that push on the stack.                                           *)
(***************************************************************************)

\* Whatever waited still waits, and every child now does.
LEMMA NothingDropped ==
  ASSUME WalkInv, Reading, PushChildren
  PROVE  /\ \A i \in DOMAIN pending : \E j \in DOMAIN pending' : pending'[j] = pending[i]
         /\ \A i \in DOMAIN children :
              \E j \in DOMAIN pending' : pending'[j] = Child(children[i])
<1> DEFINE kids == [i \in DOMAIN children |-> Child(children[i])]
           flip == Reverse(kids)
<1>1. pending \in Seq(PendingType) /\ children \in Seq(StepType)
  BY DEF WalkInv, TypeOK
<1>2. /\ DOMAIN pending = 1..Len(pending) /\ Len(pending) \in Nat
      /\ DOMAIN children = 1..Len(children) /\ Len(children) \in Nat
  BY <1>1, LenProperties
<1>3. \A i \in DOMAIN children : Child(children[i]) \in PendingType
  BY <1>1, <1>2, ElementOfSeq, ChildOfCurrent
<1>4. kids \in [1..Len(children) -> PendingType]
  BY <1>2, <1>3
<1>5. Len(kids) = Len(children)
  BY <1>2, <1>4, TableIsSeq
<1>6. flip = [i \in 1..Len(children) |-> kids[Len(children) - i + 1]]
  BY <1>5 DEF Reverse
<1>7. \A i \in 1..Len(children) : Len(children) - i + 1 \in 1..Len(children)
  BY <1>2
<1>8. flip \in [1..Len(children) -> PendingType]
  BY <1>4, <1>6, <1>7
<1>9. flip \in Seq(PendingType) /\ Len(flip) = Len(children)
  BY <1>2, <1>8, TableIsSeq
<1>10. \A i \in 1..Len(children) : flip[Len(children) - i + 1] = Child(children[i])
  <2> TAKE i \in 1..Len(children)
  <2>1. Len(children) - (Len(children) - i + 1) + 1 = i
    BY <1>2
  <2>2. flip[Len(children) - i + 1] = kids[Len(children) - (Len(children) - i + 1) + 1]
    BY <1>6, <1>7
  <2> QED BY <1>2, <2>1, <2>2
<1>11. pending' = pending \o flip
  BY DEF PushChildren
<1> HIDE DEF flip, kids
<1>12. /\ pending' \in Seq(PendingType) /\ Len(pending') = Len(pending) + Len(children)
       /\ \A i \in 1..Len(pending) + Len(children) :
            pending'[i] = IF i <= Len(pending) THEN pending[i] ELSE flip[i - Len(pending)]
  <2>1. /\ pending \o flip \in Seq(PendingType)
        /\ Len(pending \o flip) = Len(pending) + Len(flip)
        /\ \A i \in 1..Len(pending) + Len(flip) :
             (pending \o flip)[i] = IF i <= Len(pending) THEN pending[i]
                                    ELSE flip[i - Len(pending)]
    BY <1>1, <1>9, ConcatProperties
  <2> QED BY <1>9, <1>11, <2>1
<1>13. DOMAIN pending' = 1..Len(pending) + Len(children)
  BY <1>12, LenProperties
<1>14. ASSUME NEW i \in DOMAIN pending
       PROVE  \E j \in DOMAIN pending' : pending'[j] = pending[i]
  <2>1. i \in DOMAIN pending' /\ pending'[i] = pending[i]
    BY <1>2, <1>12, <1>13
  <2> QED BY <2>1
<1>15. ASSUME NEW i \in DOMAIN children
       PROVE  \E j \in DOMAIN pending' : pending'[j] = Child(children[i])
  <2> DEFINE j == Len(pending) + (Len(children) - i + 1)
  <2>1. /\ j \in 1..Len(pending) + Len(children) /\ ~(j <= Len(pending))
        /\ j - Len(pending) = Len(children) - i + 1
    BY <1>2
  <2>2. pending'[j] = flip[Len(children) - i + 1]
    BY <1>12, <2>1
  <2> HIDE DEF j
  <2>3. pending'[j] = Child(children[i])
    BY <1>2, <1>10, <2>2
  <2> QED BY <1>13, <2>1, <2>3
<1> QED BY <1>14, <1>15

LEMMA PushSearch ==
  ASSUME SearchInv, ListingEnds \/ ListingBreaks \/ StopInListing
  PROVE  Rooted' /\ Accounted' /\ RootsTaken' /\ AtTheEnd'
<1>1. /\ PushChildren /\ Reading /\ WalkInv /\ pc = "list" /\ pc' = "pop"
      /\ UNCHANGED <<chosen, gone, root, cur, children, entered, handed>>
      /\ ~stopped' => ~stopped
  BY DEF ListingEnds, ListingBreaks, StopInListing, PushChildren, Reading, SearchInv
<1>2. Grows
  <2>1. UNCHANGED counts \/ Count("unreadable")
    BY DEF ListingEnds, ListingBreaks, StopInListing
  <2> QED BY <1>1, <2>1, CountGrows DEF Grows, WalkInv
<1>3. \A path : Waiting(path) => Waiting(path)'
  <2> SUFFICES ASSUME NEW path, Waiting(path) PROVE Waiting(path)'
    OBVIOUS
  <2>1. PICK i \in DOMAIN pending : pending[i].path = path
    BY DEF Waiting
  <2>2. PICK j \in DOMAIN pending' : pending'[j] = pending[i]
    BY <1>1, NothingDropped
  <2> QED BY <2>1, <2>2 DEF Waiting
<1>4. ASSUME NEW path, NEW step, InHand(path, step)
      PROVE  Waiting(Append(path, step))'
  <2>1. PICK i \in DOMAIN children : children[i] = step
    BY <1>4 DEF InHand
  <2>2. PICK j \in DOMAIN pending' : pending'[j] = Child(children[i])
    BY <1>1, NothingDropped
  <2>3. pending'[j].path = Append(path, step)
    BY <1>4, <2>1, <2>2 DEF InHand, Child, Pending
  <2> QED BY <2>3 DEF Waiting
<1>5. Rooted'
  <2>1. ASSUME NEW i \in DOMAIN pending', NEW k \in 1..pending'[i].depth
        PROVE  Upto(pending'[i].path, k) \in entered
    <3>1. CASE i \in DOMAIN pending /\ pending'[i] = pending[i]
      BY <2>1, <3>1 DEF SearchInv, Rooted
    <3>2. ASSUME NEW step \in StepType, pending'[i] = Child(step)
          PROVE  Upto(pending'[i].path, k) \in entered
      <4>1. /\ cur.path \in PathType /\ cur.depth \in Nat /\ Len(cur.path) = cur.depth + 1
            /\ Child(step).depth = cur.depth + 1
        BY <1>1, CurrentDirectory, ChildOfCurrent
      <4>2. k \in 1..Len(cur.path)
        BY <3>2, <4>1
      <4>3. pending'[i].path = Append(cur.path, step)
        BY <3>2 DEF Child, Pending
      <4>4. \A m \in 1..Len(cur.path) :
              Upto(Append(cur.path, step), m) = Upto(cur.path, m)
        BY <4>1, OneStepOn
      <4>5. Upto(cur.path, k) \in entered
        BY <1>1, <4>2 DEF SearchInv, Rooted
      <4> QED BY <4>2, <4>3, <4>4, <4>5
    <3> QED BY <1>1, <3>1, <3>2, PushedOnTop
  <2>2. ~Reading'
    BY <1>1 DEF Reading
  <2> QED BY <1>1, <2>1, <2>2 DEF SearchInv, Rooted, Upto
<1>6. Accounted'
  <2> SUFFICES ASSUME ~stopped', NEW path \in entered,
                      NEW n \in DOMAIN fs.entries[Last(path).dir]
               PROVE  Dealt(path, n)'
    BY <1>1 DEF Accounted, chosen
  <2>1. CASE BeingRead(path, n)
    <3>1. ListingBreaks
      <4>1. ~ListingEnds
        BY <2>1 DEF ListingEnds, BeingRead
      <4>2. StopInListing => stopped'
        BY DEF StopInListing
      <4> QED BY <4>1, <4>2
    <3>2. counts'["unreadable"] > 0
      BY <1>1, <3>1, CountGrows DEF ListingBreaks, WalkInv
    <3>3. fs'.listing[Last(path).dir] # "whole"
      BY <1>1, <2>1, <3>1 DEF ListingBreaks, BeingRead, CurDir, chosen
    <3> QED BY <3>2, <3>3 DEF Dealt
  <2>2. CASE Dealt(path, n)
    <3>1. \A step : Followed(path, step) => Followed(path, step)'
      BY <1>1, <1>3, <1>4 DEF Followed, OnPath
    <3> QED BY <1>2, <2>2, <3>1, DealtStays
  <2> QED BY <1>1, <2>1, <2>2 DEF SearchInv, Accounted
<1>7. \A d : TakenRoot(d) => TakenRoot(d)'
  BY <1>2, <1>3, TakenRootStays
<1>8. RootsTaken'
  BY <1>1, <1>7 DEF SearchInv, RootsTaken, chosen
<1>9. AtTheEnd'
  BY <1>1 DEF AtTheEnd
<1> QED BY <1>5, <1>6, <1>8, <1>9

LEMMA StopSearch ==
  ASSUME SearchInv, StopBetweenDirectories
  PROVE  Rooted' /\ Accounted' /\ RootsTaken' /\ AtTheEnd'
<1>1. UNCHANGED <<pending, cur, entered, pc>> /\ stopped'
  BY DEF StopBetweenDirectories
<1>2. Rooted'
  BY <1>1, QuietRooted DEF Reading
<1> QED BY <1>1, <1>2, StoppedOwesNothing

LEMMA SearchInit == ASSUME Init PROVE SearchInv
<1>1. WalkInv
  BY WalkInit
<1>2. Rooted /\ Accounted /\ AtTheEnd
  BY DEF Init, Rooted, Reading, Accounted, AtTheEnd
<1>3. RootsTaken
  <2>1. \A i \in DOMAIN asked : i \in 1..Len(asked)
    BY <1>1, LenProperties DEF WalkInv, TypeOK
  <2> QED BY <2>1 DEF Init, RootsTaken
<1> QED BY <1>1, <1>2, <1>3 DEF SearchInv

LEMMA SearchStep == ASSUME SearchInv, [Next]_walkerVars PROVE SearchInv'
<1>1. WalkInv'
  BY WalkStep DEF SearchInv
<1>2. Rooted' /\ Accounted' /\ RootsTaken' /\ AtTheEnd'
  <2>1. CASE NextRoot \/ NoMoreRoots \/ RootWalked
    BY <2>1, RootSearch
  <2>2. CASE StopBetweenDirectories
    BY <2>2, StopSearch
  <2>3. CASE SkipVanished \/ SkipLoop \/ Enter
    BY <2>3, PopSearch
  <2>4. CASE OpenListing \/ ListingRefused
    BY <2>4, OpenSearch
  <2>5. CASE \E n \in Name : ReadEntry(n)
    BY <2>5, EntrySearch
  <2>6. CASE ListingEnds \/ ListingBreaks \/ StopInListing
    BY <2>6, PushSearch
  <2>7. CASE Signal \/ UNCHANGED walkerVars \/ (\E d \in Dir : HostRemoves(d))
    BY <2>7, OutsideSearch
  <2> QED BY <2>1, <2>2, <2>3, <2>4, <2>5, <2>6, <2>7 DEF Next, Walk, Take, Finished
<1> QED BY <1>1, <1>2 DEF SearchInv

\* Every entry of every directory entered is still to be read, or was handed
\* over or followed, or has a count or a removal that explains its absence:
\* walkDirectory() drops nothing between its stack, its listing and its
\* children (FileWalker.cpp:369-761).
THEOREM SearchKeepsItsInvariant == Spec => []SearchInv
<1>1. Init => SearchInv
  BY SearchInit
<1>2. SearchInv /\ [Next]_walkerVars => SearchInv'
  BY SearchStep
<1> QED BY <1>1, <1>2, PTL DEF Spec

(***************************************************************************)
(* What the search found, once it is over.                                 *)
(***************************************************************************)

Distinct(path) == \A i, j \in DOMAIN path : path[i].dir = path[j].dir => i = j

\* The host resolves every link of a directory the walk came to without going
\* through any directory twice, unless the link leads back onto that path.
LinksSuffice ==
  \A path \in entered : Distinct(path) =>
    \A n \in DOMAIN fs.entries[Last(path).dir] :
      (EntryOf(path, n).link /\ ~OnPath(EntryOf(path, n).to, path))
        => LinksIn(path) < MaxLinks

LEMMA LinksAreCounted ==
  ASSUME NEW path \in PathType
  PROVE  LinksIn(path) \in Nat
<1>1. Len(path) \in Nat
  BY LenProperties DEF PathType
<1>2. IsFiniteSet(2..Len(path))
  BY <1>1, FS_Interval
<1> QED BY <1>2, FS_Subset, FS_CardinalityType DEF LinksIn

\* Where a path to a directory is known that is still there and takes no
\* directory twice.
Straightforward(path) == path \in entered /\ Distinct(path) /\ ~Removed(path)

Found == {d \in Dir : \E path \in entered : Straightforward(path) /\ Last(path).dir = d}

LEMMA EndsSomewhere ==
  ASSUME SearchInv, NEW path \in entered
  PROVE  /\ path \in PathType /\ Len(path) \in Nat \ {0} /\ DOMAIN path = 1..Len(path)
         /\ Last(path) = path[Len(path)] /\ Last(path).dir \in Dir
         /\ \A i \in DOMAIN path : path[i] \in StepType
<1>1. path \in Seq(StepType) /\ path # << >>
  BY DEF SearchInv, WalkInv, TypeOK, PathType, Rooted
<1>2. /\ Len(path) \in Nat \ {0} /\ DOMAIN path = 1..Len(path)
      /\ \A i \in 1..Len(path) : path[i] \in StepType
  BY <1>1, LenProperties, EmptySeq, ElementOfSeq
<1>3. path[Len(path)] \in StepType
  BY <1>2
<1> QED BY <1>1, <1>2, <1>3 DEF Last, StepType, PathType

\* What lies on such a path has such a path.
LEMMA FoundOnTheWay ==
  ASSUME SearchInv, NEW path, Straightforward(path), NEW d, OnPath(d, path)
  PROVE  d \in Found
<1>1. /\ path \in entered /\ Len(path) \in Nat /\ DOMAIN path = 1..Len(path)
      /\ \A i \in DOMAIN path : path[i] \in StepType
  BY EndsSomewhere DEF Straightforward
<1>2. PICK k \in 1..Len(path) : path[k].dir = d
  BY <1>1 DEF OnPath
<1> DEFINE way == Upto(path, k)
<1>3. /\ way \in [1..k -> StepType] /\ \A i \in 1..k : way[i] = path[i]
      /\ k \in Nat \ {0} /\ 1..k \subseteq 1..Len(path)
  BY <1>1 DEF Upto
<1>4. way \in Seq(StepType) /\ Len(way) = k /\ DOMAIN way = 1..k
  BY <1>3, TableIsSeq
<1>5. way \in entered
  BY <1>1, <1>2 DEF SearchInv, Rooted
<1> HIDE DEF way
<1>6. Last(way).dir = d /\ d \in Dir
  <2>1. path[k] \in StepType
    BY <1>1, <1>2
  <2> QED BY <1>2, <1>3, <1>4, <2>1 DEF Last, StepType
<1>7. Distinct(way) /\ ~Removed(way)
  BY <1>1, <1>3, <1>4 DEF Straightforward, Distinct, Removed
<1> QED BY <1>5, <1>6, <1>7 DEF Found, Straightforward

LEMMA FoundNext ==
  ASSUME SearchInv, NEW path, Straightforward(path), NEW step,
         Append(path, step) \in entered, ~OnPath(step.dir, path), step.dir \notin gone
  PROVE  step.dir \in Found
<1> DEFINE longer == Append(path, step)
<1>1. /\ path \in PathType /\ longer \in entered
      /\ Len(longer) \in Nat \ {0} /\ Last(longer) = longer[Len(longer)]
      /\ Last(longer).dir \in Dir
  BY EndsSomewhere DEF Straightforward
<1>2. /\ Len(longer) = Len(path) + 1 /\ Len(path) \in Nat
      /\ DOMAIN longer = 1..Len(path) + 1 /\ DOMAIN path = 1..Len(path)
      /\ longer[Len(path) + 1] = step
      /\ \A k \in 1..Len(path) : longer[k] = path[k]
      /\ \A d : OnPath(d, longer) => OnPath(d, path) \/ d = step.dir
  BY <1>1, OneStepOn
<1> HIDE DEF longer
<1>3. Last(longer).dir = step.dir
  BY <1>1, <1>2
<1>4. \A i \in DOMAIN longer : \/ i \in DOMAIN path /\ longer[i] = path[i]
                               \/ i = Len(path) + 1 /\ longer[i] = step
  <2> SUFFICES ASSUME NEW i \in DOMAIN longer
               PROVE  \/ i \in DOMAIN path /\ longer[i] = path[i]
                      \/ i = Len(path) + 1 /\ longer[i] = step
    OBVIOUS
  <2>1. i \in 1..Len(path) \/ i = Len(path) + 1
    <3>1. i \in 1..Len(path) + 1 /\ Len(path) \in Nat
      BY <1>2
    <3> QED BY <3>1
  <2>2. CASE i \in 1..Len(path)
    BY <1>2, <2>2, Zenon
  <2>3. CASE i = Len(path) + 1
    BY <1>2, <2>3, Zenon
  <2> QED BY <2>1, <2>2, <2>3
<1>5. Distinct(longer)
  BY <1>2, <1>4 DEF Straightforward, Distinct, OnPath
<1>6. ~Removed(longer)
  BY <1>4 DEF Straightforward, Removed
<1> QED BY <1>1, <1>3, <1>5, <1>6 DEF Found, Straightforward

\* An entry that is still there, in a listing that was read to its end, has
\* had its answer.
LEMMA AllAnswered ==
  ASSUME SearchInv, LinksSuffice, pc = "done", ~stopped,
         NEW path, Straightforward(path),
         NEW n \in DOMAIN fs.entries[Last(path).dir],
         NEW e, e = EntryOf(path, n), e.to \notin gone, ~OnPath(e.to, path),
         fs.listing[Last(path).dir] = "whole" \/ counts["unreadable"] = 0
  PROVE  Answered(path, n, e)
<1>1. path \in entered /\ path \in PathType
  BY EndsSomewhere DEF Straightforward
<1>2. Dealt(path, n)
  BY <1>1 DEF SearchInv, Accounted, BeingRead, Reading
<1>3. ~(counts["unreadable"] = 0 /\ counts["unreadable"] > 0)
  OBVIOUS
<1>4. ~(e.link /\ LinksIn(path) >= MaxLinks)
  <2>1. e.link => LinksIn(path) < MaxLinks
    BY <1>1 DEF LinksSuffice, Straightforward
  <2>2. LinksIn(path) \in Nat /\ MaxLinks \in Nat
    BY <1>1, LinksAreCounted, WalkerAssumption
  <2> QED BY <2>1, <2>2
<1> QED BY <1>2, <1>3, <1>4 DEF Dealt, Straightforward

LEMMA EntryTyped ==
  ASSUME SearchInv, NEW d \in Dir, NEW n \in DOMAIN fs.entries[d]
  PROVE  /\ fs.entries[d][n] \in Entry
         /\ fs.entries[d][n].status = "directory" <=> fs.entries[d][n].to \in Dir
  BY DEF SearchInv, WalkInv, TypeOK, IsFileSystem

\* Found is closed under the subdirectories a reader sees, where the walk says
\* nothing of links it passed by and of listings it could not read.
LEMMA FoundCloses ==
  ASSUME SearchInv, LinksSuffice, pc = "done", ~stopped, NEW d \in Found,
         NEW n \in DOMAIN fs.entries[d], options.recursive,
         fs.entries[d][n].status = "directory", fs.entries[d][n].to \notin gone,
         fs.listing[d] = "whole" \/ counts["unreadable"] = 0,
         ~fs.entries[d][n].link \/ options.follow \/ counts["links"] = 0
  PROVE  fs.entries[d][n].to \in Found
<1>1. PICK path \in entered : Straightforward(path) /\ Last(path).dir = d
  BY DEF Found
<1> DEFINE e == fs.entries[d][n]
           step == Step(n, e.to)
<1>2. e = EntryOf(path, n)
  BY <1>1 DEF EntryOf
<1>3. CASE OnPath(e.to, path)
  BY <1>1, <1>3, FoundOnTheWay
<1>4. CASE ~OnPath(e.to, path)
  <2>1. Answered(path, n, e)
    BY <1>1, <1>2, <1>4, AllAnswered
  <2>2. Followed(path, step)
    <3>1. ~(counts["links"] = 0 /\ counts["links"] > 0)
      OBVIOUS
    <3> QED BY <2>1, <3>1 DEF Answered
  <2>3. step.dir = e.to
    BY DEF Step
  <2>4. ~Waiting(Append(path, step)) /\ ~InHand(path, step)
    BY DEF SearchInv, AtTheEnd, Waiting, InHand
  <2> HIDE DEF step, e
  <2>5. Append(path, step) \in entered
    BY <1>4, <2>2, <2>3, <2>4 DEF Followed
  <2>6. step.dir \in Found
    BY <1>1, <1>4, <2>3, <2>5, FoundNext DEF e
  <2> QED BY <2>3, <2>6 DEF e
<1> QED BY <1>3, <1>4

LEMMA RootsFound ==
  ASSUME SearchInv, pc = "done", ~stopped
  PROVE  RootDirs \subseteq Found
<1> SUFFICES ASSUME NEW i \in DOMAIN asked, asked[i] # NoDir, asked[i] \notin gone
             PROVE  asked[i] \in Found
  BY DEF RootDirs
<1> DEFINE path == RootPath(asked[i])
<1>1. i \in 1..Len(asked) /\ asked \in Seq(Dir \cup {NoDir}) /\ root \in Nat
  BY LenProperties DEF SearchInv, WalkInv, TypeOK
<1>2. i < root /\ pending = << >>
  <2>1. root > Len(asked) /\ pending = << >> /\ Len(asked) \in Nat
    BY <1>1, LenProperties DEF SearchInv, AtTheEnd
  <2> QED BY <1>1, <2>1
<1>3. TakenRoot(asked[i])
  BY <1>2 DEF SearchInv, RootsTaken
<1>4. path \in entered
  BY <1>2, <1>3 DEF TakenRoot, Waiting
<1>5. DOMAIN path = {1} /\ path[1].dir = asked[i] /\ Len(path) = 1
  BY DEF RootPath, Step
<1>6. asked[i] \in Dir
  BY <1>1, ElementOfSeq
<1> HIDE DEF path
<1> QED BY <1>4, <1>5, <1>6 DEF Found, Straightforward, Distinct, Removed, Last

\* A file in a directory that was found has been handed over.
LEMMA FoundIsHanded ==
  ASSUME SearchInv, LinksSuffice, pc = "done", ~stopped, NEW d \in Found,
         NEW n \in DOMAIN fs.entries[d],
         fs.entries[d][n].status \in {"regular", "refused"},
         fs.listing[d] = "whole" \/ counts["unreadable"] = 0,
         ~fs.entries[d][n].link \/ options.follow \/ counts["links"] = 0
  PROVE  /\ fs.entries[d][n].status = "regular" => HandedFrom(d, n)
         /\ fs.entries[d][n].status = "refused" => counts["refused"] > 0
<1>1. PICK path \in entered : Straightforward(path) /\ Last(path).dir = d
  BY DEF Found
<1>2. d \in Dir /\ gone \subseteq Dir
  BY DEF Found, SearchInv, WalkInv, TypeOK
<1> DEFINE e == fs.entries[d][n]
<1>3. e = EntryOf(path, n) /\ e.to \notin Dir
  BY <1>1, <1>2, EntryTyped DEF EntryOf
<1>4. ~OnPath(e.to, path)
  BY <1>1, <1>3, EndsSomewhere DEF OnPath, StepType
<1>5. Answered(path, n, e)
  BY <1>1, <1>2, <1>3, <1>4, AllAnswered
<1>6. /\ e.status = "regular" => [path |-> path, name |-> n] \in handed
      /\ e.status = "refused" => counts["refused"] > 0
  <2>1. ~(counts["links"] = 0 /\ counts["links"] > 0)
    OBVIOUS
  <2> QED BY <1>5, <2>1 DEF Answered
<1>7. ASSUME [path |-> path, name |-> n] \in handed PROVE HandedFrom(d, n)
  <2> DEFINE file == [path |-> path, name |-> n]
  <2>1. Last(file.path).dir = d /\ file.name = n
    BY <1>1
  <2> QED BY <1>7, <2>1 DEF HandedFrom
<1> QED BY <1>6, <1>7

LEMMA NothingIsLostAtTheEnd ==
  ASSUME SearchInv, LinksSuffice PROVE NothingIsLost
<1> SUFFICES ASSUME pc = "done", ~stopped, NEW d \in Reachable(Listed),
                    fs.listing[d] = "whole", NEW n \in FilesOf(d, options.follow)
             PROVE  HandedFrom(d, n)
  BY DEF NothingIsLost
<1>1. ASSUME NEW x \in Found PROVE Listed(x) \subseteq Found
  <2>1. CASE fs.listing[x] = "whole"
    <3> SUFFICES ASSUME NEW m \in DOMAIN fs.entries[x], options.recursive,
                        fs.entries[x][m].status = "directory",
                        options.follow \/ ~fs.entries[x][m].link,
                        fs.entries[x][m].to \notin gone
                 PROVE  fs.entries[x][m].to \in Found
      BY <2>1 DEF Listed, Subdirectories
    <3> QED BY <2>1, FoundCloses
  <2>2. CASE fs.listing[x] # "whole"
    BY <2>2 DEF Listed
  <2> QED BY <2>1, <2>2
<1>2. Found \in SUBSET Dir
  BY DEF Found
<1>3. d \in Found
  BY <1>1, <1>2, RootsFound DEF Reachable
<1>4. n \in DOMAIN fs.entries[d] /\ fs.entries[d][n].status = "regular"
      /\ (options.follow \/ ~fs.entries[d][n].link)
  BY DEF FilesOf
<1> QED BY <1>3, <1>4, FoundIsHanded

LEMMA SilenceAtTheEnd ==
  ASSUME SearchInv, LinksSuffice PROVE SilentMeansComplete
<1> SUFFICES ASSUME pc = "done", ~stopped,
                    \A gap \in {"unreadable", "links", "refused", "missing"} :
                      counts[gap] = 0,
                    NEW d \in Reachable(Readable)
             PROVE  /\ ~HidesContent(d)
                    /\ \A n \in FilesOf(d, TRUE) : HandedFrom(d, n)
  BY DEF SilentMeansComplete
<1>1. counts["unreadable"] = 0 /\ counts["links"] = 0 /\ counts["refused"] = 0
  OBVIOUS
<1>2. ASSUME NEW x \in Found PROVE Readable(x) \subseteq Found
  <2> SUFFICES ASSUME NEW m \in DOMAIN fs.entries[x], options.recursive,
                      fs.entries[x][m].status = "directory",
                      fs.entries[x][m].to \notin gone
               PROVE  fs.entries[x][m].to \in Found
    BY DEF Readable, Subdirectories
  <2> QED BY <1>1, FoundCloses
<1>3. Found \in SUBSET Dir
  BY DEF Found
<1>4. d \in Found
  BY <1>2, <1>3, RootsFound DEF Reachable
<1>5. ASSUME NEW n \in FilesOf(d, TRUE) PROVE HandedFrom(d, n)
  <2>1. n \in DOMAIN fs.entries[d] /\ fs.entries[d][n].status = "regular"
    BY DEF FilesOf
  <2> QED BY <1>1, <1>4, <2>1, FoundIsHanded
<1>6. ~HidesContent(d)
  <2> SUFFICES ASSUME NEW n \in DOMAIN fs.entries[d], fs.entries[d][n].status = "refused"
               PROVE  FALSE
    BY DEF HidesContent
  <2>1. counts["refused"] > 0
    BY <1>1, <1>4, FoundIsHanded
  <2> QED BY <1>1, <2>1
<1> QED BY <1>5, <1>6

(***************************************************************************)
(* The paths the walk takes are there, so that what is asked of the links  *)
(* can be asked of the file system it starts with.                         *)
(***************************************************************************)

\* The listing of d has an entry of that name, and it leads there.
Leads(d, step) ==
  step.name \in DOMAIN fs.entries[d] /\ fs.entries[d][step.name].to = step.dir

Real(path) == \A i \in 2..Len(path) : Leads(path[i - 1].dir, path[i])

RealPaths ==
  /\ \A path \in entered : Real(path)
  /\ \A i \in DOMAIN pending : Real(pending[i].path)
  /\ Reading => Real(cur.path) /\ \A i \in DOMAIN children : Leads(CurDir, children[i])

\* The host follows every link on a path that takes no directory twice, up to
\* one that leads off the path: no more than MaxLinks in a row, wherever one
\* begins.  What is asked of it is asked of the file system alone.
LinksResolve ==
  \A path \in PathType : (path # << >> /\ Real(path) /\ Distinct(path)) =>
    \A n \in DOMAIN fs.entries[Last(path).dir] :
      (EntryOf(path, n).link /\ ~OnPath(EntryOf(path, n).to, path))
        => LinksIn(path) < MaxLinks

LEMMA RealStays ==
  ASSUME NEW path, Real(path), fs' = fs PROVE Real(path)'
BY DEF Real, Leads

LEMMA QuietPaths ==
  ASSUME RealPaths, UNCHANGED <<fs, pending, entered>>,
         Reading' => Reading /\ UNCHANGED <<cur, children>>
  PROVE  RealPaths'
<1>1. (\A path \in entered : Real(path))'
  BY RealStays DEF RealPaths
<1>2. (\A i \in DOMAIN pending : Real(pending[i].path))'
  BY DEF RealPaths, Real, Leads
<1>3. ASSUME Reading'
      PROVE  (Real(cur.path) /\ \A i \in DOMAIN children : Leads(CurDir, children[i]))'
  BY <1>3 DEF RealPaths, Real, Leads, CurDir
<1> QED BY <1>1, <1>2, <1>3 DEF RealPaths

\* An entry queued is one of the listing being read.
LEMMA EntryPaths ==
  ASSUME WalkInv, RealPaths, NEW n \in Name, ReadEntry(n)
  PROVE  RealPaths'
<1>1. /\ UNCHANGED <<fs, pending, entered, cur, pc>> /\ pc = "list" /\ n \in todo
      /\ \/ children' = children
         \/ children' = Append(children, Step(n, EntryAt(n).to))
  BY DEF ReadEntry, PassUnfollowedLink, NoteTypeRefused, QueueDirectory, PassSpecial,
         HandOver, Reads, chosen
<1>2. CASE children' = children
  BY <1>1, <1>2, QuietPaths DEF Reading
<1>3. CASE children' = Append(children, Step(n, EntryAt(n).to))
  <2>1. Leads(CurDir, Step(n, EntryAt(n).to))
    BY <1>1 DEF WalkInv, Shape, Leads, Step, EntryAt
  <2>2. \A i \in DOMAIN children : Leads(CurDir, children[i])
    BY <1>1 DEF RealPaths, Reading
  <2>3. children \in Seq(StepType)
    BY DEF WalkInv, TypeOK
  <2>4. \A i \in DOMAIN children' :
          \/ i \in DOMAIN children /\ children'[i] = children[i]
          \/ children'[i] = Step(n, EntryAt(n).to)
    <3>1. /\ Len(children) \in Nat /\ DOMAIN children = 1..Len(children)
          /\ DOMAIN children' = 1..Len(children) + 1
          /\ children'[Len(children) + 1] = Step(n, EntryAt(n).to)
          /\ \A i \in 1..Len(children) : children'[i] = children[i]
      BY <1>3, <2>3, LenProperties
    <3>2. \A i \in 1..Len(children) + 1 : i \in 1..Len(children) \/ i = Len(children) + 1
      BY <3>1
    <3> HIDE <1>3
    <3> QED BY <3>1, <3>2
  <2>5. \A i \in DOMAIN children' : Leads(CurDir, children'[i])
    BY <2>1, <2>2, <2>4
  <2>6. (\A path \in entered : Real(path))' /\ Real(cur.path)'
    BY <1>1, RealStays DEF RealPaths, Reading
  <2>7. (\A i \in DOMAIN pending : Real(pending[i].path))'
    BY <1>1 DEF RealPaths, Real, Leads
  <2>8. (\A i \in DOMAIN children : Leads(CurDir, children[i]))'
    BY <1>1, <2>5 DEF Leads, CurDir
  <2> QED BY <2>6, <2>7, <2>8 DEF RealPaths
<1> QED BY <1>1, <1>2, <1>3

LEMMA PopPaths ==
  ASSUME WalkInv, RealPaths, SkipVanished \/ SkipLoop \/ Enter
  PROVE  RealPaths'
<1>1. /\ pending' = Front(pending) /\ pending # << >> /\ fs' = fs /\ pc = "pop"
  BY DEF SkipVanished, SkipLoop, Enter, Pop, chosen
<1>2. /\ \A i \in DOMAIN pending' : i \in DOMAIN pending /\ pending'[i] = pending[i]
      /\ Real(Top.path)
  BY <1>1, TopOfTheStack DEF RealPaths
<1>3. (\A i \in DOMAIN pending : Real(pending[i].path))'
  BY <1>1, <1>2, RealStays DEF RealPaths
<1>4. CASE SkipVanished \/ SkipLoop
  <2>1. entered' = entered /\ ~Reading'
    BY <1>1, <1>4 DEF SkipVanished, SkipLoop, Reading
  <2> QED BY <1>1, <1>3, <2>1, RealStays DEF RealPaths
<1>5. CASE Enter
  <2>1. entered' = entered \cup {Top.path} /\ cur' = Top /\ children' = << >>
    BY <1>5 DEF Enter
  <2>2. (\A path \in entered : Real(path))' /\ Real(cur.path)'
    BY <1>1, <1>2, <2>1, RealStays DEF RealPaths
  <2>3. (\A i \in DOMAIN children : Leads(CurDir, children[i]))'
    BY <2>1
  <2> QED BY <1>3, <2>2, <2>3 DEF RealPaths
<1> QED BY <1>4, <1>5

\* A child's path is the path to its parent and the entry that led to it.
LEMMA ChildIsReal ==
  ASSUME WalkInv, RealPaths, Reading, NEW j \in DOMAIN children
  PROVE  Real(Child(children[j]).path)
<1> DEFINE path == cur.path
           longer == Append(cur.path, children[j])
<1>1. path \in PathType /\ Len(path) = cur.depth + 1 /\ cur.depth \in Nat
  BY CurrentDirectory
<1>2. /\ Len(longer) = Len(path) + 1 /\ Len(path) \in Nat \ {0}
      /\ longer[Len(path) + 1] = children[j]
      /\ \A k \in 1..Len(path) : longer[k] = path[k]
  BY <1>1, OneStepOn
<1>3. Leads(path[Len(path)].dir, children[j])
  BY DEF RealPaths, CurDir, Last
<1>4. Real(path)
  BY DEF RealPaths
<1> HIDE DEF longer, path
<1>5. ASSUME NEW i \in 2..Len(longer) PROVE Leads(longer[i - 1].dir, longer[i])
  <2>1. i - 1 \in 1..Len(path) /\ (i \in 2..Len(path) \/ i = Len(path) + 1)
    BY <1>2
  <2>2. longer[i - 1] = path[i - 1]
    BY <1>2, <2>1
  <2>3. CASE i \in 2..Len(path)
    <3>1. i \in 1..Len(path)
      BY <2>3
    <3>2. longer[i] = path[i]
      BY <1>2, <3>1
    <3> QED BY <1>4, <2>2, <2>3, <3>2 DEF Real
  <2>4. CASE i = Len(path) + 1
    <3>1. i - 1 = Len(path)
      BY <1>2, <2>4
    <3> QED BY <1>2, <1>3, <2>2, <2>4, <3>1
  <2> QED BY <2>1, <2>3, <2>4
<1> QED BY <1>5 DEF Real, Child, Pending, longer

LEMMA PushPaths ==
  ASSUME WalkInv, RealPaths, ListingEnds \/ ListingBreaks \/ StopInListing
  PROVE  RealPaths'
<1>1. /\ PushChildren /\ Reading /\ ~Reading' /\ fs' = fs /\ entered' = entered
  BY DEF ListingEnds, ListingBreaks, StopInListing, PushChildren, Reading, chosen
<1>2. ASSUME NEW i \in DOMAIN pending' PROVE Real(pending'[i].path)
  <2>1. CASE i \in DOMAIN pending /\ pending'[i] = pending[i]
    BY <2>1 DEF RealPaths
  <2>2. ASSUME NEW j \in DOMAIN children, pending'[i] = Child(children[j])
        PROVE  Real(pending'[i].path)
    BY <1>1, <2>2, ChildIsReal
  <2> QED BY <1>1, <2>1, <2>2, PushedOnTop
<1>3. (\A i \in DOMAIN pending : Real(pending[i].path))'
  BY <1>1, <1>2 DEF Real, Leads
<1> QED BY <1>1, <1>3, RealStays DEF RealPaths

LEMMA PathsStep ==
  ASSUME WalkInv, RealPaths, [Next]_walkerVars PROVE RealPaths'
<1>1. CASE NextRoot
  <2>1. fs' = fs /\ entered' = entered /\ ~Reading'
    BY <1>1 DEF NextRoot, chosen, Reading
  <2>2. \A i \in DOMAIN pending' : Len(pending'[i].path) = 1 \/ pending' = pending
    BY <1>1 DEF NextRoot, Pending
  <2>3. (\A i \in DOMAIN pending : Real(pending[i].path))'
    BY <2>1, <2>2 DEF RealPaths, Real, Leads
  <2> QED BY <2>1, <2>3, RealStays DEF RealPaths
<1>2. CASE \/ NoMoreRoots \/ RootWalked \/ StopBetweenDirectories \/ ListingRefused
           \/ OpenListing \/ Signal \/ UNCHANGED walkerVars
           \/ (\E d \in Dir : HostRemoves(d))
  <2>1. /\ UNCHANGED <<fs, pending, entered>>
        /\ Reading' => Reading /\ UNCHANGED <<cur, children>>
    BY <1>2 DEF NoMoreRoots, RootWalked, StopBetweenDirectories, ListingRefused,
                OpenListing, Signal, HostRemoves, walkerVars, chosen, Reading
  <2> QED BY <2>1, QuietPaths
<1>3. CASE SkipVanished \/ SkipLoop \/ Enter
  BY <1>3, PopPaths
<1>4. CASE \E n \in Name : ReadEntry(n)
  BY <1>4, EntryPaths
<1>5. CASE ListingEnds \/ ListingBreaks \/ StopInListing
  BY <1>5, PushPaths
<1> QED BY <1>1, <1>2, <1>3, <1>4, <1>5 DEF Next, Walk, Take, Finished

\* Every directory entered is on the disk where the walk believes it to be:
\* each step of its path is an entry of the directory before it.
THEOREM PathsAreReal == Spec => []RealPaths
<1>1. Init => RealPaths
  BY DEF Init, RealPaths, Reading
<1>2. WalkInv /\ RealPaths /\ [Next]_walkerVars => RealPaths'
  BY PathsStep
<1> QED BY <1>1, <1>2, WalkKeepsItsInvariant, PTL DEF Spec

LEMMA ResolvedLinksSuffice ==
  ASSUME SearchInv, RealPaths, LinksResolve PROVE LinksSuffice
<1> SUFFICES ASSUME NEW path \in entered, Distinct(path),
                    NEW n \in DOMAIN fs.entries[Last(path).dir],
                    EntryOf(path, n).link, ~OnPath(EntryOf(path, n).to, path)
             PROVE  LinksIn(path) < MaxLinks
  BY DEF LinksSuffice
<1>1. path \in PathType /\ path # << >> /\ Real(path)
  BY DEF SearchInv, WalkInv, TypeOK, Rooted, RealPaths
<1> QED BY <1>1 DEF LinksResolve

\* The file system is the one the walk began with.
LEMMA ResolvedStays ==
  ASSUME LinksResolve, [Next]_walkerVars PROVE LinksResolve'
<1>1. fs' = fs
  BY DEF Next, Walk, Take, Finished, ReadEntry, NextRoot, NoMoreRoots, RootWalked,
         StopBetweenDirectories, SkipVanished, SkipLoop, Enter, Pop, OpenListing,
         ListingRefused, PassUnfollowedLink, NoteTypeRefused, QueueDirectory,
         PassSpecial, HandOver, Reads, ListingEnds, ListingBreaks, StopInListing,
         PushChildren, Signal, HostRemoves, walkerVars, chosen
<1>2. \A path : Real(path)' = Real(path) /\ LinksIn(path)' = LinksIn(path)
  BY <1>1 DEF Real, Leads, LinksIn
<1>3. \A path, n : EntryOf(path, n)' = EntryOf(path, n)
  BY <1>1 DEF EntryOf
<1> QED BY <1>1, <1>2, <1>3 DEF LinksResolve

\* A walk that ran to its end has handed over every file of every directory it
\* could reach and list, whatever loops it refused and whatever was removed:
\* as long as the host follows the links on the way (FileWalker.cpp:417-419).
THEOREM TheWalkLosesNothing == Spec /\ LinksResolve => []NothingIsLost
<1>1. SearchInv /\ RealPaths /\ LinksResolve => NothingIsLost
  BY NothingIsLostAtTheEnd, ResolvedLinksSuffice
<1>2. LinksResolve /\ [Next]_walkerVars => LinksResolve'
  BY ResolvedStays
<1> QED BY <1>1, <1>2, SearchKeepsItsInvariant, PathsAreReal, PTL DEF Spec

\* A walk that ran to its end and counted no gap has left none: not behind a
\* link either, nor an entry whose type it was not told (FileWalker.h:96-118).
THEOREM TheWalkIsSilentOnlyWhenDone == Spec /\ LinksResolve => []SilentMeansComplete
<1>1. SearchInv /\ RealPaths /\ LinksResolve => SilentMeansComplete
  BY SilenceAtTheEnd, ResolvedLinksSuffice
<1>2. LinksResolve /\ [Next]_walkerVars => LinksResolve'
  BY ResolvedStays
<1> QED BY <1>1, <1>2, SearchKeepsItsInvariant, PathsAreReal, PTL DEF Spec

=============================================================================
