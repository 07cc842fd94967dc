-------------------------- MODULE QuarantineProofs --------------------------
(***************************************************************************)
(* For any number of movers, paths, links, names and crashes: no sample is *)
(* lost, nothing in the quarantine directory is written over, and the      *)
(* calls of quarantineFile() implement the custody of module Custody.      *)
(***************************************************************************)
EXTENDS Quarantine, TLAPS

Busy == {"create", "copy", "unlink", "cleanup"}

\* The descriptor belongs to the path, and a finished copy is whole.
HoldsItsSource ==
  \A m \in Mover :
    /\ pc[m] \in Busy => held[m] = Behind(src[m])
    /\ pc[m] = "unlink" => vault[attempt[m]] = Whole(held[m])

IInv == TypeOK /\ HoldsItsSource /\ OneMaker /\ EvidenceSurvives

-----------------------------------------------------------------------------
LEMMA BehindIsSample == \A s \in Source : Behind(s) \in Sample
  BY QuarantineAssumption DEF Behind, Sample

\* The entries of the quarantine directory are told apart by what they hold.
LEMMA EntriesDiffer ==
  \A x, y : /\ Whole(x) = Whole(y) => x = y
            /\ Part(x) # Whole(y)
            /\ Free # Part(x) /\ Free # Whole(x)
            /\ Other # Part(x) /\ Other # Whole(x) /\ Other # Free
            /\ MovedLink # Part(x) /\ MovedLink # Whole(x)
  BY DEF Whole, Part, Free, Other, MovedLink

LEMMA EntryTypes ==
  ASSUME NEW x \in Sample
  PROVE  {Free, Other, MovedLink, Part(x), Whole(x)} \subseteq
           [kind : {"free", "other", "link", "part", "whole"}, of : Sample \cup {NoSample}]
  BY DEF Whole, Part, Free, Other, MovedLink

\* A mover is at work on one name at most, and on none before it created it.
LEMMA FreeIsNobodys ==
  ASSUME IInv, NEW n \in Slot, vault[n] \in {Free, Other, MovedLink}
  PROVE  \A m \in Mover : ~Making(m, n)
  BY EntriesDiffer DEF IInv, OneMaker

\* A step that touches neither the tree nor the directory, by a mover that
\* either keeps its hold on a name or had none and takes none.
LEMMA ControlStep ==
  ASSUME IInv, TypeOK', NEW m \in Mover, UNCHANGED <<tree, vault>>,
         \A k \in Mover \ {m} : /\ pc'[k] = pc[k] /\ attempt'[k] = attempt[k]
                                /\ held'[k] = held[k] /\ src'[k] = src[k],
         \/ /\ pc[m] \in {"copy", "unlink"} /\ pc'[m] = "cleanup"
            /\ attempt'[m] = attempt[m] /\ held'[m] = held[m] /\ src'[m] = src[m]
         \/ /\ pc[m] \notin {"copy", "unlink", "cleanup"}
            /\ pc'[m] \notin {"copy", "unlink", "cleanup"}
            /\ pc'[m] = "create" => held'[m] = Behind(src'[m])
  PROVE  IInv'
<1>1. \A k \in Mover, n \in Slot : Making(k, n)' <=> Making(k, n)
  <2> TAKE k \in Mover, n \in Slot
  <2>1. CASE k = m  BY <2>1 DEF Making
  <2>2. CASE k # m  BY <2>2 DEF Making
  <2> QED BY <2>1, <2>2
<1>2. HoldsItsSource'
  <2> SUFFICES ASSUME NEW k \in Mover
               PROVE  /\ pc'[k] \in Busy => held'[k] = Behind(src'[k])
                      /\ pc'[k] = "unlink" => vault'[attempt'[k]] = Whole(held'[k])
    BY DEF HoldsItsSource, Behind, Whole
  <2>1. CASE k = m  BY <2>1 DEF IInv, HoldsItsSource, Busy
  <2>2. CASE k # m  BY <2>2 DEF IInv, HoldsItsSource
  <2> QED BY <2>1, <2>2
<1>3. OneMaker'
  <2> SUFFICES ASSUME NEW k \in Mover, NEW n \in Slot, Making(k, n)
               PROVE  /\ vault'[n] \in {Part(held'[k]), Whole(held'[k])}
                      /\ \A j \in Mover \ {k} : ~Making(j, n)
    BY <1>1 DEF OneMaker, Part, Whole
  <2>1. held'[k] = held[k]
    BY DEF Making
  <2> QED BY <2>1 DEF IInv, OneMaker
<1>4. EvidenceSurvives'
  BY <1>1 DEF IInv, EvidenceSurvives, Settled, Whole
<1> QED BY <1>2, <1>3, <1>4 DEF IInv

\* The steps of one mover never leave the types.
LEMMA MoverTypes ==
  ASSUME IInv, NEW m \in Mover, Move(m)
  PROVE  TypeOK'
<1>1. TypeOK /\ (pc[m] \in Busy => held[m] \in Sample)
  BY BehindIsSample DEF IInv, HoldsItsSource, TypeOK
<1>2. \A x \in Sample : {Free, MovedLink, Part(x), Whole(x)} \subseteq
        [kind : {"free", "other", "link", "part", "whole"}, of : Sample \cup {NoSample}]
  BY EntryTypes
<1>3. ASSUME NextName(m), UNCHANGED <<tree, vault, src, held, crashes>>
      PROVE  TypeOK'
  <2>1. attempt[m] \in Slot /\ (attempt[m] # MaxAttempt => attempt[m] + 1 \in Slot)
    BY <1>1, QuarantineAssumption DEF TypeOK, Slot
  <2> QED BY <1>1, <1>3, <2>1 DEF NextName, Goto, TypeOK
<1>4. CASE NoDirectory(m) \/ RenameUnavailable(m) \/ OpenFails(m) \/ CreateRefused(m)
             \/ CopyFails(m) \/ UnlinkFails(m)
  BY <1>1, <1>4 DEF TypeOK, NoDirectory, RenameUnavailable, OpenFails, CreateRefused,
                    CopyFails, UnlinkFails, Goto
<1>5. CASE RenameMoves(m)
  <2>1. src[m] \notin Link => src[m] \in Sample  BY <1>1 DEF TypeOK, Sample
  <2>2. MovedLink \in [kind : {"free", "other", "link", "part", "whole"},
                       of : Sample \cup {NoSample}]
    BY DEF MovedLink
  <2>3. vault' \in [Slot -> [kind : {"free", "other", "link", "part", "whole"},
                             of : Sample \cup {NoSample}]]
    BY <1>1, <1>2, <1>5, <2>1, <2>2 DEF RenameMoves, TypeOK
  <2> QED BY <1>1, <1>5, <2>3 DEF RenameMoves, TypeOK, Goto
<1>6. CASE RenameFindsNameTaken(m) \/ CreateFindsNameTaken(m)
  BY <1>3, <1>6 DEF RenameFindsNameTaken, CreateFindsNameTaken
<1>7. CASE OpenSource(m)
  <2>1. Behind(src[m]) \in Sample  BY <1>1, BehindIsSample DEF TypeOK
  <2> QED BY <1>1, <1>7, <2>1 DEF OpenSource, TypeOK, Goto
<1>8. CASE CreateDestination(m) \/ Copy(m)
  <2>1. held[m] \in Sample  BY <1>1, <1>8 DEF CreateDestination, Copy, Busy
  <2>2. vault' \in [Slot -> [kind : {"free", "other", "link", "part", "whole"},
                             of : Sample \cup {NoSample}]]
    BY <1>1, <1>2, <1>8, <2>1 DEF CreateDestination, Copy, TypeOK
  <2> QED BY <1>1, <1>8, <2>2 DEF CreateDestination, Copy, TypeOK, Goto
<1>9. CASE UnlinkSource(m)
  BY <1>1, <1>9 DEF UnlinkSource, TypeOK, Goto
<1>10. CASE CleanUp(m)
  <2>1. Free \in [kind : {"free", "other", "link", "part", "whole"},
                  of : Sample \cup {NoSample}]
    BY DEF Free
  <2>2. vault' \in [Slot -> [kind : {"free", "other", "link", "part", "whole"},
                             of : Sample \cup {NoSample}]]
    BY <1>1, <1>10, <2>1 DEF CleanUp, TypeOK
  <2> QED BY <1>1, <1>10, <2>2 DEF CleanUp, TypeOK, Goto
<1> QED BY <1>4, <1>5, <1>6, <1>7, <1>8, <1>9, <1>10 DEF Move

-----------------------------------------------------------------------------
(***************************************************************************)
(* The steps that change the directory or the tree.                        *)
(***************************************************************************)

\* What the other movers see of a step of m: nothing of theirs changes.
OthersStay(m) ==
  \A k \in Mover \ {m} : /\ pc'[k] = pc[k] /\ attempt'[k] = attempt[k]
                          /\ held'[k] = held[k] /\ src'[k] = src[k]

\* m makes or fills the name it is at: nobody else holds it, and no sample was
\* settled there.
LEMMA FillStep ==
  ASSUME IInv, TypeOK', NEW m \in Mover, OthersStay(m), tree' = tree,
         CreateDestination(m) \/ Copy(m)
  PROVE  IInv'
<1>1. /\ attempt[m] \in Slot /\ attempt'[m] = attempt[m] /\ held'[m] = held[m]
      /\ src'[m] = src[m] /\ held[m] = Behind(src[m])
      /\ pc'[m] \in {"copy", "unlink"}
      /\ vault'[attempt[m]] = IF pc'[m] = "copy" THEN Part(held[m]) ELSE Whole(held[m])
      /\ \A n \in Slot \ {attempt[m]} : vault'[n] = vault[n]
  BY DEF CreateDestination, Copy, Goto, IInv, TypeOK, HoldsItsSource, Busy
<1>2. vault[attempt[m]] = Free \/ Making(m, attempt[m])
  BY DEF CreateDestination, Copy, Making
<1>3. \A k \in Mover \ {m} : ~Making(k, attempt[m])
  BY <1>1, <1>2, FreeIsNobodys DEF IInv, OneMaker
<1>4. \A n \in Slot : Making(m, n)' <=> n = attempt[m]
  BY <1>1 DEF Making
<1>5. \A k \in Mover \ {m}, n \in Slot : Making(k, n)' <=> Making(k, n)
  BY DEF OthersStay, Making
<1>6. \A n \in Slot : Making(m, n) => n = attempt[m]
  BY DEF Making
<1>7. HoldsItsSource'
  <2> SUFFICES ASSUME NEW k \in Mover
               PROVE  /\ pc'[k] \in Busy => held'[k] = Behind(src'[k])
                      /\ pc'[k] = "unlink" => vault'[attempt'[k]] = Whole(held'[k])
    BY DEF HoldsItsSource, Behind, Whole
  <2>1. CASE k = m  BY <1>1, <2>1
  <2>2. CASE k # m
    <3>1. attempt[k] \in Slot  BY DEF IInv, TypeOK
    <3>2. pc[k] = "unlink" => attempt[k] # attempt[m]  BY <1>3, <2>2 DEF Making
    <3> QED BY <1>1, <2>2, <3>1, <3>2 DEF IInv, HoldsItsSource, OthersStay
  <2> QED BY <2>1, <2>2
<1>8. OneMaker'
  <2> SUFFICES ASSUME NEW k \in Mover, NEW n \in Slot, Making(k, n)'
               PROVE  /\ vault'[n] \in {Part(held'[k]), Whole(held'[k])}
                      /\ \A j \in Mover \ {k} : ~(Making(j, n)')
    BY DEF OneMaker, Part, Whole
  <2>1. CASE k = m  BY <1>1, <1>3, <1>4, <1>5, <2>1
  <2>2. CASE k # m
    <3>1. Making(k, n) /\ n # attempt[m] /\ held'[k] = held[k]
      BY <1>3, <1>5, <2>2 DEF OthersStay
    <3> QED BY <1>1, <1>4, <1>5, <2>2, <3>1 DEF IInv, OneMaker
  <2> QED BY <2>1, <2>2
<1>9. EvidenceSurvives'
  <2> SUFFICES ASSUME NEW x \in Sample, ~tree[x]
               PROVE  \E n \in Slot : /\ vault'[n] = Whole(x)
                                      /\ \A k \in Mover : ~(Making(k, n)')
    BY DEF EvidenceSurvives, Settled, Whole
  <2>1. PICK n \in Slot : Settled(n, x)  BY DEF IInv, EvidenceSurvives
  <2>2. n # attempt[m]  BY <1>2, <2>1, EntriesDiffer DEF Settled
  <2> QED BY <1>1, <1>4, <1>5, <2>1, <2>2 DEF Settled
<1> QED BY <1>7, <1>8, <1>9 DEF IInv

\* m lets go of the name it was at, if it was at one: the name is freed, or a
\* whole copy stays and the source goes, or the process died.
LEMMA ReleaseStep ==
  ASSUME IInv, TypeOK', NEW m \in Mover, OthersStay(m),
         attempt'[m] = attempt[m], held'[m] = held[m], src'[m] = src[m],
         pc'[m] \in {"idle", "moved", "failed"},
         \A n \in Slot \ {attempt[m]} : vault'[n] = vault[n],
         vault'[attempt[m]] # vault[attempt[m]] =>
           (Making(m, attempt[m]) \/ vault[attempt[m]] = Free),
         \A x \in Sample : tree'[x] = tree[x] \/
           (x = Behind(src[m]) /\ vault'[attempt[m]] = Whole(x)
              /\ \A k \in Mover \ {m} : ~Making(k, attempt[m]))
  PROVE  IInv'
<1>1. attempt[m] \in Slot  BY DEF IInv, TypeOK
<1>2. \A n \in Slot : ~(Making(m, n)')  BY DEF Making
<1>3. \A k \in Mover \ {m}, n \in Slot : Making(k, n)' <=> Making(k, n)
  BY DEF OthersStay, Making
<1>4. \A k \in Mover \ {m}, n \in Slot : Making(k, n) => vault'[n] = vault[n]
  <2> SUFFICES ASSUME NEW k \in Mover \ {m}, NEW n \in Slot, Making(k, n)
               PROVE  vault'[n] = vault[n]
    OBVIOUS
  <2>1. n = attempt[m] => ~Making(m, n) /\ vault[n] # Free
    BY FreeIsNobodys DEF IInv, OneMaker
  <2> QED BY <1>1, <2>1
<1>5. HoldsItsSource'
  <2> SUFFICES ASSUME NEW k \in Mover
               PROVE  /\ pc'[k] \in Busy => held'[k] = Behind(src'[k])
                      /\ pc'[k] = "unlink" => vault'[attempt'[k]] = Whole(held'[k])
    BY DEF HoldsItsSource, Behind, Whole
  <2>1. CASE k = m  BY <2>1 DEF Busy
  <2>2. CASE k # m
    <3>1. attempt[k] \in Slot  BY DEF IInv, TypeOK
    <3>2. pc[k] = "unlink" => vault'[attempt[k]] = vault[attempt[k]]
      BY <1>4, <2>2, <3>1 DEF Making
    <3> QED BY <2>2, <3>2 DEF IInv, HoldsItsSource, OthersStay
  <2> QED BY <2>1, <2>2
<1>6. OneMaker'
  <2> SUFFICES ASSUME NEW k \in Mover, NEW n \in Slot, Making(k, n)'
               PROVE  /\ vault'[n] \in {Part(held'[k]), Whole(held'[k])}
                      /\ \A j \in Mover \ {k} : ~(Making(j, n)')
    BY DEF OneMaker, Part, Whole
  <2>1. k # m /\ Making(k, n) /\ held'[k] = held[k] /\ vault'[n] = vault[n]
    BY <1>2, <1>3, <1>4 DEF OthersStay
  <2> QED BY <1>2, <1>3, <2>1 DEF IInv, OneMaker
<1>7. EvidenceSurvives'
  <2> SUFFICES ASSUME NEW x \in Sample, ~tree'[x]
               PROVE  \E n \in Slot : /\ vault'[n] = Whole(x)
                                      /\ \A k \in Mover : ~(Making(k, n)')
    BY DEF EvidenceSurvives, Settled, Whole
  <2>1. CASE tree[x]
    BY <1>1, <1>2, <1>3, <2>1
  <2>2. CASE ~tree[x]
    <3>1. PICK n \in Slot : Settled(n, x)  BY <2>2 DEF IInv, EvidenceSurvives
    <3>2. vault'[n] = vault[n]
      BY <3>1, EntriesDiffer DEF Settled
    <3> QED BY <1>2, <1>3, <3>1, <3>2 DEF Settled
  <2> QED BY <2>1, <2>2
<1> QED BY <1>5, <1>6, <1>7 DEF IInv

-----------------------------------------------------------------------------
(***************************************************************************)
(* Every step.                                                             *)
(***************************************************************************)

LEMMA OneMoverActs ==
  ASSUME TypeOK, NEW m \in Mover, Move(m)
  PROVE  OthersStay(m)
BY DEF OthersStay, TypeOK, Move, NoDirectory, RenameMoves, RenameFindsNameTaken,
       RenameUnavailable, OpenSource, OpenFails, CreateDestination, CreateFindsNameTaken,
       CreateRefused, Copy, CopyFails, UnlinkSource, UnlinkFails, CleanUp, NextName, Goto

LEMMA MoveInv ==
  ASSUME IInv, NEW m \in Mover, Move(m)
  PROVE  IInv'
<1>1. TypeOK /\ TypeOK' /\ OthersStay(m)
  BY MoverTypes, OneMoverActs DEF IInv
<1>2. CASE NoDirectory(m) \/ RenameUnavailable(m) \/ OpenFails(m) \/ CreateRefused(m)
             \/ CopyFails(m) \/ UnlinkFails(m) \/ OpenSource(m)
  <2>1. /\ UNCHANGED <<tree, vault>>
        /\ \/ /\ pc[m] \in {"copy", "unlink"} /\ pc'[m] = "cleanup"
              /\ attempt'[m] = attempt[m] /\ held'[m] = held[m] /\ src'[m] = src[m]
           \/ /\ pc[m] \notin {"copy", "unlink", "cleanup"}
              /\ pc'[m] \notin {"copy", "unlink", "cleanup"}
              /\ pc'[m] = "create" => held'[m] = Behind(src'[m])
    BY <1>1, <1>2 DEF TypeOK, NoDirectory, RenameUnavailable, OpenFails, CreateRefused,
                      CopyFails, UnlinkFails, OpenSource, Goto
  <2> QED BY <1>1, <2>1, ControlStep DEF OthersStay
<1>3. CASE RenameFindsNameTaken(m) \/ CreateFindsNameTaken(m)
  <2>1. /\ UNCHANGED <<tree, vault>> /\ pc[m] \notin {"copy", "unlink", "cleanup"}
        /\ pc'[m] \in {"rename", "failed"}
    BY <1>1, <1>3 DEF TypeOK, RenameFindsNameTaken, CreateFindsNameTaken, NextName, Goto
  <2> QED BY <1>1, <2>1, ControlStep DEF OthersStay
<1>4. CASE CreateDestination(m) \/ Copy(m)
  <2>1. tree' = tree  BY <1>4 DEF CreateDestination, Copy
  <2> QED BY <1>1, <1>4, <2>1, FillStep
<1>5. CASE RenameMoves(m)
  <2>1. /\ attempt' = attempt /\ held' = held /\ src' = src /\ pc'[m] = "moved"
        /\ pc[m] = "rename" /\ vault[attempt[m]] = Free /\ attempt[m] \in Slot
        /\ vault'[attempt[m]] = IF src[m] \in Link THEN MovedLink ELSE Whole(src[m])
        /\ \A n \in Slot \ {attempt[m]} : vault'[n] = vault[n]
    BY <1>1, <1>5 DEF RenameMoves, TypeOK, Goto
  <2>2. \A k \in Mover : ~Making(k, attempt[m])
    BY <2>1, FreeIsNobodys
  <2>3. \A x \in Sample : tree'[x] = tree[x] \/
          (x = Behind(src[m]) /\ vault'[attempt[m]] = Whole(x))
    <3>1. \A x \in Sample : tree'[x] = tree[x] \/ (x = src[m] /\ src[m] \notin Link)
      BY <1>1, <1>5 DEF RenameMoves, TypeOK, Sample
    <3>2. src[m] \notin Link => Behind(src[m]) = src[m]  BY DEF Behind
    <3> QED BY <2>1, <3>1, <3>2
  <2> QED BY <1>1, <2>1, <2>2, <2>3, ReleaseStep
<1>6. CASE UnlinkSource(m)
  <2>1. /\ attempt' = attempt /\ held' = held /\ src' = src /\ pc'[m] = "moved"
        /\ pc[m] = "unlink" /\ vault' = vault /\ attempt[m] \in Slot
    BY <1>1, <1>6 DEF UnlinkSource, TypeOK, Goto
  <2>2. vault[attempt[m]] = Whole(Behind(src[m]))
    BY <2>1 DEF IInv, HoldsItsSource, Busy
  <2>3. \A k \in Mover \ {m} : ~Making(k, attempt[m])
    BY <2>1 DEF IInv, OneMaker, Making
  <2>4. \A x \in Sample : tree'[x] = tree[x] \/ x = Behind(src[m])
    BY <1>1, <1>6 DEF UnlinkSource, TypeOK, Behind, Sample
  <2> QED BY <1>1, <2>1, <2>2, <2>3, <2>4, ReleaseStep
<1>7. CASE CleanUp(m)
  <2>1. /\ attempt' = attempt /\ held' = held /\ src' = src /\ pc'[m] = "failed"
        /\ pc[m] = "cleanup" /\ tree' = tree /\ attempt[m] \in Slot
        /\ \A n \in Slot \ {attempt[m]} : vault'[n] = vault[n]
    BY <1>1, <1>7 DEF CleanUp, TypeOK, Goto
  <2>2. Making(m, attempt[m])  BY <2>1 DEF Making
  <2> QED BY <1>1, <2>1, <2>2, ReleaseStep
<1> QED BY <1>2, <1>3, <1>4, <1>5, <1>6, <1>7 DEF Move

LEMMA InitInv == Init => IInv
<1> SUFFICES ASSUME Init PROVE IInv
  OBVIOUS
<1>1. TypeOK
  BY QuarantineAssumption DEF Init, TypeOK, Slot, Free
<1>2. HoldsItsSource /\ OneMaker
  BY DEF Init, HoldsItsSource, Busy, OneMaker, Making
<1>3. EvidenceSurvives
  BY DEF Init, EvidenceSurvives, Sample
<1> QED BY <1>1, <1>2, <1>3 DEF IInv

LEMMA NextInv == IInv /\ [Next]_quarantineVars => IInv'
<1> SUFFICES ASSUME IInv, [Next]_quarantineVars PROVE IInv'
  OBVIOUS
<1>1. TypeOK  BY DEF IInv
<1>2. ASSUME NEW m \in Mover, Move(m) PROVE IInv'
  BY <1>2, MoveInv
<1>3. ASSUME NEW m \in Mover, NEW s \in Source, Begin(m, s) PROVE IInv'
  <2>1. TypeOK'
    BY <1>1, <1>3, QuarantineAssumption DEF Begin, TypeOK, Goto, Slot
  <2>2. /\ UNCHANGED <<tree, vault>> /\ pc'[m] = "rename"
        /\ pc[m] \notin {"copy", "unlink", "cleanup"}
        /\ \A k \in Mover \ {m} : /\ pc'[k] = pc[k] /\ attempt'[k] = attempt[k]
                                   /\ held'[k] = held[k] /\ src'[k] = src[k]
    BY <1>1, <1>3 DEF Begin, TypeOK, Goto
  <2> QED BY <2>1, <2>2, ControlStep
<1>4. ASSUME NEW m \in Mover, Crash(m) PROVE IInv'
  <2>1. TypeOK'
    BY <1>1, <1>4, QuarantineAssumption DEF Crash, TypeOK, Goto
  <2>2. /\ UNCHANGED <<tree, vault, attempt, held, src>> /\ pc'[m] = "idle" /\ OthersStay(m)
    BY <1>1, <1>4 DEF Crash, TypeOK, Goto, OthersStay
  <2> QED BY <2>1, <2>2, ReleaseStep
<1>5. ASSUME NEW n \in Slot, OtherCreates(n) PROVE IInv'
  <2>1. TypeOK'
    <3>1. Other \in [kind : {"free", "other", "link", "part", "whole"},
                     of : Sample \cup {NoSample}]
      BY DEF Other
    <3> QED BY <1>1, <1>5, <3>1 DEF OtherCreates, TypeOK
  <2>2. /\ UNCHANGED <<tree, pc, src, attempt, held>> /\ vault[n] = Free /\ vault'[n] = Other
        /\ \A i \in Slot \ {n} : vault'[i] = vault[i]
    BY <1>1, <1>5 DEF OtherCreates, TypeOK
  <2>3. \A m \in Mover, i \in Slot : Making(m, i)' <=> Making(m, i)
    BY <2>2 DEF Making
  <2>4. \A m \in Mover : ~Making(m, n)  BY <2>2, FreeIsNobodys
  <2>5. HoldsItsSource'
    <3>1. \A m \in Mover : pc[m] = "unlink" => attempt[m] \in Slot \ {n}
      BY <1>1, <2>4 DEF TypeOK, Making
    <3> QED BY <2>2, <3>1 DEF IInv, HoldsItsSource, Behind, Whole
  <2>6. OneMaker'
    BY <2>2, <2>3, <2>4 DEF IInv, OneMaker, Part, Whole
  <2>7. EvidenceSurvives'
    <3> SUFFICES ASSUME NEW x \in Sample, ~tree[x]
                 PROVE  \E i \in Slot : vault'[i] = Whole(x) /\ \A m \in Mover : ~Making(m, i)
      BY <2>2, <2>3 DEF EvidenceSurvives, Settled, Whole
    <3>1. PICK i \in Slot : Settled(i, x)  BY DEF IInv, EvidenceSurvives
    <3>2. i # n  BY <2>2, <3>1, EntriesDiffer DEF Settled
    <3> QED BY <2>2, <3>1, <3>2 DEF Settled
  <2> QED BY <2>1, <2>5, <2>6, <2>7 DEF IInv
<1>6. CASE UNCHANGED quarantineVars
  BY <1>6 DEF quarantineVars, IInv, TypeOK, HoldsItsSource, OneMaker, Making,
              EvidenceSurvives, Settled, Behind, Whole, Part
<1> QED BY <1>2, <1>3, <1>4, <1>5, <1>6 DEF Next

THEOREM Invariance == Spec => []IInv
BY InitInv, NextInv, PTL DEF Spec

\* The state of the movers and of the directory keeps its types.
THEOREM TypeCorrect == Spec => []TypeOK
<1>1. IInv => TypeOK  BY DEF IInv
<1> QED BY <1>1, Invariance, PTL

\* However many scanners move the same files, and whenever any of them dies, a
\* sample is in the tree or whole in quarantine, where nobody will remove it.
THEOREM NoEvidenceIsLost == Spec => []EvidenceSurvives
<1>1. IInv => EvidenceSurvives  BY DEF IInv
<1> QED BY <1>1, Invariance, PTL

\* Two scanners never work on one name, and a clean-up by name removes only the
\* copy its own mover made.
THEOREM MakersExclude == Spec => []OneMaker
<1>1. IInv => OneMaker  BY DEF IInv
<1> QED BY <1>1, Invariance, PTL

-----------------------------------------------------------------------------
(***************************************************************************)
(* Nothing is written over; custody is kept.                               *)
(***************************************************************************)

\* An occupied name changes only under the hand of the mover that created it:
\* neither a second sample of the same name nor a file somebody else put there
\* is ever replaced.
THEOREM NothingReplaced == Spec => NothingIsWrittenOver
<1> DEFINE Step == \A n \in Slot : (vault[n] # Free /\ vault'[n] # vault[n]) =>
                     \E m \in Mover : Making(m, n) /\ pc'[m] # pc[m]
<1>1. IInv /\ [Next]_quarantineVars => [Step]_quarantineVars
  <2> SUFFICES ASSUME IInv, Next, NEW n \in Slot, vault[n] # Free, vault'[n] # vault[n]
               PROVE  \E m \in Mover : Making(m, n) /\ pc'[m] # pc[m]
    OBVIOUS
  <2>1. TypeOK  BY DEF IInv
  <2>2. ASSUME NEW m \in Mover, Move(m) PROVE Making(m, n) /\ pc'[m] # pc[m]
    <3>1. CASE Copy(m) \/ CleanUp(m)
      BY <2>1, <3>1 DEF Copy, CleanUp, Goto, Making, TypeOK
    <3>2. CASE CreateDestination(m) \/ RenameMoves(m)
      BY <2>1, <3>2 DEF CreateDestination, RenameMoves, TypeOK
    <3> QED BY <2>2, <3>1, <3>2
            DEF Move, NoDirectory, RenameFindsNameTaken, RenameUnavailable, OpenSource,
                OpenFails, CreateFindsNameTaken, CreateRefused, CopyFails, UnlinkSource,
                UnlinkFails
  <2>3. ASSUME NEW i \in Slot, OtherCreates(i) PROVE FALSE
    BY <2>1, <2>3 DEF OtherCreates, TypeOK
  <2> QED BY <2>2, <2>3 DEF Next, Crash, Begin
<1> QED BY <1>1, Invariance, PTL DEF Spec, NothingIsWrittenOver

\* A name nobody is at keeps its settled copy, and one that gets a settled copy
\* got it from the mover that let go of it.
LEMMA SettledStays ==
  ASSUME IInv, [Next]_quarantineVars, NEW n \in Slot, NEW x \in Sample, Settled(n, x)
  PROVE  Settled(n, x)'
<1>1. TypeOK  BY DEF IInv
<1>2. vault[n] = Whole(x) /\ vault[n] # Free /\ \A m \in Mover : ~Making(m, n)
  BY EntriesDiffer DEF Settled
<1>3. ASSUME NEW m \in Mover, Move(m) PROVE Settled(n, x)'
  <2>1. OthersStay(m)  BY <1>1, <1>3, OneMoverActs
  <2>2. vault'[n] = vault[n] /\ ~(Making(m, n)')
    <3>1. CASE CreateDestination(m) \/ RenameMoves(m)
      BY <1>1, <1>2, <3>1 DEF CreateDestination, RenameMoves, TypeOK, Making, Goto
    <3>2. CASE Copy(m) \/ CleanUp(m) \/ CopyFails(m) \/ UnlinkFails(m)
      BY <1>1, <1>2, <3>2 DEF Copy, CleanUp, CopyFails, UnlinkFails, TypeOK, Making, Goto
    <3> QED BY <1>1, <1>2, <1>3, <3>1, <3>2
            DEF Move, NoDirectory, RenameFindsNameTaken, RenameUnavailable, OpenSource,
                OpenFails, CreateFindsNameTaken, CreateRefused, UnlinkSource, NextName,
                Goto, TypeOK, Making
  <2> QED BY <1>2, <2>1, <2>2 DEF Settled, OthersStay, Making, Whole
<1>4. ASSUME NEW m \in Mover, Crash(m) \/ (\E s \in Source : Begin(m, s))
      PROVE  Settled(n, x)'
  BY <1>1, <1>2, <1>4 DEF Crash, Begin, Goto, TypeOK, Settled, Making, Whole
<1>5. ASSUME NEW i \in Slot, OtherCreates(i) PROVE Settled(n, x)'
  BY <1>1, <1>2, <1>5 DEF OtherCreates, TypeOK, Settled, Making, Whole
<1>6. CASE UNCHANGED quarantineVars
  BY <1>2, <1>6 DEF quarantineVars, Settled, Making, Whole
<1> QED BY <1>3, <1>4, <1>5, <1>6 DEF Next

\* The step concerns the sample y at most, and does not put it back.
Concerns(y) ==
  /\ \A x \in Sample : x # y =>
       tree'[x] = tree[x] /\ \A n \in Slot : Settled(n, x)' => Settled(n, x)
  /\ y \in Sample /\ tree'[y] => tree[y]

LEMMA OneSampleAtATime ==
  ASSUME IInv, [Next]_quarantineVars
  PROVE  \E y : Concerns(y)
<1>1. TypeOK  BY DEF IInv
<1>2. ASSUME NEW m \in Mover, Move(m) \/ Crash(m),
             NEW x \in Sample, x # Behind(src[m])
      PROVE  tree'[x] = tree[x] /\ \A n \in Slot : Settled(n, x)' => Settled(n, x)
  <2>1. OthersStay(m)
    BY <1>1, <1>2, OneMoverActs DEF Crash, OthersStay, Goto, TypeOK
  <2>2. tree'[x] = tree[x]
    BY <1>1, <1>2
       DEF Move, NoDirectory, RenameMoves, RenameFindsNameTaken, RenameUnavailable,
           OpenSource, OpenFails, CreateDestination, CreateFindsNameTaken, CreateRefused,
           Copy, CopyFails, UnlinkSource, UnlinkFails, CleanUp, Crash, TypeOK, Sample, Behind
  <2> SUFFICES ASSUME NEW n \in Slot, vault'[n] = Whole(x),
                      \A k \in Mover : ~(Making(k, n)')
               PROVE  vault[n] = Whole(x) /\ \A k \in Mover : ~Making(k, n)
    BY <2>2 DEF Settled, Whole
  <2>3. Making(m, n) => /\ n = attempt[m] /\ vault[n] \in {Part(held[m]), Whole(held[m])}
                        /\ held[m] = Behind(src[m])
    BY DEF IInv, OneMaker, HoldsItsSource, Making, Busy
  <2>4. vault[n] # Whole(x) => vault[n] = vault'[n]
    <3>1. CASE RenameMoves(m)
      <4>1. src[m] \notin Link => src[m] = Behind(src[m])  BY DEF Behind
      <4>2. n = attempt[m] => vault'[n] \in {MovedLink, Whole(Behind(src[m]))}
        BY <1>1, <3>1, <4>1 DEF RenameMoves, TypeOK
      <4>3. n # attempt[m]  BY <1>2, <4>2, EntriesDiffer
      <4> QED BY <1>1, <3>1, <4>3 DEF RenameMoves, TypeOK
    <3>2. CASE CreateDestination(m)
      <4>1. n = attempt[m] => vault'[n] = Part(held[m])
        BY <1>1, <3>2 DEF CreateDestination, TypeOK
      <4>2. n # attempt[m]  BY <4>1, EntriesDiffer
      <4> QED BY <1>1, <3>2, <4>2 DEF CreateDestination, TypeOK
    <3>3. CASE Copy(m)
      <4>1. n = attempt[m] => vault'[n] = Whole(held[m]) /\ Making(m, n)
        BY <1>1, <3>3 DEF Copy, TypeOK, Making
      <4>2. n # attempt[m]  BY <1>2, <2>3, <4>1, EntriesDiffer
      <4> QED BY <1>1, <3>3, <4>2 DEF Copy, TypeOK
    <3>4. CASE CleanUp(m)
      <4>1. n = attempt[m] => vault'[n] = Free  BY <1>1, <3>4 DEF CleanUp, TypeOK
      <4>2. n # attempt[m]  BY <4>1, EntriesDiffer
      <4> QED BY <1>1, <3>4, <4>2 DEF CleanUp, TypeOK
    <3> QED BY <1>2, <3>1, <3>2, <3>3, <3>4
            DEF Move, NoDirectory, RenameFindsNameTaken, RenameUnavailable, OpenSource,
                OpenFails, CreateFindsNameTaken, CreateRefused, CopyFails, UnlinkSource,
                UnlinkFails, Crash
  <2>5. vault[n] = Whole(x)  BY <2>4
  <2>6. ~Making(m, n)  BY <1>2, <2>3, <2>5, EntriesDiffer
  <2>7. \A k \in Mover \ {m} : ~Making(k, n)  BY <2>1 DEF OthersStay, Making
  <2> QED BY <2>5, <2>6, <2>7
<1>3. ASSUME NEW m \in Mover, Move(m) \/ Crash(m), NEW y \in Sample, tree'[y] PROVE tree[y]
  BY <1>1, <1>3
     DEF Move, NoDirectory, RenameMoves, RenameFindsNameTaken, RenameUnavailable,
         OpenSource, OpenFails, CreateDestination, CreateFindsNameTaken, CreateRefused,
         Copy, CopyFails, UnlinkSource, UnlinkFails, CleanUp, Crash, TypeOK, Sample
<1>4. ASSUME NEW m \in Mover, NEW s \in Source, Begin(m, s), NEW x \in Sample
      PROVE  tree' = tree /\ \A n \in Slot : Settled(n, x)' => Settled(n, x)
  BY <1>1, <1>4 DEF Begin, Goto, TypeOK, Settled, Making, Whole
<1>5. ASSUME NEW i \in Slot, OtherCreates(i), NEW x \in Sample
      PROVE  tree' = tree /\ \A n \in Slot : Settled(n, x)' => Settled(n, x)
  <2> SUFFICES ASSUME NEW n \in Slot, vault'[n] = Whole(x)
               PROVE  vault[n] = Whole(x)
    BY <1>5 DEF OtherCreates, Settled, Making, Whole
  <2>1. n = i => vault'[n] = Other  BY <1>1, <1>5 DEF OtherCreates, TypeOK
  <2>2. n # i  BY <2>1, EntriesDiffer
  <2> QED BY <1>1, <1>5, <2>2 DEF OtherCreates, TypeOK
<1>6. ASSUME UNCHANGED quarantineVars, NEW x \in Sample
      PROVE  tree' = tree /\ \A n \in Slot : Settled(n, x)' => Settled(n, x)
  BY <1>6 DEF quarantineVars, Settled, Making, Whole
<1>7. CASE \E m \in Mover : Move(m) \/ Crash(m)
  <2>1. PICK m \in Mover : Move(m) \/ Crash(m)  BY <1>7
  <2>2. Concerns(Behind(src[m]))
    BY <1>2, <1>3, <2>1 DEF Concerns
  <2> QED BY <2>2
<1>8. CASE ~\E m \in Mover : Move(m) \/ Crash(m)
  <2>1. \A x \in Sample : tree' = tree /\ \A n \in Slot : Settled(n, x)' => Settled(n, x)
    BY <1>4, <1>5, <1>6, <1>8 DEF Next
  <2>2. Concerns(NoSample)
    BY <2>1 DEF Concerns
  <2> QED BY <2>2
<1> QED BY <1>7, <1>8

\* The calls of quarantineFile(), interleaved and interrupted in every way,
\* move samples from the tree to quarantine as module Custody says.
THEOREM CustodyIsKept == Spec => KeepsCustody
<1>1. Init => Custodian!CustodyInit
  <2> SUFFICES ASSUME Init PROVE InTree = Sample /\ InVault = {}
    BY DEF Custodian!CustodyInit
  <2>1. InTree = Sample  BY DEF Init, InTree, Sample
  <2>2. InVault = {}  BY EntriesDiffer DEF Init, InVault, Settled
  <2> QED BY <2>1, <2>2
<1>2. IInv /\ IInv' /\ [Next]_quarantineVars =>
        [Custodian!CustodyNext]_(Custodian!custodyVars)
  <2> SUFFICES ASSUME IInv, IInv', [Next]_quarantineVars,
                      ~(InTree' = InTree /\ InVault' = InVault)
               PROVE  \E x \in Sample : Custodian!Contain(x) \/ Custodian!Duplicate(x)
    BY DEF Custodian!CustodyNext, Custodian!custodyVars
  <2>0. PICK y : Concerns(y)
    BY OneSampleAtATime
  <2>1. /\ \A x \in Sample : x # y =>
             tree'[x] = tree[x] /\ \A n \in Slot : Settled(n, x)' => Settled(n, x)
        /\ y \in Sample /\ tree'[y] => tree[y]
    BY <2>0 DEF Concerns
  <2>2. \A x \in Sample : x \in InVault => x \in InVault'
    BY SettledStays DEF InVault
  <2>3. \A x \in Sample : x # y => (x \in InVault' => x \in InVault)
    BY <2>1 DEF InVault
  <2>4. \A x \in Sample : x # y => (x \in InTree' <=> x \in InTree)
    BY <2>1 DEF InTree, Sample
  <2>5. /\ InVault \subseteq Sample /\ InVault' \subseteq Sample
        /\ InTree \subseteq Sample /\ InTree' \subseteq Sample
    BY DEF InVault, InTree, Sample
  <2>6. y \in Sample  BY <2>2, <2>3, <2>4, <2>5
  <2>7. y \in InTree \/ y \in InVault  BY <2>6 DEF IInv, EvidenceSurvives, InTree, InVault
  <2>8. y \in InTree' \/ y \in InVault'
    BY <2>6 DEF IInv, EvidenceSurvives, InTree, InVault, Sample
  <2>9. y \in InTree' => y \in InTree  BY <2>1, <2>6 DEF InTree, Sample
  <2>10. CASE y \in InTree'
    <3>1. InTree' = InTree  BY <2>4, <2>5, <2>9, <2>10
    <3>2. InVault' = InVault \cup {y}  BY <2>2, <2>3, <2>5, <2>6, <3>1
    <3> QED BY <2>6, <2>9, <2>10, <3>1, <3>2 DEF Custodian!Duplicate
  <2>11. CASE y \notin InTree'
    <3>1. InVault' = InVault \cup {y}  BY <2>2, <2>3, <2>5, <2>6, <2>8, <2>11
    <3>2. y \in InTree  BY <2>2, <2>3, <2>4, <2>5, <2>7, <2>11, <3>1
    <3>3. InTree' = InTree \ {y}  BY <2>4, <2>5, <2>11
    <3> QED BY <2>6, <3>1, <3>2, <3>3 DEF Custodian!Contain
  <2> QED BY <2>10, <2>11
<1> QED BY <1>1, <1>2, Invariance, PTL DEF Spec, KeepsCustody, Custodian!CustodySpec

-----------------------------------------------------------------------------
\* A file reported as moved is whole where the report says, and gone from the
\* tree, unless the path was a link: then the link is what has been moved.
THEOREM MovedMeansContained == Spec => []MovedIsContained
<1>1. Init => MovedIsContained
  BY DEF Init, MovedIsContained
<1>2. IInv /\ IInv' /\ MovedIsContained /\ [Next]_quarantineVars => MovedIsContained'
  <2> SUFFICES ASSUME IInv, IInv', MovedIsContained, [Next]_quarantineVars,
                      NEW m \in Mover, pc'[m] = "moved", src'[m] \notin Link
               PROVE  Contained(m)'
    BY DEF MovedIsContained
  <2>1. TypeOK /\ attempt[m] \in Slot /\ src[m] \in Source
    BY DEF IInv, TypeOK
  <2>2. CASE pc[m] = "moved"
    <3>1. attempt'[m] = attempt[m] /\ src'[m] = src[m]
      <4>1. ASSUME NEW k \in Mover, Move(k) PROVE attempt'[m] = attempt[m] /\ src'[m] = src[m]
        <5>1. OthersStay(k)  BY <2>1, <4>1, OneMoverActs
        <5>2. k # m
          BY <2>2, <4>1
             DEF Move, NoDirectory, RenameMoves, RenameFindsNameTaken, RenameUnavailable,
                 OpenSource, OpenFails, CreateDestination, CreateFindsNameTaken,
                 CreateRefused, Copy, CopyFails, UnlinkSource, UnlinkFails, CleanUp
        <5> QED BY <5>1, <5>2 DEF OthersStay
      <4>2. ASSUME NEW k \in Mover, NEW s \in Source, Begin(k, s)
            PROVE  attempt'[m] = attempt[m] /\ src'[m] = src[m]
        BY <2>1, <4>2 DEF Begin, Goto, TypeOK
      <4> QED BY <4>1, <4>2 DEF Next, Crash, OtherCreates, quarantineVars
    <3>2. /\ src[m] \in Sample /\ Behind(src[m]) = src[m]
          /\ Settled(attempt[m], src[m]) /\ ~tree[src[m]]
      BY <2>1, <2>2, <3>1 DEF MovedIsContained, Contained, Behind, Sample
    <3>3. Settled(attempt[m], src[m])'
      <4>1. ASSUME NEW n, n = attempt[m], NEW x, x = src[m] PROVE Settled(n, x)'
        BY <2>1, <3>2, <4>1, SettledStays
      <4> QED BY <3>1, <4>1 DEF Settled
    <3>4. ~tree'[src[m]]
      <4>1. PICK y : Concerns(y)  BY OneSampleAtATime
      <4> QED BY <2>1, <3>2, <4>1 DEF Concerns
    <3> QED BY <3>1, <3>2, <3>3, <3>4 DEF Contained, Behind, Settled
  <2>3. CASE pc[m] # "moved"
    <3>1. RenameMoves(m) \/ UnlinkSource(m)
      <4>1. ASSUME NEW k \in Mover, Move(k) PROVE RenameMoves(m) \/ UnlinkSource(m)
        <5>1. OthersStay(k)  BY <2>1, <4>1, OneMoverActs
        <5>2. k = m  BY <2>3, <5>1 DEF OthersStay
        <5> QED BY <2>1, <2>3, <4>1, <5>2
                DEF Move, NoDirectory, RenameFindsNameTaken, RenameUnavailable, OpenSource,
                    OpenFails, CreateDestination, CreateFindsNameTaken, CreateRefused,
                    Copy, CopyFails, UnlinkFails, CleanUp, NextName, Goto, TypeOK
      <4> QED BY <2>1, <2>3, <4>1 DEF Next, Begin, Crash, OtherCreates, quarantineVars, Goto, TypeOK
    <3>2. /\ src' = src /\ attempt' = attempt /\ tree' = [tree EXCEPT ![src[m]] = FALSE]
          /\ pc' = [pc EXCEPT ![m] = "moved"]
      BY <3>1 DEF RenameMoves, UnlinkSource, Goto
    <3>5. src[m] \in Sample /\ Behind(src[m]) = src[m]
      BY <2>1, <3>2 DEF Behind, Sample
    <3>3. vault'[attempt[m]] = Whole(src[m])
      BY <2>1, <3>1, <3>5 DEF RenameMoves, UnlinkSource, IInv, HoldsItsSource, TypeOK, Busy, Sample
    <3>4. \A k \in Mover : ~(Making(k, attempt[m])')
      <4>1. ~(Making(m, attempt[m])')  BY <2>1, <3>2 DEF Making, TypeOK
      <4>2. vault[attempt[m]] = Free \/ Making(m, attempt[m])
        BY <3>1 DEF RenameMoves, UnlinkSource, Making
      <4>3. \A k \in Mover \ {m} : ~Making(k, attempt[m])
        BY <2>1, <4>2, FreeIsNobodys DEF IInv, OneMaker
      <4> QED BY <2>1, <3>2, <4>1, <4>3 DEF Making, TypeOK
    <3>6. Behind(src'[m]) = src[m]
      BY <3>2, <3>5 DEF Behind
    <3> QED BY <2>1, <3>2, <3>3, <3>4, <3>6 DEF Contained, Settled, TypeOK, Behind
  <2> QED BY <2>2, <2>3
<1> QED BY <1>1, <1>2, Invariance, PTL DEF Spec
=============================================================================
