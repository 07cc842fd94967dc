----------------------------- MODULE ScanProofs -----------------------------
(***************************************************************************)
(* What module Scan promises for every set of files, every configuration   *)
(* and every number of members: the rows a scan publishes are final and    *)
(* true, a file is moved for hostile content and for nothing else, and the *)
(* ways in which a file goes unread without a count are known.             *)
(***************************************************************************)
EXTENDS Scan, SequenceTheorems, FiniteSetTheorems, TLAPS

(***************************************************************************)
(* The strengthening.  Rows and disk always agree, because a member row is *)
(* written while its container is still in place and is stamped in the     *)
(* step that moves it; for that step one has to know which rows are the    *)
(* container's: exactly those from `first' on.                             *)
(***************************************************************************)

InCallback == pc \in {"members", "decide", "publish"}

\* A member row the decision has not reached yet.
IsFresh(row) ==
  row.member /\ row.where = "source" /\ row.container = "absent"
    /\ ~row.quarantined /\ ~row.failed

CurrentFile ==
  /\ InCallback => cur \in Row /\ ~cur.member /\ cur.file \in visited
  /\ pc \in {"members", "decide"} =>
       /\ disk[cur.file] = "inPlace"
       /\ ~cur.quarantined /\ ~cur.failed
       /\ cur.where = "source" /\ cur.container = "absent"

\* What is still to be handed over: the rows from `next' on, the file's last.
PublishPosition ==
  /\ next \in 1..(last + 1) /\ Len(published) = next - 1
  /\ IF Reportable(cur) THEN Len(files) = last + 1 /\ files[last + 1] = cur
                        ELSE Len(files) = last

\* Where the rows of the file in hand begin and end, and how far publication is.
Positions ==
  /\ pc \in {"walk", "walked", "done"} => Len(published) = Len(files)
  /\ pc = "members" => /\ first \in 1..(Len(files) + 1) /\ last = first - 1
                       /\ Len(published) = first - 1
  /\ pc = "decide"  => /\ first \in 1..(last + 1) /\ last = Len(files)
                       /\ Len(published) = first - 1
  /\ pc = "publish" => PublishPosition

\* Rows belong to visited files, and before the decision the rows from `first'
\* on are the fresh ones of the file in hand.
Ownership ==
  /\ \A i \in DOMAIN files : files[i].file \in visited
  /\ \A f \in File : disk[f] = "quarantine" => f \in visited
  /\ pc \in {"members", "decide"} =>
       \A i \in DOMAIN files :
         IF i < first THEN files[i].file # cur.file
         ELSE files[i].file = cur.file /\ IsFresh(files[i])

\* Why the container would be moved: one of its rows is hostile, and it knows.
MembersKnown ==
  pc \in {"members", "decide"} =>
    (memberHostile <=> \E i \in DOMAIN files :
                          i >= first /\ HasHostileContent(files[i].matches))

RetainedRowsAreTrue == \A i \in DOMAIN files : RowIsTrue(files[i])

IInv ==
  /\ TypeOK
  /\ CurrentFile
  /\ Positions
  /\ Ownership
  /\ MembersKnown
  /\ RetainedRowsAreTrue
  /\ PublishedIsRetained
  /\ OnlyHostileContentMoves
  /\ HostileIsMovedOrReported

-----------------------------------------------------------------------------
(***************************************************************************)
(* Lemmas about rows and counters.                                         *)
(***************************************************************************)

LEMMA NewRowType ==
  ASSUME NEW f \in File, NEW m \in BOOLEAN, NEW matches \in SUBSET Match, NEW s \in Skip
  PROVE  NewRow(f, m, matches, s) \in Row
  BY DEF NewRow, Row

LEMMA TallyType ==
  ASSUME NEW t \in Tally, NEW matches, NEW row \in Row
  PROVE  /\ AccountFindings(t, matches) \in Tally
         /\ CountSkip(t) \in Tally
         /\ CountDecision(t, row) \in Tally
         /\ [t EXCEPT !.gaps = @ + 1] \in Tally
<1>1. AccountFindings(t, matches) \in Tally
  <2>1. t.withMatches + 1 \in Nat /\ t.withNames + 1 \in Nat /\ t.withNames \in Nat
    BY DEF Tally
  <2>2. [t EXCEPT !.withMatches = t.withMatches + 1, !.withNames = t.withNames + 1] \in Tally
    BY <2>1 DEF Tally
  <2>3. [t EXCEPT !.withMatches = t.withMatches + 1, !.withNames = t.withNames] \in Tally
    BY <2>1 DEF Tally
  <2> QED BY <2>2, <2>3 DEF AccountFindings
<1>2. CountSkip(t) \in Tally
  BY DEF CountSkip, Tally
<1>3. CountDecision(t, row) \in Tally
  <2>1. ASSUME NEW q \in Nat, NEW n \in Nat
        PROVE  [t EXCEPT !.quarantined = q, !.failed = n] \in Tally
    BY DEF Tally
  <2>2. /\ (IF row.quarantined THEN t.quarantined + 1 ELSE t.quarantined) \in Nat
        /\ (IF row.failed THEN t.failed + 1 ELSE t.failed) \in Nat
    BY DEF Tally, Row
  <2> QED BY <2>1, <2>2 DEF CountDecision
<1>4. [t EXCEPT !.gaps = @ + 1] \in Tally
  BY DEF Tally
<1> QED BY <1>1, <1>2, <1>3, <1>4

\* Stamping keeps a row's file and findings, and stays a row.
LEMMA StampedRow ==
  ASSUME NEW row \in Row, NEW settled
  PROVE  /\ Stamped(row, settled) \in Row
         /\ Stamped(row, settled).file = row.file
         /\ Stamped(row, settled).matches = row.matches
         /\ Stamped(row, settled).member = row.member
         /\ Stamped(row, settled).quarantined = row.quarantined
         /\ Stamped(row, settled).failed = row.failed
  BY DEF Stamped, Row

LEMMA StampedSeq ==
  ASSUME files \in Seq(Row), NEW settled
  PROVE  /\ StampMembers(settled) \in Seq(Row)
         /\ Len(StampMembers(settled)) = Len(files)
         /\ \A i \in DOMAIN files :
              StampMembers(settled)[i] =
                IF i \in first..last THEN Stamped(files[i], settled) ELSE files[i]
<1> DEFINE s == StampMembers(settled)
<1>1. /\ Len(files) \in Nat /\ DOMAIN files = 1..Len(files)
      /\ \A i \in 1..Len(files) : files[i] \in Row
  BY LenProperties
<1>2. s \in [1..Len(files) -> Row]
  BY <1>1, StampedRow DEF StampMembers
<1>3. s \in Seq(Row)
  BY <1>1, <1>2, SeqDef
<1>4. Len(s) = Len(files)
  <2>1. DOMAIN s = 1..Len(s) /\ Len(s) \in Nat  BY <1>3, LenProperties
  <2>2. DOMAIN s = 1..Len(files)  BY <1>2
  <2>3. \A i \in Nat \ {0} : i <= Len(s) <=> i <= Len(files)
    BY <2>1, <2>2, <1>1
  <2>4. Len(s) # 0 => Len(s) <= Len(files)  BY <2>1, <2>3, <1>1
  <2>5. Len(files) # 0 => Len(files) <= Len(s)  BY <2>1, <2>3, <1>1
  <2>6. Len(s) \in Nat /\ Len(files) \in Nat  BY <2>1, <1>1
  <2> HIDE DEF s
  <2> QED BY <2>4, <2>5, <2>6
<1> QED BY <1>1, <1>3, <1>4 DEF StampMembers

\* What appending one row does to a sequence of rows.
LEMMA AppendRow ==
  ASSUME NEW seq \in Seq(Row), NEW row \in Row
  PROVE  /\ Append(seq, row) \in Seq(Row)
         /\ Len(seq) \in Nat
         /\ Len(Append(seq, row)) = Len(seq) + 1
         /\ DOMAIN seq = 1..Len(seq)
         /\ DOMAIN Append(seq, row) = 1..(Len(seq) + 1)
         /\ \A i \in 1..Len(seq) : Append(seq, row)[i] = seq[i]
         /\ Append(seq, row)[Len(seq) + 1] = row
<1>1. Append(seq, row) \in Seq(Row)  BY AppendProperties
<1> QED BY <1>1, AppendProperties, LenProperties

-----------------------------------------------------------------------------
(***************************************************************************)
(* The invariant holds initially, and every step of fileCallback keeps it. *)
(***************************************************************************)

LEMMA InitInv == Init => IInv
<1> SUFFICES ASSUME Init PROVE IInv
  OBVIOUS
<1>1. << >> \in Seq(Row) /\ Len(<< >>) = 0 /\ DOMAIN << >> = {}
  BY EmptySeq
<1>2. TypeOK
  BY <1>1 DEF Init, TypeOK, Tally
<1>3. CurrentFile /\ Positions /\ Ownership /\ MembersKnown
  BY <1>1 DEF Init, CurrentFile, Positions, Ownership, MembersKnown, InCallback
<1>4. RetainedRowsAreTrue /\ PublishedIsRetained /\ OnlyHostileContentMoves
        /\ HostileIsMovedOrReported
  BY <1>1 DEF Init, RetainedRowsAreTrue, PublishedIsRetained,
              OnlyHostileContentMoves, HostileIsMovedOrReported
<1> QED BY <1>2, <1>3, <1>4 DEF IInv

\* A branch of fileCallback that keeps and publishes its row at once.
LEMMA KeptRowStep ==
  ASSUME IInv, NEW f \in File, NEW matches \in SUBSET {"name"}, NEW s \in Skip,
         BeginFile(f), KeepAndPublish(NewRow(f, FALSE, matches, s)),
         tally' \in Tally, unread' \subseteq File,
         passedOver' \subseteq unread', UNCHANGED <<pc, cur>>
  PROVE  IInv'
<1> DEFINE row == NewRow(f, FALSE, matches, s)
<1>1. /\ row \in Row /\ row.file = f /\ row.where = "source" /\ row.container = "absent"
      /\ ~row.quarantined /\ ~row.failed /\ row.matches = matches
      /\ ~HasHostileContent(row.matches)
  BY NewRowType DEF NewRow, Match, HasHostileContent, FindingMeansMoveTheFile
<1>2. /\ pc = "walk" /\ pc' = "walk" /\ f \notin visited /\ visited' = visited \cup {f}
      /\ files' = Append(files, row) /\ published' = Append(published, row)
      /\ UNCHANGED <<config, interrupt, next, stopSeen, disk, cur>>
      /\ memberHostile' = FALSE /\ first' = Len(files) + 1 /\ last' = Len(files)
  BY DEF BeginFile, KeepAndPublish
<1>3. files \in Seq(Row) /\ published \in Seq(Row) /\ Len(published) = Len(files)
  BY <1>2 DEF IInv, TypeOK, Positions
<1> HIDE DEF row
<1>4. /\ files' \in Seq(Row) /\ Len(files) \in Nat /\ Len(files') = Len(files) + 1
      /\ DOMAIN files = 1..Len(files) /\ DOMAIN files' = 1..(Len(files) + 1)
      /\ \A i \in 1..Len(files) : files'[i] = files[i]
      /\ files'[Len(files) + 1] = row
  BY <1>1, <1>2, <1>3, AppendRow
<1>5. /\ published' \in Seq(Row) /\ Len(published') = Len(files) + 1
      /\ DOMAIN published = 1..Len(files) /\ DOMAIN published' = 1..(Len(files) + 1)
      /\ \A i \in 1..Len(files) : published'[i] = published[i]
      /\ published'[Len(files) + 1] = row
  BY <1>1, <1>2, <1>3, AppendRow
<1>6. disk[f] = "inPlace"
  BY <1>2 DEF IInv, TypeOK, Ownership
<1>7. TypeOK'
  <2>1. TypeOK  BY DEF IInv
  <2>2. visited' \subseteq File  BY <1>2, <2>1 DEF TypeOK
  <2>3. first' \in Nat /\ last' \in Nat /\ next' \in Nat  BY <1>2, <1>4, <2>1 DEF TypeOK
  <2>4. cur' \in Row \cup {NoRow}  BY <1>2, <2>1 DEF TypeOK
  <2>5. disk' \in [File -> {"inPlace", "quarantine"}]  BY <1>2, <2>1 DEF TypeOK
  <2>6. config' \in Options /\ interrupt' \in BOOLEAN /\ stopSeen' \in BOOLEAN
    BY <1>2, <2>1 DEF TypeOK
  <2> QED BY <1>2, <1>4, <1>5, <2>2, <2>3, <2>4, <2>5, <2>6 DEF TypeOK
<1>8. CurrentFile' /\ Positions' /\ MembersKnown'
  BY <1>2, <1>4, <1>5 DEF CurrentFile, Positions, MembersKnown, InCallback
<1>9. Ownership'
  BY <1>1, <1>2, <1>4 DEF IInv, Ownership
<1>10. RetainedRowsAreTrue'
  BY <1>1, <1>2, <1>4, <1>6 DEF IInv, RetainedRowsAreTrue, RowIsTrue
<1>11. PublishedIsRetained'
  BY <1>3, <1>4, <1>5 DEF IInv, PublishedIsRetained
<1>12. OnlyHostileContentMoves'
  BY <1>2, <1>4 DEF IInv, OnlyHostileContentMoves
<1>13. HostileIsMovedOrReported'
  BY <1>1, <1>2, <1>4 DEF IInv, HostileIsMovedOrReported, InHand, HasSettledRow
<1> QED BY <1>7, <1>8, <1>9, <1>10, <1>11, <1>12, <1>13 DEF IInv

\* A branch that keeps no row: an excluded file with nothing to say.
LEMMA NoRowStep ==
  ASSUME IInv, NEW f \in File, BeginFile(f), tally' \in Tally, unread' \subseteq File,
         passedOver' \subseteq unread', UNCHANGED <<pc, cur, files, published>>
  PROVE  IInv'
<1>1. /\ pc = "walk" /\ pc' = "walk" /\ visited' = visited \cup {f}
      /\ UNCHANGED <<config, interrupt, next, stopSeen, disk, cur, files, published>>
      /\ memberHostile' = FALSE /\ first' = Len(files) + 1 /\ last' = Len(files)
  BY DEF BeginFile
<1>2. Len(files) \in Nat /\ DOMAIN files = 1..Len(files)
  BY LenProperties DEF IInv, TypeOK
<1>3. TypeOK'
  <2>1. TypeOK  BY DEF IInv
  <2>2. visited' \subseteq File  BY <1>1, <2>1 DEF TypeOK
  <2>3. first' \in Nat /\ last' \in Nat /\ next' \in Nat  BY <1>1, <1>2, <2>1 DEF TypeOK
  <2>4. cur' \in Row \cup {NoRow}  BY <1>1, <2>1 DEF TypeOK
  <2>5. disk' \in [File -> {"inPlace", "quarantine"}]  BY <1>1, <2>1 DEF TypeOK
  <2>6. /\ config' \in Options /\ interrupt' \in BOOLEAN /\ stopSeen' \in BOOLEAN
        /\ files' \in Seq(Row) /\ published' \in Seq(Row)
    BY <1>1, <2>1 DEF TypeOK
  <2> QED BY <1>1, <2>2, <2>3, <2>4, <2>5, <2>6 DEF TypeOK
<1>4. CurrentFile' /\ Positions' /\ MembersKnown' /\ Ownership'
  BY <1>1, <1>2 DEF IInv, CurrentFile, Positions, MembersKnown, InCallback, Ownership
<1>5. RetainedRowsAreTrue' /\ PublishedIsRetained'
  BY <1>1 DEF IInv, RetainedRowsAreTrue, RowIsTrue, PublishedIsRetained
<1>6. OnlyHostileContentMoves' /\ HostileIsMovedOrReported'
  BY <1>1 DEF IInv, OnlyHostileContentMoves, HostileIsMovedOrReported, InHand, HasSettledRow
<1> QED BY <1>3, <1>4, <1>5, <1>6 DEF IInv

\* A branch that goes on with the file: its row is under construction.
LEMMA HeldRowStep ==
  ASSUME IInv, NEW f \in File, NEW matches \in SUBSET Match, NEW s \in Skip,
         BeginFile(f), cur' = NewRow(f, FALSE, matches, s), pc' \in {"members", "decide"},
         unread' \subseteq File, passedOver' \subseteq unread',
         UNCHANGED <<files, published, tally>>
  PROVE  IInv'
<1> DEFINE row == NewRow(f, FALSE, matches, s)
<1>1. /\ row \in Row /\ row.file = f /\ row.where = "source" /\ row.container = "absent"
      /\ ~row.quarantined /\ ~row.failed /\ ~row.member
  BY NewRowType DEF NewRow
<1>2. /\ pc = "walk" /\ f \notin visited /\ visited' = visited \cup {f} /\ cur' = row
      /\ UNCHANGED <<config, interrupt, next, stopSeen, disk, files, published, tally>>
      /\ memberHostile' = FALSE /\ first' = Len(files) + 1 /\ last' = Len(files)
  BY DEF BeginFile
<1> HIDE DEF row
<1>3. Len(files) \in Nat /\ DOMAIN files = 1..Len(files)
  BY LenProperties DEF IInv, TypeOK
<1>4. disk[f] = "inPlace"
  BY <1>2 DEF IInv, TypeOK, Ownership
<1>5. TypeOK'
  <2>1. TypeOK  BY DEF IInv
  <2>2. visited' \subseteq File  BY <1>2, <2>1 DEF TypeOK
  <2>3. first' \in Nat /\ last' \in Nat /\ next' \in Nat  BY <1>2, <1>3, <2>1 DEF TypeOK
  <2>4. cur' \in Row \cup {NoRow}  BY <1>1, <1>2
  <2>5. disk' \in [File -> {"inPlace", "quarantine"}]  BY <1>2, <2>1 DEF TypeOK
  <2>6. /\ config' \in Options /\ interrupt' \in BOOLEAN /\ stopSeen' \in BOOLEAN
        /\ files' \in Seq(Row) /\ published' \in Seq(Row) /\ tally' \in Tally
    BY <1>2, <2>1 DEF TypeOK
  <2> QED BY <1>2, <2>2, <2>3, <2>4, <2>5, <2>6 DEF TypeOK
<1>6. CurrentFile'
  BY <1>1, <1>2, <1>4 DEF CurrentFile, InCallback
<1>7. Positions'
  <2>1. Len(published) = Len(files)  BY <1>2 DEF IInv, Positions
  <2>2. files' = files /\ published' = published  BY <1>2
  <2>3. first' = Len(files) + 1 /\ last' = Len(files) /\ pc' \in {"members", "decide"}
    BY <1>2
  <2> QED BY <1>3, <2>1, <2>2, <2>3 DEF Positions
<1>8. Ownership' /\ MembersKnown'
  <2>1. \A i \in DOMAIN files : files[i].file \in visited /\ i < first' /\ ~(i >= first')
    BY <1>2, <1>3 DEF IInv, Ownership
  <2>2. \A i \in DOMAIN files : files[i].file # cur'.file
    BY <1>1, <1>2, <2>1
  <2>3. \A g \in File : disk'[g] = "quarantine" => g \in visited'
    BY <1>2 DEF IInv, Ownership
  <2>4. Ownership'
    BY <1>2, <2>1, <2>2, <2>3 DEF Ownership
  <2>5. MembersKnown'
    BY <1>2, <2>1 DEF MembersKnown
  <2> QED BY <2>4, <2>5
<1>9. RetainedRowsAreTrue' /\ PublishedIsRetained'
  BY <1>2 DEF IInv, RetainedRowsAreTrue, RowIsTrue, PublishedIsRetained
<1>10. OnlyHostileContentMoves' /\ HostileIsMovedOrReported'
  BY <1>2 DEF IInv, OnlyHostileContentMoves, HostileIsMovedOrReported, InHand, HasSettledRow
<1> QED BY <1>5, <1>6, <1>7, <1>8, <1>9, <1>10 DEF IInv

-----------------------------------------------------------------------------
(***************************************************************************)
(* The archive scanner's callbacks keep it.                                *)
(***************************************************************************)

LEMMA MemberFindingStep ==
  ASSUME IInv, NEW matches \in SUBSET Match, NEW s \in Skip, MemberFinding(matches, s)
  PROVE  IInv'
<1> DEFINE row == NewRow(cur.file, TRUE, matches, s)
<1>1. /\ pc = "members" /\ pc' = "members" /\ files' = Append(files, row)
      /\ tally' = AccountFindings(tally, matches)
      /\ memberHostile' = (memberHostile \/ HasHostileContent(matches))
      /\ UNCHANGED <<config, interrupt, visited, cur, first, last, next, published,
                     stopSeen, disk, unread, passedOver>>
  BY DEF MemberFinding, historyVars
<1>2. /\ cur \in Row /\ cur.file \in File /\ cur.file \in visited
      /\ disk[cur.file] = "inPlace"
  BY <1>1 DEF IInv, CurrentFile, InCallback, Row
<1>3. row \in Row /\ row.file = cur.file /\ IsFresh(row) /\ row.matches = matches
  BY <1>2, NewRowType DEF NewRow, IsFresh
<1> HIDE DEF row
<1>4. files \in Seq(Row)
  BY DEF IInv, TypeOK
<1>5. /\ files' \in Seq(Row) /\ Len(files) \in Nat /\ Len(files') = Len(files) + 1
      /\ DOMAIN files = 1..Len(files) /\ DOMAIN files' = 1..(Len(files) + 1)
      /\ \A i \in 1..Len(files) : files'[i] = files[i]
      /\ files'[Len(files) + 1] = row
  BY <1>1, <1>3, <1>4, AppendRow
<1>6. first \in 1..(Len(files) + 1) /\ last = first - 1 /\ Len(published) = first - 1
  BY <1>1 DEF IInv, Positions
<1>7. TypeOK'
  <2>1. TypeOK  BY DEF IInv
  <2>2. tally' \in Tally  BY <1>1, <1>2, <2>1, TallyType DEF TypeOK
  <2>3. memberHostile' \in BOOLEAN  BY <1>1, <2>1 DEF TypeOK, HasHostileContent
  <2> QED BY <1>1, <1>5, <2>1, <2>2, <2>3 DEF TypeOK
<1>8. CurrentFile'
  BY <1>1 DEF IInv, CurrentFile, InCallback
<1>9. Positions'
  BY <1>1, <1>5, <1>6 DEF Positions
<1>10. Ownership'
  BY <1>1, <1>2, <1>3, <1>5, <1>6 DEF IInv, Ownership
<1>11. MembersKnown'
  <2>1. memberHostile <=> \E i \in 1..Len(files) :
                             i >= first /\ HasHostileContent(files[i].matches)
    BY <1>1, <1>5 DEF IInv, MembersKnown
  <2>2. Len(files) + 1 >= first /\ files'[Len(files) + 1].matches = matches
    BY <1>3, <1>5, <1>6
  <2>3. \A i \in 1..(Len(files) + 1) : i \in 1..Len(files) \/ i = Len(files) + 1
    BY <1>5
  <2>4. (\E i \in DOMAIN files' : i >= first /\ HasHostileContent(files'[i].matches))
          <=> memberHostile \/ HasHostileContent(matches)
    BY <1>5, <2>1, <2>2, <2>3
  <2> QED BY <1>1, <2>4 DEF MembersKnown
<1>12. RetainedRowsAreTrue'
  BY <1>1, <1>2, <1>3, <1>5 DEF IInv, RetainedRowsAreTrue, RowIsTrue, IsFresh
<1>13. PublishedIsRetained'
  BY <1>1, <1>4, <1>5, <1>6, LenProperties DEF IInv, PublishedIsRetained, TypeOK
<1>14. OnlyHostileContentMoves'
  BY <1>1, <1>5 DEF IInv, OnlyHostileContentMoves
<1>15. HostileIsMovedOrReported'
  BY <1>1, <1>3, <1>5 DEF IInv, HostileIsMovedOrReported, InHand, HasSettledRow
<1> QED BY <1>7, <1>8, <1>9, <1>10, <1>11, <1>12, <1>13, <1>14, <1>15 DEF IInv

LEMMA CloseContainerStep ==
  ASSUME IInv, NEW exposure \in SUBSET {"exposure"}, NEW gap \in BOOLEAN,
         NEW cutShort \in BOOLEAN, CloseContainer(exposure, gap, cutShort)
  PROVE  IInv'
<1>1. /\ pc = "members" /\ pc' = "decide" /\ last' = Len(files)
      /\ cur' = [cur EXCEPT !.matches = @ \cup exposure]
      /\ tally' = IF gap THEN [tally EXCEPT !.gaps = @ + 1] ELSE tally
      /\ unread' = IF gap \/ cutShort THEN unread \cup {cur.file} ELSE unread
      /\ UNCHANGED <<config, interrupt, visited, memberHostile, first, next, files,
                     published, stopSeen, disk, passedOver>>
  BY DEF CloseContainer
<1>2. cur \in Row
  BY <1>1 DEF IInv, CurrentFile, InCallback
<1>3. /\ cur' \in Row /\ cur'.file = cur.file /\ cur'.member = cur.member
      /\ cur'.quarantined = cur.quarantined /\ cur'.failed = cur.failed
      /\ cur'.where = cur.where /\ cur'.container = cur.container
  BY <1>1, <1>2 DEF Row, Match
<1>4. cur.file \in File
  BY <1>2 DEF Row
<1>5. Len(files) \in Nat /\ DOMAIN files = 1..Len(files)
  BY LenProperties DEF IInv, TypeOK
<1>6. TypeOK'
  <2>1. TypeOK  BY DEF IInv
  <2>2. tally' \in Tally  BY <1>1, <1>2, <2>1, TallyType DEF TypeOK
  <2>3. unread' \subseteq File /\ passedOver' \subseteq unread'
    BY <1>1, <1>4, <2>1 DEF TypeOK
  <2> QED BY <1>1, <1>3, <1>5, <2>1, <2>2, <2>3 DEF TypeOK
<1>7. CurrentFile'
  BY <1>1, <1>3 DEF IInv, CurrentFile, InCallback
<1>8. Positions'
  <2>1. first \in 1..(Len(files) + 1) /\ Len(published) = first - 1
    BY <1>1 DEF IInv, Positions
  <2> QED BY <1>1, <1>5, <2>1 DEF Positions
<1>9. Ownership' /\ MembersKnown'
  BY <1>1, <1>3 DEF IInv, Ownership, MembersKnown
<1>10. RetainedRowsAreTrue' /\ PublishedIsRetained'
  BY <1>1 DEF IInv, RetainedRowsAreTrue, RowIsTrue, PublishedIsRetained
<1>11. OnlyHostileContentMoves' /\ HostileIsMovedOrReported'
  BY <1>1, <1>3 DEF IInv, OnlyHostileContentMoves, HostileIsMovedOrReported, InHand, HasSettledRow
<1> QED BY <1>6, <1>7, <1>8, <1>9, <1>10, <1>11 DEF IInv

-----------------------------------------------------------------------------
(***************************************************************************)
(* The decision: the one step that moves a file, writes its row and stamps *)
(* the rows of its members.                                                *)
(***************************************************************************)

\* quarantineFile()'s answer on the row: selected means moved or failed, never
\* both, and never for a row that was not selected.
LEMMA SettledRow ==
  ASSUME cur \in Row, ~cur.quarantined, ~cur.failed, cur.where = "source",
         cur.container = "absent", NEW moved \in BOOLEAN
  PROVE  /\ Settled(moved) \in Row
         /\ Settled(moved).file = cur.file
         /\ Settled(moved).member = cur.member
         /\ Settled(moved).matches = cur.matches
         /\ Settled(moved).container = "absent"
         /\ Settled(moved).quarantined <=> (SelectedForQuarantine /\ moved)
         /\ Settled(moved).failed <=> (SelectedForQuarantine /\ ~moved)
         /\ Settled(moved).where = "quarantine" <=> Settled(moved).quarantined
<1>1. CASE ~SelectedForQuarantine
  BY <1>1 DEF Settled
<1>2. CASE SelectedForQuarantine /\ moved
  BY <1>2 DEF Settled, Row
<1>3. CASE SelectedForQuarantine /\ ~moved
  BY <1>3 DEF Settled, Row
<1> QED BY <1>1, <1>2, <1>3

LEMMA DecideStep ==
  ASSUME IInv, NEW moved \in BOOLEAN, Decide(moved)
  PROVE  IInv'
<1> DEFINE settled == Settled(moved)
           stamped == StampMembers(settled)
<1>1. /\ pc = "decide" /\ pc' = "publish" /\ cur' = settled /\ next' = first
      /\ tally' = CountDecision(AccountFindings(tally, cur.matches), settled)
      /\ disk' = IF settled.quarantined THEN [disk EXCEPT ![cur.file] = "quarantine"] ELSE disk
      /\ files' = IF Reportable(settled) THEN Append(stamped, settled) ELSE stamped
      /\ UNCHANGED <<config, interrupt, visited, memberHostile, first, last, published,
                     stopSeen, unread, passedOver>>
  BY DEF Decide, historyVars
<1>2. /\ cur \in Row /\ ~cur.member /\ cur.file \in File /\ cur.file \in visited
      /\ disk[cur.file] = "inPlace" /\ ~cur.quarantined /\ ~cur.failed
      /\ cur.where = "source" /\ cur.container = "absent"
  BY <1>1 DEF IInv, CurrentFile, InCallback, Row
<1>3. /\ settled \in Row /\ settled.file = cur.file /\ ~settled.member
      /\ settled.matches = cur.matches /\ settled.container = "absent"
      /\ settled.quarantined <=> (SelectedForQuarantine /\ moved)
      /\ settled.failed <=> (SelectedForQuarantine /\ ~moved)
      /\ settled.where = "quarantine" <=> settled.quarantined
  BY <1>2, SettledRow
<1>4. files \in Seq(Row) /\ Len(files) \in Nat /\ DOMAIN files = 1..Len(files)
  BY LenProperties DEF IInv, TypeOK
<1>5. first \in 1..(last + 1) /\ last = Len(files) /\ Len(published) = first - 1
  BY <1>1 DEF IInv, Positions
<1>6. /\ stamped \in Seq(Row) /\ Len(stamped) = Len(files)
      /\ \A i \in 1..Len(files) :
           stamped[i] = IF i \in first..last THEN Stamped(files[i], settled) ELSE files[i]
  BY <1>4, StampedSeq
<1> HIDE DEF settled, stamped
<1>7. ASSUME NEW i \in 1..Len(files)
      PROVE  /\ i < first => stamped[i] = files[i]
             /\ i >= first => stamped[i] = Stamped(files[i], settled)
             /\ files[i] \in Row
             /\ stamped[i].file = files[i].file /\ stamped[i].matches = files[i].matches
             /\ stamped[i].member = files[i].member
             /\ stamped[i].quarantined = files[i].quarantined
             /\ stamped[i].failed = files[i].failed
  <2>1. files[i] \in Row  BY <1>4, LenProperties
  <2>2. (i < first \/ i >= first) /\ (i \in first..last <=> i >= first)
          /\ ~(i < first /\ i >= first)
    BY <1>4, <1>5
  <2>3. CASE i < first
    BY <1>6, <2>1, <2>2, <2>3
  <2>4. CASE i >= first
    <3>1. stamped[i] = Stamped(files[i], settled)  BY <1>6, <2>2, <2>4
    <3> QED BY <2>1, <2>2, <2>4, <3>1, StampedRow
  <2> QED BY <2>2, <2>3, <2>4
<1>8. /\ files' \in Seq(Row) /\ DOMAIN files' = 1..Len(files')
      /\ Len(files') = IF Reportable(settled) THEN Len(files) + 1 ELSE Len(files)
      /\ \A i \in 1..Len(files) : files'[i] = stamped[i]
      /\ Reportable(settled) => files'[Len(files) + 1] = settled
  <2>1. CASE Reportable(settled)
    BY <1>1, <1>3, <1>6, <2>1, AppendRow
  <2>2. CASE ~Reportable(settled)
    BY <1>1, <1>6, <2>2, LenProperties
  <2> QED BY <2>1, <2>2
<1>9. \A i \in DOMAIN files' : i \in 1..Len(files) \/ (i = Len(files) + 1 /\ Reportable(settled))
  BY <1>4, <1>8
<1>10. ASSUME NEW i \in 1..Len(files)
       PROVE  /\ i < first => files[i].file # cur.file
              /\ i >= first => files[i].file = cur.file /\ IsFresh(files[i])
  BY <1>1, <1>4, <1>5 DEF IInv, Ownership
<1>11. \A f \in File : disk'[f] = IF f = cur.file /\ settled.quarantined
                                  THEN "quarantine" ELSE disk[f]
  BY <1>1 DEF IInv, TypeOK
<1>12. TypeOK'
  <2>1. TypeOK  BY DEF IInv
  <2>2. tally' \in Tally  BY <1>1, <1>3, <2>1, TallyType DEF TypeOK
  <2>3. disk' \in [File -> {"inPlace", "quarantine"}]  BY <1>1, <2>1 DEF TypeOK
  <2>4. cur' \in Row \cup {NoRow}  BY <1>1, <1>3
  <2> QED BY <1>1, <1>8, <2>1, <2>2, <2>3, <2>4 DEF TypeOK
<1>13. CurrentFile'
  BY <1>1, <1>2, <1>3 DEF CurrentFile, InCallback
<1>14. Positions'
  <2>1. PublishPosition'
    BY <1>1, <1>4, <1>5, <1>8 DEF PublishPosition, Reportable
  <2> QED BY <1>1, <2>1 DEF Positions
<1>15. Ownership' /\ MembersKnown'
  <2>1. \A i \in DOMAIN files' : files'[i].file \in visited
    BY <1>2, <1>3, <1>4, <1>7, <1>8, <1>9 DEF IInv, Ownership
  <2>2. \A f \in File : disk'[f] = "quarantine" => f \in visited
    BY <1>2, <1>11 DEF IInv, Ownership
  <2> QED BY <1>1, <2>1, <2>2 DEF Ownership, MembersKnown
<1>16. RetainedRowsAreTrue'
  <2> SUFFICES ASSUME NEW i \in DOMAIN files', NEW row, row = files'[i]
               PROVE  RowIsTrue(row)'
    BY DEF RetainedRowsAreTrue, RowIsTrue
  <2>1. CASE i = Len(files) + 1 /\ Reportable(settled)
    BY <1>2, <1>3, <1>8, <1>11, <2>1 DEF RowIsTrue
  <2>2. CASE i \in 1..Len(files) /\ i < first
    <3>1. RowIsTrue(files[i])  BY <1>4, <2>2 DEF IInv, RetainedRowsAreTrue
    <3>2. files[i].file \in File  BY <1>7, <2>2 DEF Row
    <3> QED BY <1>7, <1>8, <1>10, <1>11, <2>2, <3>1, <3>2 DEF RowIsTrue
  <2>3. CASE i \in 1..Len(files) /\ i >= first
    <3>1. /\ row = Stamped(files[i], settled) /\ files[i] \in Row
          /\ files[i].file = cur.file /\ IsFresh(files[i])
      BY <1>7, <1>8, <1>10, <2>3
    <3>2. CASE settled.quarantined
      <4>1. row.container = "moved" /\ row.where = "quarantine" /\ row.file = cur.file
        BY <3>1, <3>2 DEF Stamped, Row
      <4> QED BY <1>2, <1>11, <3>2, <4>1 DEF RowIsTrue
    <3>3. CASE ~settled.quarantined
      <4>1. row.container # "moved" /\ row.where = "source" /\ row.file = cur.file
              /\ ~row.quarantined
        BY <3>1, <3>3 DEF Stamped, Row, IsFresh
      <4> QED BY <1>2, <1>11, <3>3, <4>1 DEF RowIsTrue
    <3> QED BY <3>2, <3>3
  <2>4. i \in 1..Len(files) => i < first \/ i >= first  BY <1>4, <1>5
  <2> QED BY <1>9, <2>1, <2>2, <2>3, <2>4
<1>17. PublishedIsRetained'
  <2>1. published \in Seq(Row) /\ DOMAIN published = 1..Len(published)
    BY LenProperties DEF IInv, TypeOK
  <2>2. Len(published) <= Len(files) /\ \A i \in DOMAIN published : published[i] = files[i]
    BY DEF IInv, PublishedIsRetained
  <2>3. \A i \in DOMAIN published : i \in 1..Len(files) /\ i < first
    BY <1>4, <1>5, <2>1
  <2>4. Len(files) <= Len(files')  BY <1>4, <1>8
  <2>5. \A i \in DOMAIN published : published[i] = files'[i]
    BY <1>7, <1>8, <2>2, <2>3
  <2>6. published' = published  BY <1>1
  <2>7. Len(published) <= Len(files')  BY <1>4, <1>8, <2>1, <2>2, <2>4
  <2> QED BY <2>5, <2>6, <2>7 DEF PublishedIsRetained
<1>18. OnlyHostileContentMoves'
  <2> SUFFICES ASSUME NEW f \in File, disk'[f] = "quarantine"
               PROVE  /\ config.quarantine
                      /\ \E i \in DOMAIN files' : /\ files'[i].file = f
                                                  /\ HasHostileContent(files'[i].matches)
    BY <1>1 DEF OnlyHostileContentMoves
  <2>1. CASE f = cur.file /\ settled.quarantined
    <3>1. config.quarantine /\ (HasHostileContent(cur.matches) \/ memberHostile)
      BY <1>3, <2>1 DEF SelectedForQuarantine
    <3>2. CASE HasHostileContent(cur.matches)
      <4>1. Reportable(settled)  BY <2>1 DEF Reportable
      <4>2. Len(files) + 1 \in DOMAIN files' /\ files'[Len(files) + 1] = settled
        BY <1>4, <1>8, <4>1
      <4> QED BY <1>3, <2>1, <3>1, <3>2, <4>2
    <3>3. CASE memberHostile
      <4>1. PICK i \in 1..Len(files) : i >= first /\ HasHostileContent(files[i].matches)
        BY <1>1, <1>4, <3>3 DEF IInv, MembersKnown
      <4>2. i \in DOMAIN files'  BY <1>4, <1>8
      <4> QED BY <1>7, <1>8, <1>10, <2>1, <3>1, <4>1, <4>2
    <3> QED BY <3>1, <3>2, <3>3
  <2>2. CASE ~(f = cur.file /\ settled.quarantined)
    <3>1. disk[f] = "quarantine"  BY <1>11, <2>2
    <3>2. config.quarantine /\ \E i \in 1..Len(files) : files[i].file = f
                                   /\ HasHostileContent(files[i].matches)
      BY <1>4, <3>1 DEF IInv, OnlyHostileContentMoves
    <3>3. \A i \in 1..Len(files) : i \in DOMAIN files'  BY <1>4, <1>8
    <3> QED BY <1>7, <1>8, <3>2, <3>3
  <2> QED BY <2>1, <2>2
<1>19. HostileIsMovedOrReported'
  <2> SUFFICES ASSUME NEW i \in DOMAIN files', config.quarantine,
                      HasHostileContent(files'[i].matches), NEW f, f = files'[i].file
               PROVE  HasSettledRow(f)'
    BY <1>1 DEF HostileIsMovedOrReported, HasSettledRow
  <2>1. CASE f = cur.file
    <3>1. HasHostileContent(cur.matches) \/ memberHostile
      <4>1. CASE i = Len(files) + 1 /\ Reportable(settled)
        BY <1>3, <1>8, <4>1
      <4>2. CASE i \in 1..Len(files)
        <5>1. files[i].file = cur.file /\ HasHostileContent(files[i].matches)
          BY <1>7, <1>8, <2>1, <4>2
        <5>2. i >= first  BY <1>4, <1>5, <1>10, <4>2, <5>1
        <5>3. i \in DOMAIN files  BY <1>4, <4>2
        <5> QED BY <1>1, <5>1, <5>2, <5>3 DEF IInv, MembersKnown
      <4> QED BY <1>9, <4>1, <4>2
    <3>2. settled.quarantined \/ settled.failed
      BY <1>3, <3>1 DEF SelectedForQuarantine
    <3>3. Len(files) + 1 \in DOMAIN files' /\ files'[Len(files) + 1] = settled
      BY <1>4, <1>8, <3>2 DEF Reportable
    <3>4. disk'[cur.file] = IF settled.quarantined THEN "quarantine" ELSE "inPlace"
      BY <1>2, <1>11
    <3> QED BY <1>3, <2>1, <3>2, <3>3, <3>4 DEF HasSettledRow
  <2>2. CASE f # cur.file
    <3>1. i \in 1..Len(files) /\ files[i].file = f
            /\ files[i].matches = files'[i].matches /\ files[i].file \in File
      BY <1>3, <1>7, <1>8, <1>9, <2>2 DEF Row
    <3>2. HasSettledRow(f)
      BY <1>1, <1>4, <2>2, <3>1 DEF IInv, HostileIsMovedOrReported, InHand
    <3>3. PICK j \in 1..Len(files) :
            /\ files[j].file = f /\ ~files[j].member
            /\ IF disk[f] = "quarantine" THEN files[j].quarantined ELSE files[j].failed
      BY <1>4, <3>2 DEF HasSettledRow
    <3>4. j \in DOMAIN files'  BY <1>4, <1>8
    <3>5. disk'[f] = disk[f]  BY <1>11, <2>2, <3>1
    <3> QED BY <1>7, <1>8, <3>1, <3>3, <3>4, <3>5 DEF HasSettledRow
  <2> QED BY <2>1, <2>2
<1> QED BY <1>12, <1>13, <1>14, <1>15, <1>16, <1>17, <1>18, <1>19 DEF IInv

-----------------------------------------------------------------------------
(***************************************************************************)
(* Publication, the end of the walk and the signals.                       *)
(***************************************************************************)

LEMMA PublishMemberStep == IInv /\ PublishMember => IInv'
<1> SUFFICES ASSUME IInv, PublishMember PROVE IInv'
  OBVIOUS
<1>1. /\ pc = "publish" /\ pc' = "publish" /\ next <= last /\ next' = next + 1
      /\ published' = Append(published, files[next])
      /\ UNCHANGED <<config, interrupt, visited, cur, memberHostile, first, last, files,
                     tally, stopSeen, disk, unread, passedOver>>
  BY DEF PublishMember, historyVars
<1>2. /\ files \in Seq(Row) /\ Len(files) \in Nat /\ DOMAIN files = 1..Len(files)
      /\ \A i \in 1..Len(files) : files[i] \in Row
      /\ published \in Seq(Row) /\ next \in Nat /\ last \in Nat
  BY LenProperties DEF IInv, TypeOK
<1>3. PublishPosition  BY <1>1 DEF IInv, Positions
<1>4. /\ next \in 1..Len(files) /\ Len(published) = next - 1 /\ next' \in 1..(last + 1)
      /\ last <= Len(files)
  <2>1. next \in 1..(last + 1) /\ Len(published) = next - 1  BY <1>3 DEF PublishPosition
  <2>2. Len(files) = last + 1 \/ Len(files) = last  BY <1>3 DEF PublishPosition
  <2>3. next <= last /\ next' = next + 1  BY <1>1
  <2>4. next \in Nat /\ last \in Nat /\ Len(files) \in Nat  BY <1>2
  <2> QED BY <2>1, <2>2, <2>3, <2>4
<1>5. files[next] \in Row  BY <1>2, <1>4
<1>6. /\ published' \in Seq(Row) /\ Len(published') = next
      /\ DOMAIN published = 1..(next - 1) /\ DOMAIN published' = 1..next
      /\ \A i \in 1..(next - 1) : published'[i] = published[i]
      /\ published'[next] = files[next]
  <2>1. next = Len(published) + 1  BY <1>2, <1>4
  <2> QED BY <1>1, <1>2, <1>4, <1>5, <2>1, AppendRow
<1>7. TypeOK'
  <2>1. TypeOK  BY DEF IInv
  <2>2. next' \in Nat  BY <1>1, <1>2
  <2> QED BY <1>1, <1>6, <2>1, <2>2 DEF TypeOK
<1>8. Positions'
  <2>1. next' - 1 = next  BY <1>1, <1>2
  <2>2. PublishPosition'  BY <1>1, <1>3, <1>4, <1>6, <2>1 DEF PublishPosition, Reportable
  <2> QED BY <1>1, <2>2 DEF Positions
<1>9. CurrentFile' /\ Ownership' /\ MembersKnown'
  BY <1>1 DEF IInv, CurrentFile, InCallback, Ownership, MembersKnown
<1>10. PublishedIsRetained'
  <2>1. \A i \in DOMAIN published : published[i] = files[i]
    BY DEF IInv, PublishedIsRetained
  <2>2. \A i \in 1..next : i \in 1..(next - 1) \/ i = next
    BY <1>2, <1>4
  <2>3. \A i \in DOMAIN published' : published'[i] = files[i]
    BY <1>6, <2>1, <2>2
  <2>4. Len(published') <= Len(files) /\ files' = files  BY <1>1, <1>2, <1>4, <1>6
  <2> QED BY <2>3, <2>4 DEF PublishedIsRetained
<1>11. RetainedRowsAreTrue' /\ OnlyHostileContentMoves' /\ HostileIsMovedOrReported'
  BY <1>1 DEF IInv, RetainedRowsAreTrue, RowIsTrue, OnlyHostileContentMoves,
              HostileIsMovedOrReported, InHand, HasSettledRow
<1> QED BY <1>7, <1>8, <1>9, <1>10, <1>11 DEF IInv

LEMMA PublishFileStep == IInv /\ PublishFile => IInv'
<1> SUFFICES ASSUME IInv, PublishFile PROVE IInv'
  OBVIOUS
<1>1. /\ pc = "publish" /\ pc' = "walk" /\ next > last /\ cur' = NoRow
      /\ published' = IF Reportable(cur) THEN Append(published, cur) ELSE published
      /\ UNCHANGED <<config, interrupt, visited, memberHostile, first, last, next, files,
                     tally, stopSeen, disk, unread, passedOver>>
  BY DEF PublishFile, historyVars
<1>2. /\ files \in Seq(Row) /\ Len(files) \in Nat /\ DOMAIN files = 1..Len(files)
      /\ published \in Seq(Row) /\ next \in Nat /\ last \in Nat
      /\ Len(published) \in Nat /\ DOMAIN published = 1..Len(published)
  BY LenProperties DEF IInv, TypeOK
<1>3. cur \in Row  BY <1>1 DEF IInv, CurrentFile, InCallback
<1>4. PublishPosition  BY <1>1 DEF IInv, Positions
<1>5. Len(published) = last /\ (Reportable(cur) => Len(files) = last + 1 /\ files[last + 1] = cur)
        /\ (~Reportable(cur) => Len(files) = last)
  <2>1. next \in 1..(last + 1) /\ Len(published) = next - 1  BY <1>4 DEF PublishPosition
  <2>2. Len(published) = last  BY <1>1, <1>2, <2>1
  <2>3. /\ Reportable(cur) => Len(files) = last + 1 /\ files[last + 1] = cur
        /\ ~Reportable(cur) => Len(files) = last
    BY <1>4 DEF PublishPosition
  <2> QED BY <2>2, <2>3
<1>6. \A i \in DOMAIN published : published[i] = files[i]
  BY DEF IInv, PublishedIsRetained
<1>7. /\ published' \in Seq(Row) /\ Len(published') = Len(files)
      /\ \A i \in DOMAIN published' : published'[i] = files[i]
  <2>1. CASE Reportable(cur)
    <3>1. /\ published' \in Seq(Row) /\ Len(published') = last + 1
          /\ DOMAIN published' = 1..(last + 1)
          /\ \A i \in 1..last : published'[i] = published[i]
          /\ published'[last + 1] = cur
      BY <1>1, <1>2, <1>3, <1>5, <2>1, AppendRow
    <3>2. \A i \in 1..(last + 1) : i \in 1..last \/ i = last + 1  BY <1>2
    <3> QED BY <1>2, <1>5, <1>6, <2>1, <3>1, <3>2
  <2>2. CASE ~Reportable(cur)
    BY <1>1, <1>2, <1>5, <1>6, <2>2
  <2> QED BY <2>1, <2>2
<1>8. TypeOK'
  <2>1. TypeOK  BY DEF IInv
  <2> QED BY <1>1, <1>7, <2>1 DEF TypeOK
<1>9. Positions'
  <2>1. files' = files  BY <1>1
  <2> QED BY <1>1, <1>7, <2>1 DEF Positions
<1>10. CurrentFile' /\ Ownership' /\ MembersKnown'
  BY <1>1 DEF IInv, CurrentFile, InCallback, Ownership, MembersKnown
<1>11. PublishedIsRetained'
  <2>1. files' = files  BY <1>1
  <2>2. Len(published') <= Len(files)  BY <1>2, <1>7
  <2> QED BY <1>7, <2>1, <2>2 DEF PublishedIsRetained
<1>12. RetainedRowsAreTrue' /\ OnlyHostileContentMoves' /\ HostileIsMovedOrReported'
  BY <1>1 DEF IInv, RetainedRowsAreTrue, RowIsTrue, OnlyHostileContentMoves,
              HostileIsMovedOrReported, InHand, HasSettledRow
<1> QED BY <1>8, <1>9, <1>10, <1>11, <1>12 DEF IInv

\* A step that moves only the program counter, out of a callback or not, and the
\* flags that no part of the invariant reads.
LEMMA ControlStep ==
  ASSUME IInv, interrupt' \in BOOLEAN, stopSeen' \in BOOLEAN,
         \/ pc = "walk" /\ pc' = "walked"
         \/ pc = "walked" /\ pc' = "done"
         \/ pc' = "killed"
         \/ pc' = pc,
         UNCHANGED <<config, visited, cur, memberHostile, first, last, next, files,
                     published, tally, disk, unread, passedOver>>
  PROVE  IInv'
<1>1. pc' \in {"walk", "members", "decide", "publish", "walked", "done", "killed"}
  BY DEF IInv, TypeOK
<1>2. TypeOK'
  <2>1. TypeOK  BY DEF IInv
  <2> QED BY <1>1, <2>1 DEF TypeOK
<1>3. CurrentFile' /\ Ownership' /\ MembersKnown'
  BY DEF IInv, CurrentFile, InCallback, Ownership, MembersKnown
<1>4. Positions'
  <2>1. PublishPosition => PublishPosition'
    BY DEF PublishPosition, Reportable
  <2> QED BY <2>1 DEF IInv, Positions
<1>5. RetainedRowsAreTrue' /\ PublishedIsRetained' /\ OnlyHostileContentMoves'
  BY DEF IInv, RetainedRowsAreTrue, RowIsTrue, PublishedIsRetained, OnlyHostileContentMoves
<1>6. HostileIsMovedOrReported'
  BY DEF IInv, HostileIsMovedOrReported, InHand, HasSettledRow
<1> QED BY <1>2, <1>3, <1>4, <1>5, <1>6 DEF IInv

-----------------------------------------------------------------------------
(***************************************************************************)
(* Every step, and what follows.                                           *)
(***************************************************************************)

LEMMA NewFileStep ==
  ASSUME IInv, NEW f \in File, NewFile(f)
  PROVE  IInv'
<1>1. tally \in Tally /\ unread \subseteq File /\ passedOver \subseteq unread
  BY DEF IInv, TypeOK
<1>2. \A m, s : AccountFindings(CountSkip(tally), m) \in Tally
  <2>1. \E row : row \in Row  BY NewRowType DEF Skip, Match
  <2> QED BY <1>1, <2>1, TallyType
<1>3. ASSUME NEW named \in NameSets, NEW byPattern \in BOOLEAN,
             ExcludedFile(f, byPattern, named)
      PROVE  IInv'
  <2> DEFINE matches == IF byPattern THEN {} ELSE named
  <2>1. matches \in SUBSET {"name"}  BY DEF NameSets
  <2>2. /\ BeginFile(f) /\ UNCHANGED <<pc, cur>> /\ tally' \in Tally
        /\ unread' \subseteq File /\ passedOver' \subseteq unread'
    BY <1>1, <1>2, <1>3 DEF ExcludedFile
  <2>3. CASE config.reportExcluded \/ matches # {}
    BY <1>3, <2>1, <2>2, <2>3, KeptRowStep DEF ExcludedFile, Skip
  <2>4. CASE ~(config.reportExcluded \/ matches # {})
    BY <1>3, <2>2, <2>4, NoRowStep DEF ExcludedFile
  <2> QED BY <2>3, <2>4
<1>4. ASSUME NEW named \in NameSets, UnreadableFile(f, named) \/ OversizeFile(f, named)
      PROVE  IInv'
  BY <1>1, <1>2, <1>4, KeptRowStep DEF UnreadableFile, OversizeFile, NameSets, Skip
<1>5. ASSUME NEW matches \in MatchSets, LooseFile(f, matches)
      PROVE  IInv'
  BY <1>1, <1>5, HeldRowStep, ScanAssumption DEF LooseFile, historyVars, Skip, Match
<1>6. ASSUME NEW matches \in MatchSets, NEW fault \in ReadFaults, NEW opened \in BOOLEAN,
             FaultyRead(f, fault, matches, opened)
      PROVE  IInv'
  BY <1>1, <1>6, HeldRowStep, ScanAssumption DEF FaultyRead, PassOver, Skip, Match
<1>7. ASSUME NEW matches \in MatchSets, NEW oversize \in BOOLEAN,
             OpenContainer(f, oversize, matches)
      PROVE  IInv'
  BY <1>1, <1>7, HeldRowStep, ScanAssumption
     DEF OpenContainer, PassOver, historyVars, Skip, Match
<1> QED BY <1>3, <1>4, <1>5, <1>6, <1>7 DEF NewFile

LEMMA NextInv == IInv /\ [Next]_scanVars => IInv'
<1> SUFFICES ASSUME IInv, [Next]_scanVars PROVE IInv'
  OBVIOUS
<1>1. ASSUME NEW f \in File, NewFile(f) PROVE IInv'
  BY <1>1, NewFileStep
<1>2. CASE InContainer
  <2>1. ASSUME NEW matches \in MatchSets, NEW s \in {"none", "corrupt"},
               MemberFinding(matches, s)
        PROVE  IInv'
    BY <2>1, MemberFindingStep, ScanAssumption DEF Skip, Match
  <2>2. ASSUME NEW exposure \in SUBSET {"exposure"}, NEW gap \in BOOLEAN,
               NEW cutShort \in BOOLEAN, CloseContainer(exposure, gap, cutShort)
        PROVE  IInv'
    BY <2>2, CloseContainerStep
  <2> QED BY <1>2, <2>1, <2>2 DEF InContainer
<1>3. CASE Settle
  BY <1>3, DecideStep, PublishMemberStep, PublishFileStep DEF Settle
<1>4. CASE EndOfWalk \/ Signal
  BY <1>4, ControlStep
     DEF EndOfWalk, WalkEnds, WalkStops, AfterWalk, Signal, historyVars, IInv, TypeOK
<1>5. CASE Finished \/ UNCHANGED scanVars
  BY <1>5, ControlStep DEF Finished, scanVars, historyVars, IInv, TypeOK
<1> QED BY <1>1, <1>2, <1>3, <1>4, <1>5 DEF Next, ScanThread

THEOREM Invariance == Spec => []IInv
BY InitInv, NextInv, PTL DEF Spec

\* The state of a scan keeps its types.
THEOREM TypeCorrect == Spec => []TypeOK
<1>1. IInv => TypeOK  BY DEF IInv
<1> QED BY <1>1, Invariance, PTL

\* The streaming writers are given the retained rows, in order and final: no row
\* is published before the verdict on its container is written on it.
THEOREM PublicationIsFinal == Spec => []PublishedIsRetained
<1>1. IInv => PublishedIsRetained  BY DEF IInv
<1> QED BY <1>1, Invariance, PTL

\* Between two files, and at the end, every retained row has been handed over:
\* the stream never lags behind the result (Scanner.cpp:284-294).
THEOREM StreamKeepsUp == Spec => []NothingHeldBetweenFiles
<1>1. IInv => NothingHeldBetweenFiles
  <2> SUFFICES ASSUME IInv, pc \in {"walk", "walked", "done"} PROVE published = files
    BY DEF NothingHeldBetweenFiles
  <2>1. published \in Seq(Row) /\ files \in Seq(Row)  BY DEF IInv, TypeOK
  <2>2. Len(published) = Len(files)  BY DEF IInv, Positions
  <2>3. \A i \in 1..Len(published) : published[i] = files[i]
    BY <2>1, LenProperties DEF IInv, PublishedIsRetained
  <2> QED BY <2>1, <2>2, <2>3, SeqEqual
<1> QED BY <1>1, Invariance, PTL

\* Whenever the process is ended, what was published about where a file is and
\* what became of it is true of the disk.
THEOREM PublicationIsTrue == Spec => []PublishedRowsAreTrue
<1>1. IInv => PublishedRowsAreTrue
  <2> SUFFICES ASSUME IInv, NEW i \in DOMAIN published PROVE RowIsTrue(published[i])
    BY DEF PublishedRowsAreTrue
  <2>1. published[i] = files[i]  BY DEF IInv, PublishedIsRetained
  <2>2. /\ DOMAIN published = 1..Len(published) /\ DOMAIN files = 1..Len(files)
        /\ Len(published) \in Nat /\ Len(files) \in Nat /\ Len(published) <= Len(files)
    BY LenProperties DEF IInv, TypeOK, PublishedIsRetained
  <2>3. i \in DOMAIN files  BY <2>2
  <2> QED BY <2>1, <2>3 DEF IInv, RetainedRowsAreTrue
<1> QED BY <1>1, Invariance, PTL

\* Exposure and a bad name never move a file; hostile content, when quarantine
\* is on, always leads to a move or to a row that says it failed.
THEOREM QuarantineIsJustified == Spec => []OnlyHostileContentMoves
<1>1. IInv => OnlyHostileContentMoves  BY DEF IInv
<1> QED BY <1>1, Invariance, PTL

\* A file with hostile content of its own or of a member is never passed over.
THEOREM QuarantineIsComplete == Spec => []HostileIsMovedOrReported
<1>1. IInv => HostileIsMovedOrReported  BY DEF IInv
<1> QED BY <1>1, Invariance, PTL

-----------------------------------------------------------------------------
(***************************************************************************)
(* The interrupt.                                                          *)
(***************************************************************************)

\* The walk ends by exhaustion or by the flag, and the flag is read once more.
WalkAccounted ==
  /\ pc = "walked" => visited = File \/ interrupt
  /\ pc = "done" => visited = File \/ stopSeen

\* Whoever saw the flag first, a scan that does not say it was interrupted has
\* handed over every file.
THEOREM CompleteUnlessInterrupted == Spec => []UninterruptedMeansComplete
<1>1. Init => WalkAccounted
  BY DEF Init, WalkAccounted
<1>2. WalkAccounted /\ [Next]_scanVars => WalkAccounted'
  <2> SUFFICES ASSUME WalkAccounted, [Next]_scanVars PROVE WalkAccounted'
    OBVIOUS
  <2>1. ASSUME NEW f \in File, NewFile(f) PROVE WalkAccounted'
    BY <2>1 DEF NewFile, WalkAccounted, BeginFile, ExcludedFile, UnreadableFile,
                OversizeFile, LooseFile, FaultyRead, OpenContainer
  <2>2. CASE InContainer
    BY <2>2 DEF InContainer, MemberFinding, CloseContainer, WalkAccounted
  <2>3. CASE Settle
    BY <2>3 DEF Settle, Decide, PublishMember, PublishFile, WalkAccounted
  <2>4. CASE EndOfWalk
    BY <2>4 DEF EndOfWalk, WalkEnds, WalkStops, AfterWalk, WalkAccounted
  <2>5. CASE Signal \/ Finished \/ UNCHANGED scanVars
    BY <2>5 DEF Signal, Finished, scanVars, WalkAccounted
  <2> QED BY <2>1, <2>2, <2>3, <2>4, <2>5 DEF Next, ScanThread
<1>3. WalkAccounted => UninterruptedMeansComplete
  BY DEF WalkAccounted, UninterruptedMeansComplete
<1> QED BY <1>1, <1>2, <1>3, PTL DEF Spec

\* Once the flag is up no file is begun, and only the decision already due moves
\* one.
THEOREM NothingBegunAfterTheFlag == Spec => InterruptStopsTheScan
<1> DEFINE Stops == interrupt =>
             /\ visited' = visited
             /\ \A f \in File : disk'[f] # disk[f] => f = cur.file /\ pc = "decide"
<1>1. IInv /\ [Next]_scanVars => [Stops]_scanVars
  <2> SUFFICES ASSUME IInv, Next, interrupt PROVE Stops
    OBVIOUS
  <2>1. ASSUME NEW f \in File, NewFile(f) PROVE FALSE
    BY <2>1 DEF NewFile, BeginFile, ExcludedFile, UnreadableFile, OversizeFile,
                LooseFile, FaultyRead, OpenContainer
  <2>2. CASE InContainer
    BY <2>2 DEF InContainer, MemberFinding, CloseContainer
  <2>3. ASSUME NEW moved \in BOOLEAN, Decide(moved) PROVE Stops
    <3>1. /\ pc = "decide" /\ visited' = visited
          /\ disk' = disk \/ disk' = [disk EXCEPT ![cur.file] = "quarantine"]
      BY <2>3 DEF Decide
    <3> QED BY <3>1 DEF IInv, TypeOK
  <2>4. CASE PublishMember \/ PublishFile
    BY <2>4 DEF PublishMember, PublishFile
  <2>5. CASE EndOfWalk
    BY <2>5 DEF EndOfWalk, WalkEnds, WalkStops, AfterWalk
  <2>6. CASE Signal \/ Finished
    BY <2>6 DEF Signal, Finished, scanVars
  <2> QED BY <2>1, <2>2, <2>3, <2>4, <2>5, <2>6 DEF Next, ScanThread, Settle
<1> QED BY <1>1, Invariance, PTL DEF Spec, InterruptStopsTheScan
-----------------------------------------------------------------------------
(***************************************************************************)
(* What went unread is counted.                                            *)
(***************************************************************************)

\* While nobody has raised the flag each unread file has its count or was passed
\* over; once it is up a container may be cut short uncounted, but then the scan's
\* end says so.
Covered == Cardinality(unread) <= tally.skips + tally.gaps + Cardinality(passedOver)

UnreadAccounted ==
  /\ IsFiniteSet(unread)
  /\ ~interrupt => Covered
  /\ (pc = "done" /\ ~stopSeen) => ~interrupt

\* Findings and decisions leave the counts of what was not read alone.
LEMMA CountsOfUnread ==
  ASSUME NEW t \in Tally, NEW x
  PROVE  /\ t.skips \in Nat /\ t.gaps \in Nat
         /\ AccountFindings(t, x).skips = t.skips
         /\ AccountFindings(t, x).gaps = t.gaps
         /\ AccountFindings(CountSkip(t), x).skips = t.skips + 1
         /\ AccountFindings(CountSkip(t), x).gaps = t.gaps
         /\ CountDecision(t, x).skips = t.skips
         /\ CountDecision(t, x).gaps = t.gaps
         /\ [t EXCEPT !.gaps = @ + 1].skips = t.skips
         /\ [t EXCEPT !.gaps = @ + 1].gaps = t.gaps + 1
  BY DEF Tally, AccountFindings, CountSkip, CountDecision

LEMMA OneMore ==
  ASSUME NEW S, IsFiniteSet(S), NEW x
  PROVE  /\ IsFiniteSet(S \cup {x})
         /\ Cardinality(S) \in Nat /\ Cardinality(S \cup {x}) \in Nat
         /\ Cardinality(S \cup {x}) <= Cardinality(S) + 1
<1> DEFINE n == Cardinality(S)
           m == Cardinality(S \cup {x})
<1>1. IsFiniteSet(S \cup {x}) /\ m = IF x \in S THEN n ELSE n + 1
  BY FS_AddElement
<1>2. n \in Nat /\ m \in Nat
  BY <1>1, FS_CardinalityType
<1> HIDE DEF n, m
<1>3. m <= n + 1
  BY <1>1, <1>2
<1> QED BY <1>1, <1>2, <1>3 DEF n, m

\* The counts are numbers, whatever was not read.
LEMMA UnreadCounts ==
  ASSUME IInv, UnreadAccounted
  PROVE  /\ tally \in Tally /\ tally.skips \in Nat /\ tally.gaps \in Nat
         /\ IsFiniteSet(unread) /\ Cardinality(unread) \in Nat
         /\ IsFiniteSet(passedOver) /\ Cardinality(passedOver) \in Nat
         /\ passedOver \subseteq unread
<1>1. tally \in Tally /\ IsFiniteSet(unread) /\ passedOver \subseteq unread
  BY DEF IInv, TypeOK, UnreadAccounted
<1>2. IsFiniteSet(passedOver)
  BY <1>1, FS_Subset
<1> QED BY <1>1, <1>2, FS_CardinalityType DEF Tally

\* A file that is passed over is accounted for: it joins both sets, and what was
\* already passed over was already unread.
LEMMA PassOverAccounted ==
  ASSUME IInv, UnreadAccounted, NEW f \in File, PassOver(f), UNCHANGED <<tally, interrupt>>,
         pc' # "done"
  PROVE  UnreadAccounted'
<1>1. /\ IsFiniteSet(unread') /\ Cardinality(unread') \in Nat
      /\ Cardinality(unread') <= Cardinality(unread) + 1
  BY UnreadCounts, OneMore DEF PassOver
<1>2. CASE f \in passedOver
  <2>1. unread' = unread /\ passedOver' = passedOver
    BY <1>2, UnreadCounts DEF PassOver
  <2> QED BY <2>1 DEF UnreadAccounted, Covered
<1>3. CASE f \notin passedOver
  <2>1. Cardinality(passedOver') = Cardinality(passedOver) + 1
    BY <1>3, UnreadCounts, FS_AddElement DEF PassOver
  <2>2. Covered => Covered'
    BY <1>1, <2>1, UnreadCounts DEF Covered
  <2> QED BY <1>1, <2>2 DEF UnreadAccounted
<1> QED BY <1>2, <1>3

\* The branches of fileCallback: whichever leaves a file unread counts a skip, or
\* passes it over.
LEMMA NewFileAccounted ==
  ASSUME IInv, UnreadAccounted, NEW f \in File, NewFile(f)
  PROVE  UnreadAccounted'
<1>2. pc = "walk" /\ ~interrupt /\ interrupt' = interrupt /\ stopSeen' = stopSeen
  BY DEF NewFile, BeginFile, ExcludedFile, UnreadableFile, OversizeFile,
         LooseFile, FaultyRead, OpenContainer
<1>4. ASSUME NEW matches, tally' = AccountFindings(CountSkip(tally), matches),
             unread' = unread \cup {f}, passedOver' = passedOver, pc' = pc
      PROVE  UnreadAccounted'
  <2>1. tally'.skips = tally.skips + 1 /\ tally'.gaps = tally.gaps
    BY <1>4, UnreadCounts, CountsOfUnread
  <2>2. /\ IsFiniteSet(unread') /\ Cardinality(unread') \in Nat
        /\ Cardinality(unread') <= Cardinality(unread) + 1
    BY <1>4, UnreadCounts, OneMore
  <2>3. Covered'
    BY <1>2, <1>4, <2>1, <2>2, UnreadCounts DEF UnreadAccounted, Covered
  <2> QED BY <1>2, <1>4, <2>2, <2>3 DEF UnreadAccounted
<1>5. ASSUME UNCHANGED <<tally, historyVars>>, pc' \in {"decide", "members"}
      PROVE  UnreadAccounted'
  BY <1>2, <1>5 DEF UnreadAccounted, Covered, historyVars
<1>6. ASSUME NEW named \in NameSets, NEW byPattern \in BOOLEAN,
             ExcludedFile(f, byPattern, named)
      PROVE  UnreadAccounted'
  BY <1>4, <1>6 DEF ExcludedFile
<1>7. ASSUME NEW named \in NameSets, UnreadableFile(f, named) \/ OversizeFile(f, named)
      PROVE  UnreadAccounted'
  BY <1>4, <1>7 DEF UnreadableFile, OversizeFile
<1>8. ASSUME NEW matches \in MatchSets, LooseFile(f, matches)
      PROVE  UnreadAccounted'
  BY <1>5, <1>8 DEF LooseFile
<1>9. ASSUME NEW matches \in MatchSets, NEW fault \in ReadFaults, NEW opened \in BOOLEAN,
             FaultyRead(f, fault, matches, opened)
      PROVE  UnreadAccounted'
  BY <1>2, <1>9, PassOverAccounted DEF FaultyRead
<1>10. ASSUME NEW matches \in MatchSets, NEW oversize \in BOOLEAN,
              OpenContainer(f, oversize, matches)
       PROVE  UnreadAccounted'
  <2>1. CASE config.maxDepth = 0 /\ oversize
    BY <1>2, <1>10, <2>1, PassOverAccounted DEF OpenContainer
  <2>2. CASE ~(config.maxDepth = 0 /\ oversize)
    BY <1>5, <1>10, <2>2 DEF OpenContainer
  <2> QED BY <2>1, <2>2
<1> QED BY <1>6, <1>7, <1>8, <1>9, <1>10 DEF NewFile

\* A container is counted as a gap, or the flag cut it short.
LEMMA CloseContainerAccounted ==
  ASSUME IInv, UnreadAccounted, NEW exposure, NEW gap \in BOOLEAN,
         NEW cutShort \in BOOLEAN, CloseContainer(exposure, gap, cutShort)
  PROVE  UnreadAccounted'
<1>2. /\ interrupt' = interrupt /\ pc' = "decide" /\ (cutShort => interrupt)
      /\ passedOver' = passedOver
  BY DEF CloseContainer
<1>3. unread' = unread \/ unread' = unread \cup {cur.file}
  BY DEF CloseContainer
<1>4. /\ IsFiniteSet(unread') /\ Cardinality(unread') \in Nat
      /\ Cardinality(unread') <= Cardinality(unread) + 1
  <2>1. CASE unread' = unread
    BY <2>1, UnreadCounts
  <2>2. CASE unread' = unread \cup {cur.file}
    BY <2>2, UnreadCounts, OneMore
  <2> QED BY <1>3, <2>1, <2>2
<1>5. CASE gap
  <2>1. tally'.skips = tally.skips /\ tally'.gaps = tally.gaps + 1
    BY <1>5, UnreadCounts, CountsOfUnread DEF CloseContainer
  <2>2. Covered => Covered'
    BY <1>2, <1>4, <2>1, UnreadCounts DEF Covered
  <2> QED BY <1>2, <1>4, <2>2 DEF UnreadAccounted
<1>6. CASE ~gap
  <2>1. tally' = tally /\ (~interrupt => unread' = unread)
    BY <1>2, <1>6 DEF CloseContainer
  <2> QED BY <1>2, <1>4, <2>1 DEF UnreadAccounted, Covered
<1> QED BY <1>5, <1>6

LEMMA UnreadStep ==
  ASSUME IInv, UnreadAccounted, [Next]_scanVars
  PROVE  UnreadAccounted'
<1>1. tally \in Tally
  BY DEF IInv, TypeOK
<1>2. ASSUME NEW f \in File, NewFile(f) PROVE UnreadAccounted'
  BY <1>2, NewFileAccounted
<1>3. ASSUME NEW matches, NEW skip, MemberFinding(matches, skip)
      PROVE  UnreadAccounted'
  BY <1>1, <1>3, CountsOfUnread DEF MemberFinding, UnreadAccounted, Covered, historyVars
<1>4. ASSUME NEW exposure, NEW gap \in BOOLEAN, NEW cutShort \in BOOLEAN,
             CloseContainer(exposure, gap, cutShort)
      PROVE  UnreadAccounted'
  BY <1>4, CloseContainerAccounted
<1>5. ASSUME NEW moved \in BOOLEAN, Decide(moved) PROVE UnreadAccounted'
  <2>1. AccountFindings(tally, cur.matches) \in Tally
    <3>1. \E row : row \in Row
      BY <1>5 DEF Decide, IInv, CurrentFile, InCallback
    <3> QED BY <1>1, <3>1, TallyType
  <2>2. tally'.skips = tally.skips /\ tally'.gaps = tally.gaps
    BY <1>1, <1>5, <2>1, CountsOfUnread DEF Decide
  <2> QED BY <1>5, <2>2 DEF Decide, UnreadAccounted, Covered, historyVars
<1>6. CASE PublishMember \/ PublishFile
  BY <1>6 DEF PublishMember, PublishFile, UnreadAccounted, Covered, historyVars
<1>7. CASE EndOfWalk
  <2>1. UNCHANGED <<interrupt, tally, historyVars>>
    BY <1>7 DEF EndOfWalk, WalkEnds, WalkStops, AfterWalk
  <2>2. (pc' = "done" /\ ~stopSeen') => ~interrupt
    BY <1>7 DEF EndOfWalk, WalkEnds, WalkStops, AfterWalk
  <2> QED BY <2>1, <2>2 DEF UnreadAccounted, Covered, historyVars
<1>8. CASE Signal
  BY <1>8 DEF Signal, UnreadAccounted, Covered, historyVars, IInv, TypeOK
<1>9. CASE Finished \/ UNCHANGED scanVars
  BY <1>9 DEF Finished, scanVars, historyVars, UnreadAccounted, Covered
<1> QED BY <1>2, <1>3, <1>4, <1>5, <1>6, <1>7, <1>8, <1>9
        DEF Next, ScanThread, InContainer, Settle

\* A scan that does not say it was interrupted has counted every file it did not
\* read in full, the filters, the failed opens and the size limit as skips, the
\* containers' guards as gaps; but for the files it passed over, which a read that
\* failed after a good stat and open, and max_depth 0, are the only ways to do.
THEOREM OnlyPassedOverUncounted == Spec => []UncountedWasPassedOver
<1>1. Init => UnreadAccounted
  <2> SUFFICES ASSUME Init PROVE UnreadAccounted
    OBVIOUS
  <2>1. unread = {} /\ passedOver = {} /\ tally.skips = 0 /\ tally.gaps = 0 /\ pc = "walk"
    BY DEF Init
  <2> QED BY <2>1, FS_EmptySet DEF UnreadAccounted, Covered
<1>2. IInv /\ UnreadAccounted /\ [Next]_scanVars => UnreadAccounted'
  BY UnreadStep
<1>3. UnreadAccounted => UncountedWasPassedOver
  BY DEF UnreadAccounted, UncountedWasPassedOver, Covered
<1> QED BY <1>1, <1>2, <1>3, Invariance, PTL DEF Spec

=============================================================================
