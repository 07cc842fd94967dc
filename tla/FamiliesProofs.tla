--------------------------- MODULE FamiliesProofs ---------------------------
(***************************************************************************)
(* What is proved of the families: whatever the tabs, the restarts and the *)
(* sessions do, a label is given once, on the bytes, and never as another  *)
(* name for a rule set.  The server's part of the argument is only that    *)
(* what a file holds is decisions; the rest is that Apply judges and       *)
(* writes what it read under one lock.                                     *)
(***************************************************************************)
EXTENDS Families, FiniteSetTheorems, SequenceTheorems, TLAPS

TabType == [pc : Serving \cup {"shown"}, screen : SUBSET Sample,
            boxes : SUBSET Sample, keeps : Nat, said : Nat]
JobType == [pc : {"idle", "apply", "audit", "mismatch"}, of : Session,
            props : Seq(Proposal), wrote : Nat]

\* How far memory is ahead of what a tab is about to write or to answer.
TabAhead(t, m, l) ==
  /\ t.pc \in {"openSave", "recordSave"} => t.keeps <= m
  /\ t.pc \in {"openLog", "recordLog"} => t.keeps <= l
  /\ t.pc \in {"record", "recordSave", "recordLog", "answer"} => t.said \in 1 .. m

IndexType ==
  /\ row \in [Sample -> Label \cup {NoFamily}] /\ local \in SUBSET Sample
MemoryType ==
  /\ pool \in SUBSET Sample
  /\ found \in Collections /\ seen \in Collections
  /\ earlier \in [Earlier -> Seq(Proposal)]
  /\ made \in Seq(Proposal) /\ log \in Seq(Proposal)
  /\ saved \in 0 .. Len(made) /\ logged \in 0 .. Len(log)
  /\ answered \subseteq Proposal
TabsType ==
  /\ tab \in [Tab -> TabType]
  /\ \A b \in Tab : TabAhead(tab[b], Len(made), Len(log))
JobsType == job \in [Applier -> JobType]

LEMMA TypeParts ==
  /\ TypeOK <=> IndexType /\ MemoryType /\ TabsType /\ JobsType
  /\ TypeOK' <=> IndexType' /\ MemoryType' /\ TabsType' /\ JobsType'
BY DEF TypeOK, IndexType, MemoryType, TabsType, JobsType, TabType, JobType, TabAhead

---------------------------------------------------------------------------
(* One tab's request.                                                      *)

\* Every tab is typed and is no further than a memory of m and l entries.
TabsOK(tabs, m, l) == tabs \in [Tab -> TabType] /\ \A b \in Tab : TabAhead(tabs[b], m, l)

LEMMA OneTab ==
  ASSUME NEW m \in Nat, NEW l \in Nat, NEW m2 \in Nat, NEW l2 \in Nat,
         m <= m2, l <= l2, NEW tabs, TabsOK(tabs, m, l),
         NEW b \in Tab, NEW t \in TabType, TabAhead(t, m2, l2)
  PROVE  TabsOK([tabs EXCEPT ![b] = t], m2, l2)
<1> DEFINE new == [tabs EXCEPT ![b] = t]
<1>1. tabs \in [Tab -> TabType] /\ \A c \in Tab : TabAhead(tabs[c], m, l)
  BY DEF TabsOK
<1>2. new \in [Tab -> TabType] /\ \A c \in Tab : new[c] = IF c = b THEN t ELSE tabs[c]
  BY <1>1
<1> HIDE DEF new
<1>3. ASSUME NEW c \in Tab PROVE TabAhead(new[c], m2, l2)
  <2>1. CASE c = b
    BY <1>2, <2>1
  <2>2. CASE c # b
    <3>1. new[c] = tabs[c] /\ TabAhead(tabs[c], m, l) /\ tabs[c] \in TabType
      BY <1>1, <1>2, <2>2
    <3>2. tabs[c].keeps \in Nat /\ tabs[c].said \in Nat
      BY <3>1 DEF TabType
    <3>3. TabAhead(tabs[c], m2, l2)
      BY <3>1, <3>2 DEF TabAhead
    <3> QED BY <3>1, <3>3
  <2> QED BY <2>1, <2>2
<1> QED BY <1>2, <1>3 DEF TabsOK, new

LEMMA RecordType ==
  ASSUME NEW t \in TabType, NEW n \in Nat, "record" \in Serving
  PROVE  LET u == [t EXCEPT !.pc = "record", !.said = n]
         IN u \in TabType /\ u.pc = "record" /\ u.said = n
BY DEF TabType

LEMMA RenderType ==
  ASSUME NEW t \in TabType, NEW boxes \in SUBSET Sample
  PROVE  LET u == [t EXCEPT !.pc = "shown", !.boxes = boxes]
         IN u \in TabType /\ u.pc = "shown"
BY DEF TabType

LEMMA ShownType ==
  ASSUME NEW t \in TabType
  PROVE  /\ LET u == [t EXCEPT !.pc = "shown", !.said = 0]
            IN u \in TabType /\ u.pc = "shown"
         /\ LET u == [t EXCEPT !.pc = "shown", !.keeps = 0, !.said = 0]
            IN u \in TabType /\ u.pc = "shown"
BY DEF TabType

LEMMA OpenType ==
  ASSUME NEW screen \in SUBSET Sample
  PROVE  LET u == [Home EXCEPT !.pc = "open", !.screen = screen]
         IN u \in TabType /\ u.pc = "open"
<1>1. Home \in TabType /\ "open" \in Serving
  BY DEF Home, TabType, Serving
<1> QED BY <1>1 DEF TabType

LEMMA HomeType ==
  /\ Home \in TabType /\ Home.pc = "shown"
  /\ [Home EXCEPT !.pc = "open"] \in TabType /\ [Home EXCEPT !.pc = "open"].pc = "open"
<1>1. Home \in TabType /\ Home.pc = "shown" /\ "open" \in Serving
  BY DEF Home, TabType, Serving
<1> QED BY <1>1 DEF TabType

LEMMA RequestType ==
  ASSUME TypeOK, NEW b \in Tab, Request(b)
  PROVE  TypeOK'
<1>1. /\ TabsOK(tab, Len(made), Len(log)) /\ tab[b] \in TabType
      /\ TabAhead(tab[b], Len(made), Len(log))
      /\ MemoryType /\ IndexType /\ JobsType
  BY TypeParts DEF TabsType, TabsOK
<1>2. /\ Len(made) \in Nat /\ Len(log) \in Nat
      /\ Len(made) <= Len(made) /\ Len(log) <= Len(log)
  BY <1>1, LenProperties DEF MemoryType
<1>3. UNCHANGED <<index, found, seen, job>>
  BY DEF Request, Open, Skip, Record, SaveTake, SavePut, LogPut, Render, Answer
<1>4. IndexType' /\ JobsType'
  BY <1>1, <1>3 DEF IndexType, JobsType, index
<1>5. ASSUME NEW t \in TabType, TabAhead(t, Len(made), Len(log)),
             tab' = [tab EXCEPT ![b] = t], UNCHANGED <<made, log>>
      PROVE  TabsType'
  <2>1. TabsOK([tab EXCEPT ![b] = t], Len(made), Len(log))
    BY <1>1, <1>2, <1>5, OneTab
  <2>2. TabsOK(tab', Len(made'), Len(log'))
    BY <1>5, <2>1
  <2> QED BY <2>2 DEF TabsType, TabsOK
<1>6. ASSUME NEW t \in TabType, t.pc \in {"open", "shown"},
             tab' = [tab EXCEPT ![b] = t],
             UNCHANGED <<pool, found, seen, earlier, made, log, saved, logged>>,
             answered' \subseteq Proposal
      PROVE  MemoryType' /\ TabsType'
  <2>1. TabAhead(t, Len(made), Len(log))
    BY <1>6 DEF TabAhead
  <2>2. TabsType'
    BY <1>5, <1>6, <2>1
  <2> QED BY <1>1, <1>6, <2>2 DEF MemoryType
<1>7. ASSUME NEW n \in Nat, NEW pc \in Serving, Takes(b, n, pc),
             UNCHANGED <<pool, found, seen, earlier, made, log, answered>>,
             saved' \in 0 .. Len(made), logged' \in 0 .. Len(log),
             pc \in {"openSave", "recordSave"} => n <= Len(made),
             pc \in {"openLog", "recordLog"} => n <= Len(log),
             pc \in {"record", "recordSave", "recordLog", "answer"}
               => tab[b].said \in 1 .. Len(made)
      PROVE  MemoryType' /\ TabsType'
  <2> DEFINE t == [tab[b] EXCEPT !.pc = pc, !.keeps = n]
  <2>1. t \in TabType /\ t.pc = pc /\ t.keeps = n /\ t.said = tab[b].said
    <3> DEFINE was == tab[b]
    <3>1. was \in TabType /\ pc \in Serving \cup {"shown"}
      BY <1>1
    <3> HIDE DEF was
    <3>2. LET u == [was EXCEPT !.pc = pc, !.keeps = n]
          IN u \in TabType /\ u.pc = pc /\ u.keeps = n /\ u.said = was.said
      BY <3>1 DEF TabType
    <3> QED BY <3>2 DEF was
  <2>2. tab' = [tab EXCEPT ![b] = t]
    BY <1>7 DEF Takes
  <2> HIDE DEF t
  <2>3. TabAhead(t, Len(made), Len(log))
    BY <1>7, <2>1 DEF TabAhead
  <2>4. TabsType'
    BY <1>5, <1>7, <2>1, <2>2, <2>3
  <2> QED BY <1>1, <1>7, <2>4 DEF MemoryType
<1>8. answered \subseteq Proposal /\ saved \in 0 .. Len(made) /\ logged \in 0 .. Len(log)
  BY <1>1 DEF MemoryType
<1>9. CASE Open(b)
  <2>1. PICK rows \in Screens \ {{}} :
          tab' = [tab EXCEPT ![b] = [Home EXCEPT !.pc = "open", !.screen = rows]]
    BY <1>9 DEF Open
  <2>2. rows \in SUBSET Sample
    BY <1>1, <2>1 DEF Screens, Carrying, MemoryType
  <2> DEFINE t == [Home EXCEPT !.pc = "open", !.screen = rows]
  <2>3. t \in TabType /\ t.pc = "open"
    BY <2>2, OpenType
  <2> HIDE DEF t
  <2>4. tab' = [tab EXCEPT ![b] = t]
    BY <2>1 DEF t
  <2>5. UNCHANGED <<pool, found, seen, earlier, made, log, saved, logged, answered>>
    BY <1>9 DEF Open
  <2>6. MemoryType' /\ TabsType'
    BY <1>6, <1>8, <2>3, <2>4, <2>5
  <2> QED BY <1>4, <2>6, TypeParts
<1>10. CASE Skip(b)
  <2> DEFINE t == [Home EXCEPT !.pc = "open"]
  <2>1. t \in TabType /\ t.pc = "open"
    BY HomeType
  <2>2. tab' = [tab EXCEPT ![b] = t]
    BY <1>10 DEF Skip
  <2> HIDE DEF t
  <2>3. UNCHANGED <<pool, found, seen, earlier, made, log, saved, logged, answered>>
    BY <1>10 DEF Skip
  <2>4. MemoryType' /\ TabsType'
    BY <1>6, <1>8, <2>1, <2>2, <2>3
  <2> QED BY <1>4, <2>4, TypeParts
<1>11. CASE Record(b)
  <2>1. PICK p \in [family : Usable, markers : (SUBSET Shared(tab[b].screen)) \ {{}},
                    rows : (SUBSET tab[b].boxes) \ {{}}] :
          made' = Append(made, p) /\ log' = Append(log, p)
    BY <1>11 DEF Record
  <2>2. Shared(tab[b].screen) \subseteq Marker /\ tab[b].boxes \subseteq Sample
    BY <1>1 DEF Shared, TabType
  <2>3. p \in Proposal
    BY <2>1, <2>2, FamiliesAssumption DEF Proposal
  <2>4. /\ made' \in Seq(Proposal) /\ Len(made') = Len(made) + 1
        /\ log' \in Seq(Proposal) /\ Len(log') = Len(log) + 1
    BY <1>1, <2>1, <2>3, AppendProperties DEF MemoryType
  <2> DEFINE n == Len(made) + 1
             t == [tab[b] EXCEPT !.pc = "record", !.said = n]
  <2>5. n \in Nat /\ "record" \in Serving
    BY <1>2 DEF Serving
  <2>6. tab' = [tab EXCEPT ![b] = t]
    BY <1>11 DEF Record
  <2> HIDE DEF n
  <2>7. t \in TabType /\ t.pc = "record" /\ t.said = n
    BY <1>1, <2>5, RecordType
  <2> HIDE DEF t
  <2>8. Len(made') = n /\ Len(log') = Len(log) + 1 /\ n \in 1 .. n
    BY <1>2, <2>4 DEF n
  <2>9. TabAhead(t, Len(made'), Len(log'))
    BY <2>7, <2>8 DEF TabAhead
  <2>10. /\ Len(made') \in Nat /\ Len(log') \in Nat
         /\ Len(made) <= Len(made') /\ Len(log) <= Len(log')
    BY <1>2, <2>4
  <2>11. TabsOK([tab EXCEPT ![b] = t], Len(made'), Len(log'))
    BY <1>1, <1>2, <2>7, <2>9, <2>10, OneTab
  <2>12. TabsOK(tab', Len(made'), Len(log'))
    BY <2>6, <2>11
  <2>13. TabsType'
    BY <2>12 DEF TabsType, TabsOK
  <2>14. UNCHANGED <<pool, found, seen, earlier, saved, logged, answered>>
    BY <1>11 DEF Record
  <2>15. saved \in 0 .. Len(made') /\ logged \in 0 .. Len(log')
    BY <1>2, <1>8, <2>4
  <2>16. MemoryType'
    BY <1>1, <2>4, <2>14, <2>15 DEF MemoryType
  <2> QED BY <1>4, <2>13, <2>16, TypeParts
<1>12. CASE SaveTake(b)
  <2> DEFINE pc == IF tab[b].pc = "open" THEN "openSave" ELSE "recordSave"
  <2>1. pc \in Serving /\ pc \in {"openSave", "recordSave"}
    BY DEF Serving
  <2>2. pc = "recordSave" => tab[b].said \in 1 .. Len(made)
    BY <1>1, <1>12 DEF SaveTake, TabAhead
  <2>3. Takes(b, Len(made), pc)
    BY <1>12 DEF SaveTake
  <2>4. UNCHANGED <<pool, found, seen, earlier, made, log, saved, logged, answered>>
    BY <1>12 DEF SaveTake
  <2> HIDE DEF pc
  <2>5. MemoryType' /\ TabsType'
    BY <1>2, <1>7, <1>8, <2>1, <2>2, <2>3, <2>4
  <2> QED BY <1>4, <2>5, TypeParts
<1>13. CASE SavePut(b)
  <2> DEFINE pc == IF tab[b].pc = "openSave" THEN "openLog" ELSE "recordLog"
  <2>1. pc \in Serving /\ pc \in {"openLog", "recordLog"}
    BY DEF Serving
  <2>2. /\ pc = "recordLog" => tab[b].said \in 1 .. Len(made)
        /\ tab[b].keeps \in 0 .. Len(made)
    BY <1>1, <1>2, <1>13 DEF SavePut, TabAhead, TabType
  <2>3. Takes(b, Len(log), pc) /\ saved' = tab[b].keeps
    BY <1>13 DEF SavePut
  <2>4. UNCHANGED <<pool, found, seen, earlier, made, log, logged, answered>>
    BY <1>13 DEF SavePut
  <2> HIDE DEF pc
  <2>5. MemoryType' /\ TabsType'
    BY <1>2, <1>7, <1>8, <2>1, <2>2, <2>3, <2>4
  <2> QED BY <1>4, <2>5, TypeParts
<1>14. CASE LogPut(b)
  <2> DEFINE pc == IF tab[b].pc = "openLog" THEN "render" ELSE "answer"
  <2>1. pc \in Serving /\ pc \in {"render", "answer"}
    BY DEF Serving
  <2>2. /\ pc = "answer" => tab[b].said \in 1 .. Len(made)
        /\ tab[b].keeps \in 0 .. Len(log)
    BY <1>1, <1>2, <1>14 DEF LogPut, TabAhead, TabType
  <2>3. Takes(b, 0, pc) /\ logged' = tab[b].keeps
    BY <1>14 DEF LogPut
  <2>4. UNCHANGED <<pool, found, seen, earlier, made, log, saved, answered>>
    BY <1>14 DEF LogPut
  <2> HIDE DEF pc
  <2>5. MemoryType' /\ TabsType'
    BY <1>7, <1>8, <2>1, <2>2, <2>3, <2>4
  <2> QED BY <1>4, <2>5, TypeParts
<1>15. CASE Render(b)
  <2> DEFINE boxes == tab[b].screen \ Decided(made)
             t == [tab[b] EXCEPT !.pc = "shown", !.boxes = boxes]
  <2>1. tab' = [tab EXCEPT ![b] = t]
    BY <1>15 DEF Render
  <2>2. boxes \in SUBSET Sample
    BY <1>1 DEF TabType
  <2> HIDE DEF boxes
  <2>3. t \in TabType /\ t.pc = "shown"
    BY <1>1, <2>2, RenderType
  <2> HIDE DEF t
  <2>4. UNCHANGED <<pool, found, seen, earlier, made, log, saved, logged, answered>>
    BY <1>15 DEF Render
  <2>5. MemoryType' /\ TabsType'
    BY <1>6, <1>8, <2>1, <2>3, <2>4
  <2> QED BY <1>4, <2>5, TypeParts
<1>16. CASE Answer(b)
  <2> DEFINE t == [tab[b] EXCEPT !.pc = "shown", !.said = 0]
  <2>1. tab' = [tab EXCEPT ![b] = t]
    BY <1>16 DEF Answer
  <2>2. t \in TabType /\ t.pc = "shown"
    BY <1>1, ShownType
  <2> HIDE DEF t
  <2>3. made[tab[b].said] \in Proposal
    <3>1. tab[b].said \in 1 .. Len(made)
      BY <1>1, <1>16 DEF Answer, TabAhead
    <3>2. made \in Seq(Proposal)
      BY <1>1 DEF MemoryType
    <3> QED BY <3>1, <3>2, ElementOfSeq
  <2>4. /\ UNCHANGED <<pool, found, seen, earlier, made, log, saved, logged>>
        /\ answered' = answered \cup {made[tab[b].said]}
    BY <1>16 DEF Answer
  <2>5. MemoryType' /\ TabsType'
    BY <1>6, <1>8, <2>1, <2>2, <2>3, <2>4
  <2> QED BY <1>4, <2>5, TypeParts
<1> QED BY <1>9, <1>10, <1>11, <1>12, <1>13, <1>14, <1>15, <1>16 DEF Request

LEMMA RestartType ==
  ASSUME TypeOK, Restart
  PROVE  TypeOK'
<1>1. /\ MemoryType /\ IndexType /\ JobsType /\ tab \in [Tab -> TabType]
      /\ Len(made) \in Nat /\ Len(log) \in Nat
  BY TypeParts, LenProperties DEF TabsType, MemoryType
<1>2. IndexType' /\ JobsType'
  BY <1>1 DEF IndexType, JobsType, Restart, index
<1>3. /\ made' \in Seq(Proposal) /\ Len(made') = saved
      /\ log' \in Seq(Proposal) /\ Len(log') = logged
  <2>1. /\ made' = SubSeq(made, 1, saved) /\ made \in Seq(Proposal)
        /\ log' = SubSeq(log, 1, logged) /\ log \in Seq(Proposal)
        /\ saved \in 0 .. Len(made) /\ logged \in 0 .. Len(log)
    BY <1>1 DEF Restart, MemoryType
  <2> QED BY <1>1, <2>1, SubSeqProperties
<1>4. pool' \in SUBSET Sample
  BY <1>1 DEF Restart, Population, IndexType
<1>5. MemoryType'
  <2>1. UNCHANGED <<earlier, saved, logged, answered>>
    BY DEF Restart
  <2>2. saved \in 0 .. Len(made') /\ logged \in 0 .. Len(log')
    BY <1>1, <1>3 DEF MemoryType
  <2>3. found' = found /\ seen' = found
    BY DEF Restart
  <2> QED BY <1>1, <1>3, <1>4, <2>1, <2>2, <2>3 DEF MemoryType
<1>6. ASSUME NEW b \in Tab PROVE tab'[b] \in TabType /\ tab'[b].pc = "shown"
  <2>1. tab'[b] = [tab[b] EXCEPT !.pc = "shown", !.keeps = 0, !.said = 0]
    BY DEF Restart
  <2>2. tab[b] \in TabType
    BY <1>1
  <2> QED BY <2>1, <2>2, ShownType
<1>7. tab' \in [Tab -> TabType]
  <2>1. tab' = [b \in Tab |-> tab'[b]]
    BY DEF Restart
  <2> QED BY <1>6, <2>1
<1>8. TabsType'
  BY <1>6, <1>7 DEF TabsType, TabAhead
<1> QED BY <1>2, <1>5, <1>8, TypeParts

LEMMA AssignType ==
  ASSUME TypeOK, NEW a \in Applier, Assign(a)
  PROVE  TypeOK'
<1>1. IndexType /\ MemoryType /\ TabsType /\ JobsType
  BY TypeParts
<1>2. UNCHANGED server /\ MemoryType' /\ TabsType'
  <2>1. UNCHANGED <<found, server>>
    BY DEF Assign, ReadProposals, Apply, Audit, Investigated, Dies
  <2> QED BY <1>1, <2>1 DEF server, MemoryType, TabsType
<1>3. Idle \in JobType
  BY FamiliesAssumption DEF Idle, JobType, Session
<1>4. ASSUME NEW j \in JobType, job' = [job EXCEPT ![a] = j] PROVE JobsType'
  BY <1>1, <1>4 DEF JobsType
<1>5. CASE ReadProposals(a)
  <2>1. PICK s \in Session :
          job' = [job EXCEPT ![a] = [Idle EXCEPT !.pc = "apply", !.of = s,
                                                 !.props = File(s)]]
    BY <1>5 DEF ReadProposals
  <2>2. File(s) \in Seq(Proposal)
    <3>1. CASE s = Live
      <4>1. made \in Seq(Proposal) /\ saved \in 0 .. Len(made)
        BY <1>1 DEF MemoryType
      <4>2. SubSeq(made, 1, saved) \in Seq(Proposal)
        BY <4>1, SubSeqProperties, LenProperties
      <4> QED BY <3>1, <4>2 DEF File
    <3>2. CASE s # Live
      BY <1>1, <3>2 DEF File, MemoryType, Session
    <3> QED BY <3>1, <3>2
  <2> DEFINE props == File(s)
             j == [Idle EXCEPT !.pc = "apply", !.of = s, !.props = props]
  <2> HIDE DEF props
  <2>3. j \in JobType
    BY <1>3, <2>2 DEF JobType, props
  <2>4. job' = [job EXCEPT ![a] = j]
    BY <2>1 DEF props
  <2> HIDE DEF j
  <2>5. JobsType'
    BY <1>4, <2>3, <2>4
  <2>6. IndexType'
    BY <1>1, <1>5 DEF ReadProposals, index, IndexType
  <2> QED BY <1>2, <2>5, <2>6, TypeParts
<1>6. CASE job' = [job EXCEPT ![a] = Idle] /\ UNCHANGED index
  <2>1. JobsType'
    BY <1>3, <1>4, <1>6
  <2>2. IndexType'
    BY <1>1, <1>6 DEF index, IndexType
  <2> QED BY <1>2, <2>1, <2>2, TypeParts
<1>7. CASE Audit(a)
  <2> DEFINE pc == IF Agrees(a) THEN "idle" ELSE "mismatch"
             j == [Idle EXCEPT !.pc = pc]
  <2>1. job' = [job EXCEPT ![a] = j]
    BY <1>7 DEF Audit
  <2>2. pc \in {"idle", "mismatch"}
    OBVIOUS
  <2> HIDE DEF pc
  <2>3. j \in JobType
    BY <1>3, <2>2 DEF JobType
  <2> HIDE DEF j
  <2>4. JobsType'
    BY <1>4, <2>1, <2>3
  <2>5. IndexType'
    BY <1>1, <1>7 DEF Audit, index, IndexType
  <2> QED BY <1>2, <2>4, <2>5, TypeParts
<1>8. CASE Apply(a) /\ Accepted(job[a].props, row, local, job[a].of)
  <2> DEFINE was == job[a]
             post == Applied(row, was.props, was.of)
             n == Cardinality(Assigned(post, local, was.of))
             j == [was EXCEPT !.pc = "audit", !.wrote = n]
  <2>1. /\ row' = post /\ UNCHANGED local /\ job' = [job EXCEPT ![a] = j]
        /\ was \in JobType
    BY <1>1, <1>8 DEF Apply, JobsType
  <2>2. was.props \in Seq(Proposal) /\ was.of \in Session
    BY <2>1 DEF JobType
  <2>3. n \in Nat
    <3>1. Assigned(post, local, was.of) \subseteq Sample
      BY <1>1 DEF Assigned, IndexType
    <3>2. IsFiniteSet(Assigned(post, local, was.of))
      BY <3>1, FamiliesAssumption, FS_Subset
    <3> QED BY <3>2, FS_CardinalityType
  <2>4. post \in [Sample -> Label \cup {NoFamily}]
    <3>1. ASSUME NEW r \in Sample PROVE post[r] \in Label \cup {NoFamily}
      <4>1. CASE \E i \in DOMAIN was.props : r \in was.props[i].rows
        <5> DEFINE i == CHOOSE i \in DOMAIN was.props : r \in was.props[i].rows
        <5>1. i \in DOMAIN was.props
          BY <4>1
        <5>2. was.props[i] \in Proposal
          BY <2>2, <5>1, ElementOfSeq, LenProperties
        <5>3. post[r] = [family |-> was.props[i].family,
                         markers |-> was.props[i].markers, session |-> was.of]
          BY <4>1 DEF Applied
        <5> HIDE DEF i, post
        <5> QED BY <2>2, <5>2, <5>3 DEF Proposal, Label
      <4>2. CASE ~ \E i \in DOMAIN was.props : r \in was.props[i].rows
        <5>1. post[r] = row[r]
          BY <4>2 DEF Applied
        <5> QED BY <1>1, <5>1 DEF IndexType
      <4> QED BY <4>1, <4>2
    <3>2. post = [r \in Sample |-> post[r]]
      BY DEF Applied
    <3> HIDE DEF post
    <3> QED BY <3>1, <3>2
  <2> HIDE DEF n, post, was
  <2>5. j \in JobType
    BY <2>1, <2>3 DEF JobType
  <2> HIDE DEF j
  <2>6. JobsType' /\ IndexType'
    BY <1>1, <1>4, <2>1, <2>4, <2>5 DEF IndexType
  <2> QED BY <1>2, <2>6, TypeParts
<1> QED BY <1>5, <1>6, <1>7, <1>8 DEF Assign, Apply, Investigated, Dies, index

\* review-app.py and assign-family.py: in particular no file of the session gets
\* ahead of memory, so that a server started again serves what it answered for.
THEOREM FamiliesTypeCorrect == Spec => []TypeOK
<1>1. Init => TypeOK
  <2> SUFFICES ASSUME Init PROVE TypeOK
    OBVIOUS
  <2>1. Home \in TabType /\ Home.pc = "shown"
    BY HomeType
  <2>2. TabsType
    <3>1. tab \in [Tab -> TabType] /\ \A b \in Tab : tab[b].pc = "shown"
      BY <2>1 DEF Init
    <3> QED BY <3>1 DEF TabsType, TabAhead
  <2>3. Idle \in JobType
    BY FamiliesAssumption DEF Idle, JobType, Session
  <2>4. JobsType
    BY <2>3 DEF Init, JobsType
  <2>5. MemoryType
    <3>1. <<>> \in Seq(Proposal) /\ Len(<<>>) = 0
      BY EmptySeq
    <3> QED BY <3>1, FamiliesAssumption DEF Init, MemoryType
  <2>6. IndexType
    BY DEF Init, IndexType
  <2> QED BY <2>2, <2>4, <2>5, <2>6, TypeParts
<1>2. TypeOK /\ [Next]_vars => TypeOK'
  <2> SUFFICES ASSUME TypeOK, [Next]_vars PROVE TypeOK'
    OBVIOUS
  <2>1. CASE UNCHANGED vars
    BY <2>1 DEF vars, index, server, TypeOK
  <2>2. CASE \E b \in Tab : Request(b)
    BY <2>2, RequestType
  <2>3. CASE Restart
    BY <2>3, RestartType
  <2>4. CASE \E a \in Applier : Assign(a)
    BY <2>4, AssignType
  <2>5. CASE \E s \in Sample : Publish(s)
    <3>1. local' \in SUBSET Sample /\ UNCHANGED <<row, found, server, job>>
      BY <2>5 DEF Publish, TypeOK
    <3>2. IndexType' /\ MemoryType' /\ TabsType' /\ JobsType'
      BY <3>1, TypeParts DEF IndexType, MemoryType, TabsType, JobsType, server
    <3> QED BY <3>2, TypeParts
  <2>6. CASE CollectionChanges
    <3>1. found' \in Collections /\ UNCHANGED <<index, server, job>>
      BY <2>6 DEF CollectionChanges
    <3>2. IndexType' /\ MemoryType' /\ TabsType' /\ JobsType'
      BY <3>1, TypeParts
         DEF IndexType, MemoryType, TabsType, JobsType, server, index
    <3> QED BY <3>2, TypeParts
  <2> QED BY <2>1, <2>2, <2>3, <2>4, <2>5, <2>6 DEF Next
<1> QED BY <1>1, <1>2, PTL DEF Spec

---------------------------------------------------------------------------
(* What an accepted session does to the rows.                              *)

\* Only an accepted session changes a row, and only its own rows, each by the
\* one decision that names it.
Given(a) ==
  LET j == job[a] IN
  /\ Accepted(j.props, row, local, j.of) /\ UNCHANGED local
  /\ row' = Applied(row, j.props, j.of)
  /\ j.props \in Seq(Proposal) /\ j.of \in Session

LEMMA RowsChange ==
  ASSUME TypeOK, [Next]_vars, row' # row
  PROVE  \E a \in Applier : Given(a)
<1>1. \E a \in Applier : Apply(a) /\ Accepted(job[a].props, row, local, job[a].of)
  BY DEF Next, vars, index, server, Request, Assign, Open, Skip, Record, SaveTake,
         SavePut, LogPut, Render, Answer, Restart, ReadProposals, Apply, Audit,
         Investigated, Dies, Publish, CollectionChanges
<1>2. PICK a \in Applier : Apply(a) /\ Accepted(job[a].props, row, local, job[a].of)
  BY <1>1
<1>3. job[a] \in JobType
  BY TypeParts DEF JobsType
<1>4. job[a].props \in Seq(Proposal) /\ job[a].of \in Session
  BY <1>3 DEF JobType
<1> QED BY <1>2, <1>4 DEF Apply, Given

LabelOf(p, s) == [family |-> p.family, markers |-> p.markers, session |-> s]

LEMMA AppliedRows ==
  ASSUME TypeOK, NEW a \in Applier, Given(a), NEW r \in Sample
  PROVE  LET props == job[a].props IN
         /\ \A i \in DOMAIN props :
              r \in props[i].rows => /\ row[r] = NoFamily /\ r \in local
                                    /\ row'[r] = LabelOf(props[i], job[a].of)
                                    /\ row'[r] \in Label /\ row'[r] # NoFamily
         /\ (\A i \in DOMAIN props : r \notin props[i].rows) => row'[r] = row[r]
<1> DEFINE props == job[a].props
           s == job[a].of
<1>1. /\ Mine(props, row, local) /\ row' = Applied(row, props, s)
      /\ props \in Seq(Proposal) /\ s \in Session
  BY DEF Given, Accepted
<1> HIDE DEF props, s
<1>2. ASSUME NEW i \in DOMAIN props, r \in props[i].rows
      PROVE  /\ row[r] = NoFamily /\ r \in local
             /\ row'[r] = LabelOf(props[i], s)
             /\ row'[r] \in Label /\ row'[r] # NoFamily
  <2>1. r \in Population(row, local)
    BY <1>1, <1>2 DEF Mine, Decided
  <2>2. ASSUME NEW k \in DOMAIN props, r \in props[k].rows PROVE k = i
    BY <1>1, <1>2, <2>2 DEF Mine
  <2>3. (CHOOSE k \in DOMAIN props : r \in props[k].rows) = i
    BY <1>2, <2>2
  <2>4. row'[r] = LabelOf(props[i], s)
    BY <1>1, <1>2, <2>3 DEF Applied, LabelOf
  <2>5. props[i] \in Proposal
    BY <1>1, ElementOfSeq, LenProperties
  <2>6. LabelOf(props[i], s) \in Label
    BY <1>1, <2>5 DEF LabelOf, Label, Proposal
  <2> QED BY <2>1, <2>4, <2>6, FamiliesAssumption DEF Population
<1>3. ASSUME \A i \in DOMAIN props : r \notin props[i].rows PROVE row'[r] = row[r]
  BY <1>1, <1>3 DEF Applied
<1> QED BY <1>2, <1>3 DEF props, s

LEMMA LabelsAreKept ==
  ASSUME TypeOK, [Next]_vars, NEW r \in Sample, row[r] # NoFamily
  PROVE  row'[r] = row[r]
<1>1. CASE row' = row
  BY <1>1
<1>2. CASE row' # row
  <2>1. PICK a \in Applier : Given(a)
    BY <1>2, RowsChange
  <2> QED BY <2>1, AppliedRows
<1> QED BY <1>1, <1>2

\* assign-family.py: "A writer that could relabel an already-familied row is a
\* writer that can quietly rewrite the census".
THEOREM NobodyIsRelabelled == Spec => NobodyRelabels
<1>1. TypeOK /\ [Next]_vars
        => [\A s \in Sample : row[s] # NoFamily => row'[s] = row[s]]_vars
  BY LabelsAreKept
<1> QED BY <1>1, FamiliesTypeCorrect, PTL DEF Spec, NobodyRelabels

---------------------------------------------------------------------------
(* The evidence of a label.                                                *)

\* The samples given the label of s in this step in which m is read.
Sharing(s, m) ==
  {t \in Sample : row'[t] = row'[s] /\ row'[t] # row[t] /\ m \in Literals(found, t)}

LEMMA MoreShare ==
  ASSUME NEW S, S \subseteq Sample, NEW T, T \subseteq Sample, S \subseteq T,
         Cardinality(S) >= 2
  PROVE  Cardinality(T) >= 2
<1>1. IsFiniteSet(S) /\ IsFiniteSet(T)
  BY FamiliesAssumption, FS_Subset
<1>2. /\ Cardinality(S) <= Cardinality(T)
      /\ Cardinality(S) \in Nat /\ Cardinality(T) \in Nat
  BY <1>1, FS_Subset, FS_CardinalityType
<1> QED BY <1>2

LEMMA EvidenceStep ==
  ASSUME TypeOK, [Next]_vars, NEW s \in Sample, row'[s] # row[s]
  PROVE  /\ Literals(found, s) \cap row'[s].markers # {}
         /\ \A m \in row'[s].markers : Cardinality(Sharing(s, m)) >= 2
<1>1. PICK a \in Applier : Given(a)
  BY RowsChange
<1> DEFINE props == job[a].props
<1>2. PICK i \in DOMAIN props : s \in props[i].rows
  BY <1>1, AppliedRows
<1> DEFINE p == props[i]
<1>3. row'[s] = LabelOf(p, job[a].of) /\ row'[s].markers = p.markers
  BY <1>1, <1>2, AppliedRows DEF LabelOf
<1>4. Evidenced(p.rows, p.markers)
  BY <1>1, <1>2 DEF Given, Accepted
<1>5. p.rows \subseteq Sample
  BY <1>1, <1>2, TypeOK DEF Given, Accepted, Mine, Decided, Population, TypeOK
<1>6. ASSUME NEW m, NEW t \in Carrying(found, p.rows, m) PROVE t \in Sharing(s, m)
  <2>1. t \in Sample /\ t \in p.rows /\ m \in Literals(found, t)
    BY <1>5, <1>6 DEF Carrying
  <2>2. row'[t] = LabelOf(p, job[a].of) /\ row[t] = NoFamily /\ row'[t] # NoFamily
    BY <1>1, <1>2, <2>1, AppliedRows
  <2> QED BY <1>3, <2>1, <2>2 DEF Sharing
<1>7. ASSUME NEW m \in p.markers PROVE Cardinality(Sharing(s, m)) >= 2
  <2>1. Carrying(found, p.rows, m) \subseteq Sample /\ Sharing(s, m) \subseteq Sample
    BY <1>5 DEF Carrying, Sharing
  <2>2. Cardinality(Carrying(found, p.rows, m)) >= 2
    BY <1>4, <1>7 DEF Evidenced
  <2> QED BY <1>6, <2>1, <2>2, MoreShare
<1>8. Literals(found, s) \cap p.markers # {}
  BY <1>2, <1>4 DEF Evidenced
<1> QED BY <1>3, <1>7, <1>8

\* verify_markers inside the lock: whatever the review saw, and whatever files
\* come and go in the collection, a label is given on what is read when it is
\* given.
THEOREM LabelsAreReadNotTrusted == Spec => LabelsRestOnWhatIsRead
<1>1. TypeOK /\ [Next]_vars
        => [\A s \in Sample : row'[s] # row[s] =>
              /\ Literals(found, s) \cap row'[s].markers # {}
              /\ \A m \in row'[s].markers :
                   Cardinality({t \in Sample : /\ row'[t] = row'[s] /\ row'[t] # row[t]
                                               /\ m \in Literals(found, t)}) >= 2]_vars
  BY EvidenceStep DEF Sharing
<1> QED BY <1>1, FamiliesTypeCorrect, PTL DEF Spec, LabelsRestOnWhatIsRead

---------------------------------------------------------------------------
(* A session is not the rule sets under other names.                       *)

\* x and y are why session s is not: the scanner says the same of both.
Parted(labels, s, x, y) ==
  /\ x \in Assigned(labels, Sample, s) /\ y \in Sample /\ SameKey(x, y)
  /\ y \notin Assigned(labels, Sample, s) \/ labels[y].family # labels[x].family

LEMMA PartedStep ==
  ASSUME TypeOK, NoSessionRenamesTheRules, [Next]_vars
  PROVE  NoSessionRenamesTheRules'
<1>1. CASE row' = row
  BY <1>1 DEF NoSessionRenamesTheRules, Assigned
<1>2. CASE row' # row
  <2>1. PICK a \in Applier : Given(a)
    BY <1>2, RowsChange
  <2> DEFINE props == job[a].props
             of == job[a].of
  <2>2. ASSUME NEW s \in Session, Assigned(row', Sample, s) # {}
        PROVE  \E x, y \in Sample : Parted(row', s, x, y)
    <3>1. CASE s = of
      <4>1. PICK f \in Families(props) :
              ~Determined(Named(props, f), Population(row, local))
        BY <2>1 DEF Given, Accepted
      <4>2. PICK x \in Named(props, f) :
              ~({t \in Population(row, local) : SameKey(x, t)} \subseteq Named(props, f))
        BY <4>1 DEF Determined
      <4>3. PICK y \in Population(row, local) : SameKey(x, y) /\ y \notin Named(props, f)
        BY <4>2
      <4>4. PICK i \in DOMAIN props : props[i].family = f /\ x \in props[i].rows
        BY <4>2 DEF Named
      <4>5. x \in Sample /\ y \in Sample
        <5>1. local \subseteq Sample /\ Mine(props, row, local)
          BY <2>1 DEF TypeOK, Given, Accepted
        <5> QED BY <4>3, <4>4, <5>1 DEF Mine, Decided, Population
      <4>6. row'[x] = LabelOf(props[i], of) /\ row'[x] # NoFamily
        BY <2>1, <4>4, <4>5, AppliedRows
      <4>7. x \in Assigned(row', Sample, s) /\ row'[x].family = f
        BY <3>1, <4>4, <4>5, <4>6 DEF Assigned, LabelOf
      <4>8. y \notin Assigned(row', Sample, s) \/ row'[y].family # f
        <5>1. CASE \A k \in DOMAIN props : y \notin props[k].rows
          <6>1. row'[y] = row[y] /\ row[y] = NoFamily
            BY <2>1, <4>3, <4>5, <5>1, AppliedRows DEF Population
          <6> QED BY <6>1 DEF Assigned
        <5>2. CASE \E k \in DOMAIN props : y \in props[k].rows
          <6>1. PICK k \in DOMAIN props : y \in props[k].rows
            BY <5>2
          <6>2. row'[y] = LabelOf(props[k], of)
            BY <2>1, <4>5, <6>1, AppliedRows
          <6>3. props[k].family # f
            BY <4>3, <6>1 DEF Named
          <6> QED BY <6>2, <6>3 DEF LabelOf
        <5> QED BY <5>1, <5>2
      <4> QED BY <4>3, <4>5, <4>7, <4>8 DEF Parted
    <3>2. CASE s # of
      <4>1. ASSUME NEW r \in Sample
            PROVE  r \in Assigned(row', Sample, s) <=> r \in Assigned(row, Sample, s)
        <5>1. CASE \A k \in DOMAIN props : r \notin props[k].rows
          <6>1. row'[r] = row[r]
            BY <2>1, <5>1, AppliedRows
          <6> QED BY <6>1 DEF Assigned
        <5>2. CASE \E k \in DOMAIN props : r \in props[k].rows
          <6>1. PICK k \in DOMAIN props : r \in props[k].rows
            BY <5>2
          <6>2. row[r] = NoFamily /\ row'[r] = LabelOf(props[k], of)
            BY <2>1, <6>1, AppliedRows
          <6> QED BY <3>2, <6>2 DEF Assigned, LabelOf
        <5> QED BY <5>1, <5>2
      <4>2. Assigned(row', Sample, s) = Assigned(row, Sample, s)
        BY <4>1 DEF Assigned
      <4>3. PICK x \in Assigned(row, Sample, s), y \in Sample : Parted(row, s, x, y)
        BY <2>2, <4>2 DEF NoSessionRenamesTheRules, Parted
      <4>4. ASSUME NEW r \in Assigned(row, Sample, s) PROVE row'[r] = row[r] /\ r \in Sample
        BY LabelsAreKept DEF Assigned
      <4>5. row'[x] = row[x] /\ x \in Sample
        BY <4>4
      <4>6. y \in Assigned(row, Sample, s) => row'[y] = row[y]
        BY <4>4
      <4> QED BY <4>2, <4>3, <4>5, <4>6 DEF Parted
    <3> QED BY <3>1, <3>2
  <2> QED BY <2>2 DEF NoSessionRenamesTheRules, Parted
<1> QED BY <1>1, <1>2

\* ruleset_determined through validate: a session that only gave the scanner's
\* rule sets other names is never recorded.
THEOREM SessionsAreNotRuleSets == Spec => []NoSessionRenamesTheRules
<1>1. Init => NoSessionRenamesTheRules
  BY DEF Init, NoSessionRenamesTheRules, Assigned
<1> QED BY <1>1, PartedStep, FamiliesTypeCorrect, PTL DEF Spec
=============================================================================
