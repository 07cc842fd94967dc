-------------------------- MODULE GateRecordProofs --------------------------
(***************************************************************************)
(* Proofs about GateRecord.  The invariant that carries them says, beside  *)
(* the properties themselves, what a script that has looked and not yet    *)
(* written may still rely on: that what it measured is what its own code   *)
(* and maps say, whatever has become of the row.                           *)
(***************************************************************************)
EXTENDS GateRecord, TLAPS

USE GateRecordAssumption

---------------------------------------------------------------------------
(* Entries and blocks.                                                     *)

LEMMA RecordedType ==
  ASSUME NEW a \in Answer
  PROVE  /\ Recorded(a) \in Entry
         /\ Agrees(Recorded(a), a)
         /\ Recorded(a).verdict # "absent"
         /\ ~Decided(Recorded(a))
BY DEF Recorded, Entry, Answer, VerdictOf, Agrees, Decided

LEMMA NoMaskingType == NoMasking \in Masking
BY DEF NoMasking, Masking, Absent, Entry, Version, NoStamp

LEMMA SaysType ==
  ASSUME NEW v \in Version, NEW g \in StampedGate
  PROVE  Says[v][g] \in Answer
OBVIOUS

LEMMA StampedIsGate == StampedGate \subseteq Gate /\ "secret_gate" \in StampedGate
BY DEF StampedGate, Gate

\* What a masking run writes was measured by the version it had loaded, and
\* says nothing of any decision.
LEMMA ProcessedType ==
  ASSUME NEW by \in Version, NEW parity \in Answer, disk \in Version
  PROVE  LET m == Processed(by, parity) IN
         /\ m \in Masking /\ m.stamp = disk
         /\ AllAgree(m, by)
         /\ \A g \in StampedGate : m.gate[g] = Recorded(Says[by][g])
         /\ m.adjudicated = {} /\ ~m.kept
         /\ \A g \in Gate : Has(m, g)
<1> DEFINE gates == [g \in Gate |-> Recorded(IF g \in StampedGate THEN Says[by][g]
                                             ELSE parity)]
           m == Processed(by, parity)
<1>1. \A g \in Gate : (IF g \in StampedGate THEN Says[by][g] ELSE parity) \in Answer
  BY SaysType
<1>2. gates \in [Gate -> Entry]
  BY <1>1, RecordedType
<1>3. /\ m = [NoMasking EXCEPT !.applied = TRUE, !.gate = gates, !.stamp = disk]
      /\ m.applied /\ ~m.notApplicable /\ ~m.legacy /\ m.gate = gates
      /\ m.stamp = disk /\ m.adjudicated = {} /\ ~m.kept
  BY DEF Processed, NoMasking
<1>4. m \in Masking
  <2> HIDE DEF gates
  <2> QED BY <1>2, <1>3, NoMaskingType DEF Masking
<1>5. AllAgree(m, by)
  BY <1>3, RecordedType, SaysType, StampedIsGate DEF AllAgree
<1>6. \A g \in Gate : Has(m, g)
  BY <1>1, <1>3, RecordedType DEF Has
<1>7. \A g \in StampedGate : m.gate[g] = Recorded(Says[by][g])
  BY <1>3, StampedIsGate
<1> QED BY <1>3, <1>4, <1>5, <1>6, <1>7

LEMMA StampedType ==
  ASSUME NEW m \in Masking, NEW v \in Version
  PROVE  LET n == Stamped(m, v) IN
         /\ n \in Masking /\ n.stamp = v
         /\ n.gate = m.gate /\ n.adjudicated = m.adjudicated /\ n.kept = m.kept
BY DEF Stamped, Masking

\* A remeasured block agrees throughout with the version that remeasured it,
\* and no decision was written over.
LEMMA RemeasuredType ==
  ASSUME NEW m \in Masking, NEW by \in Version, NEW v \in Version
  PROVE  LET n == Remeasured(m, by, v) IN
         /\ n \in Masking /\ n.stamp = v
         /\ n.adjudicated = m.adjudicated /\ n.kept = m.kept
         /\ AllAgree(n, by)
         /\ \A g \in Gate : Has(m, g) <=> Has(n, g)
         /\ \A g \in Gate : g \notin Moved(m, by) => n.gate[g] = m.gate[g]
<1> DEFINE gates == [g \in Gate |-> IF g \in Moved(m, by) THEN Recorded(Says[by][g])
                                    ELSE m.gate[g]]
           n == Remeasured(m, by, v)
<1>1. \A g \in Moved(m, by) : g \in StampedGate /\ Has(m, g)
  BY DEF Moved
<1>2. gates \in [Gate -> Entry]
  <2>1. \A g \in Gate : m.gate[g] \in Entry
    BY DEF Masking
  <2> QED BY <1>1, <2>1, SaysType, RecordedType
<1>3. /\ n.gate = gates /\ n.stamp = v /\ n.applied = m.applied
      /\ n.notApplicable = m.notApplicable /\ n.legacy = m.legacy
      /\ n.adjudicated = m.adjudicated /\ n.kept = m.kept
      /\ n \in Masking
  BY <1>2 DEF Remeasured, Masking
<1>4. \A g \in Gate : Has(m, g) <=> Has(n, g)
  BY <1>1, <1>3, SaysType, RecordedType DEF Has
<1>5. AllAgree(n, by)
  <2> SUFFICES ASSUME NEW g \in StampedGate, Has(n, g)
               PROVE  Agrees(n.gate[g], Says[by][g])
    BY DEF AllAgree
  <2>1. CASE g \in Moved(m, by)
    BY <2>1, <1>3, SaysType, RecordedType, StampedIsGate
  <2>2. CASE g \notin Moved(m, by)
    BY <2>2, <1>3, <1>4, StampedIsGate DEF Moved
  <2> QED BY <2>1, <2>2
<1> QED BY <1>3, <1>4, <1>5

LEMMA LiftedType ==
  ASSUME NEW m \in Masking, NEW g \in Liftable(m)
  PROVE  LET n == Lifted(m, g) IN
         /\ n \in Masking /\ n.stamp = m.stamp /\ n.kept = m.kept
         /\ n.adjudicated = {g} /\ g \in StampedGate /\ Has(n, g)
         /\ \A h \in Gate : n.gate[h].verdict = m.gate[h].verdict
         /\ \A h \in Gate : h # g => n.gate[h] = m.gate[h]
         /\ n.gate[g].evidence = "none"
<1> DEFINE n == Lifted(m, g)
<1>1. g \in StampedGate /\ g \in Gate /\ m.gate[g].verdict = "pass"
  BY StampedIsGate DEF Liftable
<1>2. m.gate \in [Gate -> Entry]
  BY DEF Masking
<1> DEFINE e == [m.gate[g] EXCEPT !.evidence = "none"]
           gates == [m.gate EXCEPT ![g] = e]
<1>3. n = [m EXCEPT !.gate = gates, !.adjudicated = {g}]
  BY DEF Lifted
<1>4. e \in Entry /\ e.verdict = "pass" /\ e.evidence = "none"
  BY <1>1, <1>2 DEF Entry
<1>5. gates \in [Gate -> Entry] /\ gates[g] = e /\ \A h \in Gate \ {g} : gates[h] = m.gate[h]
  BY <1>1, <1>2, <1>4
<1> HIDE DEF e, gates
<1>6. /\ n.gate = gates /\ n.adjudicated = {g} /\ n.stamp = m.stamp /\ n.kept = m.kept
      /\ n \in Masking
  <2> DEFINE one == {g}
  <2>1. one \in SUBSET Gate
    BY <1>1
  <2>2. n = [m EXCEPT !.gate = gates, !.adjudicated = one]
    BY <1>3
  <2> HIDE DEF one, n
  <2>3. /\ n.gate = gates /\ n.adjudicated = one /\ n.stamp = m.stamp /\ n.kept = m.kept
        /\ n \in Masking
    BY <1>5, <2>1, <2>2 DEF Masking
  <2> QED BY <2>3 DEF one
<1> QED BY <1>1, <1>2, <1>4, <1>5, <1>6 DEF Has

LEMMA KeptType ==
  ASSUME NEW m \in Masking, NEW j \in Job
  PROVE  LET n == Kept(m, j) IN
         /\ n \in Masking /\ n.stamp = j.stamp /\ n.kept
         /\ n.adjudicated = m.adjudicated
         /\ n.gate["secret_gate"] = Recorded(Says[j.by]["secret_gate"])
         /\ \A h \in Gate : h # "secret_gate" => n.gate[h] = m.gate[h]
<1> DEFINE n == Kept(m, j)
           e == Recorded(Says[j.by]["secret_gate"])
           gates == [m.gate EXCEPT !["secret_gate"] = e]
<1>1. m.gate \in [Gate -> Entry] /\ "secret_gate" \in Gate
  BY StampedIsGate DEF Masking
<1>2. j.by \in Version /\ j.stamp \in Version
  BY DEF Job
<1>3. e \in Entry
  BY <1>2, SaysType, RecordedType, StampedIsGate
<1>4. n = [m EXCEPT !.gate = gates, !.kept = TRUE, !.stamp = j.stamp]
  BY DEF Kept
<1>5. /\ gates \in [Gate -> Entry] /\ gates["secret_gate"] = e
      /\ \A h \in Gate \ {"secret_gate"} : gates[h] = m.gate[h]
  BY <1>1, <1>3
<1> HIDE DEF e, gates
<1>6. /\ n.gate = gates /\ n.kept /\ n.stamp = j.stamp /\ n.adjudicated = m.adjudicated
      /\ n \in Masking
  BY <1>2, <1>4, <1>5 DEF Masking
<1> QED BY <1>5, <1>6 DEF e

---------------------------------------------------------------------------
(* The invariant.                                                          *)

\* A block without a result for a gate has no evidence for it either.
WellFormed(m) == \A g \in Gate : ~Has(m, g) => m.gate[g].evidence = "none"

\* While no muddied run has written, what a stamped row records is what the
\* version in the stamp says: no property of the scripts, which do write others,
\* but what publication rests on when they have not.
StampIsTrue ==
  ~muddied /\ row.masking.stamp # NoStamp
    => AllAgree(row.masking, row.masking.stamp)

\* What a script that has looked is holding.
JobOK(j) ==
  /\ j.script \in {"mask-samples", "verify-and-stamp", "restamp"}
       => AllAgree(j.masking, j.by)
  /\ j.script = "mask-samples" =>
       /\ j.masking.stamp = j.stamp /\ WellFormed(j.masking)
       /\ \A g \in StampedGate : j.masking.gate[g] = Recorded(Says[j.by][g])
       /\ AdjudicationIsAuditable(j.masking) /\ KeepIsAuditable(j.masking)
  /\ j.script = "mark-not-maskable" => j.masking = Marked

IInv ==
  /\ TypeOK
  /\ StampIsTrue
  /\ SignedFindingIsReal
  /\ DecisionsStayAuditable
  /\ WellFormed(row.masking)
  /\ \A p \in Run : JobOK(job[p])

LEMMA AtRestOK == AtRest \in Job /\ JobOK(AtRest)
<1>1. First \in Version
  BY DEF First, Version
<1>2. AtRest \in Job
  BY <1>1, NoMaskingType, StampedIsGate DEF AtRest, Job
<1>3. JobOK(AtRest)
  BY DEF AtRest, JobOK
<1> QED BY <1>2, <1>3

LEMMA RowFields ==
  ASSUME NEW m \in Masking, row \in Row
  PROVE  /\ With(m) \in Row /\ With(m).masking = m
         /\ With(m).clearances = row.clearances /\ With(m).tags = row.tags
         /\ With(m).publishable = row.publishable
         /\ row.masking \in Masking
BY DEF With, Row

\* A script that leaves with the row as it was.
LEMMA LeavingKeeps ==
  ASSUME IInv, NEW p \in Run, Refuses(p)
  PROVE  IInv'
<1>1. job' = [job EXCEPT ![p] = AtRest] /\ UNCHANGED <<row, disk, runs, muddied>>
  BY DEF Refuses, Leave
<1>2. TypeOK'
  BY <1>1, AtRestOK DEF IInv, TypeOK
<1>3. \A q \in Run : JobOK(job'[q])
  BY <1>1, AtRestOK DEF IInv, TypeOK
<1> QED BY <1>1, <1>2, <1>3 DEF IInv, StampIsTrue, SignedFindingIsReal, DecisionsStayAuditable

\* A script that writes a block which is in order.
LEMMA WritingABlock ==
  ASSUME IInv, NEW p \in Run, NEW m \in Masking, Writes(p, With(m)),
         muddied' \in BOOLEAN, muddied => muddied',
         ~muddied' /\ m.stamp # NoStamp => AllAgree(m, m.stamp),
         AdjudicationIsAuditable(m), KeepIsAuditable(m), WellFormed(m)
  PROVE  IInv'
<1>1. /\ row' = With(m) /\ job' = [job EXCEPT ![p] = AtRest]
      /\ UNCHANGED <<disk, runs>>
  BY DEF Writes, Leave
<1>2. /\ row' \in Row /\ row'.masking = m /\ row'.clearances = row.clearances
  BY <1>1, RowFields DEF IInv, TypeOK
<1>3. TypeOK'
  BY <1>1, <1>2, AtRestOK DEF IInv, TypeOK
<1>4. \A q \in Run : JobOK(job'[q])
  BY <1>1, AtRestOK DEF IInv, TypeOK
<1>5. StampIsTrue' /\ DecisionsStayAuditable' /\ WellFormed(row.masking)'
  BY <1>2 DEF StampIsTrue, DecisionsStayAuditable
<1>6. SignedFindingIsReal'
  BY <1>2 DEF IInv, SignedFindingIsReal
<1> QED BY <1>3, <1>4, <1>5, <1>6 DEF IInv

\* A script that changes the clearances and nothing else.
LEMMA WritingClearances ==
  ASSUME IInv, NEW p \in Run, NEW cs \in SUBSET Clearance,
         Writes(p, [row EXCEPT !.clearances = cs]), UNCHANGED muddied,
         ~muddied => \A c \in cs : c.gate \in StampedGate /\ c.pin # NoStamp
                                     => Agrees(c.finding, Says[c.pin][c.gate])
  PROVE  IInv'
<1>1. /\ row' = [row EXCEPT !.clearances = cs] /\ job' = [job EXCEPT ![p] = AtRest]
      /\ UNCHANGED <<disk, runs>>
  BY DEF Writes, Leave
<1>2. row' \in Row /\ row'.masking = row.masking /\ row'.clearances = cs
  BY <1>1 DEF IInv, TypeOK, Row
<1>3. TypeOK'
  BY <1>1, <1>2, AtRestOK DEF IInv, TypeOK
<1>4. \A q \in Run : JobOK(job'[q])
  BY <1>1, AtRestOK DEF IInv, TypeOK
<1>5. StampIsTrue' /\ DecisionsStayAuditable' /\ WellFormed(row.masking)'
  BY <1>2 DEF IInv, StampIsTrue, DecisionsStayAuditable
<1>6. SignedFindingIsReal'
  BY <1>2 DEF SignedFindingIsReal
<1> QED BY <1>3, <1>4, <1>5, <1>6 DEF IInv

\* A script that starts, holding what is in order.
LEMMA Starting ==
  ASSUME IInv, NEW p \in Run, NEW script \in Script, NEW g \in Gate,
         NEW by \in Version, NEW m \in Masking, Start(p, script, g, by, m),
         JobOK([script |-> script, gate |-> g, by |-> by, stamp |-> disk, masking |-> m])
  PROVE  IInv'
<1> DEFINE j == [script |-> script, gate |-> g, by |-> by, stamp |-> disk, masking |-> m]
<1>1. /\ job' = [job EXCEPT ![p] = j] /\ runs < MaxRuns /\ runs' = runs + 1
      /\ UNCHANGED <<row, disk, muddied>>
  BY DEF Start
<1>2. j \in Job
  BY DEF IInv, TypeOK, Job
<1>3. JobOK(j)
  OBVIOUS
<1> HIDE DEF j
<1>4. TypeOK'
  BY <1>1, <1>2 DEF IInv, TypeOK
<1>5. \A q \in Run : JobOK(job'[q])
  BY <1>1, <1>3 DEF IInv, TypeOK
<1> QED BY <1>1, <1>4, <1>5 DEF IInv, StampIsTrue, SignedFindingIsReal, DecisionsStayAuditable

LEMMA MarkedType == Marked \in Masking /\ Marked.stamp = NoStamp
BY NoMaskingType DEF Marked, NoMasking, Masking

LEMMA LookingKeeps ==
  ASSUME IInv, NEW p \in Run, Look(p)
  PROVE  IInv'
<1>1. row.masking \in Masking /\ disk \in Version
  BY DEF IInv, TypeOK, Row
<1>2. Loaded \subseteq Version
  BY DEF Loaded
<1>3. \A g \in StampedGate : g \in Gate
  BY StampedIsGate
<1>4. "secret_gate" \in Gate /\ "detection_survived" \in Gate
  BY StampedIsGate DEF Gate
<1>a. CASE MaskLook(p)
  <2>1. PICK by \in Loaded, parity \in Answer :
          Start(p, "mask-samples", "detection_survived", by, Processed(by, parity))
    BY <1>a DEF MaskLook
  <2>2. by \in Version
    BY <1>2
  <2> DEFINE m == Processed(by, parity)
  <2>3. /\ m \in Masking /\ m.stamp = disk /\ AllAgree(m, by)
        /\ \A g \in StampedGate : m.gate[g] = Recorded(Says[by][g])
        /\ m.adjudicated = {} /\ ~m.kept /\ \A g \in Gate : Has(m, g)
    BY <2>2, <1>1, ProcessedType
  <2> HIDE DEF m
  <2>4. WellFormed(m) /\ AdjudicationIsAuditable(m) /\ KeepIsAuditable(m)
    BY <2>3 DEF WellFormed, AdjudicationIsAuditable, KeepIsAuditable
  <2>5. JobOK([script |-> "mask-samples", gate |-> "detection_survived", by |-> by,
               stamp |-> disk, masking |-> m])
    BY <2>3, <2>4 DEF JobOK
  <2>6. Start(p, "mask-samples", "detection_survived", by, m)
    BY <2>1 DEF m
  <2>7. "mask-samples" \in Script
    BY DEF Script
  <2> QED BY <2>2, <2>3, <2>5, <2>6, <2>7, <1>4, Starting
<1>b. CASE StampLook(p)
  <2>1. PICK by \in Loaded, script \in {"verify-and-stamp", "restamp"} :
          /\ AllAgree(row.masking, by)
          /\ Start(p, script, "secret_gate", by, row.masking)
    BY <1>b DEF StampLook
  <2>2. by \in Version /\ script \in Script
    BY <1>2 DEF Script
  <2>3. JobOK([script |-> script, gate |-> "secret_gate", by |-> by,
               stamp |-> disk, masking |-> row.masking])
    BY <2>1 DEF JobOK
  <2> QED BY <2>1, <2>2, <2>3, <1>1, <1>4, Starting
<1>c. CASE RemeasureLook(p)
  <2>1. PICK by \in Loaded : Start(p, "remeasure-gates", "secret_gate", by, row.masking)
    BY <1>c DEF RemeasureLook
  <2>2. by \in Version /\ "remeasure-gates" \in Script
    BY <1>2 DEF Script
  <2>3. JobOK([script |-> "remeasure-gates", gate |-> "secret_gate", by |-> by,
               stamp |-> disk, masking |-> row.masking])
    BY DEF JobOK
  <2> QED BY <2>1, <2>2, <2>3, <1>1, <1>4, Starting
<1>d. CASE ClearLook(p)
  <2>1. PICK g \in Gate : Start(p, "clear-finding", g, disk, row.masking)
    BY <1>d DEF ClearLook
  <2>2. "clear-finding" \in Script
    BY DEF Script
  <2>3. JobOK([script |-> "clear-finding", gate |-> g, by |-> disk,
               stamp |-> disk, masking |-> row.masking])
    BY DEF JobOK
  <2> QED BY <2>1, <2>2, <2>3, <1>1, Starting
<1>e. CASE BackfillLook(p)
  <2>1. Start(p, "backfill", "secret_gate", disk, row.masking) /\ "backfill" \in Script
    BY <1>e DEF BackfillLook, Script
  <2>2. JobOK([script |-> "backfill", gate |-> "secret_gate", by |-> disk,
               stamp |-> disk, masking |-> row.masking])
    BY DEF JobOK
  <2> QED BY <2>1, <2>2, <1>1, <1>4, Starting
<1>f. CASE LiftLook(p)
  <2>1. /\ Start(p, "lift-adjudication", "secret_gate", disk, row.masking)
        /\ "lift-adjudication" \in Script
    BY <1>f DEF LiftLook, Script
  <2>2. JobOK([script |-> "lift-adjudication", gate |-> "secret_gate", by |-> disk,
               stamp |-> disk, masking |-> row.masking])
    BY DEF JobOK
  <2> QED BY <2>1, <2>2, <1>1, <1>4, Starting
<1>g. CASE MarkLook(p)
  <2>1. /\ Start(p, "mark-not-maskable", "secret_gate", disk, Marked)
        /\ "mark-not-maskable" \in Script
    BY <1>g DEF MarkLook, Script
  <2>2. JobOK([script |-> "mark-not-maskable", gate |-> "secret_gate", by |-> disk,
               stamp |-> disk, masking |-> Marked])
    BY DEF JobOK
  <2> QED BY <2>1, <2>2, <1>1, <1>4, MarkedType, Starting
<1>h. CASE LegacyLook(p)
  <2>1. /\ Start(p, "stamp-legacy", "secret_gate", disk, row.masking)
        /\ "stamp-legacy" \in Script
    BY <1>h DEF LegacyLook, Script
  <2>2. JobOK([script |-> "stamp-legacy", gate |-> "secret_gate", by |-> disk,
               stamp |-> disk, masking |-> row.masking])
    BY DEF JobOK
  <2> QED BY <2>1, <2>2, <1>1, <1>4, Starting
<1>i. CASE KeepLook(p)
  <2>1. PICK by \in Loaded : Start(p, "keep-credential", "secret_gate", by, row.masking)
    BY <1>i DEF KeepLook
  <2>2. by \in Version /\ "keep-credential" \in Script
    BY <1>2 DEF Script
  <2>3. JobOK([script |-> "keep-credential", gate |-> "secret_gate", by |-> by,
               stamp |-> disk, masking |-> row.masking])
    BY DEF JobOK
  <2> QED BY <2>1, <2>2, <2>3, <1>1, <1>4, Starting
<1> QED BY <1>a, <1>b, <1>c, <1>d, <1>e, <1>f, <1>g, <1>h, <1>i DEF Look

LEMMA JobFacts ==
  ASSUME IInv, NEW p \in Run
  PROVE  /\ job[p] \in Job /\ JobOK(job[p])
         /\ job[p].masking \in Masking /\ job[p].by \in Version
         /\ job[p].stamp \in Version /\ job[p].gate \in Gate
         /\ job[p].stamp # NoStamp
         /\ row.masking \in Masking /\ disk \in Version /\ row \in Row
         /\ muddied \in BOOLEAN
<1>1. \A v \in Version : v # NoStamp
  BY DEF Version, NoStamp
<1> QED BY <1>1 DEF IInv, TypeOK, Job, Row

LEMMA MaskApplyKeeps ==
  ASSUME IInv, NEW p \in Run, MaskApply(p)
  PROVE  IInv'
<1> DEFINE m == job[p].masking
<1>1. /\ job[p].script = "mask-samples" /\ Writes(p, With(m))
      /\ muddied' = (muddied \/ job[p].by # job[p].stamp)
  BY DEF MaskApply, Running
<1>2. /\ AllAgree(m, job[p].by) /\ m.stamp = job[p].stamp /\ WellFormed(m)
      /\ AdjudicationIsAuditable(m) /\ KeepIsAuditable(m)
  BY <1>1, JobFacts DEF JobOK
<1>3. m \in Masking
  BY JobFacts
<1>4. muddied' \in BOOLEAN /\ (muddied => muddied')
  BY <1>1
<1>5. ~muddied' /\ m.stamp # NoStamp => AllAgree(m, m.stamp)
  BY <1>1, <1>2
<1> HIDE DEF m
<1> QED BY <1>1, <1>2, <1>3, <1>4, <1>5, WritingABlock

LEMMA StampApplyKeeps ==
  ASSUME IInv, NEW p \in Run, StampApply(p)
  PROVE  IInv'
<1>1. CASE Refuses(p)
  BY <1>1, LeavingKeeps
<1>2. CASE ~Refuses(p)
  <2> DEFINE m == Stamped(row.masking, job[p].stamp)
  <2>1. /\ job[p].script \in {"verify-and-stamp", "restamp"} /\ Writes(p, With(m))
        /\ muddied' = (muddied \/ job[p].by # job[p].stamp
                               \/ row.masking # job[p].masking)
    BY <1>2 DEF StampApply, Running
  <2>2. /\ m \in Masking /\ m.stamp = job[p].stamp /\ m.gate = row.masking.gate
        /\ m.adjudicated = row.masking.adjudicated /\ m.kept = row.masking.kept
    BY JobFacts, StampedType
  <2>3. ~muddied' => AllAgree(m, m.stamp)
    <3>1. AllAgree(job[p].masking, job[p].by)
      BY <2>1, JobFacts DEF JobOK
    <3> SUFFICES ASSUME ~muddied' PROVE AllAgree(m, m.stamp)
      OBVIOUS
    <3>2. AllAgree(row.masking, m.stamp)
      BY <2>1, <2>2, <3>1
    <3> HIDE DEF m
    <3> QED BY <2>2, <3>2 DEF AllAgree, Has
  <2>4. AdjudicationIsAuditable(m) /\ KeepIsAuditable(m) /\ WellFormed(m)
    BY <2>2 DEF IInv, DecisionsStayAuditable, AdjudicationIsAuditable, KeepIsAuditable,
                WellFormed, Has
  <2>5. muddied' \in BOOLEAN /\ (muddied => muddied')
    BY <2>1
  <2> HIDE DEF m
  <2> QED BY <2>1, <2>2, <2>3, <2>4, <2>5, WritingABlock
<1> QED BY <1>1, <1>2

LEMMA RemeasureApplyKeeps ==
  ASSUME IInv, NEW p \in Run, RemeasureApply(p)
  PROVE  IInv'
<1> DEFINE by == [job[p].by EXCEPT !.map = disk.map]
           m == Remeasured(row.masking, by, job[p].stamp)
<1>1. by \in Version
  BY JobFacts DEF Version
<1>2. CASE Refuses(p)
  BY <1>2, LeavingKeeps
<1>3. CASE ~Refuses(p)
  <2>1. /\ Writes(p, With(m)) /\ muddied' = (muddied \/ by # job[p].stamp)
    BY <1>3 DEF RemeasureApply
  <2>2. /\ m \in Masking /\ m.stamp = job[p].stamp /\ AllAgree(m, by)
        /\ m.adjudicated = row.masking.adjudicated /\ m.kept = row.masking.kept
        /\ \A g \in Gate : Has(row.masking, g) <=> Has(m, g)
        /\ \A g \in Gate : g \notin Moved(row.masking, by) => m.gate[g] = row.masking.gate[g]
    <3>1. row.masking \in Masking /\ job[p].stamp \in Version
      BY JobFacts
    <3> HIDE DEF by
    <3> QED BY <1>1, <3>1, RemeasuredType
  <2>3. \A g \in Moved(row.masking, by) : Has(row.masking, g) /\ g \in Gate
    BY StampedIsGate DEF Moved
  <2> HIDE DEF m, by
  <2>4. AdjudicationIsAuditable(m) /\ KeepIsAuditable(m) /\ WellFormed(m)
    <3>1. /\ row.masking.adjudicated \subseteq Gate
          /\ AdjudicationIsAuditable(row.masking) /\ KeepIsAuditable(row.masking)
          /\ WellFormed(row.masking)
      BY JobFacts DEF IInv, DecisionsStayAuditable, Masking
    <3> QED BY <3>1, <2>2, <2>3, StampedIsGate
            DEF AdjudicationIsAuditable, KeepIsAuditable, WellFormed
  <2>5. muddied' \in BOOLEAN /\ (muddied => muddied') /\ (~muddied' => m.stamp = by)
    BY <2>1, <2>2
  <2> QED BY <2>1, <2>2, <2>4, <2>5, WritingABlock
<1> QED BY <1>2, <1>3

LEMMA ClearApplyKeeps ==
  ASSUME IInv, NEW p \in Run, ClearApply(p)
  PROVE  IInv'
<1> DEFINE g == job[p].gate
           c == Signed(row, g, TRUE)
           cs == row.clearances \cup {c}
<1>1. CASE Refuses(p)
  BY <1>1, LeavingKeeps
<1>2. CASE ~Refuses(p)
  <2>1. /\ Clearable(row, g, job[p].stamp)
        /\ Writes(p, [row EXCEPT !.clearances = cs]) /\ UNCHANGED muddied
    BY <1>2 DEF ClearApply
  <2>2. /\ c \in Clearance /\ c.gate = g /\ c.finding = row.masking.gate[g]
        /\ c.pin = row.masking.stamp
    BY JobFacts DEF Signed, Clearance, Masking
  <2>3. cs \in SUBSET Clearance
    BY <2>2, JobFacts DEF Row
  <2>4. row.masking.stamp # NoStamp /\ Has(row.masking, g)
    BY <2>1, JobFacts DEF Clearable, StampIsCurrent, Has
  <2>5. ~muddied => \A d \in cs : d.gate \in StampedGate /\ d.pin # NoStamp
                                     => Agrees(d.finding, Says[d.pin][d.gate])
    <3> SUFFICES ASSUME ~muddied, NEW d \in cs, d.gate \in StampedGate, d.pin # NoStamp
                 PROVE  Agrees(d.finding, Says[d.pin][d.gate])
      OBVIOUS
    <3>1. CASE d = c
      BY <3>1, <2>2, <2>4 DEF IInv, StampIsTrue, AllAgree
    <3>2. CASE d \in row.clearances
      BY <3>2 DEF IInv, SignedFindingIsReal
    <3> QED BY <3>1, <3>2
  <2> HIDE DEF cs
  <2> QED BY <2>1, <2>3, <2>5, WritingClearances
<1> QED BY <1>1, <1>2

LEMMA BackfillApplyKeeps ==
  ASSUME IInv, NEW p \in Run, BackfillApply(p)
  PROVE  IInv'
<1> DEFINE old == Backfillable(row)
           cs == (row.clearances \ old) \cup {[c EXCEPT !.reasoned = TRUE] : c \in old}
<1>1. Writes(p, [row EXCEPT !.clearances = cs]) /\ UNCHANGED muddied
  BY DEF BackfillApply
<1>2. old \subseteq row.clearances /\ row.clearances \subseteq Clearance
  BY JobFacts DEF Backfillable, Row
<1>3. \A c \in Clearance :
        LET d == [c EXCEPT !.reasoned = TRUE]
        IN d \in Clearance /\ d.gate = c.gate /\ d.pin = c.pin /\ d.finding = c.finding
  BY DEF Clearance
<1> HIDE DEF old
<1>4. cs \in SUBSET Clearance
  BY <1>2, <1>3
<1>5. ~muddied => \A d \in cs : d.gate \in StampedGate /\ d.pin # NoStamp
                                   => Agrees(d.finding, Says[d.pin][d.gate])
  <2> SUFFICES ASSUME ~muddied, NEW d \in cs, d.gate \in StampedGate, d.pin # NoStamp
               PROVE  Agrees(d.finding, Says[d.pin][d.gate])
    OBVIOUS
  <2>1. CASE d \in row.clearances
    BY <2>1 DEF IInv, SignedFindingIsReal
  <2>2. CASE d \in {[c EXCEPT !.reasoned = TRUE] : c \in old}
    <3>1. PICK c \in old : d = [c EXCEPT !.reasoned = TRUE]
      BY <2>2
    <3>2. c \in row.clearances /\ c \in Clearance
      BY <1>2
    <3>3. d.gate = c.gate /\ d.pin = c.pin /\ d.finding = c.finding
      BY <1>3, <3>1, <3>2
    <3> QED BY <3>2, <3>3 DEF IInv, SignedFindingIsReal
  <2> QED BY <2>1, <2>2
<1> HIDE DEF cs
<1> QED BY <1>1, <1>4, <1>5, WritingClearances

LEMMA LiftApplyKeeps ==
  ASSUME IInv, NEW p \in Run, LiftApply(p)
  PROVE  IInv'
<1>1. CASE Refuses(p)
  BY <1>1, LeavingKeeps
<1>2. CASE ~Refuses(p)
  <2> DEFINE old == row.masking
  <2>1. PICK g \in Liftable(old) : Writes(p, With(Lifted(old, g))) /\ UNCHANGED muddied
    BY <1>2 DEF LiftApply
  <2> DEFINE m == Lifted(old, g)
  <2>2. /\ m \in Masking /\ m.stamp = old.stamp /\ m.kept = old.kept
        /\ m.adjudicated = {g} /\ g \in StampedGate /\ Has(m, g)
        /\ \A h \in Gate : m.gate[h].verdict = old.gate[h].verdict
        /\ \A h \in Gate : h # g => m.gate[h] = old.gate[h]
        /\ m.gate[g].evidence = "none"
    BY JobFacts, LiftedType
  <2> HIDE DEF m
  <2>3. \A h \in Gate : Has(m, h) <=> Has(old, h)
    BY <2>2 DEF Has
  <2>4. ~muddied' /\ m.stamp # NoStamp => AllAgree(m, m.stamp)
    <3> SUFFICES ASSUME ~muddied, m.stamp # NoStamp, NEW h \in StampedGate, Has(m, h)
                 PROVE  Agrees(m.gate[h], Says[m.stamp][h])
      BY <2>1 DEF AllAgree
    <3>1. Agrees(old.gate[h], Says[old.stamp][h])
      BY <2>2, <2>3, StampedIsGate DEF IInv, StampIsTrue, AllAgree
    <3> QED BY <3>1, <2>2, StampedIsGate DEF Agrees
  <2>5. AdjudicationIsAuditable(m) /\ KeepIsAuditable(m) /\ WellFormed(m)
    BY <2>2, <2>3, StampedIsGate
       DEF IInv, DecisionsStayAuditable, AdjudicationIsAuditable, KeepIsAuditable, WellFormed
  <2>6. muddied' \in BOOLEAN /\ (muddied => muddied')
    BY <2>1, JobFacts
  <2>7. Writes(p, With(m))
    BY <2>1 DEF m
  <2> QED BY <2>2, <2>4, <2>5, <2>6, <2>7, WritingABlock
<1> QED BY <1>1, <1>2

LEMMA MarkApplyKeeps ==
  ASSUME IInv, NEW p \in Run, MarkApply(p)
  PROVE  IInv'
<1>1. CASE Refuses(p)
  BY <1>1, LeavingKeeps
<1>2. CASE ~Refuses(p)
  <2>1. Writes(p, With(job[p].masking)) /\ UNCHANGED muddied
        /\ job[p].script = "mark-not-maskable"
    BY <1>2 DEF MarkApply, Running
  <2>2. job[p].masking = Marked
    BY <2>1, JobFacts DEF JobOK
  <2>3. AdjudicationIsAuditable(Marked) /\ KeepIsAuditable(Marked) /\ WellFormed(Marked)
    BY DEF AdjudicationIsAuditable, KeepIsAuditable, WellFormed, Marked, NoMasking, Absent
  <2>4. muddied' \in BOOLEAN /\ (muddied => muddied')
    BY <2>1, JobFacts
  <2> QED BY <2>1, <2>2, <2>3, <2>4, MarkedType, WritingABlock
<1> QED BY <1>1, <1>2

LEMMA LegacyApplyKeeps ==
  ASSUME IInv, NEW p \in Run, LegacyApply(p)
  PROVE  IInv'
<1> DEFINE old == row.masking
           m == [old EXCEPT !.legacy = @ \/ old.notApplicable]
<1>1. Writes(p, With(m)) /\ UNCHANGED muddied
  BY DEF LegacyApply
<1>2. /\ m \in Masking /\ m.stamp = old.stamp /\ m.kept = old.kept
      /\ m.adjudicated = old.adjudicated /\ m.gate = old.gate
  BY JobFacts DEF Masking
<1> HIDE DEF m
<1>3. AdjudicationIsAuditable(m) /\ KeepIsAuditable(m) /\ WellFormed(m)
  BY <1>2 DEF IInv, DecisionsStayAuditable, AdjudicationIsAuditable, KeepIsAuditable,
              WellFormed, Has
<1>4. ~muddied' /\ m.stamp # NoStamp => AllAgree(m, m.stamp)
  BY <1>1, <1>2 DEF IInv, StampIsTrue, AllAgree, Has
<1>5. muddied' \in BOOLEAN /\ (muddied => muddied')
  BY <1>1, JobFacts
<1> QED BY <1>1, <1>2, <1>3, <1>4, <1>5, WritingABlock

LEMMA KeepApplyKeeps ==
  ASSUME IInv, NEW p \in Run, KeepApply(p)
  PROVE  IInv'
<1>1. CASE Refuses(p)
  BY <1>1, LeavingKeeps
<1>2. CASE ~Refuses(p)
  <2> DEFINE old == row.masking
             j == job[p]
             m == Kept(old, j)
  <2>1. /\ Writes(p, With(m))
        /\ muddied' = (muddied \/ j.by # j.stamp \/ Borrows(old, j.stamp))
    BY <1>2 DEF KeepApply
  <2>2. /\ m \in Masking /\ m.stamp = j.stamp /\ m.kept
        /\ m.adjudicated = old.adjudicated
        /\ m.gate["secret_gate"] = Recorded(Says[j.by]["secret_gate"])
        /\ \A h \in Gate : h # "secret_gate" => m.gate[h] = old.gate[h]
    BY JobFacts, KeptType
  <2>3. /\ Agrees(m.gate["secret_gate"], Says[j.by]["secret_gate"])
        /\ Has(m, "secret_gate")
    BY <2>2, JobFacts, SaysType, StampedIsGate, RecordedType DEF Has
  <2> HIDE DEF m
  <2>4. ~muddied' => AllAgree(m, m.stamp)
    <3> SUFFICES ASSUME ~muddied', NEW h \in StampedGate, Has(m, h)
                 PROVE  Agrees(m.gate[h], Says[m.stamp][h])
      BY DEF AllAgree
    <3>1. CASE h = "secret_gate"
      BY <3>1, <2>1, <2>2, <2>3
    <3>2. CASE h # "secret_gate"
      <4>1. h \in IdentifierGate /\ m.gate[h] = old.gate[h] /\ Has(old, h)
        BY <3>2, <2>2, StampedIsGate DEF StampedGate, Has
      <4>2. old.stamp = j.stamp /\ ~muddied
        BY <4>1, <2>1 DEF Borrows
      <4> QED BY <4>1, <4>2, <2>2, JobFacts DEF IInv, StampIsTrue, AllAgree
    <3> QED BY <3>1, <3>2
  <2>5. AdjudicationIsAuditable(m) /\ KeepIsAuditable(m) /\ WellFormed(m)
    <3>1. \A h \in Gate : Has(old, h) => Has(m, h)
      BY <2>2, <2>3 DEF Has
    <3>2. \A h \in Gate : ~Has(m, h) => h # "secret_gate" /\ ~Has(old, h)
      BY <2>3, <3>1
    <3>3. AdjudicationIsAuditable(old) /\ WellFormed(old) /\ old.adjudicated \subseteq Gate
      BY JobFacts DEF IInv, DecisionsStayAuditable, Masking
    <3> QED BY <2>2, <2>3, <3>1, <3>2, <3>3
            DEF AdjudicationIsAuditable, KeepIsAuditable, WellFormed
  <2>6. muddied' \in BOOLEAN /\ (muddied => muddied')
    BY <2>1, JobFacts
  <2> QED BY <2>1, <2>2, <2>4, <2>5, <2>6, WritingABlock
<1> QED BY <1>1, <1>2

LEMMA ApplyingKeeps ==
  ASSUME IInv, NEW p \in Run, Apply(p)
  PROVE  IInv'
BY MaskApplyKeeps, StampApplyKeeps, RemeasureApplyKeeps, ClearApplyKeeps,
   BackfillApplyKeeps, LiftApplyKeeps, MarkApplyKeeps, LegacyApplyKeeps,
   KeepApplyKeeps DEF Apply

LEMMA Republished ==
  ASSUME NEW r \in Row, NEW b \in SUBSET Reason, NEW ok \in BOOLEAN
  PROVE  LET n == [r EXCEPT !.publishable = ok, !.blockers = b] IN
         /\ n \in Row /\ n.masking = r.masking /\ n.tags = r.tags
         /\ n.clearances = r.clearances /\ n.publishable = ok
BY DEF Row

LEMMA RecomputedFields ==
  ASSUME row \in Row
  PROVE  LET r == Recomputed(row, disk) IN
         /\ r \in Row /\ r.masking = row.masking /\ r.tags = row.tags
         /\ r.clearances = row.clearances
         /\ r.publishable = (Blockers(row, disk) = {})
<1>1. Blockers(row, disk) \in SUBSET Reason
  BY DEF Blockers
<1> DEFINE b == Blockers(row, disk)
           ok == (b = {})
<1>2. Recomputed(row, disk) = [row EXCEPT !.publishable = ok, !.blockers = b]
  BY DEF Recomputed
<1>3. b \in SUBSET Reason /\ ok \in BOOLEAN
  BY <1>1
<1> HIDE DEF b, ok
<1>4. LET r == Recomputed(row, disk) IN
         /\ r \in Row /\ r.masking = row.masking /\ r.tags = row.tags
         /\ r.clearances = row.clearances /\ r.publishable = ok
  <2> DEFINE r == Recomputed(row, disk)
             yes == [row EXCEPT !.publishable = TRUE, !.blockers = b]
             no == [row EXCEPT !.publishable = FALSE, !.blockers = b]
  <2>1. (ok = TRUE /\ r = yes) \/ (ok = FALSE /\ r = no)
    BY <1>2, <1>3
  <2>2. /\ yes \in Row /\ yes.masking = row.masking /\ yes.tags = row.tags
        /\ yes.clearances = row.clearances /\ yes.publishable = TRUE
    BY <1>3, Republished
  <2>3. /\ no \in Row /\ no.masking = row.masking /\ no.tags = row.tags
        /\ no.clearances = row.clearances /\ no.publishable = FALSE
    BY <1>3, Republished
  <2> HIDE DEF r, yes, no
  <2>4. /\ r \in Row /\ r.masking = row.masking /\ r.tags = row.tags
        /\ r.clearances = row.clearances /\ r.publishable = ok
    BY <2>1, <2>2, <2>3
  <2> QED BY <2>4 DEF r
<1> QED BY <1>4 DEF ok, b

LEMMA SurroundingsKeep ==
  ASSUME IInv, Fix \/ EditTools \/ EditMap \/ Review
  PROVE  IInv'
<1>1. row \in Row /\ disk \in Version
  BY DEF IInv, TypeOK
<1>2. /\ row' \in Row /\ row'.masking = row.masking
      /\ row'.clearances = row.clearances
  <2>1. CASE Fix
    BY <1>1, <2>1, RecomputedFields DEF Fix
  <2>2. CASE EditTools \/ EditMap
    BY <1>1, <2>2 DEF EditTools, EditMap
  <2>3. CASE Review
    BY <1>1, <2>3 DEF Review, Row
  <2> QED BY <2>1, <2>2, <2>3
<1>3. disk' \in Version
  BY <1>1 DEF Fix, EditTools, EditMap, Review, Version
<1>4. UNCHANGED <<job, runs, muddied>>
  BY DEF Fix, EditTools, EditMap, Review
<1> QED BY <1>2, <1>3, <1>4
        DEF IInv, TypeOK, StampIsTrue, SignedFindingIsReal, DecisionsStayAuditable

LEMMA FirstType == First \in Version /\ First # NoStamp
BY DEF First, Version, NoStamp

LEMMA OldMaskingOK ==
  ASSUME NEW m \in OldMaskings \cup {NoMasking}
  PROVE  /\ m \in Masking /\ m.stamp = NoStamp /\ m.adjudicated = {} /\ ~m.kept
         /\ WellFormed(m)
<1>1. CASE m = NoMasking
  BY <1>1, NoMaskingType DEF NoMasking, WellFormed, Absent
<1>2. CASE m \in OldMaskings
  <2>1. PICK old \in [IdentifierGate -> OldEntry], secret \in {Absent, Recorded("clean")} :
          m = OldMasking(old, secret)
    BY <1>2 DEF OldMaskings
  <2> DEFINE gates == [g \in Gate |-> IF g \in IdentifierGate THEN old[g]
                                      ELSE IF g = "secret_gate" THEN secret
                                      ELSE Recorded("clean")]
  <2>2. Recorded("clean") \in Entry /\ Recorded("clean").verdict # "absent"
    BY RecordedType DEF Answer
  <2>3. \A e \in OldEntry \cup {secret} :
          e \in Entry /\ (e.verdict = "absent" => e.evidence = "none")
    BY <2>2 DEF OldEntry, Absent, Entry
  <2>4. /\ gates \in [Gate -> Entry]
        /\ \A g \in Gate : gates[g].verdict = "absent" => gates[g].evidence = "none"
    BY <2>2, <2>3
  <2>5. m = [NoMasking EXCEPT !.applied = TRUE, !.gate = gates]
    BY <2>1 DEF OldMasking
  <2> HIDE DEF gates
  <2>6. /\ m \in Masking /\ m.gate = gates /\ m.stamp = NoStamp /\ m.adjudicated = {}
        /\ ~m.kept
    BY <2>4, <2>5, NoMaskingType DEF Masking, NoMasking
  <2> QED BY <2>4, <2>6 DEF WellFormed, Has
<1> QED BY <1>1, <1>2

LEMMA JudgedMaskingOK ==
  LET m == JudgedMasking IN
  /\ m \in Masking /\ m.stamp = First /\ m.adjudicated = {} /\ ~m.kept
  /\ WellFormed(m) /\ AllAgree(m, First)
  /\ \A g \in StampedGate : Agrees(m.gate[g], Says[First][g])
<1> DEFINE m == JudgedMasking
           gates == [g \in Gate |-> IF g \in StampedGate THEN Recorded(Says[First][g])
                                    ELSE Recorded("clean")]
<1>1. m = [NoMasking EXCEPT !.applied = TRUE, !.stamp = First, !.gate = gates]
  BY DEF JudgedMasking
<1>2. "clean" \in Answer /\ \A g \in StampedGate : Says[First][g] \in Answer
  BY SaysType, FirstType DEF Answer
<1>3. /\ gates \in [Gate -> Entry]
      /\ \A g \in Gate : gates[g].verdict # "absent"
      /\ \A g \in StampedGate : gates[g] = Recorded(Says[First][g])
  BY <1>2, RecordedType, StampedIsGate
<1>4. \A g \in StampedGate : Agrees(gates[g], Says[First][g])
  BY <1>2, <1>3, RecordedType
<1> HIDE DEF gates
<1>5. /\ m \in Masking /\ m.gate = gates /\ m.stamp = First /\ m.adjudicated = {} /\ ~m.kept
  BY <1>1, <1>3, NoMaskingType, FirstType DEF Masking, NoMasking
<1> HIDE DEF m
<1>6. WellFormed(m) /\ AllAgree(m, First)
  BY <1>3, <1>4, <1>5 DEF WellFormed, AllAgree, Has
<1> QED BY <1>4, <1>5, <1>6 DEF m

LEMMA Initially ==
  ASSUME Init
  PROVE  IInv
<1> DEFINE TagSet == SUBSET {"pii", "secret", "path", "unreviewed"}
           signed == {[gate |-> g, finding |-> JudgedMasking.gate[g],
                       pin |-> First, reasoned |-> FALSE] :
                        g \in {h \in StampedGate : Says[First][h] # "clean"}}
<1>1. PICK tags \in Tags :
        \/ \E m \in OldMaskings \cup {NoMasking} : row = NewRow(m, tags, {})
        \/ row = NewRow(JudgedMasking, tags, signed)
  BY DEF Init
<1>2. tags \in TagSet
  OBVIOUS
<1>3. /\ disk = First /\ job = [p \in Run |-> AtRest] /\ runs = 0 /\ muddied = FALSE
  BY DEF Init
<1>4. signed \in SUBSET Clearance
  <2>1. \A g \in StampedGate :
          /\ g \in Gate /\ JudgedMasking.gate[g] \in Entry
          /\ [gate |-> g, finding |-> JudgedMasking.gate[g], pin |-> First,
              reasoned |-> FALSE] \in Clearance
    BY JudgedMaskingOK, FirstType, StampedIsGate DEF Clearance, Masking
  <2> QED BY <2>1
<1>5. \A c \in signed : Agrees(c.finding, Says[c.pin][c.gate])
  BY JudgedMaskingOK
<1> HIDE DEF TagSet, signed
<1>6. \A m \in Masking, cs \in SUBSET Clearance :
        /\ NewRow(m, tags, cs) \in Row
        /\ NewRow(m, tags, cs).masking = m /\ NewRow(m, tags, cs).clearances = cs
  BY <1>2 DEF NewRow, Row, TagSet
<1>7. /\ row \in Row /\ WellFormed(row.masking)
      /\ row.masking.adjudicated = {} /\ ~row.masking.kept
      /\ row.masking.stamp # NoStamp => AllAgree(row.masking, row.masking.stamp)
      /\ \A c \in row.clearances : Agrees(c.finding, Says[c.pin][c.gate])
  <2>1. CASE row = NewRow(JudgedMasking, tags, signed)
    BY <2>1, <1>4, <1>5, <1>6, JudgedMaskingOK
  <2>2. ASSUME NEW m \in OldMaskings \cup {NoMasking}, row = NewRow(m, tags, {})
        PROVE  <1>7
    BY <2>2, <1>6, OldMaskingOK
  <2> QED BY <1>1, <2>1, <2>2
<1>8. TypeOK
  <2>1. job \in [Run -> Job] /\ runs \in 0 .. MaxRuns
    BY <1>3, AtRestOK
  <2> QED BY <1>3, <1>7, <2>1, FirstType DEF TypeOK
<1>9. StampIsTrue /\ SignedFindingIsReal /\ DecisionsStayAuditable
  BY <1>7 DEF StampIsTrue, SignedFindingIsReal, DecisionsStayAuditable,
              AdjudicationIsAuditable, KeepIsAuditable
<1> QED BY <1>3, <1>7, <1>8, <1>9, AtRestOK DEF IInv

LEMMA Inductive ==
  ASSUME IInv, [Next]_vars
  PROVE  IInv'
<1>1. CASE UNCHANGED vars
  BY <1>1 DEF vars, IInv, TypeOK, StampIsTrue, SignedFindingIsReal, DecisionsStayAuditable
<1> QED BY <1>1, LookingKeeps, ApplyingKeeps, SurroundingsKeep DEF Next

LEMMA Always == Spec => []IInv
BY Initially, Inductive, PTL DEF Spec

---------------------------------------------------------------------------
(* The theorems.                                                           *)

\* Every variable has its type.
THEOREM TypeCorrect == Spec => []TypeOK
BY Always, PTL DEF IInv

\* Every clearance is about a finding its pinned version returns.
THEOREM SignedFindingsAreReal == Spec => []SignedFindingIsReal
BY Always, PTL DEF IInv

\* Every decision is about a result that is on the row.
THEOREM DecisionsAreAuditable == Spec => []DecisionsStayAuditable
BY Always, PTL DEF IInv

---------------------------------------------------------------------------
(* What a step may never do.                                               *)

LEMMA LookingWritesNothing ==
  ASSUME NEW p \in Run, Look(p)
  PROVE  UNCHANGED <<row, disk, muddied>>
BY DEF Look, MaskLook, StampLook, RemeasureLook, ClearLook, BackfillLook, LiftLook,
       MarkLook, LegacyLook, KeepLook, Start

LEMMA BlockWriters ==
  ASSUME row \in Row, NEW p \in Run,
         \/ MaskApply(p) \/ StampApply(p) \/ RemeasureApply(p) \/ LiftApply(p)
         \/ MarkApply(p) \/ LegacyApply(p) \/ KeepApply(p)
  PROVE  row'.clearances = row.clearances /\ row'.publishable = row.publishable
<1>1. row' = row \/ \E m : row' = With(m)
  BY DEF MaskApply, StampApply, RemeasureApply, LiftApply, MarkApply, LegacyApply,
         KeepApply, Writes, Refuses
<1>2. \A m : With(m).clearances = row.clearances /\ With(m).publishable = row.publishable
  BY DEF With, Row
<1> QED BY <1>1, <1>2

LEMMA ClearanceStep ==
  ASSUME IInv, [Next]_vars
  PROVE  \A c \in row.clearances :
           c \in row'.clearances \/ [c EXCEPT !.reasoned = TRUE] \in row'.clearances
<1>1. row \in Row
  BY DEF IInv, TypeOK
<1>2. CASE row' = row
  BY <1>2
<1>3. ASSUME NEW p \in Run, Apply(p)
      PROVE  \A c \in row.clearances :
               c \in row'.clearances \/ [c EXCEPT !.reasoned = TRUE] \in row'.clearances
  <2>1. CASE ClearApply(p)
    <3> DEFINE cs == row.clearances \cup {Signed(row, job[p].gate, TRUE)}
    <3>1. row' = row \/ row' = [row EXCEPT !.clearances = cs]
      BY <2>1 DEF ClearApply, Writes, Refuses
    <3> HIDE DEF cs
    <3>2. row' = row \/ row'.clearances = cs
      BY <1>1, <3>1 DEF Row
    <3> QED BY <3>2 DEF cs
  <2>2. CASE BackfillApply(p)
    <3>1. row' = [row EXCEPT !.clearances = (row.clearances \ Backfillable(row))
             \cup {[c EXCEPT !.reasoned = TRUE] : c \in Backfillable(row)}]
      BY <2>2 DEF BackfillApply, Writes
    <3>2. row'.clearances = (row.clearances \ Backfillable(row))
             \cup {[c EXCEPT !.reasoned = TRUE] : c \in Backfillable(row)}
      BY <1>1, <3>1 DEF Row
    <3> QED BY <3>2
  <2>3. CASE ~ClearApply(p) /\ ~BackfillApply(p)
    BY <1>1, <1>3, <2>3, BlockWriters DEF Apply
  <2> QED BY <2>1, <2>2, <2>3
<1>4. CASE Fix \/ Review
  <2>1. row'.clearances = row.clearances
    BY <1>1, <1>4, RecomputedFields DEF Fix, Review, Row
  <2> QED BY <2>1
<1>5. CASE EditTools \/ EditMap \/ UNCHANGED vars
  BY <1>2, <1>5 DEF EditTools, EditMap, vars
<1> QED BY <1>2, <1>3, <1>4, <1>5, LookingWritesNothing DEF Next

LEMMA DecisionStep ==
  ASSUME IInv, [Next]_vars, \A p \in Run : ~MaskApply(p)
  PROVE  /\ \A g \in Gate : Decided(row.masking.gate[g])
                              => \/ Decided(row'.masking.gate[g])
                                 \/ g \in row'.masking.adjudicated
         /\ row.masking.adjudicated \subseteq row'.masking.adjudicated
         /\ row.masking.kept => row'.masking.kept
<1> DEFINE old == row.masking
           Stands(m) == /\ \A g \in Gate : Decided(old.gate[g])
                             => Decided(m.gate[g]) \/ g \in m.adjudicated
                        /\ old.adjudicated \subseteq m.adjudicated
                        /\ old.kept => m.kept
<1>1. row \in Row /\ old \in Masking /\ WellFormed(old)
  BY DEF IInv, TypeOK, Row
<1>2. CASE row'.masking = old
  BY <1>2
<1>3. ASSUME NEW p \in Run, Apply(p)
      PROVE  Stands(row'.masking)
  <2>0. /\ job[p] \in Job /\ JobOK(job[p]) /\ job[p].by \in Version
        /\ job[p].stamp \in Version /\ disk \in Version
    BY JobFacts
  <2>1. CASE row' = row
    BY <2>1, <1>2
  <2>2. CASE StampApply(p) /\ row' # row
    <3>1. row' = With(Stamped(old, job[p].stamp))
      BY <2>2 DEF StampApply, Writes, Refuses
    <3>2. /\ Stamped(old, job[p].stamp) \in Masking
          /\ Stamped(old, job[p].stamp).gate = old.gate
          /\ Stamped(old, job[p].stamp).adjudicated = old.adjudicated
          /\ Stamped(old, job[p].stamp).kept = old.kept
      BY <1>1, <2>0, StampedType
    <3>3. row'.masking = Stamped(old, job[p].stamp)
      BY <1>1, <3>1, <3>2, RowFields
    <3> QED BY <3>2, <3>3
  <2>3. CASE RemeasureApply(p) /\ row' # row
    <3> DEFINE by == [job[p].by EXCEPT !.map = disk.map]
               m == Remeasured(old, by, job[p].stamp)
    <3>1. row' = With(m) /\ Remeasurable(old, by)
      BY <2>3 DEF RemeasureApply, Writes, Refuses
    <3>2. by \in Version
      BY <2>0 DEF Version
    <3> HIDE DEF by
    <3>3. /\ m \in Masking /\ m.adjudicated = old.adjudicated /\ m.kept = old.kept
          /\ \A g \in Gate : g \notin Moved(old, by) => m.gate[g] = old.gate[g]
      <4>1. old \in Masking /\ job[p].stamp \in Version
        BY <1>1, <2>0
      <4> HIDE DEF old
      <4> QED BY <4>1, <3>2, RemeasuredType
    <3> HIDE DEF m
    <3>4. row'.masking = m
      BY <1>1, <3>1, <3>3, RowFields
    <3> QED BY <3>1, <3>3, <3>4 DEF Remeasurable
  <2>4. CASE LiftApply(p) /\ row' # row
    <3>1. PICK g \in Liftable(old) : row' = With(Lifted(old, g)) /\ old.adjudicated = {}
      BY <2>4 DEF LiftApply, Writes, Refuses
    <3> DEFINE m == Lifted(old, g)
    <3>2. /\ m \in Masking /\ m.kept = old.kept /\ m.adjudicated = {g}
          /\ \A h \in Gate : h # g => m.gate[h] = old.gate[h]
      BY <1>1, LiftedType
    <3>3. row'.masking = m
      BY <1>1, <3>1, <3>2, RowFields
    <3> HIDE DEF m
    <3> QED BY <3>1, <3>2, <3>3
  <2>5. CASE MarkApply(p) /\ row' # row
    <3>1. old = NoMasking
      BY <2>5 DEF MarkApply, Writes, Refuses
    <3>2. \A g \in Gate : ~Decided(old.gate[g])
      BY <3>1 DEF NoMasking, Absent, Decided
    <3> QED BY <3>1, <3>2 DEF NoMasking
  <2>6. CASE LegacyApply(p)
    <3> DEFINE m == [old EXCEPT !.legacy = @ \/ old.notApplicable]
    <3>1. row' = With(m)
      BY <2>6 DEF LegacyApply, Writes
    <3>2. m \in Masking /\ m.gate = old.gate /\ m.adjudicated = old.adjudicated /\ m.kept = old.kept
      BY <1>1 DEF Masking
    <3>3. row'.masking = m
      BY <1>1, <3>1, <3>2, RowFields
    <3> QED BY <3>2, <3>3
  <2>7. CASE KeepApply(p) /\ row' # row
    <3> DEFINE m == Kept(old, job[p])
    <3>1. /\ row' = With(m)
          /\ Keepable(old, Recorded(Says[job[p].by]["secret_gate"]))
      BY <2>7 DEF KeepApply, Writes, Refuses
    <3>2. /\ m \in Masking /\ m.adjudicated = old.adjudicated /\ m.kept
          /\ \A h \in Gate : h # "secret_gate" => m.gate[h] = old.gate[h]
      BY <1>1, <2>0, KeptType
    <3>3. row'.masking = m
      BY <1>1, <3>1, <3>2, RowFields
    <3>4. ~Decided(old.gate["secret_gate"])
      <4>1. ~Decided(Recorded(Says[job[p].by]["secret_gate"]))
        BY <2>0, SaysType, StampedIsGate, RecordedType
      <4>2. ~Has(old, "secret_gate") => ~Decided(old.gate["secret_gate"])
        BY <1>1, StampedIsGate DEF WellFormed, Decided
      <4> QED BY <3>1, <4>1, <4>2 DEF Keepable
    <3> HIDE DEF m
    <3> QED BY <3>2, <3>3, <3>4
  <2>8. CASE ClearApply(p) \/ BackfillApply(p)
    <3>1. row' = row \/ \E cs : row' = [row EXCEPT !.clearances = cs]
      BY <2>8 DEF ClearApply, BackfillApply, Writes, Refuses
    <3>2. row'.masking = old
      BY <1>1, <3>1 DEF Row
    <3> QED BY <3>2, <1>2
  <2> QED BY <1>3, <2>1, <2>2, <2>3, <2>4, <2>5, <2>6, <2>7, <2>8 DEF Apply
<1>4. CASE Fix \/ Review
  <2>1. row'.masking = old
    BY <1>1, <1>4, RecomputedFields DEF Fix, Review, Row
  <2> QED BY <2>1, <1>2
<1>5. CASE EditTools \/ EditMap \/ UNCHANGED vars
  BY <1>2, <1>5 DEF EditTools, EditMap, vars
<1>6. Stands(row'.masking)
  BY <1>2, <1>3, <1>4, <1>5, LookingWritesNothing DEF Next
<1> QED BY <1>6

\* What each writer does to the results: the cases of DecisionStep again, with the
\* gate's entry in the place of the decisions.
LEMMA ResultStep ==
  ASSUME IInv, [Next]_vars, NEW g \in StampedGate,
         row'.masking.gate[g] # row.masking.gate[g]
  PROVE  DecisionLifted(g) \/ \E p \in Run : MeasuredAnew(p, g)
<1> DEFINE old == row.masking
<1>1. row \in Row /\ old \in Masking /\ g \in Gate
  BY StampedIsGate DEF IInv, TypeOK, Row
<1>2. ASSUME NEW p \in Run, Apply(p)
      PROVE  DecisionLifted(g) \/ MeasuredAnew(p, g)
  <2>0. /\ job[p] \in Job /\ JobOK(job[p]) /\ job[p].by \in Version
        /\ job[p].stamp \in Version /\ disk \in Version
    BY JobFacts
  <2>1. ASSUME job[p].script # "none", Leave(p) PROVE job'[p] # job[p]
    <3>1. job \in [Run -> Job]
      BY DEF IInv, TypeOK
    <3>2. job'[p].script = "none"
      BY <2>1, <3>1 DEF Leave, AtRest
    <3> QED BY <2>1, <3>2
  <2>2. CASE MaskApply(p)
    <3> DEFINE m == job[p].masking
    <3>1. row' = With(m) /\ Leave(p) /\ job[p].script = "mask-samples"
      BY <2>2 DEF MaskApply, Running, Writes
    <3>2. m \in Masking /\ m.gate[g] = Recorded(Says[job[p].by][g])
      BY <3>1, JobFacts DEF JobOK
    <3> HIDE DEF m
    <3>3. row'.masking = m
      BY <1>1, <3>1, <3>2, RowFields
    <3> QED BY <2>1, <3>1, <3>2, <3>3 DEF MeasuredAnew, Measures, Measurer
  <2>3. CASE StampApply(p)
    <3>1. row' = With(Stamped(old, job[p].stamp)) \/ row' = row
      BY <2>3 DEF StampApply, Writes, Refuses
    <3>2. /\ Stamped(old, job[p].stamp) \in Masking
          /\ Stamped(old, job[p].stamp).gate = old.gate
      BY <1>1, <2>0, StampedType
    <3>3. row'.masking.gate = old.gate
      BY <1>1, <3>1, <3>2, RowFields
    <3> QED BY <3>3
  <2>4. CASE RemeasureApply(p)
    <3> DEFINE by == [job[p].by EXCEPT !.map = disk.map]
               m == Remeasured(old, by, job[p].stamp)
    <3>1. row' = With(m) /\ Leave(p) /\ job[p].script = "remeasure-gates"
      BY <2>4 DEF RemeasureApply, Running, Writes, Refuses
    <3>2. by \in Version
      BY <2>0 DEF Version
    <3>3. m.gate[g] = IF g \in Moved(old, by) THEN Recorded(Says[by][g]) ELSE old.gate[g]
      BY <1>1 DEF Remeasured, Masking
    <3>4. Measurer(job[p]) = by /\ g \in Measures(job[p])
      BY <3>1 DEF Measurer, Measures
    <3> HIDE DEF by
    <3>5. m \in Masking
      <4>1. old \in Masking /\ job[p].stamp \in Version
        BY <1>1, <2>0
      <4> HIDE DEF old
      <4> QED BY <4>1, <3>2, RemeasuredType
    <3> HIDE DEF m
    <3>6. row'.masking = m
      BY <1>1, <3>1, <3>5, RowFields
    <3> QED BY <2>1, <3>1, <3>3, <3>4, <3>6 DEF MeasuredAnew
  <2>5. CASE LiftApply(p)
    <3>1. PICK h \in Liftable(old) : row' = With(Lifted(old, h))
      BY <2>5 DEF LiftApply, Writes, Refuses
    <3> DEFINE m == Lifted(old, h)
    <3>2. /\ m \in Masking /\ m.adjudicated = {h}
          /\ \A i \in Gate : i # h => m.gate[i] = old.gate[i]
      BY <1>1, LiftedType
    <3>3. m.gate[h] = [old.gate[h] EXCEPT !.evidence = "none"]
      BY <1>1, StampedIsGate DEF Lifted, Masking, Liftable
    <3>4. row'.masking = m
      BY <1>1, <3>1, <3>2, RowFields
    <3>5. g = h /\ old.gate[g].evidence = "decided"
      BY <1>1, <3>2, <3>4 DEF Liftable
    <3> HIDE DEF m
    <3> QED BY <3>2, <3>3, <3>4, <3>5 DEF DecisionLifted
  <2>6. CASE MarkApply(p)
    <3>1. row' = row \/ (old = NoMasking /\ row' = With(Marked))
      BY <2>0, <2>6 DEF MarkApply, Running, Writes, Refuses, JobOK
    <3>2. Marked.gate = NoMasking.gate
      BY DEF Marked, NoMasking
    <3>3. row'.masking.gate = old.gate
      BY <1>1, <3>1, <3>2, MarkedType, RowFields
    <3> QED BY <3>3
  <2>7. CASE LegacyApply(p)
    <3> DEFINE m == [old EXCEPT !.legacy = @ \/ old.notApplicable]
    <3>1. row' = With(m)
      BY <2>7 DEF LegacyApply, Writes
    <3>2. m \in Masking /\ m.gate = old.gate
      BY <1>1 DEF Masking
    <3>3. row'.masking = m
      BY <1>1, <3>1, <3>2, RowFields
    <3> QED BY <3>2, <3>3
  <2>8. CASE KeepApply(p)
    <3> DEFINE m == Kept(old, job[p])
    <3>1. row' = With(m) /\ Leave(p) /\ job[p].script = "keep-credential"
      BY <2>8 DEF KeepApply, Running, Writes, Refuses
    <3>2. /\ m \in Masking
          /\ m.gate["secret_gate"] = Recorded(Says[job[p].by]["secret_gate"])
          /\ \A h \in Gate : h # "secret_gate" => m.gate[h] = old.gate[h]
      BY <1>1, <2>0, KeptType
    <3>3. row'.masking = m
      BY <1>1, <3>1, <3>2, RowFields
    <3> HIDE DEF m
    <3>4. g = "secret_gate"
      BY <1>1, <3>2, <3>3
    <3> QED BY <2>1, <3>1, <3>2, <3>3, <3>4 DEF MeasuredAnew, Measures, Measurer
  <2>9. CASE ClearApply(p) \/ BackfillApply(p)
    <3>1. row' = row \/ \E cs : row' = [row EXCEPT !.clearances = cs]
      BY <2>9 DEF ClearApply, BackfillApply, Writes, Refuses
    <3>2. row'.masking = old
      BY <1>1, <3>1 DEF Row
    <3> QED BY <3>2
  <2> QED BY <1>2, <2>2, <2>3, <2>4, <2>5, <2>6, <2>7, <2>8, <2>9 DEF Apply
<1>3. ~(Fix \/ Review)
  BY <1>1, RecomputedFields DEF Fix, Review, Row
<1>4. ~(EditTools \/ EditMap \/ UNCHANGED vars)
  BY DEF EditTools, EditMap, vars
<1> QED BY <1>2, <1>3, <1>4, LookingWritesNothing DEF Next

LEMMA PublicationStep ==
  ASSUME IInv, [Next]_vars, ~row.publishable, row'.publishable, ~muddied,
         row.masking.stamp # NoStamp, NEW g \in StampedGate, Has(row.masking, g)
  PROVE  \/ Says[row.masking.stamp][g] = "clean"
         \/ \E c \in row.clearances :
              /\ c.gate = g /\ c.pin = row.masking.stamp
              /\ Agrees(c.finding, Says[c.pin][g])
<1>1. row \in Row
  BY DEF IInv, TypeOK
<1>2. Fix
  <2>1. ASSUME NEW p \in Run, Apply(p) PROVE row'.publishable = row.publishable
    <3>1. CASE ClearApply(p) \/ BackfillApply(p)
      <4>1. row' = row \/ \E cs : row' = [row EXCEPT !.clearances = cs]
        BY <3>1 DEF ClearApply, BackfillApply, Writes, Refuses
      <4> QED BY <1>1, <4>1 DEF Row
    <3>2. CASE ~ClearApply(p) /\ ~BackfillApply(p)
      BY <1>1, <2>1, <3>2, BlockWriters DEF Apply
    <3> QED BY <3>1, <3>2
  <2>2. Review => row'.publishable = row.publishable
    BY <1>1 DEF Review, Row
  <2>3. EditTools \/ EditMap \/ UNCHANGED vars => row' = row
    BY DEF EditTools, EditMap, vars
  <2> QED BY <2>1, <2>2, <2>3, LookingWritesNothing DEF Next
<1>3. Blockers(row, disk) = {}
  BY <1>1, <1>2, RecomputedFields DEF Fix
<1>4. ~Failing(row, g)
  BY <1>3, StampedIsGate DEF Blockers, Finds, Reason
<1>5. CASE row.masking.gate[g].verdict # "fail"
  <2>1. Agrees(row.masking.gate[g], Says[row.masking.stamp][g])
    BY DEF IInv, StampIsTrue, AllAgree
  <2> QED BY <1>5, <2>1 DEF Agrees, VerdictOf
<1>6. CASE Cleared(row, g)
  <2>1. PICK c \in row.clearances : Applies(c, row, g)
    BY <1>6 DEF Cleared
  <2> QED BY <2>1 DEF Applies, IInv, SignedFindingIsReal
<1> QED BY <1>4, <1>5, <1>6 DEF Failing

\* No writer, whatever it read and whenever, drops or alters a clearance.
THEOREM ClearancesStay == Spec => ClearancesAreKept
<1>1. IInv /\ [Next]_vars =>
        [\A c \in row.clearances :
           c \in row'.clearances \/ [c EXCEPT !.reasoned = TRUE] \in row'.clearances]_vars
  BY ClearanceStep
<1> QED BY <1>1, Always, PTL DEF Spec, ClearancesAreKept

\* A person's decision stays on the record until the sample is masked anew.
THEOREM DecisionsStay == Spec => DecisionsStand
<1>1. IInv /\ [Next]_vars =>
        [\/ \E p \in Run : MaskApply(p)
         \/ /\ \A g \in Gate : Decided(row.masking.gate[g])
                               => \/ Decided(row'.masking.gate[g])
                                  \/ g \in row'.masking.adjudicated
            /\ row.masking.adjudicated \subseteq row'.masking.adjudicated
            /\ row.masking.kept => row'.masking.kept]_vars
  BY DecisionStep
<1> QED BY <1>1, Always, PTL DEF Spec, DecisionsStand

\* Every result on the row was measured by the script that put it there, whatever
\* that script had read before its lock and whoever wrote in between.
THEOREM ResultsStayMeasured == Spec => ResultsAreMeasured
<1>1. IInv /\ [Next]_vars =>
        [\A g \in StampedGate :
           row'.masking.gate[g] # row.masking.gate[g] =>
             DecisionLifted(g) \/ \E p \in Run : MeasuredAnew(p, g)]_vars
  BY ResultStep
<1> QED BY <1>1, Always, PTL DEF Spec, ResultsAreMeasured

\* What becomes publishable was found clean, or was signed, by the very version
\* its stamp names.
THEOREM PublicationIsEarned == Spec => PublishedIsCleanOrSigned
<1>1. IInv /\ [Next]_vars =>
        [~row.publishable /\ row'.publishable /\ ~muddied
           /\ row.masking.stamp # NoStamp =>
         \A g \in StampedGate :
           Has(row.masking, g) =>
             \/ Says[row.masking.stamp][g] = "clean"
             \/ \E c \in row.clearances :
                  /\ c.gate = g /\ c.pin = row.masking.stamp
                  /\ Agrees(c.finding, Says[c.pin][g])]_vars
  BY PublicationStep
<1> QED BY <1>1, Always, PTL DEF Spec, PublishedIsCleanOrSigned
=============================================================================
