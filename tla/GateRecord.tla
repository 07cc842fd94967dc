----------------------------- MODULE GateRecord -----------------------------
(***************************************************************************)
(* What one row of the corpus index records about the privacy gates, and   *)
(* the scripts that write that record at the same time.                    *)
(*                                                                         *)
(* A gate looks at the masked bytes of a sample and finds nothing, or      *)
(* finds something.  The row keeps the verdict, the evidence beneath it    *)
(* and a stamp: a digest of the tools and one of the identifier maps that  *)
(* measured it.  A person may clear a finding; the clearance is keyed to   *)
(* the finding and pinned to the stamp.  shard-gate.py --fix computes from *)
(* all of this whether the row may be published.                           *)
(*                                                                         *)
(* Every script works in two phases.  It looks at the row, measures and    *)
(* decides without a lock; then it takes the lock of the file, reads the   *)
(* row again and writes.  The locked phase is one action here: the module  *)
(* CorpusIndex is about the lock itself.                                   *)
(***************************************************************************)
EXTENDS Naturals, FiniteSets

CONSTANTS
  Run,            \* the slots in which scripts run at the same time
  IdentifierGate, \* the gates that look for an identifier
  Found,          \* what a gate can find, each with its own evidence
  Tags,           \* the sensitivity tags a review can leave on the row
  MaxTools,       \* the versions of the measuring tools there will be
  MaxMaps,        \* the versions of the identifier maps there will be
  MaxRuns,        \* how many scripts are started
  Says            \* what each version finds in the bytes behind the row

Never == {"pii"}

\* Not for masking to lift: a verdict, an assessment or a hold a person owes,
\* all of them read here as the tag "unreviewed".
Held == {"unreviewed"}

StampedGate == IdentifierGate \cup {"secret_gate"}
Gate == StampedGate \cup {"detection_survived"}
Answer == Found \cup {"clean"}

Version == [tools : 1 .. MaxTools, map : 1 .. MaxMaps]
NoStamp == [tools |-> 0, map |-> 0]
First == [tools |-> 1, map |-> 1]

ASSUME GateRecordAssumption ==
  /\ MaxTools \in Nat \ {0} /\ MaxMaps \in Nat \ {0} /\ MaxRuns \in Nat
  /\ Tags \subseteq SUBSET {"pii", "secret", "path", "unreviewed"}
  /\ {"none", "decided", "open", "clean"} \cap Found = {}
  /\ {"secret_gate", "detection_survived"} \cap IdentifierGate = {}
  /\ Says \in [Version -> [StampedGate -> Answer]]

\* What a row holds for one gate.  The evidence of an older row can be a
\* person's decision written into the finding, resolved or still open.
Entry == [verdict : {"absent", "pass", "fail"},
          evidence : Found \cup {"none", "decided", "open"}]
Absent == [verdict |-> "absent", evidence |-> "none"]

Masking == [applied : BOOLEAN, notApplicable : BOOLEAN, legacy : BOOLEAN,
            gate : [Gate -> Entry], stamp : Version \cup {NoStamp},
            adjudicated : SUBSET Gate, kept : BOOLEAN]
NoMasking == [applied |-> FALSE, notApplicable |-> FALSE, legacy |-> FALSE,
              gate |-> [g \in Gate |-> Absent], stamp |-> NoStamp,
              adjudicated |-> {}, kept |-> FALSE]

Clearance == [gate : Gate, finding : Entry, pin : Version \cup {NoStamp},
              reasoned : BOOLEAN]

Reason == Gate \cup {"held", "never", "unmasked", "provenance", "not recorded",
                     "undecided"}

Row == [masking : Masking, tags : SUBSET {"pii", "secret", "path", "unreviewed"},
        clearances : SUBSET Clearance,
        publishable : BOOLEAN, blockers : SUBSET Reason]

Script == {"mask-samples", "verify-and-stamp", "restamp", "remeasure-gates",
           "clear-finding", "backfill", "lift-adjudication",
           "mark-not-maskable", "stamp-legacy", "keep-credential"}

VARIABLES
  row,      \* the row
  disk,     \* the version of the tools and of the maps that are on the disk
  job,      \* what each running script decided before it took the lock
  runs,     \* how many scripts were started
  muddied   \* a script has written a stamp it did not measure under

vars == <<row, disk, job, runs, muddied>>

\* by: the version that measured; stamp: the digests the script took, once, when
\* it first needed them; masking: what it saw, or what it is going to write.
Job == [script : Script \cup {"none"}, gate : Gate, by : Version,
        stamp : Version, masking : Masking]

---------------------------------------------------------------------------
(* What a gate found, and what a row records of it.                        *)

VerdictOf(a) == IF a = "clean" THEN "pass" ELSE "fail"
Recorded(a) == [verdict |-> VerdictOf(a),
                evidence |-> IF a = "clean" THEN "none" ELSE a]

Has(m, g) == m.gate[g].verdict # "absent"
Decided(e) == e.evidence \in {"decided", "open"}

\* compare_gate: evidence the row does not hold cannot disagree.
Agrees(e, a) ==
  /\ e.verdict = VerdictOf(a)
  /\ e.evidence \in {"none", Recorded(a).evidence}

\* compare: every stamped gate the row records.
AllAgree(m, by) ==
  \A g \in StampedGate : Has(m, g) => Agrees(m.gate[g], Says[by][g])

Moved(m, by) ==
  {g \in StampedGate : Has(m, g) /\ ~Agrees(m.gate[g], Says[by][g])}

\* gate_provenance.verify, with the maps and without.
StampIsCurrent(m, digest) == m.stamp = digest
ToolsAreCurrent(m, digest) == m.stamp.tools = digest.tools

\* Mutant: the pin is not compared.
Applies_AnyProvenance(c, r, g) ==
  /\ c.gate = g /\ r.tags \cap Never = {}
  /\ Has(r.masking, g) /\ c.finding = r.masking.gate[g]

Applies(c, r, g) ==
  /\ c.gate = g
  /\ r.tags \cap Never = {}
  /\ Has(r.masking, g)
  /\ c.finding = r.masking.gate[g]
  /\ c.pin = r.masking.stamp

Cleared(r, g) == \E c \in r.clearances : Applies(c, r, g)

---------------------------------------------------------------------------
(* shard-gate.py: may the row be published?                                *)

Failing(r, g) ==
  /\ r.masking.gate[g].verdict = "fail"
  /\ ~Cleared(r, g)

\* The tags and the record that a masked row owes.
Owes(r, digest, why) ==
  LET m == r.masking
      unmasked == r.tags \ (Never \cup Held)
      masked == m.applied /\ unmasked # {} IN
  \/ why = "held" /\ r.tags \cap Held # {}
  \/ why = "never" /\ r.tags \cap Never # {}
  \/ why = "unmasked" /\ ~m.applied /\ unmasked # {}
  \/ why = "provenance" /\ masked /\ ~ToolsAreCurrent(m, digest)
  \/ /\ why = "not recorded" /\ masked
     /\ \E g \in Gate : /\ ~Has(m, g)
                        /\ g = "secret_gate" => "secret" \in r.tags

\* Every recorded result that is not a pass blocks, whatever the tags say.
Finds(r, why) ==
  LET m == r.masking IN
  \/ why \in StampedGate /\ Failing(r, why)
  \/ /\ why = "detection_survived" /\ ~m.notApplicable
     /\ Failing(r, why)
  \/ why = "undecided" /\ \E g \in Gate : m.gate[g].evidence = "open"

Blockers(r, digest) ==
  {why \in Reason : Owes(r, digest, why) \/ Finds(r, why)}

\* recompute: the only thing that computes these fields.
Recomputed(r, digest) ==
  [r EXCEPT !.publishable = (Blockers(r, digest) = {}),
            !.blockers = Blockers(r, digest)]

Stale(r, digest) == r # Recomputed(r, digest)

Fix ==
  /\ Stale(row, disk)
  /\ row' = Recomputed(row, disk)
  /\ UNCHANGED <<disk, job, runs, muddied>>

\* adjudicationViolations: an adjudication is about a result the row records.
AdjudicationIsAuditable(m) == \A g \in m.adjudicated : Has(m, g)

\* credentialDispositionViolations: so is a credential kept on purpose.
KeepIsAuditable(m) == m.kept => Has(m, "secret_gate")

---------------------------------------------------------------------------
(* Starting a script, and leaving it.                                      *)

Idle(p) == job[p].script = "none"

\* The code a script runs is the one it loaded when it was started, which may
\* have been before the last edit; the digest is of what is on the disk now.
Start(p, script, gate, by, masking) ==
  /\ Idle(p) /\ runs < MaxRuns
  /\ runs' = runs + 1
  /\ job' = [job EXCEPT ![p] = [script |-> script, gate |-> gate, by |-> by,
                                stamp |-> disk, masking |-> masking]]
  /\ UNCHANGED <<row, disk, muddied>>

Loaded == {v \in Version : v.tools <= disk.tools /\ v.map = disk.map}

Running(p, script) == job[p].script = script

AtRest == [script |-> "none", gate |-> "secret_gate", by |-> First,
           stamp |-> First, masking |-> NoMasking]

Leave(p) == job' = [job EXCEPT ![p] = AtRest]

Writes(p, r) ==
  /\ row' = r
  /\ Leave(p)
  /\ UNCHANGED <<disk, runs>>

\* A refusal under the lock: the script exits and nothing is written.
Refuses(p) ==
  /\ Leave(p)
  /\ UNCHANGED <<row, disk, runs, muddied>>

With(m) == [row EXCEPT !.masking = m]

---------------------------------------------------------------------------
(* mask-samples.py                                                         *)

\* process: mask, scan before and after, run the gates, stamp.  The parity
\* verdict is the scanner's, and no digest is taken of the scanner.
Processed(by, parity) ==
  [NoMasking EXCEPT
     !.applied = TRUE,
     !.gate = [g \in Gate |-> Recorded(IF g \in StampedGate THEN Says[by][g]
                                       ELSE parity)],
     !.stamp = disk]

MaskLook(p) ==
  \E by \in Loaded, parity \in Answer :
    /\ ~row.masking.notApplicable
    /\ "secret" \in row.tags => Says[by]["secret_gate"] = "clean"
    /\ Start(p, "mask-samples", "detection_survived", by, Processed(by, parity))

\* apply_rows: the whole block is replaced by the one computed before the lock.
MaskApply(p) ==
  /\ Running(p, "mask-samples")
  /\ Writes(p, With(job[p].masking))
  /\ muddied' = (muddied \/ job[p].by # job[p].stamp)

---------------------------------------------------------------------------
(* verify-and-stamp.py, with and without --restamp                         *)

Stampable(m, restamp) ==
  /\ \E g \in StampedGate : Has(m, g)
  /\ restamp \/ m.stamp = NoStamp

StampLook(p) ==
  \E by \in Loaded, script \in {"verify-and-stamp", "restamp"} :
    /\ Stampable(row.masking, script = "restamp")
    /\ AllAgree(row.masking, by)
    /\ Start(p, script, "secret_gate", by, row.masking)

\* additions, which assert_additive lets replace a stamp only under --restamp.
Stamped(m, stamp) == [m EXCEPT !.stamp = stamp]

\* Mutant: the block that was looked at is written back, under the new stamp.
StampApply_AsSeen(p) ==
  /\ Running(p, "restamp")
  /\ Writes(p, With(Stamped(job[p].masking, job[p].stamp)))
  /\ muddied' = (muddied \/ job[p].by # job[p].stamp
                         \/ row.masking # job[p].masking)

\* What is added under the lock was decided before it: the row is not measured
\* again, and only the assertion about the keys is made.
StampApply(p) ==
  \E script \in {"verify-and-stamp", "restamp"} :
    /\ Running(p, script)
    /\ \/ /\ script = "restamp" \/ row.masking.stamp = NoStamp
          /\ Writes(p, With(Stamped(row.masking, job[p].stamp)))
          /\ muddied' = (muddied \/ job[p].by # job[p].stamp
                                 \/ row.masking # job[p].masking)
       \/ /\ script = "verify-and-stamp" /\ row.masking.stamp # NoStamp
          /\ Refuses(p)

---------------------------------------------------------------------------
(* remeasure-gates.py                                                      *)

\* build: something moved, and none of it holds a person's decision.
Remeasurable(m, by) ==
  /\ Moved(m, by) # {}
  /\ \A g \in Moved(m, by) : ~Decided(m.gate[g])

Remeasured(m, by, stamp) ==
  [m EXCEPT !.gate = [g \in Gate |-> IF g \in Moved(m, by)
                                     THEN Recorded(Says[by][g])
                                     ELSE m.gate[g]],
            !.stamp = stamp]

RemeasureLook(p) ==
  \E by \in Loaded :
    /\ Remeasurable(row.masking, by)
    /\ Start(p, "remeasure-gates", "secret_gate", by, row.masking)

\* Under the lock the gates run again, with the code loaded at the start and
\* the maps of now, and the digests are the ones taken before the lock.
RemeasureApply(p) ==
  LET by == [job[p].by EXCEPT !.map = disk.map] IN
  /\ Running(p, "remeasure-gates")
  /\ \/ /\ Remeasurable(row.masking, by)
        /\ Writes(p, With(Remeasured(row.masking, by, job[p].stamp)))
        /\ muddied' = (muddied \/ by # job[p].stamp)
     \/ /\ ~Remeasurable(row.masking, by)
        /\ Refuses(p)

---------------------------------------------------------------------------
(* clear-finding.py                                                        *)

\* Mutant: the pin is what is on the disk, not what the row was measured by.
Signed_PinsTheDisk(r, g, reasoned) ==
  [gate |-> g, finding |-> r.masking.gate[g], pin |-> disk,
   reasoned |-> reasoned]

Signed(r, g, reasoned) ==
  [gate |-> g, finding |-> r.masking.gate[g], pin |-> r.masking.stamp,
   reasoned |-> reasoned]

\* build: a finding, not a pass, measured by what is on the disk, and not
\* signed already.
Clearable(r, g, digest) ==
  /\ r.tags \cap Never = {}
  /\ r.masking.gate[g].verdict = "fail"
  /\ StampIsCurrent(r.masking, digest)
  /\ ~Cleared(r, g)

ClearLook(p) ==
  \E g \in Gate :
    /\ Clearable(row, g, disk)
    /\ Start(p, "clear-finding", g, disk, row.masking)

\* Mutant: the clearance replaces those on the row.
ClearApply_Replaces(p) ==
  /\ Running(p, "clear-finding")
  /\ \/ /\ Clearable(row, job[p].gate, job[p].stamp)
        /\ Writes(p, [row EXCEPT !.clearances = {Signed(row, job[p].gate, TRUE)}])
        /\ UNCHANGED muddied
     \/ /\ ~Clearable(row, job[p].gate, job[p].stamp)
        /\ Refuses(p)

\* The row is read and judged again under the lock, by the digests taken before.
ClearApply(p) ==
  /\ Running(p, "clear-finding")
  /\ \/ /\ Clearable(row, job[p].gate, job[p].stamp)
        /\ Writes(p, [row EXCEPT !.clearances =
                        @ \cup {Signed(row, job[p].gate, TRUE)}])
        /\ UNCHANGED muddied
     \/ /\ ~Clearable(row, job[p].gate, job[p].stamp)
        /\ Refuses(p)

\* backfill: a clearance that applies and names no reasoning gains one.
Backfillable(r) ==
  {c \in r.clearances : ~c.reasoned /\ Applies(c, r, c.gate)}

BackfillLook(p) ==
  /\ Backfillable(row) # {}
  /\ Start(p, "backfill", "secret_gate", disk, row.masking)

BackfillApply(p) ==
  /\ Running(p, "backfill")
  /\ Writes(p, [row EXCEPT !.clearances =
                  (@ \ Backfillable(row))
                    \cup {[c EXCEPT !.reasoned = TRUE] : c \in Backfillable(row)}])
  /\ UNCHANGED muddied

---------------------------------------------------------------------------
(* lift-adjudication.py                                                    *)

\* _refuse: resolved, under a gate that passed.
Liftable(m) ==
  {g \in StampedGate : /\ m.gate[g].evidence = "decided"
                       /\ m.gate[g].verdict = "pass"}

Lifted(m, g) == [m EXCEPT !.gate[g].evidence = "none", !.adjudicated = {g}]

LiftLook(p) ==
  /\ row.masking.adjudicated = {}
  /\ Liftable(row.masking) # {}
  /\ Start(p, "lift-adjudication", "secret_gate", disk, row.masking)

\* apply_to: one adjudication a row, and the second is a person's to merge.
LiftApply(p) ==
  LET m == row.masking IN
  /\ Running(p, "lift-adjudication")
  /\ \/ /\ m.adjudicated = {}
        /\ \E g \in Liftable(m) : Writes(p, With(Lifted(m, g)))
        /\ UNCHANGED muddied
     \/ /\ m.adjudicated # {} \/ Liftable(m) = {}
        /\ Refuses(p)

---------------------------------------------------------------------------
(* mark-not-maskable.py and stamp-legacy.py                                *)

Marked == [NoMasking EXCEPT !.notApplicable = TRUE]

MarkLook(p) ==
  /\ row.masking = NoMasking
  /\ Start(p, "mark-not-maskable", "secret_gate", disk, Marked)

\* build: a block is created, never edited.
MarkApply(p) ==
  /\ Running(p, "mark-not-maskable")
  /\ \/ /\ row.masking = NoMasking
        /\ Writes(p, With(job[p].masking))
        /\ UNCHANGED muddied
     \/ /\ row.masking # NoMasking
        /\ Refuses(p)

LegacyLook(p) ==
  /\ row.masking.notApplicable /\ ~row.masking.legacy
  /\ Start(p, "stamp-legacy", "secret_gate", disk, row.masking)

LegacyApply(p) ==
  LET m == row.masking IN
  /\ Running(p, "stamp-legacy")
  /\ Writes(p, With([m EXCEPT !.legacy = @ \/ m.notApplicable]))
  /\ UNCHANGED muddied

---------------------------------------------------------------------------
(* keep-credential.py                                                      *)

\* assert_additive: what the row already says of the secret gate stays.
Keepable(m, secret) ==
  /\ ~m.kept
  /\ ~Has(m, "secret_gate") \/ m.gate["secret_gate"] = secret

\* Mutant: the keep is written and the result it is about is not.
Kept_NoResult(m, j) == [m EXCEPT !.kept = TRUE, !.stamp = j.stamp]

\* Mutant: the row that was looked at is written, not the one under the lock.
Kept_AsSeen(m, j) ==
  [j.masking EXCEPT !.gate["secret_gate"] = Recorded(Says[j.by]["secret_gate"]),
                    !.kept = TRUE, !.stamp = j.stamp]

\* build: the secret gate is run, and the stamp is of the whole block.
Kept(m, j) ==
  [m EXCEPT !.gate["secret_gate"] = Recorded(Says[j.by]["secret_gate"]),
            !.kept = TRUE, !.stamp = j.stamp]

KeepLook(p) ==
  \E by \in Loaded :
    /\ row.tags \cap Never = {}
    /\ Keepable(row.masking, Recorded(Says[by]["secret_gate"]))
    /\ Start(p, "keep-credential", "secret_gate", by, row.masking)

\* A stamp taken while only the secret gate ran, on a row that holds more.
Borrows(m, stamp) ==
  m.stamp # stamp /\ \E g \in IdentifierGate : Has(m, g)

KeepApply(p) ==
  LET secret == Recorded(Says[job[p].by]["secret_gate"]) IN
  /\ Running(p, "keep-credential")
  /\ \/ /\ Keepable(row.masking, secret)
        /\ Writes(p, With(Kept(row.masking, job[p])))
        /\ muddied' = (muddied \/ job[p].by # job[p].stamp
                               \/ Borrows(row.masking, job[p].stamp))
     \/ /\ ~Keepable(row.masking, secret)
        /\ Refuses(p)

---------------------------------------------------------------------------
(* People: an edit to a tool or to a map, a review of the row.             *)

EditTools ==
  /\ disk.tools < MaxTools
  /\ disk' = [disk EXCEPT !.tools = @ + 1]
  /\ UNCHANGED <<row, job, runs, muddied>>

EditMap ==
  /\ disk.map < MaxMaps
  /\ disk' = [disk EXCEPT !.map = @ + 1]
  /\ UNCHANGED <<row, job, runs, muddied>>

Review ==
  /\ \E tags \in Tags : row' = [row EXCEPT !.tags = tags]
  /\ UNCHANGED <<disk, job, runs, muddied>>

---------------------------------------------------------------------------
(* The specification.                                                      *)

\* What an earlier tool left: a verdict without evidence, or with a person's
\* decision written into it.
OldEntry == {Absent} \cup
  {[verdict |-> "pass", evidence |-> e] : e \in {"none", "decided", "open"}} \cup
  {[verdict |-> "fail", evidence |-> "none"]}

OldMasking(old, secret) ==
  [NoMasking EXCEPT
     !.applied = TRUE,
     !.gate = [g \in Gate |-> IF g \in IdentifierGate THEN old[g]
                              ELSE IF g = "secret_gate" THEN secret
                              ELSE Recorded("clean")]]

OldMaskings ==
  {OldMasking(old, secret) :
     old \in [IdentifierGate -> OldEntry], secret \in {Absent, Recorded("clean")}}

\* A row measured and cleared before clearances named their reasoning.
JudgedMasking ==
  [NoMasking EXCEPT
     !.applied = TRUE, !.stamp = First,
     !.gate = [g \in Gate |-> IF g \in StampedGate THEN Recorded(Says[First][g])
                              ELSE Recorded("clean")]]

NewRow(m, tags, judged) ==
  [masking |-> m, tags |-> tags, clearances |-> judged,
   publishable |-> FALSE, blockers |-> {}]

Init ==
  /\ \E tags \in Tags :
       \/ \E m \in OldMaskings \cup {NoMasking} : row = NewRow(m, tags, {})
       \/ row = NewRow(JudgedMasking, tags,
                       {[gate |-> g, finding |-> JudgedMasking.gate[g],
                         pin |-> First, reasoned |-> FALSE] :
                          g \in {h \in StampedGate : Says[First][h] # "clean"}})
  /\ disk = First
  /\ job = [p \in Run |-> AtRest]
  /\ runs = 0
  /\ muddied = FALSE

Look(p) ==
  \/ MaskLook(p) \/ StampLook(p) \/ RemeasureLook(p) \/ ClearLook(p)
  \/ BackfillLook(p) \/ LiftLook(p) \/ MarkLook(p) \/ LegacyLook(p)
  \/ KeepLook(p)

Apply(p) ==
  \/ MaskApply(p) \/ StampApply(p) \/ RemeasureApply(p) \/ ClearApply(p)
  \/ BackfillApply(p) \/ LiftApply(p) \/ MarkApply(p) \/ LegacyApply(p)
  \/ KeepApply(p)

Next ==
  \/ \E p \in Run : Look(p) \/ Apply(p)
  \/ Fix \/ EditTools \/ EditMap \/ Review

Spec == Init /\ [][Next]_vars

---------------------------------------------------------------------------
(* Properties.                                                             *)

TypeOK ==
  /\ row \in Row
  /\ disk \in Version
  /\ job \in [Run -> Job]
  /\ runs \in 0 .. MaxRuns
  /\ muddied \in BOOLEAN

\* The version a running script measures with when it writes, and the gates it
\* measures: remeasure-gates runs them again, with the maps of now.
Measurer(j) == IF j.script = "remeasure-gates" THEN [j.by EXCEPT !.map = disk.map]
               ELSE j.by

Measures(j) ==
  CASE j.script \in {"mask-samples", "remeasure-gates"} -> StampedGate
    [] j.script = "keep-credential"                     -> {"secret_gate"}
    [] OTHER                                            -> {}

MeasuredAnew(p, g) ==
  /\ job'[p] # job[p] /\ g \in Measures(job[p])
  /\ row'.masking.gate[g] = Recorded(Says[Measurer(job[p])][g])

DecisionLifted(g) ==
  /\ row.masking.gate[g].evidence = "decided" /\ g \in row'.masking.adjudicated
  /\ row'.masking.gate[g] = [row.masking.gate[g] EXCEPT !.evidence = "none"]

\* A gate's result changes only to what the script that writes it measured itself,
\* or by having a decision lifted out of it: whatever a script read before its lock
\* and whoever wrote in between, no older result comes back, none is dropped, and
\* none is taken over from another script's block (verify-and-stamp.py:346,
\* keep-credential.py:101, remeasure-gates.py).
ResultsAreMeasured ==
  [][\A g \in StampedGate :
       row'.masking.gate[g] # row.masking.gate[g] =>
         DecisionLifted(g) \/ \E p \in Run : MeasuredAnew(p, g)]_vars

\* A clearance is a judgement about what a particular gate said (clearance.py):
\* the finding that was signed is one the pinned version really returns.
SignedFindingIsReal ==
  ~muddied =>
    \A c \in row.clearances :
      c.gate \in StampedGate /\ c.pin # NoStamp
        => Agrees(c.finding, Says[c.pin][c.gate])

\* A decision names a result the row still records: what shard-gate.py checks
\* in adjudicationViolations and credentialDispositionViolations.
DecisionsStayAuditable ==
  /\ AdjudicationIsAuditable(row.masking)
  /\ KeepIsAuditable(row.masking)

\* No clearance is lost or altered by any writer, whatever was read before the
\* lock; the one thing a clearance can gain is who reasoned.
ClearancesAreKept ==
  [][\A c \in row.clearances :
       c \in row'.clearances \/ [c EXCEPT !.reasoned = TRUE] \in row'.clearances]_vars

\* What a person decided about the record stays on it, in the finding or lifted
\* out of it, until the sample is masked anew.
DecisionsStand ==
  [][\/ \E p \in Run : MaskApply(p)
     \/ /\ \A g \in Gate : Decided(row.masking.gate[g])
                           => \/ Decided(row'.masking.gate[g])
                              \/ g \in row'.masking.adjudicated
        /\ row.masking.adjudicated \subseteq row'.masking.adjudicated
        /\ row.masking.kept => row'.masking.kept]_vars

\* When a stamped row becomes publishable, each recorded gate is one that the
\* stamped version passes, or one whose finding by that very version was signed.
PublishedIsCleanOrSigned ==
  [][~row.publishable /\ row'.publishable /\ ~muddied
       /\ row.masking.stamp # NoStamp =>
     \A g \in StampedGate :
       Has(row.masking, g) =>
         \/ Says[row.masking.stamp][g] = "clean"
         \/ \E c \in row.clearances :
              /\ c.gate = g /\ c.pin = row.masking.stamp
              /\ Agrees(c.finding, Says[c.pin][g])]_vars

\* keep-credential.py: "this tool can only ever make a row LESS publishable, so
\* it cannot be the route by which something ships".  It is not so where the secret
\* gate was never recorded: the result and the stamp it writes lift two blockers.
KeepOnlyHolds ==
  [][\A p \in Run : KeepApply(p) /\ Blockers(row', disk) = {}
                      => Blockers(row, disk) = {}]_vars

=============================================================================
