----------------------------- MODULE SuiteProofs -----------------------------
(***************************************************************************)
(* Proofs about Masking and Rerun.                                         *)
(*                                                                         *)
(* Masking: a block, wherever it is held, is what the gates said of the    *)
(* bytes it names, and one that says nothing was changed names the bytes   *)
(* that came in.  Rerun: what a running suite has written down of each     *)
(* thing it scored is what the scanner of that moment did with it.         *)
(***************************************************************************)
EXTENDS Masking, Rerun, FiniteSetTheorems, TLAPS

---------------------------------------------------------------------------
(* Masking.                                                                *)

BlockOK(s, b) ==
  b # NoBlock =>
    /\ b = Block(b.against, b.bytes, b.claims)
    /\ b.claims = "same" => b.bytes = Content[s]

Blocks(f) == f = [s \in Piece |-> f[s]] /\ \A s \in Piece : BlockOK(s, f[s])

BlocksHold ==
  /\ Blocks(block)
  /\ restage # Nobody =>
       /\ restage = [rows |-> restage.rows, left |-> restage.left, hex |-> restage.hex,
                     names |-> restage.names, tiers |-> restage.tiers]
       /\ Blocks(restage.rows)
  /\ vouched = [s \in Piece |-> vouched[s]]

MaskingInv == BlocksHold /\ VouchedBytesAreTheGated

LEMMA BlockIsOK ==
  ASSUME NEW s \in Piece, NEW ns, NEW bytes, NEW claims,
         claims = "same" => bytes = Content[s]
  PROVE  BlockOK(s, Block(ns, bytes, claims))
BY DEF BlockOK, Block

LEMMA NoBlockIsOK == \A s \in Piece : BlockOK(s, NoBlock)
BY DEF BlockOK

\* One entry of a map of blocks is replaced.
LEMMA ReplacedIsOK ==
  ASSUME NEW f, NEW s \in Piece, NEW b, Blocks(f), BlockOK(s, b)
  PROVE  Blocks([f EXCEPT ![s] = b])
<1> DEFINE g == [f EXCEPT ![s] = b]
<1>1. f = [t \in Piece |-> f[t]]
  BY DEF Blocks
<1>2. g = [t \in Piece |-> IF t = s THEN b ELSE f[t]]
  BY <1>1
<1> QED BY <1>2 DEF Blocks

LEMMA VouchedStays ==
  ASSUME MaskingInv, UNCHANGED vouched
  PROVE  VouchedBytesAreTheGated'
BY DEF MaskingInv, VouchedBytesAreTheGated

LEMMA MaskingBegins == MaskingInit => MaskingInv
<1> SUFFICES ASSUME MaskingInit PROVE MaskingInv
  OBVIOUS
<1>1. ASSUME NEW s \in Piece, NEW b \in OldBlocks(s)
      PROVE  BlockOK(s, b)
  BY <1>1, BlockIsOK, NoBlockIsOK DEF OldBlocks
<1>2. Blocks(block)
  BY <1>1 DEF MaskingInit, Blocks
<1>3. BlocksHold
  BY <1>2 DEF MaskingInit, BlocksHold
<1>4. VouchedBytesAreTheGated
  BY DEF MaskingInit, VouchedBytesAreTheGated
<1> QED BY <1>3, <1>4 DEF MaskingInv

LEMMA MaskStep ==
  ASSUME MaskingInv, NEW s \in Piece, Mask(s)
  PROVE  MaskingInv'
<1>1. UNCHANGED <<restage, vouched>>
  BY DEF Mask
<1>2. CASE UNCHANGED block
  BY <1>1, <1>2, VouchedStays DEF MaskingInv, BlocksHold
<1>3. CASE \E bytes : block' = [block EXCEPT ![s] = Block(names, bytes, "hash")]
  <2>1. PICK bytes : block' = [block EXCEPT ![s] = Block(names, bytes, "hash")]
    BY <1>3
  <2>2. BlockOK(s, Block(names, bytes, "hash"))
    BY BlockIsOK
  <2>3. Blocks(block)
    BY DEF MaskingInv, BlocksHold
  <2>4. Blocks([block EXCEPT ![s] = Block(names, bytes, "hash")])
    BY <2>2, <2>3, ReplacedIsOK
  <2>5. Blocks(block)'
    BY <2>1, <2>4 DEF Blocks, BlockOK
  <2> QED BY <1>1, <2>5, VouchedStays DEF MaskingInv, BlocksHold
<1> QED BY <1>2, <1>3 DEF Mask

\* What a rebuilt block says of its bytes is true of them.
LEMMA RebuiltIsGated ==
  ASSUME NEW s \in Piece, NEW b, NEW bytes, b # NoBlock, BlockOK(s, b),
         Rebuilt(b, bytes, Content[s])
  PROVE  bytes = b.bytes
BY DEF BlockOK, Rebuilt

LEMMA RestageStep ==
  ASSUME MaskingInv, NEW s \in Piece, Restage(s)
  PROVE  MaskingInv'
<1> DEFINE b == restage.rows[s]
           bytes == Masked(restage.names, restage.tiers, restage.hex, Content[s])
<1>1. /\ restage # Nobody /\ UNCHANGED block
      /\ restage' = [restage EXCEPT !.left = @ \ {s}]
      /\ \/ UNCHANGED vouched
         \/ /\ b # NoBlock /\ Rebuilt(b, bytes, Content[s])
            /\ vouched' = [vouched EXCEPT ![s] = [b EXCEPT !.bytes = bytes]]
         \/ /\ b # NoBlock
            /\ vouched' = [vouched EXCEPT ![s] = b]
  BY DEF Restage
<1> HIDE DEF bytes
<1>2. BlockOK(s, b) /\ vouched = [t \in Piece |-> vouched[t]]
  BY <1>1 DEF MaskingInv, BlocksHold, Blocks
<1>3. vouched' = vouched \/ (b # NoBlock /\ vouched' = [vouched EXCEPT ![s] = b])
  <2>1. ASSUME b # NoBlock, Rebuilt(b, bytes, Content[s])
        PROVE  [b EXCEPT !.bytes = bytes] = b
    <3>1. bytes = b.bytes
      BY <1>2, <2>1, RebuiltIsGated
    <3>2. b = [bytes |-> b.bytes, gate |-> Gate(b.against, b.bytes),
               against |-> b.against, claims |-> b.claims]
      BY <1>2, <2>1 DEF BlockOK, Block
    <3> HIDE DEF b
    <3> QED BY <3>1, <3>2
  <2> QED BY <1>1, <2>1
<1>4. b # NoBlock => b.gate = Gate(b.against, b.bytes)
  BY <1>2 DEF BlockOK, Block
<1>5. vouched' = [t \in Piece |-> vouched'[t]] /\ VouchedBytesAreTheGated'
  <2> HIDE DEF b
  <2> QED BY <1>2, <1>3, <1>4 DEF MaskingInv, VouchedBytesAreTheGated
<1>6. restage' # Nobody =>
        /\ restage' = [rows |-> restage.rows, left |-> restage.left \ {s},
                       hex |-> restage.hex, names |-> restage.names,
                       tiers |-> restage.tiers]
        /\ Blocks(restage.rows)
  BY <1>1 DEF MaskingInv, BlocksHold
<1>7. BlocksHold'
  BY <1>1, <1>5, <1>6 DEF MaskingInv, BlocksHold, Blocks
<1> QED BY <1>5, <1>7 DEF MaskingInv

LEMMA MaskingStep ==
  ASSUME MaskingInv, [MaskingNext]_maskingVars
  PROVE  MaskingInv'
<1>1. CASE UNCHANGED <<block, restage, vouched>>
  BY <1>1, VouchedStays DEF MaskingInv, BlocksHold
<1>2. CASE RestageStart
  <2>1. /\ UNCHANGED block /\ vouched' = [s \in Piece |-> NoBlock]
        /\ \E hex \in BOOLEAN :
             restage' = [rows |-> block, left |-> Piece \cap OnHand, hex |-> hex,
                         names |-> names, tiers |-> tiers]
    BY <1>2 DEF RestageStart
  <2>2. BlocksHold'
    BY <2>1 DEF MaskingInv, BlocksHold
  <2> QED BY <2>1, <2>2 DEF MaskingInv, VouchedBytesAreTheGated
<1>3. CASE RestageEnd
  <2>1. /\ UNCHANGED block /\ restage' = Nobody
        /\ vouched' = vouched \/ vouched' = [s \in Piece |-> NoBlock]
    BY <1>3 DEF RestageEnd
  <2> QED BY <2>1 DEF MaskingInv, BlocksHold, VouchedBytesAreTheGated
<1>4. ASSUME NEW s \in Piece, Mask(s) \/ Restage(s)
      PROVE  MaskingInv'
  BY <1>4, MaskStep, RestageStep
<1>5. CASE \/ Cleared \/ TiersRead \/ TiersWritten \/ TiersRefused
           \/ \E v \in Nameable : Learn(v)
  BY <1>1, <1>5 DEF Cleared, TiersRead, TiersWritten, TiersRefused, Learn
<1> QED BY <1>1, <1>2, <1>3, <1>4, <1>5 DEF MaskingNext, maskingVars

LEMMA MaskingHolds == Masking => []MaskingInv
BY MaskingBegins, MaskingStep, PTL DEF Masking

\* restage-masked.regenerate: the verdict it stores with the bytes it vouches
\* for is true of them, whatever the mapping, widths and flags are by then.
THEOREM VouchedAreGated == Masking => []VouchedBytesAreTheGated
<1>1. MaskingInv => VouchedBytesAreTheGated
  BY DEF MaskingInv
<1> QED BY MaskingHolds, <1>1, PTL

\* verify-content-mask.gate: in the bytes of a row whose two gates passed, no name
\* they look for can be read, or decoded in up to four layers of which the gate
\* left none shut on the way, without running the sample.
THEOREM PassedAreNameless == Masking => []PassedMeansNameless
<1>1. ASSUME MaskingInv, NEW s \in Piece, block[s] # NoBlock,
             block[s].gate.plain, block[s].gate.encoded, NEW o \in block[s].bytes,
             o.text.of \in (block[s].against \cup Elsewhere)
                               \ (Overlooked \cup Split \cup Spared),
             o.place \in Place \ {"kept"},
             o.text.of \notin Long => o.place \in {"slot", "docroot", "conf", "word", "tail"},
             Len(o.layers) <= 4, Each(o.layers, Encoding \ {"runtime", "opaque", "scrap"}),
             \A i \in o.shut : i = Len(o.layers)
      PROVE  o.text.by # <<>>
  <2>1. block[s].gate = Gate(block[s].against, block[s].bytes)
    BY <1>1 DEF MaskingInv, BlocksHold, Blocks, BlockOK, Block
  <2>2. ~Contained(block[s].against, o)
    <3>1. CASE o.layers = <<>>
      BY <1>1, <2>1, <3>1 DEF Gate, Found
    <3>2. CASE o.layers # <<>>
      <4>1. Each(o.layers, Taken) /\ o.shut \subseteq {Len(o.layers)}
        BY <1>1 DEF Each, Encoding, Taken
      <4>2. Opens(o)
        BY <1>1, <4>1 DEF Opens
      <4> QED BY <1>1, <2>1, <3>2, <4>2 DEF Gate, Found
    <3> QED BY <3>1, <3>2
  <2>3. IsALeak(o)
    BY <1>1 DEF IsALeak
  <2> QED BY <1>1, <2>2, <2>3 DEF Contained, Identifiers
<1>2. MaskingInv => PassedMeansNameless
  BY <1>1 DEF PassedMeansNameless
<1> QED BY MaskingHolds, <1>2, PTL

---------------------------------------------------------------------------
(* Rerun.                                                                  *)

Scores == Failure \cup {"not yet", "not shipped", "still missed", "newly detected",
                        "exact", "clean", "still firing", "newly fixed", "quiet"}
Counts == {Cardinality(S) : S \in SUBSET Row} \cup {0}
RunType ==
  [pc : {"summary", "unpack", "check", "say"},
   rows : [Row -> {"held", "expected", "known"}], runnable : Counts,
   dirs : SUBSET Row, score : [Things -> Scores], read : SUBSET Things,
   builds : SUBSET Build,
   figure : [is : {"none", "refused", "given"}, files : Int, fp : Int],
   swept : SUBSET File]

\* What the suite has written of a row, of a carrier, of a fixture.
RowTold(w, r) ==
  /\ w.score[r] \notin Failure \cup {"not yet", "not shipped"} => r \in w.read
  /\ w.score[r] = "not shipped" => w.rows[r] = "held"
  /\ w.score[r] = "exact" =>
       /\ w.rows[r] = "expected"
       /\ \E b \in w.builds : Fires[b][r] = Want[r]
  /\ w.rows[r] = "expected" /\ w.score[r] \notin Failure \cup {"not yet"}
       => w.score[r] = "exact"
CarrierTold(w, c) ==
  /\ w.score[c] \in {"not yet", "unscanned", "clean", "false positive"}
  /\ c \in w.read <=> w.score[c] \in {"clean", "false positive"}
  /\ w.score[c] = "clean" => \E b \in w.builds : Fires[b][c] = {}
FixtureTold(w, f) ==
  w.score[f] \notin Failure \cup {"not yet"} => f \in w.read

Told(w) ==
  /\ w \in RunType
  /\ \A r \in Row : RowTold(w, r)
  /\ \A c \in Carrier : CarrierTold(w, c)
  /\ \A f \in Fixture : FixtureTold(w, f)
  /\ w.pc = "say" => \A x \in Things : w.score[x] # "not yet"
  /\ w.figure.is = "given" =>
       w.swept = File \ Oversize /\ w.figure.files = Cardinality(w.swept)

RerunInv ==
  /\ kind \in [Row -> {"held", "expected", "known"}]
  /\ shipped \in SUBSET Row /\ runnable \in Counts /\ build \in Build
  /\ run # NoRun => Told(run)
  /\ GreenIsEarned /\ FigureIsOverTheTrees

\* One score is written, with the file read or not, by the scanner there is.
Told1(w, x, what, opened, b) ==
  [w EXCEPT !.score = [w.score EXCEPT ![x] = what], !.read = opened,
            !.builds = w.builds \cup {b}]

LEMMA Apart ==
  /\ \A x \in Row : x \notin Carrier /\ x \notin Fixture
  /\ \A x \in Carrier : x \notin Row /\ x \notin Fixture
  /\ \A x \in Fixture : x \notin Row /\ x \notin Carrier
  /\ Row \subseteq Things /\ Carrier \subseteq Things /\ Fixture \subseteq Things
  /\ Things = Row \cup Carrier \cup Fixture
BY RerunAssumption DEF Things

Wrote(n, w, x, what, opened, b) ==
  /\ n \in RunType /\ n.pc = w.pc /\ n.rows = w.rows /\ n.figure = w.figure
  /\ n.swept = w.swept
  /\ n.score[x] = what /\ \A y \in Things \ {x} : n.score[y] = w.score[y]
  /\ n.read = opened /\ n.builds = w.builds \cup {b}

LEMMA Told1Type ==
  ASSUME NEW w \in RunType, NEW x \in Things, NEW what \in Scores,
         NEW opened \in SUBSET Things, NEW b \in Build
  PROVE  Wrote(Told1(w, x, what, opened, b), w, x, what, opened, b)
<1> DEFINE score == [w.score EXCEPT ![x] = what]
           builds == w.builds \cup {b}
<1>1. score \in [Things -> Scores] /\ score[x] = what
      /\ \A y \in Things \ {x} : score[y] = w.score[y]
  BY DEF RunType
<1>2. builds \in SUBSET Build
  BY DEF RunType
<1> HIDE DEF score, builds
<1>3. [w EXCEPT !.score = score, !.read = opened, !.builds = builds] \in RunType
  BY <1>1, <1>2 DEF RunType
<1>4. Told1(w, x, what, opened, b)
        = [w EXCEPT !.score = score, !.read = opened, !.builds = builds]
  BY DEF Told1, score, builds
<1>5. LET n == Told1(w, x, what, opened, b) IN
      /\ n \in RunType /\ n.pc = w.pc /\ n.rows = w.rows /\ n.figure = w.figure
      /\ n.swept = w.swept /\ n.score = score /\ n.read = opened /\ n.builds = builds
  BY <1>3, <1>4 DEF RunType
<1> QED BY <1>1, <1>5 DEF builds, Wrote

\* What is written of one thing takes nothing back that was written of others.
Kept(n, w, x) ==
  /\ n \in RunType /\ n.pc = w.pc
  /\ \A r \in Row \ {x} : RowTold(n, r)
  /\ \A c \in Carrier \ {x} : CarrierTold(n, c)
  /\ \A f \in Fixture \ {x} : FixtureTold(n, f)
  /\ n.figure.is = "given" =>
       n.swept = File \ Oversize /\ n.figure.files = Cardinality(n.swept)

LEMMA OthersTold ==
  ASSUME NEW w, Told(w), NEW x \in Things, NEW what \in Scores,
         NEW opened \in {w.read, w.read \cup {x}}, NEW b \in Build
  PROVE  Kept(Told1(w, x, what, opened, b), w, x)
<1> DEFINE n == Told1(w, x, what, opened, b)
<1>1. /\ n \in RunType /\ n.pc = w.pc /\ n.rows = w.rows /\ n.figure = w.figure
      /\ n.swept = w.swept /\ \A y \in Things \ {x} : n.score[y] = w.score[y]
      /\ w.read \subseteq n.read /\ n.read \subseteq w.read \cup {x}
      /\ w.builds \subseteq n.builds
  <2>1. w \in RunType /\ opened \in SUBSET Things
    BY DEF Told, RunType
  <2>2. Wrote(n, w, x, what, opened, b)
    BY <2>1, Told1Type
  <2> HIDE DEF n
  <2> QED BY <2>2 DEF Wrote
<1> HIDE DEF n
<1>2. ASSUME NEW r \in Row \ {x} PROVE RowTold(n, r)
  <2>1. n.score[r] = w.score[r] /\ RowTold(w, r)
    BY <1>1, Apart DEF Told
  <2> QED BY <1>1, <2>1 DEF RowTold
<1>3. ASSUME NEW c \in Carrier \ {x} PROVE CarrierTold(n, c)
  <2>1. n.score[c] = w.score[c] /\ CarrierTold(w, c)
    BY <1>1, Apart DEF Told
  <2> QED BY <1>1, <2>1 DEF CarrierTold
<1>4. ASSUME NEW f \in Fixture \ {x} PROVE FixtureTold(n, f)
  <2>1. n.score[f] = w.score[f] /\ FixtureTold(w, f)
    BY <1>1, Apart DEF Told
  <2> QED BY <1>1, <2>1 DEF FixtureTold
<1>5. n.figure.is = "given" =>
        n.swept = File \ Oversize /\ n.figure.files = Cardinality(n.swept)
  BY <1>1 DEF Told
<1> QED BY <1>1, <1>2, <1>3, <1>4, <1>5 DEF n, Kept

LEMMA CheckRowStep ==
  ASSUME RerunInv, NEW r \in Row, CheckRow(r)
  PROVE  Told(run')
<1>1. /\ Told(run) /\ run \in RunType /\ run.rows[r] \in {"held", "expected", "known"}
      /\ r \in Things /\ build \in Build
  BY Apart DEF RerunInv, Told, CheckRow, RunType
<1>8. run.pc = "check" /\ run.score[r] = "not yet"
  BY DEF CheckRow
<1>2. r \notin Carrier /\ r \notin Fixture
  BY Apart
<1>3. ASSUME NEW what \in {"not shipped", "absent"}, Put(r, what),
             what = "not shipped" => run.rows[r] = "held",
             what = "absent" => TRUE
      PROVE  Told(run')
  <2> DEFINE score == [run.score EXCEPT ![r] = what]
  <2>1. run' = [run EXCEPT !.score = score]
    BY <1>3 DEF Put
  <2>2. /\ score \in [Things -> Scores] /\ score[r] = what
        /\ \A y \in Things \ {r} : score[y] = run.score[y]
    BY <1>1 DEF RunType, Scores, Failure
  <2> HIDE DEF score
  <2>3. /\ run' \in RunType /\ run'.score = score /\ run'.pc = run.pc
        /\ run'.rows = run.rows /\ run'.read = run.read /\ run'.builds = run.builds
        /\ run'.figure = run.figure /\ run'.swept = run.swept
    BY <1>1, <2>1, <2>2 DEF RunType
  <2>4. RowTold(run', r)
    BY <1>3, <2>2, <2>3 DEF RowTold, Failure
  <2>5. ASSUME NEW q \in Row \ {r} PROVE RowTold(run', q)
    BY <1>1, <2>2, <2>3, Apart DEF Told, RowTold
  <2>6. ASSUME NEW c \in Carrier PROVE CarrierTold(run', c)
    BY <1>1, <1>2, <2>2, <2>3, Apart DEF Told, CarrierTold
  <2>7. ASSUME NEW f \in Fixture PROVE FixtureTold(run', f)
    BY <1>1, <1>2, <2>2, <2>3, Apart DEF Told, FixtureTold
  <2> QED BY <1>1, <1>8, <2>3, <2>4, <2>5, <2>6, <2>7 DEF Told
<1>4. ASSUME NEW read \in BOOLEAN, run.rows[r] # "held",
             Gives(r, Scored(run.rows[r], Want[r], Check(r, read)), read)
      PROVE  Told(run')
  <2> DEFINE chk == Check(r, read)
             what == Scored(run.rows[r], Want[r], chk)
             opened == IF read THEN run.read \cup {r} ELSE run.read
             n == Told1(run, r, what, opened, build)
  <2>1. run' = n
    BY <1>4 DEF Gives, Told1
  <2>2. /\ chk.outcome = "error" <=> ~read
        /\ read => chk.rules = Fires[build][r]
    BY <1>1, RerunAssumption DEF Check
  <2> HIDE DEF chk
  <2>6. opened \in {run.read, run.read \cup {r}} /\ (read => r \in opened)
        /\ opened \in SUBSET Things
    BY <1>1 DEF RunType
  <2> HIDE DEF opened
  <2>3. /\ what \in Scores /\ what \notin {"not yet", "not shipped"}
        /\ what \notin Failure => read
        /\ what = "exact" => run.rows[r] = "expected" /\ Fires[build][r] = Want[r]
        /\ run.rows[r] = "expected" /\ what \notin Failure => what = "exact"
    <3>1. CASE ~read
      <4>1. what = "unscanned"
        BY <2>2, <3>1 DEF Scored
      <4> QED BY <3>1, <4>1 DEF Scores, Failure
    <3>2. CASE read /\ run.rows[r] = "known"
      <4>1. what \in {"still missed", "newly detected"}
        BY <2>2, <3>2 DEF Scored
      <4> QED BY <3>2, <4>1 DEF Scores, Failure
    <3>3. CASE read /\ run.rows[r] = "expected"
      <4>1. /\ what \in {"exact", "missed", "wrong rule"}
            /\ what = "exact" => chk.rules = Want[r]
        BY <2>2, <3>3 DEF Scored
      <4> QED BY <2>2, <3>3, <4>1 DEF Scores, Failure
    <3> QED BY <1>1, <1>4, <3>1, <3>2, <3>3
  <2> HIDE DEF what, n
  <2>4. Kept(n, run, r)
    BY <1>1, <2>3, <2>6, OthersTold DEF n
  <2>5. RowTold(n, r)
    <3>1. Wrote(n, run, r, what, opened, build)
      BY <1>1, <2>3, <2>6, Told1Type DEF n
    <3> QED BY <1>1, <2>3, <2>6, <3>1 DEF RowTold, Wrote
  <2> QED BY <1>2, <1>8, <2>1, <2>4, <2>5 DEF Told, Kept
<1>5. CASE run.rows[r] = "held"
  BY <1>3, <1>5 DEF CheckRow
<1>6. CASE run.rows[r] # "held" /\ r \notin run.dirs
  BY <1>3, <1>6 DEF CheckRow
<1>7. CASE run.rows[r] # "held" /\ r \in run.dirs
  BY <1>4, <1>7 DEF CheckRow
<1> QED BY <1>5, <1>6, <1>7

LEMMA CheckCarrierStep ==
  ASSUME RerunInv, NEW c \in Carrier, CheckCarrier(c)
  PROVE  Told(run')
<1>1. Told(run) /\ run \in RunType /\ c \in Things /\ build \in Build
  BY Apart DEF RerunInv, Told, CheckCarrier
<1>2. run.pc = "check" /\ run.score[c] = "not yet"
  BY DEF CheckCarrier
<1>3. c \notin Row /\ c \notin Fixture
  BY Apart
<1>4. PICK read \in BOOLEAN : Gives(c, Silent(Check(c, read)), read)
  BY DEF CheckCarrier
<1> DEFINE chk == Check(c, read)
           what == Silent(chk)
           opened == IF read THEN run.read \cup {c} ELSE run.read
           n == Told1(run, c, what, opened, build)
<1>5. run' = n
  BY <1>4 DEF Gives, Told1
<1>6. /\ chk.outcome = "error" <=> ~read
      /\ read => chk.rules = Fires[build][c]
  BY <1>1, RerunAssumption DEF Check
<1> HIDE DEF chk
<1>7. opened \in {run.read, run.read \cup {c}} /\ opened \in SUBSET Things
  BY <1>1 DEF RunType
<1>8. /\ what \in {"unscanned", "clean", "false positive"}
      /\ read <=> what # "unscanned"
      /\ what = "clean" => Fires[build][c] = {}
  <2>1. CASE ~read
    BY <1>6, <2>1 DEF Silent
  <2>2. CASE read
    BY <1>6, <2>2 DEF Silent
  <2> QED BY <2>1, <2>2
<1>9. c \in opened <=> read
  BY <1>1, <1>2 DEF Told, CarrierTold
<1> HIDE DEF what, n, opened
<1>10. what \in Scores
  BY <1>8 DEF Scores, Failure
<1>11. Kept(n, run, c)
  BY <1>1, <1>7, <1>10, OthersTold DEF n
<1>12. CarrierTold(n, c)
  <2>1. Wrote(n, run, c, what, opened, build)
    BY <1>1, <1>7, <1>10, Told1Type DEF n
  <2> QED BY <1>8, <1>9, <2>1 DEF CarrierTold, Wrote
<1> QED BY <1>3, <1>2, <1>5, <1>11, <1>12 DEF Told, Kept

LEMMA CheckFixtureStep ==
  ASSUME RerunInv, NEW f \in Fixture, CheckFixture(f)
  PROVE  Told(run')
<1>1. Told(run) /\ run \in RunType /\ f \in Things /\ build \in Build
  BY Apart DEF RerunInv, Told, CheckFixture
<1>2. run.pc = "check" /\ run.score[f] = "not yet"
  BY DEF CheckFixture
<1>3. f \notin Row /\ f \notin Carrier
  BY Apart
<1>4. ASSUME Put(f, "unresolved") PROVE Told(run')
  <2> DEFINE score == [run.score EXCEPT ![f] = "unresolved"]
  <2>1. run' = [run EXCEPT !.score = score]
    BY <1>4 DEF Put
  <2>2. /\ score \in [Things -> Scores] /\ score[f] = "unresolved"
        /\ \A y \in Things \ {f} : score[y] = run.score[y]
    BY <1>1 DEF RunType, Scores, Failure
  <2> HIDE DEF score
  <2>3. /\ run' \in RunType /\ run'.score = score /\ run'.pc = run.pc
        /\ run'.rows = run.rows /\ run'.read = run.read /\ run'.builds = run.builds
        /\ run'.figure = run.figure /\ run'.swept = run.swept
    BY <1>1, <2>1, <2>2 DEF RunType
  <2>4. FixtureTold(run', f)
    BY <2>2, <2>3 DEF FixtureTold, Failure
  <2>5. ASSUME NEW q \in Row PROVE RowTold(run', q)
    BY <1>1, <1>3, <2>2, <2>3, Apart DEF Told, RowTold
  <2>6. ASSUME NEW c \in Carrier PROVE CarrierTold(run', c)
    BY <1>1, <1>3, <2>2, <2>3, Apart DEF Told, CarrierTold
  <2>7. ASSUME NEW g \in Fixture \ {f} PROVE FixtureTold(run', g)
    BY <1>1, <2>2, <2>3, Apart DEF Told, FixtureTold
  <2> QED BY <1>1, <1>2, <2>3, <2>4, <2>5, <2>6, <2>7 DEF Told
<1>5. ASSUME NEW read \in BOOLEAN, Gives(f, Fixed(f, Check(f, read)), read)
      PROVE  Told(run')
  <2> DEFINE chk == Check(f, read)
             what == Fixed(f, chk)
             opened == IF read THEN run.read \cup {f} ELSE run.read
             n == Told1(run, f, what, opened, build)
  <2>1. run' = n
    BY <1>5 DEF Gives, Told1
  <2>2. chk.outcome = "error" <=> ~read
    BY DEF Check
  <2> HIDE DEF chk
  <2>3. /\ opened \in {run.read, run.read \cup {f}} /\ opened \in SUBSET Things
        /\ read => f \in opened
    BY <1>1 DEF RunType
  <2>4. /\ what \in {"unscanned", "still firing", "newly fixed", "regressed", "quiet"}
        /\ ~read => what = "unscanned"
    BY <2>2 DEF Fixed
  <2> HIDE DEF what, n, opened
  <2>5. what \in Scores
    BY <2>4 DEF Scores, Failure
  <2>6. Kept(n, run, f)
    BY <1>1, <2>3, <2>5, OthersTold DEF n
  <2>7. FixtureTold(n, f)
    <3>1. Wrote(n, run, f, what, opened, build)
      BY <1>1, <2>3, <2>5, Told1Type DEF n
    <3> QED BY <2>3, <2>4, <3>1 DEF FixtureTold, Wrote, Failure
  <2> QED BY <1>2, <1>3, <2>1, <2>6, <2>7 DEF Told, Kept
<1> QED BY <1>4, <1>5 DEF CheckFixture

LEMMA StartStep ==
  ASSUME RerunInv, Start
  PROVE  Told(run')
<1> DEFINE score == [x \in Things |-> "not yet"]
<1>1. score \in [Things -> Scores] /\ \A x \in Things : score[x] = "not yet"
  BY DEF Scores
<1>2. run' = [pc |-> "summary", rows |-> kind, runnable |-> 0, dirs |-> {},
              score |-> score, read |-> {}, builds |-> {},
              figure |-> Figure("none", 0, 0), swept |-> {}]
  BY DEF Start
<1> HIDE DEF score
<1>3. run' \in RunType
  <2>1. /\ kind \in [Row -> {"held", "expected", "known"}] /\ 0 \in Counts
        /\ Figure("none", 0, 0)
             \in [is : {"none", "refused", "given"}, files : Int, fp : Int]
    BY DEF RerunInv, Counts, Figure
  <2> QED BY <1>1, <1>2, <2>1 DEF RunType
<1>4. /\ run'.pc = "summary" /\ run'.score = score /\ run'.read = {}
      /\ run'.figure.is = "none"
  BY <1>2 DEF Figure
<1>5. ASSUME NEW r \in Row PROVE RowTold(run', r)
  BY <1>1, <1>4, Apart DEF RowTold
<1>6. ASSUME NEW c \in Carrier PROVE CarrierTold(run', c)
  BY <1>1, <1>4, Apart DEF CarrierTold
<1>7. ASSUME NEW f \in Fixture PROVE FixtureTold(run', f)
  BY <1>1, <1>4, Apart DEF FixtureTold
<1> QED BY <1>3, <1>4, <1>5, <1>6, <1>7 DEF Told

\* The summary and the shards change nothing that is written of a thing.
SameScores(w) ==
  /\ w \in RunType /\ w.rows = run.rows /\ w.score = run.score
  /\ w.read = run.read /\ w.builds = run.builds

LEMMA SameScoresTold ==
  ASSUME Told(run), NEW w, SameScores(w)
  PROVE  /\ w \in RunType /\ w.score = run.score
         /\ \A r \in Row : RowTold(w, r)
         /\ \A c \in Carrier : CarrierTold(w, c)
         /\ \A f \in Fixture : FixtureTold(w, f)
BY DEF SameScores, Told, RowTold, CarrierTold, FixtureTold

LEMMA PreparedStep ==
  ASSUME RerunInv, ReadSummary \/ Unpack
  PROVE  run' # NoRun => Told(run')
<1>1. Told(run) /\ run \in RunType /\ runnable \in Counts /\ shipped \in SUBSET Row
  BY DEF RerunInv, Told, ReadSummary, Unpack
<1>2. ASSUME NEW n \in Counts, NEW pc \in {"unpack", "check"}, NEW dirs \in SUBSET Row,
             \/ run' = [run EXCEPT !.pc = pc, !.runnable = n]
             \/ run' = [run EXCEPT !.pc = pc, !.dirs = dirs]
      PROVE  Told(run')
  <2>1. /\ SameScores(run') /\ run'.pc # "say" /\ run'.figure = run.figure
        /\ run'.swept = run.swept
    BY <1>1, <1>2 DEF RunType, SameScores
  <2> QED BY <1>1, <2>1, SameScoresTold DEF Told
<1> QED BY <1>1, <1>2 DEF ReadSummary, Unpack

LEMMA SweepStep ==
  ASSUME RerunInv, Sweep
  PROVE  Told(run')
<1>1. /\ Told(run) /\ run \in RunType /\ build \in Build
      /\ run.pc = "check" /\ \A x \in Things : run.score[x] # "not yet"
  BY DEF RerunInv, Told, Sweep
<1>2. ASSUME NEW figure \in [is : {"none", "refused", "given"}, files : Int, fp : Int],
             NEW swept \in SUBSET File,
             figure.is = "given" =>
               swept = File \ Oversize /\ figure.files = Cardinality(swept),
             \/ run' = [run EXCEPT !.pc = "say", !.builds = run.builds \cup {build},
                                   !.swept = swept, !.figure = figure]
             \/ run' = [run EXCEPT !.pc = "say", !.figure = figure] /\ figure.is # "given"
      PROVE  Told(run')
  <2> DEFINE builds == run.builds \cup {build}
  <2>1. builds \in SUBSET Build /\ run.builds \subseteq builds
    BY <1>1 DEF RunType
  <2>2. \/ run' = [run EXCEPT !.pc = "say", !.builds = builds,
                              !.swept = swept, !.figure = figure]
        \/ run' = [run EXCEPT !.pc = "say", !.figure = figure] /\ figure.is # "given"
    BY <1>2
  <2> HIDE DEF builds
  <2>3. /\ run' \in RunType /\ run'.rows = run.rows /\ run'.score = run.score
        /\ run'.read = run.read /\ run.builds \subseteq run'.builds /\ run'.pc = "say"
    BY <1>1, <1>2, <2>1, <2>2 DEF RunType
  <2>4. /\ run'.figure = figure
        /\ figure.is = "given" => run'.swept = swept
    BY <1>1, <1>2, <2>1, <2>2 DEF RunType
  <2>5. /\ \A r \in Row : RowTold(run', r)
        /\ \A c \in Carrier : CarrierTold(run', c)
        /\ \A f \in Fixture : FixtureTold(run', f)
    BY <1>1, <2>3 DEF Told, RowTold, CarrierTold, FixtureTold
  <2> QED BY <1>1, <1>2, <2>3, <2>4, <2>5 DEF Told
<1> DEFINE R(w, u, e) == Report(w \ (u \cup Oversize), u, e)
           S(w, u, e) == R(w, u, e).reached \ (w \cup Oversize)
           F(w, u, e) == IF Refused(R(w, u, e)) THEN Figure("refused", 0, 0)
                         ELSE Figure("given", FilesRead(R(w, u, e)),
                                     Cardinality(R(w, u, e).matched))
<1>3. ASSUME NEW withheld \in SUBSET File, NEW unlisted \in SUBSET File,
             NEW ended \in BOOLEAN
      PROVE  LET figure == F(withheld, unlisted, ended)
                 swept == S(withheld, unlisted, ended)
             IN /\ figure \in [is : {"none", "refused", "given"}, files : Int, fp : Int]
                /\ swept \in SUBSET File
                /\ figure.is = "given" =>
                     swept = File \ Oversize /\ figure.files = Cardinality(swept)
  <2> DEFINE report == R(withheld, unlisted, ended)
             swept == report.reached \ (withheld \cup Oversize)
  <2>1. /\ report.reached = File \ unlisted
        /\ report.unreadable = withheld \ (unlisted \cup Oversize)
        /\ report.gap <=> unlisted # {}
        /\ report.matched \in SUBSET File
    BY DEF Report
  <2> HIDE DEF report
  <2>2. /\ IsFiniteSet(report.reached) /\ IsFiniteSet(report.reached \cap Oversize)
        /\ IsFiniteSet(report.unreadable) /\ IsFiniteSet(report.matched)
    BY <2>1, RerunAssumption, FS_Subset
  <2>3. FilesRead(report) \in Int /\ Cardinality(report.matched) \in Int
    BY <2>2, FS_CardinalityType DEF FilesRead
  <2>4. ASSUME ~Refused(report)
        PROVE  swept = File \ Oversize /\ FilesRead(report) = Cardinality(swept)
    <3>1. unlisted = {} /\ report.unreadable = {} /\ report.reached = File
      BY <2>1, <2>4 DEF Refused
    <3>2. swept = File \ Oversize
      BY <2>1, <3>1
    <3>3. Cardinality(File \ Oversize) = Cardinality(File) - Cardinality(File \cap Oversize)
      BY RerunAssumption, FS_Difference
    <3>4. Cardinality(report.unreadable) = 0
      BY <3>1, FS_EmptySet
    <3>5. Cardinality(File) \in Int /\ Cardinality(File \cap Oversize) \in Int
      BY <3>1, <2>2, FS_CardinalityType
    <3>6. FilesRead(report) = Cardinality(File) - Cardinality(File \cap Oversize) - 0
      BY <3>1, <3>4 DEF FilesRead
    <3> HIDE DEF swept
    <3> QED BY <3>2, <3>3, <3>5, <3>6
  <2>5. swept \in SUBSET File
    BY <2>1
  <2> QED BY <2>3, <2>4, <2>5 DEF Figure, report
<1>4. CASE \E withheld, unlisted \in SUBSET File, ended \in BOOLEAN :
             run' = [run EXCEPT !.pc = "say", !.builds = run.builds \cup {build},
                                !.swept = S(withheld, unlisted, ended),
                                !.figure = F(withheld, unlisted, ended)]
  <2>1. PICK withheld, unlisted \in SUBSET File, ended \in BOOLEAN :
             run' = [run EXCEPT !.pc = "say", !.builds = run.builds \cup {build},
                                !.swept = S(withheld, unlisted, ended),
                                !.figure = F(withheld, unlisted, ended)]
    BY <1>4
  <2> DEFINE swept == S(withheld, unlisted, ended)
             figure == F(withheld, unlisted, ended)
  <2>2. /\ figure \in [is : {"none", "refused", "given"}, files : Int, fp : Int]
        /\ swept \in SUBSET File
        /\ figure.is = "given" =>
             swept = File \ Oversize /\ figure.files = Cardinality(swept)
    <3> HIDE DEF S, F
    <3> QED BY <1>3
  <2> HIDE DEF swept, figure
  <2>3. run' = [run EXCEPT !.pc = "say", !.builds = run.builds \cup {build},
                           !.swept = swept, !.figure = figure]
    BY <2>1 DEF swept, figure
  <2> QED BY <1>2, <2>2, <2>3
<1>5. CASE run' = [run EXCEPT !.pc = "say", !.figure = Figure("refused", 0, 0)]
  <2>1. /\ Figure("refused", 0, 0) \in
             [is : {"none", "refused", "given"}, files : Int, fp : Int]
        /\ Figure("refused", 0, 0).is # "given"
    BY DEF Figure
  <2> QED BY <1>2, <1>5, <2>1
<1>6. CASE run' = [run EXCEPT !.pc = "say"]
  <2>1. SameScores(run') /\ run'.figure = run.figure /\ run'.swept = run.swept
    BY <1>1, <1>6 DEF RunType, SameScores
  <2> QED BY <1>1, <2>1, SameScoresTold DEF Told
<1> QED BY <1>4, <1>5, <1>6 DEF Sweep

\* Every carrier that was read is silent or is a false positive.
LEMMA CarriersCounted ==
  ASSUME RerunInv, Say
  PROVE  Benign.files = run.figure.files + Cardinality(Carrier \cap run.read)
<1> DEFINE Silenced == {c \in Carrier : run.score[c] \in {"clean"}}
           Firing == {c \in Carrier : run.score[c] \in {"false positive"}}
<1>1. Told(run) /\ run \in RunType
  BY DEF RerunInv, Told, Say
<1>2. Carrier \cap run.read = Silenced \cup Firing /\ Silenced \cap Firing = {}
  BY <1>1 DEF Told, CarrierTold
<1>3. IsFiniteSet(Silenced) /\ IsFiniteSet(Firing)
  BY RerunAssumption, FS_Subset
<1>4. Benign.files = Cardinality(Firing) + Cardinality(Silenced) + run.figure.files
  BY DEF Benign, Figure
<1> HIDE DEF Silenced, Firing
<1>5. Cardinality(Silenced \cup Firing)
        = Cardinality(Silenced) + Cardinality(Firing) - Cardinality(Silenced \cap Firing)
  BY <1>3, FS_Union
<1>6. Cardinality(Silenced \cap Firing) = 0
  BY <1>2, FS_EmptySet
<1>7. /\ Cardinality(Silenced) \in Int /\ Cardinality(Firing) \in Int
      /\ run.figure.files \in Int
  BY <1>1, <1>3, FS_CardinalityType DEF RunType
<1>8. Cardinality(Carrier \cap run.read) = Cardinality(Silenced \cup Firing)
  BY <1>2
<1> QED BY <1>4, <1>5, <1>6, <1>7, <1>8

LEMMA SayStep ==
  ASSUME RerunInv, Say
  PROVE  GreenIsEarned' /\ FigureIsOverTheTrees'
<1>1. /\ Told(run) /\ run \in RunType
      /\ \A x \in Things : run.score[x] # "not yet"
  BY DEF RerunInv, Told, Say
<1>2. /\ verdict'.green <=> /\ \A x \in Things : run.score[x] \notin Failure
                            /\ Cardinality(Detected) = run.runnable
                            /\ run.figure.is # "refused"
      /\ verdict'.rows = run.rows /\ verdict'.read = run.read
      /\ verdict'.builds = run.builds /\ verdict'.runnable = run.runnable
      /\ verdict'.swept = run.swept /\ verdict'.figure = Benign
  BY DEF Say, Reconciles
<1>3. ASSUME verdict'.green
      PROVE  /\ Executed(run.rows) \cup Carrier \cup Fixture \subseteq run.read
             /\ Cardinality(Expected(run.rows)) = run.runnable
             /\ \A b \in Build : run.builds = {b} =>
                  /\ \A r \in Expected(run.rows) : Fires[b][r] = Want[r]
                  /\ \A c \in Carrier : Fires[b][c] = {}
  <2>1. \A x \in Things : run.score[x] \notin Failure \cup {"not yet"}
    BY <1>1, <1>2, <1>3
  <2>2. ASSUME NEW r \in Executed(run.rows) PROVE r \in run.read
    <3>1. r \in Row /\ run.rows[r] # "held" /\ RowTold(run, r)
      BY <1>1 DEF Executed, Told
    <3> QED BY <2>1, <3>1, Apart DEF RowTold
  <2>3. ASSUME NEW c \in Carrier
        PROVE  c \in run.read /\ \E b \in run.builds : Fires[b][c] = {}
    <3>1. CarrierTold(run, c)
      BY <1>1 DEF Told
    <3>2. run.score[c] = "clean"
      BY <2>1, <3>1, Apart DEF CarrierTold, Failure
    <3> QED BY <3>1, <3>2 DEF CarrierTold
  <2>4. ASSUME NEW f \in Fixture PROVE f \in run.read
    BY <1>1, <2>1, Apart DEF Told, FixtureTold
  <2>5. ASSUME NEW r \in Row
        PROVE  /\ run.rows[r] = "expected" <=> run.score[r] \in {"exact", "wrong rule"}
               /\ run.rows[r] = "expected" => \E b \in run.builds : Fires[b][r] = Want[r]
    <3>1. RowTold(run, r) /\ run.score[r] \notin Failure \cup {"not yet"}
      BY <1>1, <2>1, Apart DEF Told
    <3> QED BY <3>1 DEF RowTold, Failure
  <2>6. Detected = Expected(run.rows)
    BY <2>5 DEF Detected, Expected
  <2>7. \A r \in Expected(run.rows) : \E b \in run.builds : Fires[b][r] = Want[r]
    BY <2>5 DEF Expected
  <2>8. Cardinality(Expected(run.rows)) = run.runnable
    BY <1>2, <1>3, <2>6
  <2> QED BY <2>2, <2>3, <2>4, <2>7, <2>8
<1>4. GreenIsEarned'
  BY <1>2, <1>3 DEF GreenIsEarned, Executed, Expected
<1>5. FigureIsOverTheTrees'
  <2>1. Benign.is = run.figure.is
    BY DEF Benign, Figure
  <2>2. run.figure.is = "given" =>
          /\ run.swept = File \ Oversize
          /\ Benign.files = Cardinality(run.swept) + Cardinality(Carrier \cap run.read)
    BY <1>1, CarriersCounted DEF Told
  <2> QED BY <1>2, <2>1, <2>2 DEF FigureIsOverTheTrees
<1> QED BY <1>4, <1>5

LEMMA RerunInvInit == RerunInit => RerunInv
<1> SUFFICES ASSUME RerunInit PROVE RerunInv
  OBVIOUS
<1>1. runnable \in Counts
  BY DEF RerunInit, Counts, Expected
<1>2. shipped \in SUBSET Row
  BY DEF RerunInit, Executed
<1> QED BY <1>1, <1>2 DEF RerunInit, RerunInv, GreenIsEarned, FigureIsOverTheTrees

LEMMA RerunInvStep == RerunInv /\ [RerunNext]_rerunVars => RerunInv'
<1> SUFFICES ASSUME RerunInv, [RerunNext]_rerunVars PROVE RerunInv'
  OBVIOUS
<1>2. ASSUME UNCHANGED <<run, verdict>>,
             kind' \in [Row -> {"held", "expected", "known"}], shipped' \in SUBSET Row,
             runnable' \in Counts, build' \in Build
      PROVE  RerunInv'
  <2>1. (run # NoRun => Told(run))'
    <3>1. run # NoRun => Told(run)
      BY DEF RerunInv
    <3> QED BY <1>2, <3>1 DEF Told, RunType, RowTold, CarrierTold, FixtureTold
  <2>2. GreenIsEarned'
    BY <1>2 DEF RerunInv, GreenIsEarned
  <2>3. FigureIsOverTheTrees'
    BY <1>2 DEF RerunInv, FigureIsOverTheTrees
  <2> QED BY <1>2, <2>1, <2>2, <2>3 DEF RerunInv
<1>1. CASE UNCHANGED rerunVars
  BY <1>1, <1>2 DEF rerunVars, RerunInv
<1>3. ASSUME UNCHANGED kept, run' # NoRun => Told(run'),
             UNCHANGED verdict \/ verdict' = NoVerdict
                \/ (GreenIsEarned' /\ FigureIsOverTheTrees')
      PROVE  RerunInv'
  <2>1. run' # NoRun => Told(run)'
    BY <1>3 DEF Told, RunType, RowTold, CarrierTold, FixtureTold
  <2>2. GreenIsEarned' /\ FigureIsOverTheTrees'
    BY <1>3 DEF RerunInv, GreenIsEarned, FigureIsOverTheTrees
  <2> QED BY <1>3, <2>1, <2>2 DEF RerunInv, kept
<1>4. CASE \E r \in Row : Review(r)
  <2>1. PICK r \in Row : Review(r)
    BY <1>4
  <2>2. kind' \in [Row -> {"held", "expected", "known"}]
    BY <2>1, RerunAssumption DEF Review, RerunInv
  <2> QED BY <1>2, <2>1, <2>2 DEF Review, RerunInv
<1>5. CASE Pack
  BY <1>2, <1>5 DEF Pack, RerunInv, Executed
<1>6. CASE Summarise
  <2>1. runnable' \in Counts
    BY <1>6 DEF Summarise, Counts, Expected
  <2> QED BY <1>2, <1>6, <2>1 DEF Summarise, RerunInv
<1>7. CASE Rebuild
  BY <1>2, <1>7 DEF Rebuild, RerunInv
<1>8. CASE Start
  BY <1>3, <1>8, StartStep DEF Start
<1>9. CASE ReadSummary \/ Unpack
  <2>1. UNCHANGED <<kept, verdict>>
    BY <1>9 DEF ReadSummary, Unpack
  <2> QED BY <1>3, <1>9, <2>1, PreparedStep
<1>10. CASE Sweep
  <2>1. UNCHANGED <<kept, verdict>>
    BY <1>10 DEF Sweep
  <2> QED BY <1>3, <1>10, <2>1, SweepStep
<1>11. CASE Say
  BY <1>3, <1>11, SayStep DEF Say
<1>12. CASE \E r \in Row : CheckRow(r)
  <2>1. UNCHANGED <<kept, verdict>>
    BY <1>12 DEF CheckRow
  <2> QED BY <1>3, <1>12, <2>1, CheckRowStep
<1>13. CASE \E c \in Carrier : CheckCarrier(c)
  <2>1. UNCHANGED <<kept, verdict>>
    BY <1>13 DEF CheckCarrier
  <2> QED BY <1>3, <1>13, <2>1, CheckCarrierStep
<1>14. CASE \E f \in Fixture : CheckFixture(f)
  <2>1. UNCHANGED <<kept, verdict>>
    BY <1>14 DEF CheckFixture
  <2> QED BY <1>3, <1>14, <2>1, CheckFixtureStep
<1> QED BY <1>1, <1>4, <1>5, <1>6, <1>7, <1>8, <1>9, <1>10, <1>11, <1>12, <1>13,
           <1>14 DEF RerunNext, Suite

LEMMA RerunAlways == Rerun => []RerunInv
<1> QED BY RerunInvInit, RerunInvStep, PTL DEF Rerun

\* verify.py, exit code 0: the scanner read every member it was scored on, and
\* when one build did all the work it fires what the rows name, is silent on the
\* carriers, and detects as many as the summary counts.
THEOREM GreenRunsAreEarned == Rerun => []GreenIsEarned
<1>1. RerunInv => GreenIsEarned
  BY DEF RerunInv
<1> QED BY <1>1, RerunAlways, PTL

\* verify.py, the false-positive figure: a figure that is given is over every
\* file of the trees the scanner does not decline, and every carrier read.
THEOREM FiguresAreOverTheTrees == Rerun => []FigureIsOverTheTrees
<1>1. RerunInv => FigureIsOverTheTrees
  BY DEF RerunInv
<1> QED BY <1>1, RerunAlways, PTL
=============================================================================
