------------------------------- MODULE Masking -------------------------------
(***************************************************************************)
(* What happens to the names in a sample before its bytes are published.   *)
(*                                                                         *)
(* A file is the set of the things it says that matter: a value, the place *)
(* it stands in, and the encodings wrapped around it.  content_mask.py     *)
(* replaces values by others of the same length and can only reach through *)
(* plain base64; verify-content-mask.py, which shares nothing with it,     *)
(* opens more and says whether a name is left.  The mapping of names, with *)
(* the width each may be replaced at, is a file that regen-tiers.py        *)
(* rewrites without a lock.  restage-masked.py rebuilds the masked bytes   *)
(* of a row that was masked long ago and vouches for them only when they   *)
(* are the ones the row records.                                           *)
(***************************************************************************)
EXTENDS FiniteSets, Naturals, Sequences

CONSTANTS
  Piece,      \* the samples that are masked
  Value,      \* the values: names, tokens, credentials
  Content,    \* Content[s]: what the original bytes of s say
  OnHand,     \* the samples whose original bytes are on this machine
  Named,      \* the names the mapping has at first
  Nameable,   \* those it may come to have
  Elsewhere,  \* the names of the other mapping, which only the gate reads
  Long,       \* the values of six characters or more
  Overlooked, \* those shorter than three, and the words that name nobody
  Split,      \* those with a separator in them; a domain counts as its label
  Longer,     \* Longer[v]: the values that begin with v and go on, if v has four
  Stock,      \* the values that are tokens of the stock CMS trees
  Prefixing,  \* those that other tokens of these trees begin with
  Within,     \* those that other tokens of these trees contain
  Keep,       \* the attacker's own, kept on purpose
  Spared,     \* those that are one of these, or a part of one, between separators
  Pseudonym,  \* acctNN, siteNN, srvNN, demoNN
  Credential, \* the literals of a shape both the masker and the gate know
  Sealed,     \* those of a shape only the gate knows
  HexDigest,  \* those only --mask-hex-digests makes the masker replace
  Secretive,  \* the samples whose row is tagged secret
  Lookalike,  \* the sets of names that would be replaced by the same text
  NoBytes, Nobody

Encoding == {"base64",   \* this encoder writes it just so
             "opaque",   \* the same, of bytes that are not text
             "loose",    \* decodes, but is not what this encoder would write
             "brief",    \* too short a run for the masker
             "scrap",    \* too short a run for the gate as well, or not text
             "deflate", "hex", "escape", "chr",
             "runtime"}  \* what only the running program undoes
Place == {"slot",        \* /home/x/, _home_x_
          "docroot",     \* /home/x/ with the site after it
          "conf",        \* x_public_html, phpNN-x.conf
          "word",        \* on its own
          "stem",        \* letters follow
          "infix",       \* letters before it
          "tail",        \* a digit before it
          "second",      \* on its own, after letters had it between two separators
          "kept"}        \* inside a text that is kept on purpose

\* What a value became: the value, and what replaced it in turn.
Text == [of : Value, by : Seq({"acct", "slot", "secret"})]

\* An occurrence says which of its layers the gate leaves shut: it reads them, and
\* opens none in them, for 32 others of their level come first or it met them before.
Said == [text : Text, place : Place, layers : Seq(Encoding), shut : SUBSET (1..4)]
As(v) == [of |-> v, by |-> <<>>]

ASSUME MaskingAssumption ==
  /\ Content \in [Piece -> SUBSET Said]
  /\ \A s \in Piece : \A o \in Content[s] : o.text.by = <<>>
  /\ OnHand \subseteq Piece /\ Secretive \subseteq Piece
  /\ UNION {Named, Nameable, Elsewhere, Long, Overlooked, Split, Stock, Prefixing,
            Within, Keep, Spared, Pseudonym, Credential, Sealed, HexDigest}
       \subseteq Value
  /\ Longer \in [Value -> SUBSET Value]
  /\ Lookalike \subseteq SUBSET Value

VARIABLES
  names,    \* the names in the mapping
  tiers,    \* mask_tier: the width stored for some of them
  regen,    \* what a running regen-tiers has read
  block,    \* each row's masking block
  after,    \* the masked bytes in the staging directory
  found,    \* masked bytes left elsewhere on the disk
  restage,  \* the rows a running restage-masked has read and not come to
  vouched   \* the bytes map: the bytes it names for a row, and their block

mapping == <<names, tiers>>
maskingVars == <<names, tiers, regen, block, after, found, restage, vouched>>

---------------------------------------------------------------------------
(* The widths.                                                             *)

\* incident_mask.tiers: the widest rule a name's own collisions permit.
Measured(v) ==
  IF v \in Stock THEN "D" ELSE IF v \in Prefixing THEN "C"
  ELSE IF v \in Within \/ v \notin Long THEN "B" ELSE "A"

\* ContentMasker: no width stored is the careful one, and a name that is itself a
\* stock token is replaced by position and nowhere else.
Width(ts, v) == IF v \in Stock THEN "D"
                ELSE IF v \in DOMAIN ts THEN ts[v] ELSE "C"

\* The places each width reaches.
Spans(t) == CASE t = "A" -> Place \ {"kept"}
              [] t = "B" -> Place \ {"kept", "infix", "tail"}
              [] t = "C" -> Place \ {"kept", "infix", "tail", "stem"}
              [] t = "D" -> {"slot", "docroot", "conf"}

---------------------------------------------------------------------------
(* content_mask.py                                                         *)

By(o, m) == [o EXCEPT !.text.by = Append(@, m)]

SecretMasked(o, hex) ==
  IF o.text.of \in Credential \cup (IF hex THEN HexDigest ELSE {})
  THEN By(o, "secret") ELSE o

\* mask_identifiers: the spans that are kept are put out of reach first.
NameMasked(ns, ts, o) ==
  IF /\ o.text.by = <<>> /\ o.text.of \in ns \ Keep
     /\ o.place \in Spans(Width(ts, o.text.of))
  THEN By(o, "acct") ELSE o

\* _acct: whoever it is, unless it is a pseudonym of the map or kept.  What the
\* names were replaced by is neither.
SlotValue(o) ==
  IF o.text.by = <<>> /\ o.text.of \in Pseudonym \cup Keep
  THEN o ELSE By(o, "slot")

\* SlotMasker.mask: the account before a site is met twice.
SlotMasked(o) ==
  CASE o.place = "docroot" -> SlotValue(SlotValue(o))
    [] o.place = "slot" -> SlotValue(o)
    [] OTHER -> o

\* mask_plaintext: secrets, then names, then slots.
TextMasked(ns, ts, hex, o) == SlotMasked(NameMasked(ns, ts, SecretMasked(o, hex)))

Each(layers, of) == \A i \in DOMAIN layers : layers[i] \in of

\* mask_encoded_layers: four deep, and only what it can splice back.
Reaches(layers) == Len(layers) <= 4 /\ Each(layers, {"base64", "opaque"})

\* mask_sample
Masked(ns, ts, hex, bytes) ==
  {IF Reaches(o.layers) THEN TextMasked(ns, ts, hex, o) ELSE o : o \in bytes}

\* collisions_between_replacements: two names would read the same.
Clash(ns) == \E c \in Lookalike : Cardinality(c \cap ns) > 1

---------------------------------------------------------------------------
(* verify-content-mask.py                                                  *)

\* Mutant: the gate opens what the masker can put back, and no more.
Opens_AsTheMasker(o) == Len(o.layers) <= 4 /\ Each(o.layers, {"base64", "opaque"})

\* What decode_layers takes: its own, and wider than the masker's.
Taken == {"base64", "loose", "brief", "deflate", "hex", "escape", "chr"}

\* decode_layers: four deep, and through no layer that is left shut.
Opens(o) ==
  /\ Len(o.layers) <= 4 /\ Each(o.layers, Taken)
  /\ o.shut \subseteq {Len(o.layers)}

\* _is_a_leak: a long name anywhere, a short one where no letter touches it; of
\* several places between two separators, it is asked of the first.
IsALeak(o) == o.text.of \in Long \/ o.place \notin {"infix", "stem", "second"}

\* identifiers: the names of both mappings that it keeps.
Identifiers(ns) == (ns \cup Elsewhere) \ Overlooked

\* check: what stands between two separators is looked at, unless it is kept.
Contained(ns, o) ==
  /\ o.text.by = <<>> /\ o.text.of \in Identifiers(ns) \ Split
  /\ IsALeak(o) /\ o.place # "kept"
  /\ o.text.of \in Spared => o.place \in {"infix", "stem", "tail", "second"}

\* Its other direction: in the slots, what a longer name begins with.
Truncated(ns, o) ==
  /\ o.text.by = <<>> /\ o.place \in {"slot", "docroot", "conf"}
  /\ o.text.of \notin Pseudonym \cup Spared
  /\ Longer[o.text.of] \cap Identifiers(ns) # {}

Found(ns, o) == Contained(ns, o) \/ Truncated(ns, o)

Gate(ns, bytes) ==
  [plain   |-> \A o \in bytes : o.layers = <<>> => ~Found(ns, o),
   encoded |-> \A o \in bytes : o.layers # <<>> /\ Opens(o) => ~Found(ns, o)]

\* secret_literals: what has the shape of a credential, in every layer.
Literals(bytes) ==
  {o.text : o \in {p \in bytes : Opens(p) /\ p.text.of \in Credential \cup Sealed}}

\* The layers decoded: they are others once something in one of them changed.
Decoded(bytes) == {o \in bytes : o.layers # <<>> /\ o.layers[1] \in Taken}

\* secret_gate: no credential came through unchanged, and none was added that two
\* counts over the same layers would show.
SecretGate(came, left) ==
  /\ Literals(came) \cap Literals(left) = {}
  /\ Decoded(came) = Decoded(left) =>
       Cardinality(Literals(left)) <= Cardinality(Literals(came))

---------------------------------------------------------------------------
(* mask-samples.py                                                         *)

NoBlock == [bytes |-> NoBytes]

\* The block of bytes masked against ns, and what it says of them: their hash,
\* that nothing was changed, or neither.
Block(ns, bytes, claims) ==
  [bytes |-> bytes, gate |-> Gate(ns, bytes), against |-> ns, claims |-> claims]

\* The sample is masked, staged and gated, and its row given the block.  With
\* credentials left in a sample tagged for them, or a file the scanner cannot
\* read, there is no block; the bytes were staged before that.
Mask(s) ==
  /\ s \in OnHand /\ ~Clash(names)
  /\ \E hex \in BOOLEAN :
       LET bytes == Masked(names, tiers, hex, Content[s])
       IN /\ after' = [after EXCEPT ![s] = bytes]
          /\ \/ /\ s \in Secretive => SecretGate(Content[s], bytes)
                /\ block' = [block EXCEPT ![s] = Block(names, bytes, "hash")]
             \/ UNCHANGED block
  /\ UNCHANGED <<mapping, regen, found, restage, vouched>>

\* The staging directory is cleared; what was in it may survive somewhere.
Cleared ==
  /\ found' = [s \in Piece |-> found[s] \cup ({after[s]} \ {NoBytes})]
  /\ after' = [s \in Piece |-> NoBytes]
  /\ UNCHANGED <<mapping, regen, block, restage, vouched>>

---------------------------------------------------------------------------
(* The mapping.                                                            *)

\* A name is added to the map, with or without a width.
Learn(v) ==
  /\ v \in Nameable \ names
  /\ names' = names \cup {v}
  /\ \/ UNCHANGED tiers
     \/ tiers' = [n \in DOMAIN tiers \cup {v} |->
                    IF n = v THEN Measured(v) ELSE tiers[n]]
  /\ UNCHANGED <<regen, block, after, found, restage, vouched>>

\* What a script has of the map once it has read it: load_map, pairs and the
\* widths stored.
MapRead == [names |-> names, tiers |-> tiers]

\* regenerate: the same names, each with its width measured anew.
Regenerated(m) == [names |-> m.names, tiers |-> [v \in m.names |-> Measured(v)]]

\* regen-tiers reads the map.
TiersRead ==
  /\ regen = Nobody
  /\ regen' = MapRead
  /\ UNCHANGED <<mapping, block, after, found, restage, vouched>>

\* It measures the widths anew and writes the map with them.  differences()
\* compares with what was read, before the write and after it: it refuses a
\* width for a name that had none, and a name added in between it cannot see.
\* A loss of coverage can be allowed.
TiersWritten ==
  /\ regen # Nobody /\ DOMAIN regen.tiers = regen.names
  /\ names' = Regenerated(regen).names
  /\ tiers' = Regenerated(regen).tiers
  /\ regen' = Nobody
  /\ UNCHANGED <<block, after, found, restage, vouched>>

\* A dry run, a refusal.
TiersRefused ==
  /\ regen # Nobody
  /\ regen' = Nobody
  /\ UNCHANGED <<mapping, block, after, found, restage, vouched>>

---------------------------------------------------------------------------
(* restage-masked.py                                                       *)

RestageStart ==
  /\ restage = Nobody
  /\ \E hex \in BOOLEAN :
       restage' = [rows |-> block, left |-> Piece \cap OnHand, hex |-> hex,
                   names |-> names, tiers |-> tiers]
  /\ vouched' = [s \in Piece |-> NoBlock]
  /\ UNCHANGED <<mapping, regen, block, after, found>>

\* Mutant: what was rebuilt is good enough.
Rebuilt_AnyBytes(b, bytes, was) == TRUE

\* regenerate: the bytes whose hash the row records; or, where it records that
\* nothing was changed, the bytes that came in.
Rebuilt(b, bytes, was) ==
  CASE b.claims = "hash" -> bytes = b.bytes
    [] b.claims = "same" -> bytes = was
    [] OTHER -> FALSE

\* find_on_disk: some file has the hash the row records.
FoundOnDisk(b, s) == b.claims = "hash" /\ b.bytes \in found[s]

\* A row that was masked: its bytes are rebuilt and staged; else a file with
\* the recorded hash is looked for; else the row is left.
Restage(s) ==
  LET b == restage.rows[s]
      bytes == Masked(restage.names, restage.tiers, restage.hex, Content[s])
  IN /\ restage # Nobody /\ s \in restage.left
     /\ restage' = [restage EXCEPT !.left = @ \ {s}]
     /\ IF b = NoBlock THEN UNCHANGED <<after, vouched>>
        ELSE /\ ~Clash(restage.names)
             /\ IF Rebuilt(b, bytes, Content[s])
                THEN /\ after' = [after EXCEPT ![s] = bytes]
                     /\ vouched' = [vouched EXCEPT ![s] = [b EXCEPT !.bytes = bytes]]
                ELSE /\ vouched' = IF FoundOnDisk(b, s)
                                   THEN [vouched EXCEPT ![s] = b] ELSE vouched
                     /\ UNCHANGED after
     /\ UNCHANGED <<mapping, regen, block, found>>

\* The bytes map is written; or the script has stopped, and no map is.
RestageEnd ==
  /\ restage # Nobody
  /\ vouched' = IF restage.left = {} THEN vouched ELSE [s \in Piece |-> NoBlock]
  /\ restage' = Nobody
  /\ UNCHANGED <<mapping, regen, block, after, found>>

---------------------------------------------------------------------------
\* Rows masked before the hash was recorded: by a masker that changed nothing,
\* or one whose bytes nobody can name.
OldBlocks(s) == {NoBlock,
                 Block(Named, Content[s], "same"),
                 Block(Named, Masked(Named, <<>>, FALSE, Content[s]), "none")}

MaskingInit ==
  /\ names = Named /\ tiers = [v \in Named |-> Measured(v)]
  /\ regen = Nobody /\ restage = Nobody
  /\ vouched = [s \in Piece |-> NoBlock]
  /\ block \in {f \in [Piece -> UNION {OldBlocks(s) : s \in Piece}] :
                  \A s \in Piece : f[s] \in OldBlocks(s)}
  /\ after = [s \in Piece |-> NoBytes] /\ found = [s \in Piece |-> {}]

MaskingNext ==
  \/ \E s \in Piece : Mask(s) \/ Restage(s)
  \/ Cleared \/ RestageStart \/ RestageEnd
  \/ \E v \in Nameable : Learn(v)
  \/ TiersRead \/ TiersWritten \/ TiersRefused

Masking == MaskingInit /\ [][MaskingNext]_maskingVars
---------------------------------------------------------------------------
(* What holds, and what does not.                                          *)

\* What two passed gates are worth, exactly.  A name of either mapping that they
\* look for is not in the masked bytes where somebody who runs nothing can read it:
\* in the clear, or under up to four layers of a form and a length the decoder
\* takes, of which it left none shut on the way.  A short name may be where letters
\* touch it.  The masker alone could not say so: it splices plain base64.
PassedMeansNameless ==
  \A s \in Piece :
    block[s] # NoBlock /\ block[s].gate.plain /\ block[s].gate.encoded =>
      \A o \in block[s].bytes :
        /\ o.text.of \in (block[s].against \cup Elsewhere)
                          \ (Overlooked \cup Split \cup Spared)
        /\ o.place \in Place \ {"kept"}
        /\ o.text.of \notin Long => o.place \in {"slot", "docroot", "conf", "word", "tail"}
        /\ Len(o.layers) <= 4
        /\ Each(o.layers, Encoding \ {"runtime", "opaque", "scrap"})
        /\ \A i \in o.shut : i = Len(o.layers)
        => o.text.by # <<>>

\* The bytes restage-masked.py vouches for are the ones the row's gates spoke
\* of: the verdict it stores is true of them, whatever became of the mapping,
\* the widths, the flags and the staging directory since.
VouchedBytesAreTheGated ==
  \A s \in Piece : vouched[s] # NoBlock =>
    vouched[s].gate = Gate(vouched[s].against, vouched[s].bytes)

\* What the order of the maskers is for: "a slot masker that then re-masks a
\* pseudonym would undo the map's determinism" (content_mask.py).  In one file
\* one name is replaced by one text: not so, see the README.
OneNameOneReplacement ==
  \A s \in Piece : block[s] # NoBlock =>
    \A o, p \in block[s].bytes :
      o.text.of = p.text.of /\ o.text.by # <<>> /\ p.text.by # <<>>
        => o.text.by = p.text.by
=============================================================================
