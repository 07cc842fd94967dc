------------------------------- MODULE MCSuite -------------------------------
(* The masking of samples and the suite that runs over the shipped ones share *)
(* no state: each is explored while the other stands at its initial states.   *)
EXTENDS Masking, Rerun, TLC

CONSTANTS s1, ann, bob, kim, eve, dot, web, foe, wp, acct, key, hash,
          r1, r2, car, fix, big, old, new

At(v, place, layers) ==
  [text |-> As(v), place |-> place, layers |-> layers, shut |-> {}]

\* What no gate sees: a short name after letters had it, a name behind a layer that
\* is left shut or in scraps, one with a separator in it, a word that names nobody, and
\* whoever is kept.
Unseen ==
  {At(eve, "second", <<>>), At(dot, "word", <<"loose">>), At(web, "word", <<>>),
   At(eve, "word", <<"scrap">>), At(ann, "kept", <<>>), At(foe, "word", <<"hex">>),
   [At(eve, "word", <<"loose", "hex">>) EXCEPT !.shut = {1}]}

\* ann in the ways a file can carry her name, bob and kim, whom the mapping may
\* come to know; a credential, a digest and a pseudonym.
Files ==
  [s \in {s1} |->
     {At(ann, "slot", <<>>), At(ann, "stem", <<>>), At(bob, "word", <<"base64">>),
      At(bob, "stem", <<>>), At(kim, "word", <<"loose">>), At(kim, "word", <<>>),
      At(acct, "slot", <<>>), At(key, "word", <<"base64">>),
      At(hash, "word", <<>>), At(wp, "conf", <<>>)} \cup Unseen]

Begins == [v \in Value |-> IF v = wp THEN {kim} ELSE {}]

Alike == {{bob, kim}}

Reports == [r \in {r1, r2} |-> IF r = r1 THEN {"X"} ELSE {"X", "Y"}]
Reviews == [r \in {r1, r2} |-> IF r = r1 THEN {"expected", "held"}
                                        ELSE {"expected", "known"}]
Scanners ==
  [b \in {old, new} |->
     [x \in {r1, r2, car, fix, big} |->
        CASE x = r1 -> {"X"}
          [] x = r2 -> IF b = new THEN {"X", "Y"} ELSE {"Y"}
          [] x = fix -> IF b = new THEN {} ELSE {"X"}
          [] OTHER -> {}]]

\* A running restage-masked has read the map: regen-tiers needs not run beside it.
\* One old copy of a sample survives.
MaskingSide ==
  /\ RerunInit /\ build = old /\ kind = [r \in Row |-> "expected"]
  /\ MaskingNext /\ UNCHANGED rerunVars
  /\ regen' = Nobody \/ restage' = Nobody
  /\ \A s \in Piece : Cardinality(found'[s]) <= 1

\* What the runs read changes while one is under way.
RerunSide ==
  /\ MaskingInit /\ \A s \in Piece : block[s] = NoBlock
  /\ run = NoRun => Suite
  /\ RerunNext /\ UNCHANGED maskingVars

SuiteInit == MaskingInit /\ RerunInit

SuiteSpec ==
  SuiteInit /\ [][MaskingSide \/ RerunSide]_<<maskingVars, rerunVars>>
=============================================================================
