----------------------------- MODULE MCFamilies -----------------------------
(* Four samples: two rules are expected, each on two of them, and each of    *)
(* two literals is in three.  Another file may come to stand for one of the  *)
(* samples (c), and carry one literal only, or the file of one (b) be gone.  *)
(* An earlier session may label two rows that share a literal; or three, of  *)
(* which one carries none of its literals; or, in two decisions, just what   *)
(* each of the two rules is expected on.                                     *)
EXTENDS Families, TLC

CONSTANTS a, b, c, d, m, n, F, old

Expected == [s \in {a, b, c, d} |-> IF s \in {a, b} THEN {"X"} ELSE {"Y"}]
Collected == [s \in {a, b, c, d} |-> CASE s = a -> {m}
                                       [] s = d -> {n}
                                       [] OTHER -> {m, n}]
Held == {Collected, [Collected EXCEPT ![c] = {m}], [Collected EXCEPT ![b] = NoBytes]}

P(f, ms, rows) == [family |-> f, markers |-> ms, rows |-> rows]
Sessions ==
  {[s \in {old} |-> props] :
     props \in {<<P(F, {n}, {b, c})>>, <<P(F, {n}, {a, b, c})>>,
                <<P(F, {m}, {a, b}), P(F, {n}, {c, d})>>}}
=============================================================================
