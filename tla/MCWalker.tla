------------------------------ MODULE MCWalker ------------------------------
(* Small file systems for Walker.                                           *)
EXTENDS Walker

CONSTANTS r, a, b

Absent == [link |-> FALSE, status |-> "absent", to |-> NoDir]
File == [link |-> FALSE, status |-> "regular", to |-> NoDir]
Sub(d) == [link |-> FALSE, status |-> "directory", to |-> d]
LinkTo(d) == [link |-> TRUE, status |-> "directory", to |-> d]
Odd(link, status) == [link |-> link, status |-> status, to |-> NoDir]

\* A listing from a function of names to entries or Absent.
Listing(choice) == [n \in {m \in DOMAIN choice : choice[m] # Absent} |-> choice[n]]

\* r holds a; a may hold b; every directory holds a file and may hold a link.
Links == {Absent} \cup {LinkTo(d) : d \in Dir}
AllWhole == [d \in Dir |-> "whole"]

Trees ==
  {[r |-> Listing([f |-> File, k |-> Sub(a), l |-> lr]),
    a |-> Listing([f |-> File, k |-> ka, l |-> la]),
    b |-> Listing([f |-> File, l |-> lb])] :
     lr \in Links, la \in Links, lb \in Links, ka \in {Absent, Sub(b)}}

EntriesOf(tree) == [d \in Dir |-> IF d = r THEN tree.r ELSE IF d = a THEN tree.a ELSE tree.b]

\* Links are followed from the root r.
Scenario(host) == [fs |-> host, options |-> [follow |-> TRUE, recursive |-> TRUE],
                   asked |-> <<r>>]

OneLink ==
  {t \in Trees : Cardinality({d \in Dir : "l" \in DOMAIN EntriesOf(t)[d]}) <= 1}

\* Every shape, with every identity known and every listing whole.
Shapes == {Scenario([entries |-> EntriesOf(tree), listing |-> AllWhole, named |-> Dir]) :
             tree \in Trees}

\* A listing fails, or identities are kept from the walk, where there is one
\* link at most.
Troubles ==
  {Scenario([entries |-> EntriesOf(tree), listing |-> [AllWhole EXCEPT ![d] = answer],
             named |-> names]) :
     tree \in OneLink, d \in Dir, answer \in {"whole", "closed", "breaks"}, names \in {Dir, {r}}}

\* One directory and one below it, with a pair of entries of any kinds, under
\* every combination of options, from one root, two, or one that is not there.
Menu == {Absent, File, Odd(TRUE, "regular"), Odd(FALSE, "special"), Odd(TRUE, "special"),
         Odd(TRUE, "notFound"), Odd(TRUE, "loop"), Odd(FALSE, "refused"), Odd(TRUE, "refused"),
         Sub(a), LinkTo(a)}
Kinds ==
  {[fs |-> [entries |-> [d \in Dir |-> IF d = r THEN Listing([x |-> x, y |-> y])
                                       ELSE Listing([f |-> File])],
            listing |-> AllWhole, named |-> Dir],
    options |-> choice, asked |-> roots] :
     x \in Menu, y \in Menu, choice \in [follow : BOOLEAN, recursive : BOOLEAN],
     roots \in {<<r>>, <<NoDir, r>>, <<r, a>>}}

AllScenarios == Shapes \cup Troubles \cup Kinds
=============================================================================
