--------------------------- MODULE ReleaseProofs ---------------------------
(***************************************************************************)
(* Proofs about Handoff and Release.                                       *)
(*                                                                         *)
(* The scripts of Handoff decide on one read and write on a later one, so  *)
(* the invariant is about what they carry in between: what a promotion or  *)
(* a publication will write says one thing of its sample, and a promotion  *)
(* that has closed its rows finds them closed, and owed no more, until it  *)
(* has taken them out of the pending file.  Release takes steps of Handoff *)
(* only, so all of it holds there too; what it adds is what a reader has   *)
(* found out, what a check that passed goes on meaning, and that every row *)
(* either is to be detected or is a known miss, so that counts of two      *)
(* halves read at different times still balance.                           *)
(***************************************************************************)
EXTENDS Release, FiniteSetTheorems, TLAPS

USE HandoffAssumption

Rows == [Sample -> Row \cup {Absent}]

\* What the script of one place carries.
CarriedOK(r) ==
  /\ job[r].op \in {"promote", "publish"} =>
       \A s \in Held(job[r].rows) : SaysOneThing(job[r].rows[s])
  /\ job[r].op = "promote" =>
       \A s \in Held(job[r].rows) : ~job[r].rows[s].miss
  /\ At(r, "promote", "pending") =>
       \A s \in Held(job[r].rows) :
         /\ s \notin owed /\ index["published"][s] # Absent
         /\ ~index["published"][s].miss

CarriedIsTrue == \A r \in Run : CarriedOK(r)

HandoffInv == HandoffTypeOK /\ ExpectSaysOneThing /\ CarriedIsTrue

\* No step takes a row out of the published half, or makes a miss of a row
\* that is none.
PublishedStands ==
  \A s \in Held(index["published"]) :
    ~index["published"][s].miss =>
      index'["published"][s] # Absent /\ ~index'["published"][s].miss

\* No step but the rewrite of --refresh takes a row that is owed out of the
\* pending file.
OwedStays ==
  \A s \in Sample :
    pending[s] # Absent /\ pending'[s] = Absent
    /\ ~(\E r \in Run : At(r, "refresh", "pending") /\ job'[r] = AtRest
                        /\ pending' = job[r].entries)
    => s \notin owed

---------------------------------------------------------------------------
(* Jobs and rows.                                                          *)

LEMMA NowhereType ==
  /\ Nowhere \in Rows
  /\ Nowhere \in [Sample -> Entry \cup {Absent}]
  /\ Nowhere \in [Sample -> Claim \cup {Absent}]
  /\ Held(Nowhere) = {}
BY DEF Nowhere, Rows, Held

LEMMA JobType ==
  ASSUME NEW op \in Script \cup {"none"},
         NEW pc \in {"idle", "published", "local", "pending", "manifest", "tracked"},
         NEW rows \in Rows,
         NEW entries \in [Sample -> Entry \cup {Absent}],
         NEW claims \in [Sample -> Claim \cup {Absent}]
  PROVE  [op |-> op, pc |-> pc, rows |-> rows, entries |-> entries,
          claims |-> claims] \in Job
BY DEF Job, Rows

LEMMA AtRestType == AtRest \in Job /\ AtRest.op = "none"
BY NowhereType, JobType DEF AtRest

LEMMA JobAtType ==
  ASSUME NEW rows \in Rows, NEW op \in {"promote", "classify"}
  PROVE  LET j == [AtRest EXCEPT !.op = op, !.pc = "published", !.rows = rows] IN
         j \in Job /\ j.op = op /\ j.pc = "published" /\ j.rows = rows
<1>1. AtRest \in Job
  BY AtRestType
<1> HIDE DEF AtRest
<1> QED BY <1>1 DEF Job, Script, Rows

LEMMA StartsType ==
  ASSUME job \in [Run -> Job], NEW r \in Run, NEW j \in Job, Starts(r, j)
  PROVE  /\ job' \in [Run -> Job] /\ job'[r] = j
         /\ \A q \in Run \ {r} : job'[q] = job[q]
BY DEF Starts

LEMMA GoesType ==
  ASSUME job \in [Run -> Job], NEW r \in Run,
         NEW pc \in {"idle", "published", "local", "pending", "manifest", "tracked"},
         Goes(r, pc)
  PROVE  /\ job' \in [Run -> Job]
         /\ job'[r].op = job[r].op /\ job'[r].pc = pc
         /\ job'[r].rows = job[r].rows
         /\ \A q \in Run \ {r} : job'[q] = job[q]
<1>1. job[r] \in Job
  OBVIOUS
<1>2. [job[r] EXCEPT !.pc = pc] \in Job
  BY <1>1 DEF Job
<1>3. job' = [job EXCEPT ![r] = [job[r] EXCEPT !.pc = pc]]
  BY DEF Goes
<1> QED BY <1>1, <1>2, <1>3 DEF Job

LEMMA EndsType ==
  ASSUME job \in [Run -> Job], NEW r \in Run, Ends(r)
  PROVE  /\ job' \in [Run -> Job] /\ job'[r] = AtRest
         /\ \A q \in Run \ {r} : job'[q] = job[q]
BY AtRestType DEF Ends

\* A place at rest carries nothing.
LEMMA RestCarries ==
  ASSUME NEW r \in Run, job'[r].op \notin {"promote", "publish"}
  PROVE  CarriedOK(r)'
BY DEF CarriedOK, At

\* What a place carries is as true as before when neither it, nor the index,
\* nor what is owed has changed.
LEMMA SameCarries ==
  ASSUME NEW r \in Run, CarriedOK(r), job'[r] = job[r],
         UNCHANGED <<index, owed>>
  PROVE  CarriedOK(r)'
BY DEF CarriedOK, At, Held

\* ...and when the index has only changed as PublishedStands allows, and
\* nothing more is owed.
LEMMA StandsCarries ==
  ASSUME NEW r \in Run, CarriedOK(r), job'[r] = job[r], job[r] \in Job,
         PublishedStands, owed' \subseteq owed
  PROVE  CarriedOK(r)'
<1>1. Held(job[r].rows) \subseteq Sample
  BY DEF Held
<1> QED BY <1>1 DEF CarriedOK, At, Held, PublishedStands

LEMMA ClosedType ==
  ASSUME NEW row \in Row, NEW rules \in SUBSET Rule
  PROVE  LET new == Closed(row, rules) IN
         /\ new \in Row /\ SaysOneThing(new) /\ ~new.miss
<1> DEFINE new == Closed(row, rules)
<1>1. /\ new.must = rules /\ new.miss = FALSE /\ new.kind = "<unclassified>"
      /\ new \in Row
  BY DEF Closed, Row
<1> QED BY <1>1 DEF SaysOneThing

LEMMA SaysType ==
  ASSUME NEW b \in Build, NEW s \in Sample
  PROVE  Says[b][s].source \in SUBSET Rule /\ Says[b][s].shipped \in SUBSET Rule
OBVIOUS

LEMMA KindedType ==
  ASSUME NEW row \in Row \cup {Absent}, NEW decided \in Row \cup {Absent},
         row # Absent => SaysOneThing(row)
  PROVE  LET new == Kinded(row, decided) IN
         /\ new \in Row \cup {Absent}
         /\ new = Absent <=> row = Absent
         /\ new # Absent => SaysOneThing(new) /\ (new.miss <=> row.miss)
<1> DEFINE new == Kinded(row, decided)
<1>1. CASE row = Absent \/ decided = Absent \/ ~row.miss
  BY <1>1 DEF Kinded
<1>2. CASE row # Absent /\ decided # Absent /\ row.miss
  <2> DEFINE kinded == [row EXCEPT !.kind = decided.kind]
  <2>1. Kinded(row, decided) = kinded /\ row \in Row /\ decided \in Row
    BY <1>2 DEF Kinded
  <2>2. /\ kinded \in Row /\ kinded.miss = row.miss /\ kinded.must = row.must
    BY <2>1 DEF Row
  <2> HIDE DEF kinded
  <2> QED BY <1>2, <2>1, <2>2 DEF SaysOneThing
<1> QED BY <1>1, <1>2

\* A new index, given its two halves.
LEMMA HalfType ==
  ASSUME NEW i \in [Half -> Rows], NEW h \in Half, NEW f \in Rows
  PROVE  /\ [i EXCEPT ![h] = f] \in [Half -> Rows]
         /\ [i EXCEPT ![h] = f][h] = f
         /\ \A g \in Half \ {h} : [i EXCEPT ![h] = f][g] = i[g]
OBVIOUS

LEMMA HalfIsPublished == "published" \in Half /\ "local" \in Half
BY DEF Half

---------------------------------------------------------------------------
(* One lemma per action.  Each says that the invariant is kept, that no    *)
(* published row is lost or reopened, and that no owed row is let go.      *)

Good == HandoffInv' /\ PublishedStands /\ OwedStays

\* What is left to show of a step that leaves the index, the pending file and
\* what is owed as they are.
LEMMA Quiet ==
  ASSUME HandoffInv, HandoffTypeOK', UNCHANGED <<index, pending, owed>>, CarriedIsTrue'
  PROVE  Good
BY DEF Good, HandoffInv, ExpectSaysOneThing, PublishedStands, OwedStays, Held

LEMMA PromoteLookGood ==
  ASSUME HandoffInv, NEW r \in Run, PromoteLook(r)
  PROVE  Good
<1> DEFINE done == {s \in Sample : Promotes(s)}
           rows == [s \in Sample |-> IF s \in done
                     THEN Closed(index["published"][s], Measured(s)) ELSE Absent]
           j == [AtRest EXCEPT !.op = "promote", !.pc = "published", !.rows = rows]
<1>1. /\ Starts(r, j)
      /\ UNCHANGED <<menu, index, pending, owed, manifest, tracked, shards,
                     build, locked>>
  BY DEF PromoteLook
<1>2. \A s \in Sample : Measured(s) \in SUBSET Rule
  BY SaysType DEF Measured, HandoffInv, HandoffTypeOK
<1>3. \A s \in done : index["published"][s] \in Row
  BY HalfIsPublished DEF HandoffInv, HandoffTypeOK, Promotes
<1>4. rows \in Rows /\ \A s \in Held(rows) : SaysOneThing(rows[s]) /\ ~rows[s].miss
  <2>1. \A s \in done : LET new == Closed(index["published"][s], Measured(s)) IN
          new \in Row /\ SaysOneThing(new) /\ ~new.miss
    BY <1>2, <1>3, ClosedType
  <2> QED BY <2>1 DEF Rows, Held
<1> HIDE DEF rows
<1>5. j \in Job /\ j.op = "promote" /\ j.pc = "published" /\ j.rows = rows
  BY <1>4, JobAtType
<1> HIDE DEF j
<1>6. job' \in [Run -> Job] /\ job'[r] = j /\ \A q \in Run \ {r} : job'[q] = job[q]
  BY <1>1, <1>5, StartsType DEF HandoffInv, HandoffTypeOK
<1>7. HandoffTypeOK'
  BY <1>1, <1>6 DEF HandoffInv, HandoffTypeOK
<1>8. CarriedIsTrue'
  <2>1. CarriedOK(r)'
    BY <1>4, <1>5, <1>6 DEF CarriedOK, At
  <2>2. \A q \in Run \ {r} : CarriedOK(q)'
    BY <1>1, <1>6, SameCarries DEF HandoffInv, CarriedIsTrue
  <2> QED BY <2>1, <2>2 DEF CarriedIsTrue
<1> QED BY <1>1, <1>7, <1>8, Quiet

\* The half as a promotion leaves it.
LEMMA PromoteWriteGood ==
  ASSUME HandoffInv, NEW r \in Run, PromoteWrite(r)
  PROVE  Good
<1> DEFINE done == Held(job[r].rows)
           half == index["published"]
           with(s) == [half[s] EXCEPT !.must = job[r].rows[s].must,
                         !.miss = job[r].rows[s].miss, !.kind = job[r].rows[s].kind]
           new == [s \in Sample |-> IF s \in done THEN with(s) ELSE half[s]]
<1>1. At(r, "promote", "published")
      /\ UNCHANGED <<menu, pending, manifest, tracked, shards, build, locked>>
  BY DEF PromoteWrite
<1>2. job[r] \in Job /\ job[r].rows \in Rows /\ index \in [Half -> Rows] /\ half \in Rows
  BY HalfIsPublished DEF HandoffInv, HandoffTypeOK, Job, Rows
<1>3. \A s \in done : /\ s \in Sample /\ job[r].rows[s] \in Row
                      /\ SaysOneThing(job[r].rows[s]) /\ ~job[r].rows[s].miss
  BY <1>1, <1>2 DEF Held, Rows, At, HandoffInv, CarriedIsTrue, CarriedOK
<1>4. CASE /\ done \subseteq Held(half)
           /\ index' = [index EXCEPT !["published"] = new]
           /\ owed' = owed \ done
           /\ Goes(r, "pending")
  <2>1. \A s \in done : half[s] \in Row
    BY <1>2, <1>4 DEF Held, Rows
  <2>2. \A s \in done : /\ with(s) \in Row /\ ~with(s).miss
                        /\ with(s).kind = job[r].rows[s].kind
                        /\ with(s).must = job[r].rows[s].must
    BY <1>3, <2>1 DEF Row
  <2>3. \A s \in done : SaysOneThing(with(s))
    BY <1>3, <2>2 DEF SaysOneThing
  <2>4. /\ new \in Rows
        /\ \A s \in done : new[s] # Absent /\ ~new[s].miss /\ SaysOneThing(new[s])
        /\ \A s \in Sample \ done : new[s] = half[s]
    <3> HIDE DEF with
    <3>1. \A s \in done : with(s) # Absent
      BY <2>2
    <3> QED BY <1>2, <1>3, <2>2, <2>3, <3>1 DEF Rows
  <2> HIDE DEF new
  <2>5. /\ index' \in [Half -> Rows] /\ index'["published"] = new
        /\ \A h \in Half \ {"published"} : index'[h] = index[h]
    BY <1>2, <1>4, <2>4, HalfType, HalfIsPublished
  <2>6. /\ job' \in [Run -> Job] /\ job'[r].op = "promote" /\ job'[r].pc = "pending"
        /\ job'[r].rows = job[r].rows /\ \A q \in Run \ {r} : job'[q] = job[q]
    BY <1>1, <1>4, GoesType DEF HandoffInv, HandoffTypeOK, At
  <2>7. HandoffTypeOK'
    BY <1>1, <1>4, <2>5, <2>6 DEF HandoffInv, HandoffTypeOK, Rows
  <2>8. PublishedStands
    BY <2>4, <2>5 DEF PublishedStands, Held
  <2>9. ExpectSaysOneThing'
    BY <2>4, <2>5 DEF ExpectSaysOneThing, HandoffInv, Held
  <2>10. CarriedIsTrue'
    <3>1. CarriedOK(r)'
      <4>1. \A s \in done : s \notin owed' /\ index'["published"][s] # Absent
                            /\ ~index'["published"][s].miss
        BY <1>3, <1>4, <2>4, <2>5
      <4> QED BY <1>3, <2>6, <4>1 DEF CarriedOK, At, Held
    <3>2. \A q \in Run \ {r} : CarriedOK(q)'
      BY <1>4, <2>6, <2>8, StandsCarries DEF HandoffInv, HandoffTypeOK, CarriedIsTrue
    <3> QED BY <3>1, <3>2 DEF CarriedIsTrue
  <2>11. OwedStays
    BY <1>1 DEF OwedStays
  <2> QED BY <2>7, <2>8, <2>9, <2>10, <2>11 DEF Good, HandoffInv
<1>5. CASE Ends(r) /\ UNCHANGED <<index, owed>>
  <2>1. /\ job' \in [Run -> Job] /\ job'[r] = AtRest
        /\ \A q \in Run \ {r} : job'[q] = job[q]
    BY <1>5, EndsType DEF HandoffInv, HandoffTypeOK
  <2>2. HandoffTypeOK'
    BY <1>1, <1>5, <2>1 DEF HandoffInv, HandoffTypeOK
  <2>3. CarriedIsTrue'
    BY <1>5, <2>1, AtRestType, RestCarries, SameCarries DEF HandoffInv, CarriedIsTrue
  <2> QED BY <1>1, <1>5, <2>2, <2>3, Quiet
<1> QED BY <1>4, <1>5 DEF PromoteWrite

LEMMA PromoteForgetGood ==
  ASSUME HandoffInv, NEW r \in Run, PromoteForget(r)
  PROVE  Good
<1>1. /\ At(r, "promote", "pending") /\ Ends(r)
      /\ pending' = [s \in Sample |-> IF s \in Held(job[r].rows) THEN Absent
                                      ELSE pending[s]]
      /\ UNCHANGED <<menu, index, owed, manifest, tracked, shards, build, locked>>
  BY DEF PromoteForget
<1>2. /\ job' \in [Run -> Job] /\ job'[r] = AtRest
      /\ \A q \in Run \ {r} : job'[q] = job[q]
  BY <1>1, EndsType DEF HandoffInv, HandoffTypeOK
<1>3. HandoffTypeOK'
  BY <1>1, <1>2 DEF HandoffInv, HandoffTypeOK
<1>4. CarriedIsTrue'
  BY <1>1, <1>2, AtRestType, RestCarries, SameCarries DEF HandoffInv, CarriedIsTrue
<1>5. OwedStays
  BY <1>1 DEF OwedStays, HandoffInv, CarriedIsTrue, CarriedOK
<1>6. ExpectSaysOneThing' /\ PublishedStands
  BY <1>1 DEF HandoffInv, ExpectSaysOneThing, PublishedStands, Held
<1> QED BY <1>3, <1>4, <1>5, <1>6 DEF Good, HandoffInv

\* A place that takes up anything but a promotion or a publication.
LEMMA OneMoved ==
  ASSUME HandoffInv, NEW r \in Run, job' \in [Run -> Job],
         \A q \in Run \ {r} : job'[q] = job[q],
         UNCHANGED <<index, owed>>, CarriedOK(r)'
  PROVE  CarriedIsTrue'
BY SameCarries DEF HandoffInv, CarriedIsTrue

LEMMA RefreshLookGood ==
  ASSUME HandoffInv, NEW r \in Run, RefreshLook(r)
  PROVE  Good
<1> DEFINE found == [s \in Sample |-> Refreshed(s)]
           j == [AtRest EXCEPT !.op = "refresh", !.pc = "pending", !.entries = found]
<1>1. /\ Starts(r, j)
      /\ UNCHANGED <<menu, index, pending, owed, manifest, tracked, shards,
                     build, locked>>
  BY DEF RefreshLook
<1>2. found \in [Sample -> Entry \cup {Absent}]
  <2> SUFFICES ASSUME NEW s \in Sample
               PROVE  Refreshed(s) \in Entry \cup {Absent}
    OBVIOUS
  <2>1. pending[s] \in Entry \cup {Absent}
    BY DEF HandoffInv, HandoffTypeOK
  <2>2. \A h \in Half : index[h][s] \in Row \cup {Absent}
    BY DEF HandoffInv, HandoffTypeOK
  <2>3. ASSUME NEW h \in Half, pending[s] # Absent, index[h][s] # Absent
        PROVE  [pending[s] EXCEPT !.half = h, !.blocked = ~index[h][s].publishable] \in Entry
    <3>1. pending[s] \in Entry /\ index[h][s].publishable \in BOOLEAN
      BY <2>1, <2>2, <2>3 DEF Row
    <3>2. (~index[h][s].publishable) \in BOOLEAN
      BY <3>1
    <3> QED BY <3>1, <3>2 DEF Entry
  <2> QED BY <2>1, <2>3, HalfIsPublished DEF Refreshed
<1> HIDE DEF found
<1>3. j \in Job /\ j.op = "refresh"
  <2>1. AtRest \in Job
    BY AtRestType
  <2> HIDE DEF AtRest
  <2> QED BY <1>2, <2>1 DEF Job, Script
<1> HIDE DEF j
<1>4. job' \in [Run -> Job] /\ job'[r] = j /\ \A q \in Run \ {r} : job'[q] = job[q]
  BY <1>1, <1>3, StartsType DEF HandoffInv, HandoffTypeOK
<1>5. HandoffTypeOK'
  BY <1>1, <1>4 DEF HandoffInv, HandoffTypeOK
<1>6. CarriedIsTrue'
  BY <1>1, <1>3, <1>4, RestCarries, OneMoved
<1> QED BY <1>1, <1>5, <1>6, Quiet

LEMMA RefreshWriteGood ==
  ASSUME HandoffInv, NEW r \in Run, RefreshWrite(r)
  PROVE  Good
<1>1. /\ At(r, "refresh", "pending") /\ Ends(r) /\ pending' = job[r].entries
      /\ UNCHANGED <<menu, index, owed, manifest, tracked, shards, build, locked>>
  BY DEF RefreshWrite
<1>2. /\ job' \in [Run -> Job] /\ job'[r] = AtRest
      /\ \A q \in Run \ {r} : job'[q] = job[q]
  BY <1>1, EndsType DEF HandoffInv, HandoffTypeOK
<1>3. job[r].entries \in [Sample -> Entry \cup {Absent}]
  BY DEF HandoffInv, HandoffTypeOK, Job
<1>4. HandoffTypeOK'
  BY <1>1, <1>2, <1>3 DEF HandoffInv, HandoffTypeOK
<1>5. CarriedIsTrue'
  BY <1>1, <1>2, AtRestType, RestCarries, OneMoved
<1>6. OwedStays
  BY <1>1, <1>2 DEF OwedStays
<1>7. ExpectSaysOneThing' /\ PublishedStands
  BY <1>1 DEF HandoffInv, ExpectSaysOneThing, PublishedStands, Held
<1> QED BY <1>4, <1>5, <1>6, <1>7 DEF Good, HandoffInv

LEMMA ClassifyLookGood ==
  ASSUME HandoffInv, NEW r \in Run, ClassifyLook(r)
  PROVE  Good
<1> DEFINE miss(h, s) == index[h][s] # Absent /\ index[h][s].miss
           seen(s) == IF miss("published", s) THEN index["published"][s]
                      ELSE index["local"][s]
           rows == [s \in Sample |->
                     IF (\E h \in Half : miss(h, s)) /\ KindOf(s) # Absent
                       THEN [seen(s) EXCEPT !.kind = KindOf(s)] ELSE Absent]
           j == [AtRest EXCEPT !.op = "classify", !.pc = "published", !.rows = rows]
<1>1. /\ Starts(r, j)
      /\ UNCHANGED <<menu, index, pending, owed, manifest, tracked, shards,
                     build, locked>>
  BY DEF ClassifyLook
<1>2. rows \in Rows
  <2>1. ASSUME NEW s \in Sample, \E h \in Half : miss(h, s), KindOf(s) # Absent
        PROVE  [seen(s) EXCEPT !.kind = KindOf(s)] \in Row
    <3>1. seen(s) \in Row
      BY <2>1, HalfIsPublished DEF HandoffInv, HandoffTypeOK, Half
    <3>2. KindOf(s) \in Kind
      BY <2>1 DEF KindOf, Kind
    <3> HIDE DEF seen
    <3> QED BY <3>1, <3>2 DEF Row
  <2> HIDE DEF miss, seen
  <2> QED BY <2>1 DEF Rows
<1> HIDE DEF rows
<1>3. j \in Job /\ j.op = "classify"
  BY <1>2, JobAtType
<1> HIDE DEF j
<1>4. job' \in [Run -> Job] /\ job'[r] = j /\ \A q \in Run \ {r} : job'[q] = job[q]
  BY <1>1, <1>3, StartsType DEF HandoffInv, HandoffTypeOK
<1>5. HandoffTypeOK'
  BY <1>1, <1>4 DEF HandoffInv, HandoffTypeOK
<1>6. CarriedIsTrue'
  BY <1>1, <1>3, <1>4, RestCarries, OneMoved
<1> QED BY <1>1, <1>5, <1>6, Quiet

\* What is left of a step that gives one half new rows, none of which closes
\* or opens a miss, and leaves the pending file and what is owed alone.
LEMMA NewHalf ==
  ASSUME HandoffInv, NEW h \in Half, NEW f \in Rows,
         index' = [index EXCEPT ![h] = f],
         \A s \in Held(f) : SaysOneThing(f[s]),
         \A s \in Sample : h = "published" /\ index[h][s] # Absent
                             => f[s] # Absent /\ (f[s].miss <=> index[h][s].miss)
  PROVE  /\ index' \in [Half -> Rows]
         /\ ExpectSaysOneThing' /\ PublishedStands
<1>1. index \in [Half -> Rows]
  BY DEF HandoffInv, HandoffTypeOK, Rows
<1>2. /\ index' \in [Half -> Rows] /\ index'[h] = f
      /\ \A g \in Half \ {h} : index'[g] = index[g]
  BY <1>1, HalfType
<1>3. ExpectSaysOneThing'
  BY <1>2 DEF HandoffInv, ExpectSaysOneThing, Held
<1>4. PublishedStands
  BY <1>2, HalfIsPublished DEF PublishedStands, Held
<1> QED BY <1>2, <1>3, <1>4

LEMMA ClassifyWriteGood ==
  ASSUME HandoffInv, NEW r \in Run, NEW h \in Half, ClassifyWrite(r, h)
  PROVE  Good
<1> DEFINE new == [s \in Sample |-> Kinded(index[h][s], job[r].rows[s])]
<1>1. /\ At(r, "classify", h) /\ index' = [index EXCEPT ![h] = new]
      /\ UNCHANGED <<menu, pending, owed, manifest, tracked, shards, build, locked>>
  BY DEF ClassifyWrite, HandoffInv, HandoffTypeOK
<1>2. \A s \in Sample : /\ index[h][s] \in Row \cup {Absent}
                        /\ job[r].rows[s] \in Row \cup {Absent}
                        /\ index[h][s] # Absent => SaysOneThing(index[h][s])
  <2>1. job[r].rows \in Rows
    BY DEF HandoffInv, HandoffTypeOK, Job, Rows
  <2> QED BY <2>1 DEF Rows, HandoffInv, HandoffTypeOK, ExpectSaysOneThing, Held
<1>3. /\ new \in Rows /\ \A s \in Held(new) : SaysOneThing(new[s])
      /\ \A s \in Sample : index[h][s] # Absent
                             => new[s] # Absent /\ (new[s].miss <=> index[h][s].miss)
  <2>1. \A s \in Sample : LET k == Kinded(index[h][s], job[r].rows[s]) IN
          /\ k \in Row \cup {Absent} /\ (k = Absent <=> index[h][s] = Absent)
          /\ k # Absent => SaysOneThing(k) /\ (k.miss <=> index[h][s].miss)
    BY <1>2, KindedType
  <2> QED BY <2>1 DEF Rows, Held
<1> HIDE DEF new
<1>4. index' \in [Half -> Rows] /\ ExpectSaysOneThing' /\ PublishedStands
  BY <1>1, <1>3, NewHalf
<1>5. /\ job' \in [Run -> Job] /\ job'[r].op \in {"classify", "none"}
      /\ \A q \in Run \ {r} : job'[q] = job[q]
  <2>1. CASE Goes(r, "local")
    BY <1>1, <2>1, GoesType DEF HandoffInv, HandoffTypeOK, At
  <2>2. CASE Ends(r)
    BY <2>2, EndsType, AtRestType DEF HandoffInv, HandoffTypeOK
  <2> QED BY <2>1, <2>2 DEF ClassifyWrite
<1>6. HandoffTypeOK'
  BY <1>1, <1>4, <1>5 DEF HandoffInv, HandoffTypeOK, Rows
<1>7. CarriedIsTrue'
  BY <1>1, <1>4, <1>5, RestCarries, StandsCarries
     DEF CarriedIsTrue, HandoffInv, HandoffTypeOK
<1>8. OwedStays
  BY <1>1 DEF OwedStays
<1> QED BY <1>4, <1>6, <1>7, <1>8 DEF Good, HandoffInv

LEMMA PublishLookGood ==
  ASSUME HandoffInv, NEW r \in Run, NEW s \in Sample, PublishLook(r, s)
  PROVE  Good
<1> DEFINE j == [AtRest EXCEPT !.op = "publish", !.pc = "published",
                               !.rows[s] = index["local"][s]]
           rows == [Nowhere EXCEPT ![s] = index["local"][s]]
<1>1. /\ Starts(r, j) /\ index["local"][s] # Absent
      /\ UNCHANGED <<menu, index, pending, owed, manifest, tracked, shards,
                     build, locked>>
  BY DEF PublishLook
<1>2. index["local"][s] \in Row /\ SaysOneThing(index["local"][s])
  BY <1>1, HalfIsPublished DEF HandoffInv, HandoffTypeOK, ExpectSaysOneThing, Held
<1>3. rows \in Rows /\ \A q \in Held(rows) : SaysOneThing(rows[q])
  BY <1>2 DEF Rows, Held, Nowhere
<1>4. j \in Job /\ j.op = "publish" /\ j.rows = rows
  <2>1. AtRest \in Job /\ AtRest.rows = Nowhere
    BY AtRestType DEF AtRest
  <2>2. j = [AtRest EXCEPT !.op = "publish", !.pc = "published", !.rows = rows]
    BY <2>1 DEF Job
  <2> HIDE DEF AtRest, rows, j
  <2> QED BY <1>3, <2>1, <2>2 DEF Job, Script, Rows
<1> HIDE DEF j, rows
<1>5. job' \in [Run -> Job] /\ job'[r] = j /\ \A q \in Run \ {r} : job'[q] = job[q]
  BY <1>1, <1>4, StartsType DEF HandoffInv, HandoffTypeOK
<1>6. HandoffTypeOK'
  BY <1>1, <1>5 DEF HandoffInv, HandoffTypeOK
<1>7. CarriedIsTrue'
  <2>1. CarriedOK(r)'
    BY <1>3, <1>4, <1>5 DEF CarriedOK, At
  <2> QED BY <1>1, <1>5, <2>1, OneMoved
<1> QED BY <1>1, <1>6, <1>7, Quiet

LEMMA PublishWriteGood ==
  ASSUME HandoffInv, NEW r \in Run, PublishWrite(r)
  PROVE  Good
<1> DEFINE half == index["published"]
           new == [s \in Sample |-> IF half[s] = Absent THEN job[r].rows[s] ELSE half[s]]
<1>1. /\ At(r, "publish", "published") /\ Goes(r, "local") /\ locked' = r
      /\ index' = [index EXCEPT !["published"] = new]
      /\ UNCHANGED <<menu, pending, owed, manifest, tracked, shards, build>>
  BY HalfIsPublished DEF PublishWrite, HandoffInv, HandoffTypeOK
<1>2. /\ job[r].rows \in Rows /\ half \in Rows
      /\ \A s \in Held(job[r].rows) : SaysOneThing(job[r].rows[s])
      /\ \A s \in Held(half) : SaysOneThing(half[s])
  BY <1>1, HalfIsPublished DEF HandoffInv, HandoffTypeOK, Job, Rows, At,
     CarriedIsTrue, CarriedOK, ExpectSaysOneThing
<1>3. /\ new \in Rows /\ \A s \in Held(new) : SaysOneThing(new[s])
      /\ \A s \in Sample : half[s] # Absent
                             => new[s] # Absent /\ (new[s].miss <=> half[s].miss)
  BY <1>2 DEF Rows, Held
<1> HIDE DEF new
<1>4. index' \in [Half -> Rows] /\ ExpectSaysOneThing' /\ PublishedStands
  BY <1>1, <1>3, NewHalf, HalfIsPublished
<1>5. /\ job' \in [Run -> Job] /\ job'[r].op = "publish" /\ job'[r].rows = job[r].rows
      /\ \A q \in Run \ {r} : job'[q] = job[q]
  BY <1>1, GoesType DEF HandoffInv, HandoffTypeOK, At
<1>6. HandoffTypeOK'
  BY <1>1, <1>4, <1>5 DEF HandoffInv, HandoffTypeOK, Rows
<1>7. CarriedIsTrue'
  <2>1. CarriedOK(r)'
    BY <1>2, <1>5 DEF CarriedOK, At, Held
  <2> QED BY <1>1, <1>4, <1>5, <2>1, StandsCarries
          DEF CarriedIsTrue, HandoffInv, HandoffTypeOK
<1>8. OwedStays
  BY <1>1 DEF OwedStays
<1> QED BY <1>4, <1>6, <1>7, <1>8 DEF Good, HandoffInv

LEMMA PublishRemoveGood ==
  ASSUME HandoffInv, NEW r \in Run, PublishRemove(r)
  PROVE  Good
<1> DEFINE half == index["local"]
           new == [s \in Sample |-> IF job[r].rows[s] # Absent THEN Absent ELSE half[s]]
<1>1. /\ Ends(r) /\ locked' = Nobody
      /\ index' = [index EXCEPT !["local"] = new]
      /\ UNCHANGED <<menu, pending, owed, manifest, tracked, shards, build>>
  BY HalfIsPublished DEF PublishRemove, HandoffInv, HandoffTypeOK
<1>2. half \in Rows /\ \A s \in Held(half) : SaysOneThing(half[s])
  BY HalfIsPublished DEF HandoffInv, HandoffTypeOK, Rows, ExpectSaysOneThing
<1>3. new \in Rows /\ \A s \in Held(new) : SaysOneThing(new[s])
  BY <1>2 DEF Rows, Held
<1> HIDE DEF new
<1>4. index' \in [Half -> Rows] /\ ExpectSaysOneThing' /\ PublishedStands
  <2>1. "local" \in Half /\ "local" # "published"
    BY HalfIsPublished
  <2> QED BY <1>1, <1>3, <2>1, NewHalf
<1>5. /\ job' \in [Run -> Job] /\ job'[r] = AtRest
      /\ \A q \in Run \ {r} : job'[q] = job[q]
  BY <1>1, EndsType DEF HandoffInv, HandoffTypeOK
<1>6. HandoffTypeOK'
  BY <1>1, <1>4, <1>5 DEF HandoffInv, HandoffTypeOK, Rows
<1>7. CarriedIsTrue'
  BY <1>1, <1>4, <1>5, AtRestType, RestCarries, StandsCarries
     DEF CarriedIsTrue, HandoffInv, HandoffTypeOK
<1>8. OwedStays
  BY <1>1 DEF OwedStays
<1> QED BY <1>4, <1>6, <1>7, <1>8 DEF Good, HandoffInv

LEMMA ManifestLookGood ==
  ASSUME HandoffInv, NEW r \in Run, ManifestLook(r)
  PROVE  Good
<1> DEFINE claims == [s \in Sample |->
             IF manifest[s] = Absent \/ index["published"][s] = Absent
               THEN manifest[s] ELSE ClaimOf(index["published"][s])]
           j == [AtRest EXCEPT !.op = "manifest", !.pc = "manifest", !.claims = claims]
<1>1. /\ Starts(r, j)
      /\ UNCHANGED <<menu, index, pending, owed, manifest, tracked, shards,
                     build, locked>>
  BY DEF ManifestLook
<1>2. claims \in [Sample -> Claim \cup {Absent}]
  <2>1. \A s \in Sample : index["published"][s] # Absent
                            => ClaimOf(index["published"][s]) \in Claim
    BY HalfIsPublished DEF HandoffInv, HandoffTypeOK, ClaimOf, Claim, Row
  <2> QED BY <2>1 DEF HandoffInv, HandoffTypeOK
<1> HIDE DEF claims
<1>3. j \in Job /\ j.op = "manifest"
  <2>1. AtRest \in Job
    BY AtRestType
  <2> HIDE DEF AtRest
  <2> QED BY <1>2, <2>1 DEF Job, Script
<1> HIDE DEF j
<1>4. job' \in [Run -> Job] /\ job'[r] = j /\ \A q \in Run \ {r} : job'[q] = job[q]
  BY <1>1, <1>3, StartsType DEF HandoffInv, HandoffTypeOK
<1>5. HandoffTypeOK'
  BY <1>1, <1>4 DEF HandoffInv, HandoffTypeOK
<1>6. CarriedIsTrue'
  BY <1>1, <1>3, <1>4, RestCarries, OneMoved
<1> QED BY <1>1, <1>5, <1>6, Quiet

LEMMA ManifestWriteGood ==
  ASSUME HandoffInv, NEW r \in Run, ManifestWrite(r) \/ TrackedWrite(r)
  PROVE  Good
<1>1. /\ job[r].op = "manifest" /\ (Goes(r, "tracked") \/ Ends(r))
      /\ UNCHANGED <<menu, index, pending, owed, shards, build, locked>>
  BY DEF ManifestWrite, TrackedWrite, At
<1>2. /\ job' \in [Run -> Job] /\ job'[r].op \in {"manifest", "none"}
      /\ \A q \in Run \ {r} : job'[q] = job[q]
  BY <1>1, GoesType, EndsType, AtRestType DEF HandoffInv, HandoffTypeOK
<1>3. job[r].claims \in [Sample -> Claim \cup {Absent}]
  BY DEF HandoffInv, HandoffTypeOK, Job
<1>4. HandoffTypeOK'
  BY <1>1, <1>2, <1>3 DEF HandoffInv, HandoffTypeOK, ManifestWrite, TrackedWrite
<1>5. CarriedIsTrue'
  BY <1>1, <1>2, RestCarries, OneMoved
<1> QED BY <1>1, <1>4, <1>5, Quiet

LEMMA DiesGood ==
  ASSUME HandoffInv, NEW r \in Run, Dies(r)
  PROVE  Good
<1>1. /\ Ends(r) /\ locked' \in {locked, Nobody}
      /\ UNCHANGED <<menu, index, pending, owed, manifest, tracked, shards, build>>
  BY DEF Dies
<1>2. /\ job' \in [Run -> Job] /\ job'[r] = AtRest
      /\ \A q \in Run \ {r} : job'[q] = job[q]
  BY <1>1, EndsType DEF HandoffInv, HandoffTypeOK
<1>3. HandoffTypeOK'
  BY <1>1, <1>2 DEF HandoffInv, HandoffTypeOK
<1>4. CarriedIsTrue'
  BY <1>1, <1>2, AtRestType, RestCarries, OneMoved
<1> QED BY <1>1, <1>3, <1>4, Quiet

LEMMA HandOverGood ==
  ASSUME HandoffInv, NEW s \in Sample, NEW bytes \in {"source", "shipped"},
         HandOver(s, bytes)
  PROVE  Good
<1> DEFINE half == IF index["published"][s] # Absent THEN "published" ELSE "local"
           entry == [half |-> half, blocked |-> ~index[half][s].publishable,
                     now |-> Says[build][s][bytes]]
<1>1. /\ pending[s] = Absent /\ index[half][s] # Absent /\ index[half][s].miss
      /\ pending' = [pending EXCEPT ![s] = entry] /\ owed' = owed \cup {s}
      /\ UNCHANGED <<menu, index, manifest, tracked, shards, build, locked, job>>
  BY DEF HandOver
<1>2. entry \in Entry
  <2>1. half \in Half
    BY HalfIsPublished
  <2>2. index[half][s] \in Row
    BY <1>1, <2>1 DEF HandoffInv, HandoffTypeOK
  <2>3. (~index[half][s].publishable) \in BOOLEAN /\ Says[build][s][bytes] \in SUBSET Rule
    BY <2>2, SaysType DEF HandoffInv, HandoffTypeOK, Row
  <2> HIDE DEF half
  <2> QED BY <2>1, <2>3 DEF Entry
<1>3. HandoffTypeOK'
  <2> HIDE DEF entry
  <2> QED BY <1>1, <1>2 DEF HandoffInv, HandoffTypeOK
<1>4. ASSUME NEW r \in Run
      PROVE  CarriedOK(r)'
  <2>1. ASSUME At(r, "promote", "pending"), NEW q \in Held(job[r].rows)
        PROVE  q # s
    BY <1>1, <2>1 DEF HandoffInv, CarriedIsTrue, CarriedOK
  <2> QED BY <1>1, <2>1 DEF HandoffInv, CarriedIsTrue, CarriedOK, At, Held
<1>5. ExpectSaysOneThing' /\ PublishedStands
  BY <1>1 DEF HandoffInv, ExpectSaysOneThing, PublishedStands, Held
<1>6. OwedStays
  <2> HIDE DEF entry
  <2>1. \A q \in Sample : pending[q] # Absent => pending'[q] = pending[q]
    BY <1>1 DEF HandoffInv, HandoffTypeOK
  <2> QED BY <2>1 DEF OwedStays
<1> QED BY <1>3, <1>4, <1>5, <1>6 DEF Good, HandoffInv, CarriedIsTrue

LEMMA GateGood ==
  ASSUME HandoffInv, NEW h \in Half, NEW s \in Sample, Gate(h, s)
  PROVE  Good
<1> DEFINE row == index[h][s]
           other == [row EXCEPT !.publishable = ~row.publishable]
           new == [index[h] EXCEPT ![s] = other]
<1>1. /\ row # Absent /\ index' = [index EXCEPT ![h] = new]
      /\ UNCHANGED <<menu, pending, owed, manifest, tracked, shards, build, locked, job>>
  BY DEF Gate
<1>2. index[h] \in Rows /\ row \in Row /\ \A q \in Held(index[h]) : SaysOneThing(index[h][q])
  BY <1>1 DEF HandoffInv, HandoffTypeOK, Rows, ExpectSaysOneThing
<1>3. /\ other \in Row /\ other.must = row.must /\ other.miss = row.miss
      /\ other.kind = row.kind
  <2>1. (~row.publishable) \in BOOLEAN
    OBVIOUS
  <2> QED BY <1>2, <2>1 DEF Row
<1>4. SaysOneThing(row) => SaysOneThing(other)
  BY <1>3 DEF SaysOneThing
<1> HIDE DEF other
<1>5. /\ new \in Rows /\ \A q \in Held(new) : SaysOneThing(new[q])
      /\ \A q \in Sample : index[h][q] # Absent
                             => new[q] # Absent /\ (new[q].miss <=> index[h][q].miss)
  BY <1>1, <1>2, <1>3, <1>4 DEF Rows, Held
<1> HIDE DEF new, row
<1>6. index' \in [Half -> Rows] /\ ExpectSaysOneThing' /\ PublishedStands
  BY <1>1, <1>5, NewHalf
<1>7. HandoffTypeOK'
  BY <1>1, <1>6 DEF HandoffInv, HandoffTypeOK, Rows
<1>8. CarriedIsTrue'
  BY <1>1, <1>6, StandsCarries DEF CarriedIsTrue, HandoffInv, HandoffTypeOK
<1>9. OwedStays
  BY <1>1 DEF OwedStays
<1> QED BY <1>6, <1>7, <1>8, <1>9 DEF Good, HandoffInv

\* A rebuild, a sample staged, shards packed, another tool at the locks.
LEMMA PeopleGood ==
  ASSUME HandoffInv,
         \/ \E b \in Build : Rebuild(b)
         \/ \E s \in Sample : Stage(s)
         \/ Pack \/ OtherTool
  PROVE  Good
<1>1. UNCHANGED <<index, pending, owed, job, tracked, menu>>
  BY DEF Rebuild, Stage, Pack, OtherTool
<1>2. CarriedIsTrue'
  BY <1>1, SameCarries DEF HandoffInv, CarriedIsTrue
<1>3. HandoffTypeOK'
  <2>1. CASE \E b \in Build : Rebuild(b)
    BY <2>1 DEF Rebuild, HandoffInv, HandoffTypeOK
  <2>2. ASSUME NEW s \in Sample, Stage(s)
        PROVE  HandoffTypeOK'
    <3>1. ClaimOf(index["local"][s]) \in Claim
      BY <2>2, HalfIsPublished DEF Stage, HandoffInv, HandoffTypeOK, ClaimOf, Claim, Row
    <3>2. manifest' = [manifest EXCEPT ![s] = ClaimOf(index["local"][s])]
      BY <2>2 DEF Stage
    <3>3. manifest' \in [Sample -> Claim \cup {Absent}]
      <4> HIDE DEF ClaimOf
      <4> QED BY <3>1, <3>2 DEF HandoffInv, HandoffTypeOK
    <3> QED BY <1>1, <2>2, <3>3 DEF Stage, HandoffInv, HandoffTypeOK
  <2>3. CASE Pack
    BY <2>3 DEF Pack, HandoffInv, HandoffTypeOK
  <2>4. CASE OtherTool
    BY <2>4 DEF OtherTool, Borrow, GiveBack, Unlocked, HandoffInv, HandoffTypeOK
  <2> QED BY <2>1, <2>2, <2>3, <2>4
<1> QED BY <1>1, <1>2, <1>3, Quiet

LEMMA StepGood ==
  ASSUME HandoffInv, [HandoffNext]_handoffVars
  PROVE  Good
<1>1. CASE UNCHANGED handoffVars
  <2>1. HandoffTypeOK' /\ CarriedIsTrue'
    BY <1>1, SameCarries DEF handoffVars, HandoffInv, HandoffTypeOK, CarriedIsTrue
  <2> QED BY <1>1, <2>1, Quiet DEF handoffVars
<1>2. ASSUME NEW r \in Run, \/ Promote(r) \/ Refresh(r) \/ Classify(r) \/ Publish(r)
                            \/ Manifest(r) \/ Dies(r)
      PROVE  Good
  <2>1. CASE Promote(r)
    BY <2>1, PromoteLookGood, PromoteWriteGood, PromoteForgetGood DEF Promote
  <2>2. CASE Refresh(r)
    BY <2>2, RefreshLookGood, RefreshWriteGood DEF Refresh
  <2>3. CASE Classify(r)
    BY <2>3, ClassifyLookGood, ClassifyWriteGood DEF Classify
  <2>4. CASE Publish(r)
    BY <2>4, PublishLookGood, PublishWriteGood, PublishRemoveGood DEF Publish
  <2>5. CASE Manifest(r)
    BY <2>5, ManifestLookGood, ManifestWriteGood DEF Manifest
  <2>6. CASE Dies(r)
    BY <2>6, DiesGood
  <2> QED BY <1>2, <2>1, <2>2, <2>3, <2>4, <2>5, <2>6
<1>3. CASE People
  BY <1>3, HandOverGood, GateGood, PeopleGood DEF People
<1>4. CASE OtherTool
  BY <1>4, PeopleGood
<1> QED BY <1>1, <1>2, <1>3, <1>4 DEF HandoffNext, HandoffStep

LEMMA InitGood == HandoffInit => HandoffInv
<1> SUFFICES ASSUME HandoffInit PROVE HandoffInv
  OBVIOUS
<1>1. index \in [Half -> [Sample -> Row \cup {Absent}]]
  BY DEF HandoffInit
<1>2. manifest \in [Sample -> Claim \cup {Absent}]
  <2>1. \A s \in Sample : index["published"][s] # Absent
                            => ClaimOf(index["published"][s]) \in Claim
    BY <1>1, HalfIsPublished DEF ClaimOf, Claim, Row
  <2> QED BY <2>1 DEF HandoffInit
<1>3. job \in [Run -> Job] /\ \A r \in Run : job[r].op = "none"
  BY AtRestType DEF HandoffInit
<1>4. HandoffTypeOK
  BY <1>1, <1>2, <1>3, NowhereType DEF HandoffInit, HandoffTypeOK
<1>5. ExpectSaysOneThing
  BY DEF HandoffInit, ExpectSaysOneThing, Held
<1>6. CarriedIsTrue
  BY <1>3 DEF CarriedIsTrue, CarriedOK, At
<1> QED BY <1>4, <1>5, <1>6 DEF HandoffInv

---------------------------------------------------------------------------
(* The theorems about Handoff.                                             *)

LEMMA HandoffHolds == Handoff => []HandoffInv /\ [][PublishedStands /\ OwedStays]_handoffVars
<1>1. HandoffInv /\ [HandoffNext]_handoffVars => HandoffInv'
  BY StepGood DEF Good
<1>2. HandoffInv /\ [HandoffNext]_handoffVars => [PublishedStands /\ OwedStays]_handoffVars
  BY StepGood DEF Good
<1> QED BY InitGood, <1>1, <1>2, PTL DEF Handoff

\* Type correctness of the scripts, their locks and the files they rewrite.
THEOREM HandoffTypeCorrect == Handoff => []HandoffTypeOK
<1>1. HandoffInv => HandoffTypeOK
  BY DEF HandoffInv
<1> QED BY HandoffHolds, <1>1, PTL

\* promote-pending, classify-known-miss, publish-rows: whichever measured first
\* and wrote last, a row says one thing of its sample.
THEOREM RowsSayOneThing == Handoff => []ExpectSaysOneThing
<1>1. HandoffInv => ExpectSaysOneThing
  BY DEF HandoffInv
<1> QED BY HandoffHolds, <1>1, PTL

\* A published row that is no known miss is never made one again, nor lost.
THEOREM ClosedRowsStayClosed == Handoff => ClosedStaysClosed
<1>1. [PublishedStands /\ OwedStays]_handoffVars
        => [\A s \in Held(index["published"]) :
              ~index["published"][s].miss =>
                index'["published"][s] # Absent /\ ~index'["published"][s].miss]_handoffVars
  BY DEF PublishedStands
<1> QED BY HandoffHolds, <1>1, PTL DEF ClosedStaysClosed

\* Nothing but the rewrite of --refresh takes a row that is owed out of the
\* pending file, whatever dies between the index and that file.
THEOREM OwedRowsAreKept == Handoff => OwedWorkIsKept
<1>1. [PublishedStands /\ OwedStays]_handoffVars
        => [\A s \in Sample :
              pending[s] # Absent /\ pending'[s] = Absent
              /\ ~(\E r \in Run : At(r, "refresh", "pending") /\ job'[r] = AtRest
                                  /\ pending' = job[r].entries)
              => s \notin owed]_handoffVars
  BY DEF OwedStays
<1> QED BY HandoffHolds, <1>1, PTL DEF OwedWorkIsKept

---------------------------------------------------------------------------
(* Release takes steps of Handoff.                                         *)

LEMMA ReleaseStepIsHandoff ==
  ASSUME [ReleaseNext]_releaseVars
  PROVE  [HandoffNext]_handoffVars
<1>1. CASE UNCHANGED releaseVars
  BY <1>1 DEF releaseVars
<1>2. CASE HandoffStep
  BY <1>2 DEF HandoffNext
<1>3. CASE NotHandoff /\ (UNCHANGED locked \/ Borrow \/ GiveBack)
  BY <1>3 DEF NotHandoff, HandoffNext, OtherTool, handoffVars
<1>4. ASSUME NEW t \in Desk, Checks(t)
      PROVE  UNCHANGED locked
  BY <1>4 DEF Checks, OpenPublished, OpenLocal, PushTree, PushIndex, PushPublished,
     PushLocal, PushSummary, PushDocs, ReadToCheck, VerifyRun, CensusRun
<1>5. ASSUME NEW t \in Desk, Writes(t)
      PROVE  UNCHANGED locked \/ Borrow \/ GiveBack
  BY <1>5 DEF Writes, SummaryPublished, SummaryLocal, SummaryOpen, SummaryDump,
     FiguresRead, RegionOpen, RegionWrite, DeriveLock, DerivePublished,
     DeriveLocal, DeriveUnlock, DeriveReplace, Quits, GiveBack
<1>6. (Edit \/ \E g \in Region : Restore(g)) => UNCHANGED locked
  BY DEF Edit, Restore
<1> QED BY <1>1, <1>2, <1>3, <1>4, <1>5, <1>6 DEF ReleaseNext

\* The desk's readers never disturb the scripts: what Handoff promises, Release
\* keeps.
THEOREM ReleaseImplementsHandoff == Release => Handoff
<1>1. ReleaseInit => HandoffInit
  BY DEF ReleaseInit
<1>2. [ReleaseNext]_releaseVars => [HandoffNext]_handoffVars
  BY ReleaseStepIsHandoff
<1> QED BY <1>1, <1>2, PTL DEF Release, Handoff

---------------------------------------------------------------------------
(* What a reader holds.                                                    *)

Summaries == {Figures(rows) : rows \in [Half -> Rows]} \cup {Torn}
Pages == [Region -> {Torn, Typed}
                    \cup {Shown(g, f) : g \in Region, f \in Summaries}]
Steps == {"idle", "local", "open", "dump", "region", "write", "published",
          "unlock", "replace", "index", "summary", "docs", "shards"}
DeskJob == [op : Reader \cup {"none"}, pc : Steps, rows : [Half -> Rows],
            sum : Summaries, next : Nat, text : Pages, bad : BOOLEAN]

ReleaseType ==
  /\ summary \in Summaries
  /\ docs \in Pages
  /\ db \in [Half -> Rows] \cup {Absent}
  /\ leak \in BOOLEAN
  /\ tool \in [Desk -> DeskJob]
  /\ passed \subseteq Check

NoneBlocked == \A s \in Held(index["published"]) : index["published"][s].publishable

\* What a check has found so far, while nothing has changed under it.
PushFound(j) ==
  j.op = "push" =>
    /\ j.pc \in {"index", "published", "local", "summary", "docs"}
    /\ ~j.bad => ~leak
    /\ ~j.bad /\ j.pc # "index" => NoneBlocked
    /\ j.pc = "local" => j.rows["published"] = index["published"]
    /\ j.pc = "summary" => j.rows = index
    /\ ~j.bad /\ j.pc = "docs" => summary = Figures(index)
ReadFound(j) ==
  j.op \in {"verify", "census"} =>
    j.rows["published"] = index["published"] /\ j.sum = summary
Found(j) == PushFound(j) /\ ReadFound(j)

\* What a check that passed goes on meaning until something changes.
Means ==
  /\ "push" \in passed =>
       ~leak /\ NoneBlocked /\ summary = Figures(index) /\ Agree(summary)
  /\ "verify" \in passed => Green(index["published"], summary)

ReleaseInv ==
  /\ ReleaseType /\ HandoffInv
  /\ \A t \in Desk : t \notin disturbed => Found(tool[t])
  /\ Means

LEMMA AtDeskType ==
  AtDesk \in DeskJob /\ AtDesk.op = "none"
<1>1. NoRows \in [Half -> Rows]
  BY NowhereType DEF NoRows
<1>2. Torn \in Summaries
  BY DEF Summaries
<1>3. [g \in Region |-> Typed] \in Pages
  BY DEF Pages
<1> QED BY <1>1, <1>2, <1>3 DEF AtDesk, DeskJob, Steps

LEMMA LeavesType ==
  ASSUME tool \in [Desk -> DeskJob], NEW t \in Desk, Leaves(t)
  PROVE  /\ tool' \in [Desk -> DeskJob] /\ tool'[t] = AtDesk
         /\ \A q \in Desk \ {t} : tool'[q] = tool[q]
BY AtDeskType DEF Leaves

\* A reader goes on: the place in its work, and one more thing it knows.
LEMMA ThenType ==
  ASSUME tool \in [Desk -> DeskJob], NEW t \in Desk, NEW pc \in Steps, Then(t, pc)
  PROVE  /\ tool' \in [Desk -> DeskJob] /\ tool'[t].op = tool[t].op
         /\ tool'[t].pc = pc /\ tool'[t].rows = tool[t].rows /\ tool'[t].bad = tool[t].bad
         /\ \A q \in Desk \ {t} : tool'[q] = tool[q]
<1>1. tool[t] \in DeskJob
  OBVIOUS
<1>2. [tool[t] EXCEPT !.pc = pc] \in DeskJob
  BY <1>1 DEF DeskJob
<1>3. tool' = [tool EXCEPT ![t] = [tool[t] EXCEPT !.pc = pc]]
  BY DEF Then
<1> QED BY <1>1, <1>2, <1>3 DEF DeskJob

LEMMA ReadsType ==
  ASSUME tool \in [Desk -> DeskJob], NEW t \in Desk, NEW h \in Half, NEW pc \in Steps,
         index \in [Half -> Rows], Reads(t, h, pc)
  PROVE  /\ tool' \in [Desk -> DeskJob] /\ tool'[t].op = tool[t].op
         /\ tool'[t].pc = pc /\ tool'[t].bad = tool[t].bad
         /\ tool'[t].rows = [tool[t].rows EXCEPT ![h] = index[h]]
         /\ \A q \in Desk \ {t} : tool'[q] = tool[q]
<1> DEFINE rows == [tool[t].rows EXCEPT ![h] = index[h]]
<1>1. tool[t] \in DeskJob
  OBVIOUS
<1>2. rows \in [Half -> Rows]
  BY <1>1 DEF DeskJob
<1>3. tool' = [tool EXCEPT ![t] = [tool[t] EXCEPT !.pc = pc, !.rows = rows]]
  BY <1>1 DEF Reads, DeskJob
<1> HIDE DEF rows
<1>4. [tool[t] EXCEPT !.pc = pc, !.rows = rows] \in DeskJob
  BY <1>1, <1>2 DEF DeskJob
<1>5. /\ tool' \in [Desk -> DeskJob] /\ tool'[t] = [tool[t] EXCEPT !.pc = pc, !.rows = rows]
      /\ \A q \in Desk \ {t} : tool'[q] = tool[q]
  BY <1>3, <1>4
<1>6. /\ tool'[t].op = tool[t].op /\ tool'[t].pc = pc /\ tool'[t].bad = tool[t].bad
      /\ tool'[t].rows = rows
  BY <1>1, <1>5 DEF DeskJob
<1> QED BY <1>5, <1>6 DEF rows

LEMMA FindsType ==
  ASSUME tool \in [Desk -> DeskJob], NEW t \in Desk, NEW pc \in Steps,
         NEW bad \in BOOLEAN, Finds(t, pc, bad)
  PROVE  /\ tool' \in [Desk -> DeskJob] /\ tool'[t].op = tool[t].op
         /\ tool'[t].pc = pc /\ tool'[t].rows = tool[t].rows /\ tool'[t].bad = bad
         /\ \A q \in Desk \ {t} : tool'[q] = tool[q]
<1>1. tool[t] \in DeskJob
  OBVIOUS
<1>2. [tool[t] EXCEPT !.pc = pc, !.bad = bad] \in DeskJob
  BY <1>1 DEF DeskJob
<1>3. tool' = [tool EXCEPT ![t] = [tool[t] EXCEPT !.pc = pc, !.bad = bad]]
  BY DEF Finds
<1> QED BY <1>1, <1>2, <1>3 DEF DeskJob

LEMMA SitsType ==
  ASSUME tool \in [Desk -> DeskJob], NEW t \in Desk, NEW j \in DeskJob, Sits(t, j)
  PROVE  /\ tool' \in [Desk -> DeskJob] /\ tool'[t] = j
         /\ \A q \in Desk \ {t} : tool'[q] = tool[q]
BY DEF Sits

LEMMA FirstHalfType ==
  ASSUME index \in [Half -> Rows]
  PROVE  FirstHalf \in [Half -> Rows] /\ FirstHalf["published"] = index["published"]
<1>1. NoRows \in [Half -> Rows]
  BY NowhereType DEF NoRows
<1> QED BY <1>1, HalfIsPublished DEF FirstHalf

\* What every step of a reader does to the desks.
OnlyMoves(t) ==
  tool' \in [Desk -> DeskJob] /\ \A q \in Desk \ {t} : tool'[q] = tool[q]
FilesOK ==
  /\ summary' \in Summaries /\ docs' \in Pages
  /\ db' \in [Half -> Rows] \cup {Absent} /\ leak' \in BOOLEAN

LEMMA SummarySteps ==
  ASSUME ReleaseInv, NEW t \in Desk,
         \/ SummaryPublished(t) \/ SummaryLocal(t) \/ SummaryOpen(t) \/ SummaryDump(t)
  PROVE  OnlyMoves(t) /\ FilesOK /\ tool'[t].op \notin Check
<1>1. /\ tool \in [Desk -> DeskJob] /\ index \in [Half -> Rows]
      /\ summary \in Summaries /\ docs \in Pages
      /\ db \in [Half -> Rows] \cup {Absent} /\ leak \in BOOLEAN
  BY DEF ReleaseInv, ReleaseType, HandoffInv, HandoffTypeOK, Rows
<1>2. Torn \in Summaries /\ Figures(tool[t].rows) \in Summaries
  BY <1>1 DEF Summaries, DeskJob
<1>3. CASE SummaryPublished(t)
  <2> DEFINE j == [AtDesk EXCEPT !.op = "summary", !.pc = "local", !.rows = FirstHalf]
  <2>1. Sits(t, j) /\ UNCHANGED <<summary, docs, db, leak>>
    BY <1>3 DEF SummaryPublished
  <2>2. "summary" \in Reader /\ "local" \in Steps
    BY DEF Reader, Steps
  <2>3. j \in DeskJob /\ j.op = "summary"
    <3>1. FirstHalf \in [Half -> Rows]
      BY <1>1, FirstHalfType
    <3>2. AtDesk \in DeskJob
      BY AtDeskType
    <3> HIDE DEF AtDesk, FirstHalf
    <3> QED BY <2>2, <3>1, <3>2 DEF DeskJob
  <2> HIDE DEF j
  <2> QED BY <1>1, <2>1, <2>3, SitsType DEF OnlyMoves, FilesOK, Check
<1>4. CASE SummaryLocal(t)
  <2>1. Reads(t, "local", "open") /\ tool[t].op = "summary"
        /\ UNCHANGED <<summary, docs, db, leak>>
    BY <1>4 DEF SummaryLocal, Does
  <2> QED BY <1>1, <2>1, ReadsType, HalfIsPublished DEF OnlyMoves, FilesOK, Check, Steps
<1>5. CASE SummaryOpen(t)
  <2>1. Then(t, "dump") /\ tool[t].op = "summary" /\ summary' = Torn
        /\ UNCHANGED <<docs, db, leak>>
    BY <1>5 DEF SummaryOpen, Does
  <2> QED BY <1>1, <1>2, <2>1, ThenType DEF OnlyMoves, FilesOK, Check, Steps
<1>6. CASE SummaryDump(t)
  <2>1. Leaves(t) /\ summary' = Figures(tool[t].rows) /\ UNCHANGED <<docs, db, leak>>
    BY <1>6 DEF SummaryDump
  <2> QED BY <1>1, <1>2, <2>1, LeavesType, AtDeskType DEF OnlyMoves, FilesOK, Check
<1> QED BY <1>3, <1>4, <1>5, <1>6

LEMMA FiguresSteps ==
  ASSUME ReleaseInv, NEW t \in Desk,
         FiguresRead(t) \/ RegionOpen(t) \/ RegionWrite(t)
  PROVE  OnlyMoves(t) /\ FilesOK /\ tool'[t].op \notin Check
<1>1. /\ tool \in [Desk -> DeskJob] /\ index \in [Half -> Rows]
      /\ summary \in Summaries /\ docs \in Pages
      /\ db \in [Half -> Rows] \cup {Absent} /\ leak \in BOOLEAN
      /\ tool[t] \in DeskJob /\ tool[t].sum \in Summaries /\ tool[t].text \in Pages
  BY DEF ReleaseInv, ReleaseType, HandoffInv, HandoffTypeOK, Rows, DeskJob
<1>2. CASE FiguresRead(t)
  <2> DEFINE j == [AtDesk EXCEPT !.op = "figures", !.pc = "region", !.sum = summary,
                                 !.next = 1]
  <2>1. Sits(t, j) /\ UNCHANGED <<summary, docs, db, leak>>
    BY <1>2 DEF FiguresRead
  <2>2. "figures" \in Reader /\ "region" \in Steps
    BY DEF Reader, Steps
  <2>3. j \in DeskJob /\ j.op = "figures"
    <3>1. AtDesk \in DeskJob
      BY AtDeskType
    <3> HIDE DEF AtDesk
    <3> QED BY <1>1, <2>2, <3>1 DEF DeskJob
  <2> HIDE DEF j
  <2> QED BY <1>1, <2>1, <2>3, SitsType DEF OnlyMoves, FilesOK, Check
<1>3. ASSUME NextRegion(t), tool[t].op = "figures"
      PROVE  OnlyMoves(t) /\ tool'[t].op \notin Check
  <2>1. CASE Leaves(t)
    BY <1>1, <2>1, LeavesType, AtDeskType DEF OnlyMoves, Check
  <2>2. CASE tool' = [tool EXCEPT ![t] = [tool[t] EXCEPT !.pc = "region",
                                                         !.next = tool[t].next + 1]]
    <3> DEFINE j == [tool[t] EXCEPT !.pc = "region", !.next = tool[t].next + 1]
    <3>1. tool[t].next + 1 \in Nat /\ "region" \in Steps
      BY <1>1 DEF DeskJob, Steps
    <3>2. j \in DeskJob /\ j.op = "figures"
      BY <1>1, <1>3, <3>1 DEF DeskJob
    <3> HIDE DEF j
    <3>3. tool' = [tool EXCEPT ![t] = j]
      BY <2>2 DEF j
    <3> QED BY <1>1, <3>2, <3>3 DEF OnlyMoves, Check
  <2> QED BY <1>3, <2>1, <2>2 DEF NextRegion
<1>4. CASE RegionOpen(t)
  <2> DEFINE g == Regions[tool[t].next]
             cut == [o \in Region |-> IF FileOf(o) = FileOf(g) THEN Torn ELSE docs[o]]
             j == [tool[t] EXCEPT !.pc = "write", !.text = docs]
  <2>1. /\ tool[t].op = "figures" /\ UNCHANGED <<summary, db, leak>>
        /\ \/ NextRegion(t) /\ UNCHANGED docs
           \/ tool' = [tool EXCEPT ![t] = j] /\ docs' = cut
    BY <1>4 DEF RegionOpen, Does
  <2>2. cut \in Pages
    BY <1>1 DEF Pages
  <2>3. j \in DeskJob /\ j.op = "figures"
    BY <1>1, <2>1 DEF DeskJob, Steps
  <2> HIDE DEF cut, j
  <2> QED BY <1>1, <1>3, <2>1, <2>2, <2>3 DEF OnlyMoves, FilesOK, Check
<1>5. CASE RegionWrite(t)
  <2> DEFINE g == Regions[tool[t].next]
             text(o) == IF o = g THEN Shown(g, tool[t].sum)
                        ELSE IF FileOf(o) = FileOf(g) THEN tool[t].text[o] ELSE docs[o]
  <2>1. /\ tool[t].op = "figures" /\ UNCHANGED <<summary, db, leak>>
        /\ NextRegion(t) /\ docs' = [o \in Region |-> text(o)]
    BY <1>5 DEF RegionWrite, Does
  <2>2. ASSUME NEW o \in Region
        PROVE  text(o) \in {Torn, Typed} \cup {Shown(r, f) : r \in Region, f \in Summaries}
    <3>1. o = g => text(o) = Shown(o, tool[t].sum)
      OBVIOUS
    <3>2. o # g => text(o) \in {tool[t].text[o], docs[o]}
      OBVIOUS
    <3> HIDE DEF text, g
    <3> QED BY <1>1, <3>1, <3>2 DEF Pages
  <2> HIDE DEF text
  <2>3. docs' \in Pages
    BY <2>1, <2>2 DEF Pages
  <2> QED BY <1>1, <1>3, <2>1, <2>3 DEF OnlyMoves, FilesOK
<1> QED BY <1>2, <1>4, <1>5

LEMMA DeriveSteps ==
  ASSUME ReleaseInv, NEW t \in Desk,
         \/ DeriveLock(t) \/ DerivePublished(t) \/ DeriveLocal(t)
         \/ DeriveUnlock(t) \/ DeriveReplace(t) \/ Quits(t)
  PROVE  OnlyMoves(t) /\ FilesOK /\ tool'[t].op \notin Check
<1>1. /\ tool \in [Desk -> DeskJob] /\ index \in [Half -> Rows]
      /\ summary \in Summaries /\ docs \in Pages
      /\ db \in [Half -> Rows] \cup {Absent} /\ leak \in BOOLEAN
      /\ tool[t] \in DeskJob /\ tool[t].rows \in [Half -> Rows]
  BY DEF ReleaseInv, ReleaseType, HandoffInv, HandoffTypeOK, Rows, DeskJob
<1>2. CASE DeriveLock(t)
  <2> DEFINE j == [AtDesk EXCEPT !.op = "derive", !.pc = "published"]
  <2>1. Sits(t, j) /\ UNCHANGED <<summary, docs, db, leak>>
    BY <1>2 DEF DeriveLock
  <2>2. "derive" \in Reader /\ "published" \in Steps
    BY DEF Reader, Steps
  <2>3. j \in DeskJob /\ j.op = "derive"
    <3>1. AtDesk \in DeskJob
      BY AtDeskType
    <3> HIDE DEF AtDesk
    <3> QED BY <2>2, <3>1 DEF DeskJob
  <2> HIDE DEF j
  <2> QED BY <1>1, <2>1, <2>3, SitsType DEF OnlyMoves, FilesOK, Check
<1>3. CASE DerivePublished(t) \/ DeriveLocal(t)
  <2>1. /\ tool[t].op = "derive" /\ UNCHANGED <<summary, docs, db, leak>>
        /\ Reads(t, "published", "local") \/ Reads(t, "local", "unlock")
    BY <1>3 DEF DerivePublished, DeriveLocal, Does
  <2> QED BY <1>1, <2>1, ReadsType, HalfIsPublished DEF OnlyMoves, FilesOK, Check, Steps
<1>4. CASE DeriveUnlock(t)
  <2>1. Then(t, "replace") /\ tool[t].op = "derive" /\ UNCHANGED <<summary, docs, db, leak>>
    BY <1>4 DEF DeriveUnlock, Does
  <2> QED BY <1>1, <2>1, ThenType DEF OnlyMoves, FilesOK, Check, Steps
<1>5. CASE DeriveReplace(t) \/ Quits(t)
  <2>1. Leaves(t) /\ UNCHANGED <<summary, docs, leak>> /\ db' \in {db, tool[t].rows}
    BY <1>5 DEF DeriveReplace, Quits
  <2> QED BY <1>1, <2>1, LeavesType, AtDeskType DEF OnlyMoves, FilesOK, Check
<1> QED BY <1>2, <1>3, <1>4, <1>5

---------------------------------------------------------------------------
(* The checks.                                                             *)

Still == UNCHANGED <<index, summary, docs, db, leak, shards, tracked, build>>

LEMMA StillFound ==
  ASSUME NEW q \in Desk, Found(tool[q]), tool'[q] = tool[q], Still
  PROVE  Found(tool[q])'
BY DEF Found, PushFound, ReadFound, NoneBlocked, Held, Still

LEMMA StillMeans ==
  ASSUME Means, Still, passed' \subseteq passed
  PROVE  Means'
BY DEF Means, NoneBlocked, Agree, Green, Held, Still

\* What a step of a check leaves true.
Checked(t) ==
  /\ OnlyMoves(t) /\ FilesOK /\ Still
  /\ t \notin disturbed => Found(tool[t])'
  /\ passed' \subseteq Check /\ Means'

LEMMA ChecksAreStill ==
  ASSUME NEW t \in Desk, NotHandoff, Checks(t)
  PROVE  Still
BY DEF NotHandoff, Still, Checks, OpenPublished, OpenLocal, PushTree, PushIndex,
   PushPublished, PushLocal, PushSummary, PushDocs, ReadToCheck, VerifyRun, CensusRun

LEMMA OpenSteps ==
  ASSUME ReleaseInv, NEW t \in Desk, Still, OpenPublished(t) \/ OpenLocal(t)
  PROVE  Checked(t)
<1>1. /\ tool \in [Desk -> DeskJob] /\ index \in [Half -> Rows]
      /\ db \in [Half -> Rows] \cup {Absent} /\ tool[t] \in DeskJob
      /\ Torn \in Summaries
  BY DEF ReleaseInv, ReleaseType, HandoffInv, HandoffTypeOK, Rows, Summaries
<1>2. FilesOK
  BY DEF Still, FilesOK, ReleaseInv, ReleaseType
<1>3. CASE OpenPublished(t)
  <2> DEFINE bad == ~SameHalf(db, "published")
             j == [AtDesk EXCEPT !.op = "open", !.pc = "local", !.rows = db,
                                 !.bad = bad]
  <2>1. Sits(t, j) /\ db # Absent /\ passed' = passed
    BY <1>3 DEF OpenPublished
  <2>2. "open" \in Reader /\ "local" \in Steps /\ bad \in BOOLEAN
    BY DEF Reader, Steps
  <2>3. db \in [Half -> Rows]
    BY <1>1, <2>1
  <2> HIDE DEF bad
  <2>4. j \in DeskJob /\ j.op = "open" /\ j.bad = bad
    <3>1. AtDesk \in DeskJob
      BY AtDeskType
    <3> HIDE DEF AtDesk
    <3> QED BY <1>1, <2>2, <2>3, <3>1 DEF DeskJob
  <2> HIDE DEF j
  <2>5. tool'[t] = j /\ OnlyMoves(t)
    BY <1>1, <2>1, <2>4, SitsType DEF OnlyMoves
  <2>6. Found(tool[t])'
    BY <2>4, <2>5 DEF Found, PushFound, ReadFound, Still
  <2> QED BY <1>2, <2>1, <2>5, <2>6, StillMeans DEF Checked, ReleaseInv, ReleaseType
<1>4. CASE OpenLocal(t)
  <2>1. /\ tool[t].op = "open" /\ tool[t].pc = "local" /\ Leaves(t)
        /\ passed' = IF (~tool[t].bad /\ SameHalf(tool[t].rows, "local")) /\ t \notin disturbed
                       THEN passed \cup {"open"} ELSE passed \ {"open"}
    BY <1>4 DEF OpenLocal, Does, Reports
  <2>2. tool'[t] = AtDesk /\ OnlyMoves(t)
    BY <1>1, <2>1, LeavesType DEF OnlyMoves
  <2>3. Found(tool[t])'
    BY <2>2, AtDeskType DEF Found, PushFound, ReadFound
  <2>4. Means'
    <3>1. Means
      BY DEF ReleaseInv
    <3> QED BY <2>1, <3>1 DEF Means, NoneBlocked, Agree, Green, Held, Still
  <2>5. passed' \subseteq Check
    BY <2>1 DEF ReleaseInv, ReleaseType, Check
  <2> QED BY <1>2, <2>2, <2>3, <2>4, <2>5 DEF Checked
<1> QED BY <1>3, <1>4

LEMMA PushSteps ==
  ASSUME ReleaseInv, NEW t \in Desk, Still,
         \/ PushTree(t) \/ PushIndex(t) \/ PushPublished(t) \/ PushLocal(t)
         \/ PushSummary(t) \/ PushDocs(t)
  PROVE  Checked(t)
<1>1. /\ tool \in [Desk -> DeskJob] /\ index \in [Half -> Rows]
      /\ tool[t] \in DeskJob /\ tool[t].rows \in [Half -> Rows] /\ leak \in BOOLEAN
      /\ tool[t].bad \in BOOLEAN /\ Torn \in Summaries
  BY DEF ReleaseInv, ReleaseType, HandoffInv, HandoffTypeOK, Rows, Summaries, DeskJob
<1>2. FilesOK
  BY DEF Still, FilesOK, ReleaseInv, ReleaseType
<1>3. t \notin disturbed => PushFound(tool[t])
  BY DEF ReleaseInv, Found
<1>4. CASE PushTree(t)
  <2> DEFINE j == [AtDesk EXCEPT !.op = "push", !.pc = "index", !.bad = leak]
  <2>1. Sits(t, j) /\ passed' = passed
    BY <1>4 DEF PushTree
  <2>2. "push" \in Reader /\ "index" \in Steps
    BY DEF Reader, Steps
  <2>3. j \in DeskJob /\ j.op = "push" /\ j.pc = "index" /\ j.bad = leak
    <3>1. AtDesk \in DeskJob
      BY AtDeskType
    <3> HIDE DEF AtDesk
    <3> QED BY <1>1, <2>2, <3>1 DEF DeskJob
  <2> HIDE DEF j
  <2>4. tool'[t] = j /\ OnlyMoves(t)
    BY <1>1, <2>1, <2>3, SitsType DEF OnlyMoves
  <2>5. Found(tool[t])'
    BY <2>3, <2>4 DEF Found, PushFound, ReadFound, Still
  <2> QED BY <1>2, <2>1, <2>4, <2>5, StillMeans DEF Checked, ReleaseInv, ReleaseType
<1>5. CASE PushIndex(t)
  <2> DEFINE bad == tool[t].bad \/ \E s \in Held(index["published"]) :
                                      ~index["published"][s].publishable
  <2>1. /\ tool[t].op = "push" /\ tool[t].pc = "index" /\ Finds(t, "published", bad)
        /\ passed' = passed
    BY <1>5 DEF PushIndex, Does
  <2>2. bad \in BOOLEAN /\ (~bad => ~tool[t].bad /\ NoneBlocked)
    BY <1>1 DEF NoneBlocked
  <2> HIDE DEF bad
  <2>3. /\ OnlyMoves(t) /\ tool'[t].op = "push" /\ tool'[t].pc = "published"
        /\ tool'[t].bad = bad
    BY <1>1, <2>1, <2>2, FindsType DEF OnlyMoves, Steps
  <2>4. t \notin disturbed => Found(tool[t])'
    BY <1>3, <2>1, <2>2, <2>3
       DEF Found, PushFound, ReadFound, Still, NoneBlocked, Held
  <2> QED BY <1>2, <2>1, <2>3, <2>4, StillMeans DEF Checked, ReleaseInv, ReleaseType
<1>6. CASE PushPublished(t)
  <2>1. /\ tool[t].op = "push" /\ tool[t].pc = "published"
        /\ Reads(t, "published", "local") /\ passed' = passed
    BY <1>6 DEF PushPublished, Does
  <2>2. /\ OnlyMoves(t) /\ tool'[t].op = "push" /\ tool'[t].pc = "local"
        /\ tool'[t].bad = tool[t].bad /\ tool'[t].rows["published"] = index["published"]
    <3>1. /\ OnlyMoves(t) /\ tool'[t].op = "push" /\ tool'[t].pc = "local"
          /\ tool'[t].bad = tool[t].bad
          /\ tool'[t].rows = [tool[t].rows EXCEPT !["published"] = index["published"]]
      BY <1>1, <2>1, ReadsType, HalfIsPublished DEF OnlyMoves, Steps
    <3> QED BY <1>1, <3>1, HalfIsPublished
  <2>3. t \notin disturbed => Found(tool[t])'
    BY <1>3, <2>1, <2>2
       DEF Found, PushFound, ReadFound, Still, NoneBlocked, Held
  <2> QED BY <1>2, <2>1, <2>2, <2>3, StillMeans DEF Checked, ReleaseInv, ReleaseType
<1>7. CASE PushLocal(t)
  <2>1. /\ tool[t].op = "push" /\ tool[t].pc = "local"
        /\ Reads(t, "local", "summary") /\ passed' = passed
    BY <1>7 DEF PushLocal, Does
  <2>2. /\ OnlyMoves(t) /\ tool'[t].op = "push" /\ tool'[t].pc = "summary"
        /\ tool'[t].bad = tool[t].bad
        /\ tool'[t].rows = [tool[t].rows EXCEPT !["local"] = index["local"]]
    BY <1>1, <2>1, ReadsType, HalfIsPublished DEF OnlyMoves, Steps
  <2>3. t \notin disturbed => tool'[t].rows = index
    <3>1. t \notin disturbed => tool[t].rows["published"] = index["published"]
      BY <1>3, <2>1 DEF PushFound
    <3> QED BY <1>1, <2>2, <3>1 DEF Half
  <2>4. t \notin disturbed => Found(tool[t])'
    BY <1>3, <2>1, <2>2, <2>3
       DEF Found, PushFound, ReadFound, Still, NoneBlocked, Held
  <2> QED BY <1>2, <2>1, <2>2, <2>4, StillMeans DEF Checked, ReleaseInv, ReleaseType
<1>8. CASE PushSummary(t)
  <2> DEFINE bad == tool[t].bad \/ ~Compared(summary, tool[t].rows)
  <2>1. /\ tool[t].op = "push" /\ tool[t].pc = "summary" /\ Finds(t, "docs", bad)
        /\ passed' = passed
    BY <1>8 DEF PushSummary, Does
  <2>2. bad \in BOOLEAN /\ (~bad => ~tool[t].bad /\ summary = Figures(tool[t].rows))
    BY <1>1 DEF Compared
  <2> HIDE DEF bad
  <2>3. /\ OnlyMoves(t) /\ tool'[t].op = "push" /\ tool'[t].pc = "docs"
        /\ tool'[t].bad = bad
    BY <1>1, <2>1, <2>2, FindsType DEF OnlyMoves, Steps
  <2>4. t \notin disturbed => Found(tool[t])'
    BY <1>3, <2>1, <2>2, <2>3
       DEF Found, PushFound, ReadFound, Still, NoneBlocked, Held
  <2> QED BY <1>2, <2>1, <2>3, <2>4, StillMeans DEF Checked, ReleaseInv, ReleaseType
<1>9. CASE PushDocs(t)
  <2>1. /\ tool[t].op = "push" /\ tool[t].pc = "docs" /\ Leaves(t)
        /\ passed' = IF (~tool[t].bad /\ Agree(summary)) /\ t \notin disturbed
                       THEN passed \cup {"push"} ELSE passed \ {"push"}
    BY <1>9 DEF PushDocs, Does, Reports
  <2>2. tool'[t] = AtDesk /\ OnlyMoves(t)
    BY <1>1, <2>1, LeavesType DEF OnlyMoves
  <2>3. Found(tool[t])'
    BY <2>2, AtDeskType DEF Found, PushFound, ReadFound
  <2>4. "push" \in passed' =>
          ~leak /\ NoneBlocked /\ summary = Figures(index) /\ Agree(summary)
    BY <1>3, <2>1 DEF PushFound
  <2>5. Means'
    <3>1. Means
      BY DEF ReleaseInv
    <3> QED BY <2>1, <2>4, <3>1 DEF Means, NoneBlocked, Agree, Green, Held, Still
  <2>6. passed' \subseteq Check
    BY <2>1 DEF ReleaseInv, ReleaseType, Check
  <2> QED BY <1>2, <2>2, <2>3, <2>5, <2>6 DEF Checked
<1> QED BY <1>4, <1>5, <1>6, <1>7, <1>8, <1>9

LEMMA ReadSteps ==
  ASSUME ReleaseInv, NEW t \in Desk, Still,
         \/ \E op \in {"verify", "census"} : ReadToCheck(t, op)
         \/ VerifyRun(t) \/ CensusRun(t)
  PROVE  Checked(t)
<1>1. /\ tool \in [Desk -> DeskJob] /\ index \in [Half -> Rows]
      /\ tool[t] \in DeskJob /\ summary \in Summaries
  BY DEF ReleaseInv, ReleaseType, HandoffInv, HandoffTypeOK, Rows
<1>2. FilesOK
  BY DEF Still, FilesOK, ReleaseInv, ReleaseType
<1>3. ASSUME NEW op \in {"verify", "census"}, ReadToCheck(t, op)
      PROVE  Checked(t)
  <2> DEFINE j == [AtDesk EXCEPT !.op = op, !.pc = "shards", !.sum = summary,
                                 !.rows = FirstHalf]
  <2>1. Sits(t, j) /\ passed' = passed
    BY <1>3 DEF ReadToCheck
  <2>2. op \in Reader /\ "shards" \in Steps
    BY DEF Reader, Steps
  <2>3. /\ j \in DeskJob /\ j.op = op /\ j.sum = summary /\ j.rows = FirstHalf
        /\ FirstHalf["published"] = index["published"]
    <3>1. FirstHalf \in [Half -> Rows] /\ FirstHalf["published"] = index["published"]
      BY <1>1, FirstHalfType
    <3>2. AtDesk \in DeskJob
      BY AtDeskType
    <3> HIDE DEF AtDesk, FirstHalf
    <3> QED BY <1>1, <2>2, <3>1, <3>2 DEF DeskJob
  <2> HIDE DEF j
  <2>4. tool'[t] = j /\ OnlyMoves(t)
    BY <1>1, <2>1, <2>3, SitsType DEF OnlyMoves
  <2>5. Found(tool[t])'
    BY <2>3, <2>4 DEF Found, PushFound, ReadFound, Still
  <2> QED BY <1>2, <2>1, <2>4, <2>5, StillMeans DEF Checked, ReleaseInv, ReleaseType
<1>4. CASE VerifyRun(t) \/ CensusRun(t)
  <2>1. /\ tool[t].op \in {"verify", "census"} /\ Leaves(t)
        /\ passed' \subseteq passed \cup {tool[t].op}
        /\ "verify" \in passed' /\ "verify" \notin passed =>
             /\ tool[t].op = "verify" /\ t \notin disturbed
             /\ Green(tool[t].rows["published"], tool[t].sum)
    BY <1>4 DEF VerifyRun, CensusRun, Does, Reports
  <2>2. tool'[t] = AtDesk /\ OnlyMoves(t)
    BY <1>1, <2>1, LeavesType DEF OnlyMoves
  <2>3. Found(tool[t])'
    BY <2>2, AtDeskType DEF Found, PushFound, ReadFound
  <2>4. "verify" \in passed' => Green(index["published"], summary)
    <3>1. CASE "verify" \in passed
      BY <3>1 DEF ReleaseInv, Means
    <3>2. CASE "verify" \in passed' /\ "verify" \notin passed
      BY <2>1, <3>2 DEF ReleaseInv, Found, ReadFound
    <3> QED BY <3>1, <3>2
  <2>5. Means'
    <3>1. Means
      BY DEF ReleaseInv
    <3>2. "push" \in passed' => "push" \in passed
      BY <2>1
    <3> QED BY <2>4, <3>1, <3>2 DEF Means, NoneBlocked, Agree, Green, Held, Still
  <2>6. passed' \subseteq Check
    BY <2>1 DEF ReleaseInv, ReleaseType, Check
  <2> QED BY <1>2, <2>2, <2>3, <2>5, <2>6 DEF Checked
<1> QED BY <1>3, <1>4

LEMMA ChecksGood ==
  ASSUME ReleaseInv, NEW t \in Desk, NotHandoff, Checks(t)
  PROVE  Checked(t)
BY ChecksAreStill, OpenSteps, PushSteps, ReadSteps DEF Checks

---------------------------------------------------------------------------
(* The invariant of Release.                                               *)

LEMMA InputsStill == (~Changed) => Still
BY DEF Changed, Inputs, Still

\* What is left of a step that is not a check's: the desks as they were but for
\* one that is no check.
LEMMA OthersGood ==
  ASSUME ReleaseInv, FilesOK, tool' \in [Desk -> DeskJob],
         \A q \in Desk : tool'[q] = tool[q] \/ tool'[q].op \notin Check,
         passed' = IF Changed THEN {} ELSE passed,
         disturbed' = IF Changed THEN busy' ELSE disturbed \cap busy'
  PROVE  /\ ReleaseType' /\ Means'
         /\ \A q \in Desk : q \notin disturbed' => Found(tool[q])'
<1>1. ReleaseType'
  BY DEF FilesOK, ReleaseInv, ReleaseType
<1>2. Means'
  <2>1. CASE Changed
    BY <2>1 DEF Means
  <2>2. CASE ~Changed
    BY <2>2, InputsStill, StillMeans DEF ReleaseInv
  <2> QED BY <2>1, <2>2
<1>3. ASSUME NEW q \in Desk, q \notin disturbed'
      PROVE  Found(tool[q])'
  <2>1. CASE tool'[q].op \notin Check
    BY <2>1 DEF Found, PushFound, ReadFound, Check
  <2>2. CASE tool'[q] = AtDesk
    BY <2>2, AtDeskType DEF Found, PushFound, ReadFound
  <2>3. CASE tool'[q] = tool[q] /\ tool'[q] # AtDesk
    <3>1. q \in busy' /\ ~Changed /\ q \notin disturbed
      BY <1>3, <2>3 DEF busy
    <3> QED BY <2>3, <3>1, InputsStill, StillFound DEF ReleaseInv
  <2> QED BY <2>1, <2>2, <2>3
<1> QED BY <1>1, <1>2, <1>3

LEMMA ReleaseStep ==
  ASSUME ReleaseInv, [ReleaseNext]_releaseVars
  PROVE  ReleaseInv'
<1>1. HandoffInv'
  BY ReleaseStepIsHandoff, StepGood DEF Good, ReleaseInv
<1>2. /\ tool \in [Desk -> DeskJob] /\ summary \in Summaries /\ docs \in Pages
      /\ db \in [Half -> Rows] \cup {Absent} /\ leak \in BOOLEAN
  BY DEF ReleaseInv, ReleaseType
<1>3. CASE UNCHANGED releaseVars
  <2>1. Still /\ UNCHANGED <<tool, disturbed, passed>>
    BY <1>3 DEF releaseVars, handoffVars, Still
  <2>2. ReleaseType' /\ Means'
    BY <2>1, StillMeans DEF ReleaseInv, ReleaseType, Still
  <2>3. \A q \in Desk : q \notin disturbed' => Found(tool[q])'
    BY <2>1, StillFound DEF ReleaseInv
  <2> QED BY <1>1, <2>2, <2>3 DEF ReleaseInv
<1>4. ASSUME NEW t \in Desk, NotHandoff, Checks(t),
             disturbed' = IF Changed THEN busy' ELSE disturbed \cap busy'
      PROVE  ReleaseInv'
  <2>1. Checked(t)
    BY <1>4, ChecksGood
  <2>2. ReleaseType'
    BY <2>1 DEF Checked, OnlyMoves, FilesOK, ReleaseType
  <2>3. ASSUME NEW q \in Desk, q \notin disturbed'
        PROVE  Found(tool[q])'
    <3>1. CASE tool'[q] = AtDesk
      BY <3>1, AtDeskType DEF Found, PushFound, ReadFound
    <3>2. CASE tool'[q] # AtDesk
      <4>1. ~Changed
        BY <2>1 DEF Checked, Still, Changed, Inputs
      <4>2. q \notin disturbed
        BY <1>4, <2>3, <3>2, <4>1 DEF busy
      <4> QED BY <2>1, <4>2, StillFound DEF Checked, OnlyMoves, ReleaseInv
    <3> QED BY <3>1, <3>2
  <2> QED BY <1>1, <2>1, <2>2, <2>3 DEF Checked, ReleaseInv
<1>5. ASSUME \/ HandoffStep /\ UNCHANGED <<summary, docs, db, leak, tool>>
             \/ NotHandoff /\ (Edit \/ (\E g \in Region : Restore(g))
                                    \/ \E t \in Desk : Writes(t)),
             passed' = IF Changed THEN {} ELSE passed,
             disturbed' = IF Changed THEN busy' ELSE disturbed \cap busy'
      PROVE  ReleaseInv'
  <2>1. /\ FilesOK /\ tool' \in [Desk -> DeskJob]
        /\ \A q \in Desk : tool'[q] = tool[q] \/ tool'[q].op \notin Check
    <3>1. CASE HandoffStep /\ UNCHANGED <<summary, docs, db, leak, tool>>
      BY <1>2, <3>1 DEF FilesOK
    <3>2. CASE Edit
      BY <1>2, <3>2 DEF Edit, FilesOK
    <3>3. ASSUME NEW g \in Region, Restore(g)
          PROVE  <2>1
      <4>1. docs' = [docs EXCEPT ![g] = Typed] /\ UNCHANGED <<summary, db, leak, tool>>
        BY <3>3 DEF Restore
      <4>2. docs' \in Pages
        BY <1>2, <4>1 DEF Pages
      <4> QED BY <1>2, <4>1, <4>2 DEF FilesOK
    <3>4. ASSUME NEW t \in Desk, Writes(t)
          PROVE  <2>1
      <4>1. OnlyMoves(t) /\ FilesOK /\ tool'[t].op \notin Check
        BY <3>4, SummarySteps, FiguresSteps, DeriveSteps DEF Writes
      <4> QED BY <4>1 DEF OnlyMoves
    <3> QED BY <1>5, <3>1, <3>2, <3>3, <3>4
  <2>2. /\ ReleaseType' /\ Means'
        /\ \A q \in Desk : q \notin disturbed' => Found(tool[q])'
    BY <1>5, <2>1, OthersGood
  <2> QED BY <1>1, <2>2 DEF ReleaseInv
<1> QED BY <1>3, <1>4, <1>5 DEF ReleaseNext

LEMMA ReleaseBegins == ReleaseInit => ReleaseInv
<1> SUFFICES ASSUME ReleaseInit PROVE ReleaseInv
  OBVIOUS
<1>1. HandoffInv
  BY InitGood DEF ReleaseInit
<1>2. summary \in Summaries
  BY <1>1 DEF ReleaseInit, Summaries, HandoffInv, HandoffTypeOK, Rows
<1>3. docs \in Pages
  BY <1>2 DEF ReleaseInit, Pages
<1>4. tool \in [Desk -> DeskJob] /\ \A t \in Desk : tool[t] = AtDesk
  BY AtDeskType DEF ReleaseInit
<1>5. ReleaseType
  BY <1>2, <1>3, <1>4 DEF ReleaseInit, ReleaseType
<1>6. \A t \in Desk : Found(tool[t])
  BY <1>4, AtDeskType DEF Found, PushFound, ReadFound
<1>7. Means
  BY DEF ReleaseInit, Means
<1> QED BY <1>1, <1>5, <1>6, <1>7 DEF ReleaseInv

LEMMA ReleaseHolds == Release => []ReleaseInv
BY ReleaseBegins, ReleaseStep, PTL DEF Release

\* pre-push-check: SAFE TO PUSH is true of the files as they are now.
THEOREM SafePushHolds == Release => []SafePushIsTrue
<1>1. ReleaseInv => SafePushIsTrue
  BY DEF ReleaseInv, Means, SafePushIsTrue, NoneBlocked, Agree
<1> QED BY ReleaseHolds, <1>1, PTL

\* make-summary, doc-figures, pre-push-check and verify together: the figure
\* README.md shows is the one a stranger counts in the shards.
THEOREM FigureIsReproduced == Release => []StrangerReproducesTheFigure
<1>1. ASSUME ReleaseInv, {"push", "verify"} \subseteq passed
      PROVE  docs["corpus-figures"][4] =
               Cardinality({s \in Held(shards) \cap Held(index["published"]) :
                 LET row == index["published"][s]
                 IN row.malicious /\ row.publishable /\ row.must # {}
                    /\ Says[build][s].shipped = row.must})
  <2> DEFINE rows == index["published"]
             again == {s \in Held(shards) \cap Held(rows) :
                        /\ rows[s].malicious /\ rows[s].publishable
                        /\ rows[s].must # {} /\ Says[build][s].shipped = rows[s].must}
  <2>1. Agree(summary) /\ Green(rows, summary)
    BY <1>1 DEF ReleaseInv, Means
  <2>2. "corpus-figures" \in Region
    BY DEF Region, Regions
  <2>3. docs["corpus-figures"][4] = summary.runnable
    BY <2>1, <2>2 DEF Agree, Shown
  <2>4. Expected(rows) = again
    <3>1. \A s \in Held(rows) : rows[s].must # {} => ~rows[s].miss
      BY <1>1, HalfIsPublished DEF ReleaseInv, HandoffInv, ExpectSaysOneThing, SaysOneThing
    <3>2. again \subseteq Expected(rows)
      BY <3>1 DEF Expected
    <3>3. Expected(rows) \subseteq again
      BY <2>1 DEF Expected, Green, Held
    <3> QED BY <3>2, <3>3
  <2> QED BY <2>1, <2>3, <2>4 DEF Green
<1>2. ReleaseInv => StrangerReproducesTheFigure
  BY <1>1 DEF StrangerReproducesTheFigure
<1> QED BY ReleaseHolds, <1>2, PTL

---------------------------------------------------------------------------
(* The split adds up.                                                      *)
(*                                                                         *)
(* make-summary reads the halves one after the other while rows move       *)
(* between them: a row it has missed, or has twice, must not unbalance     *)
(* what it counts.  It does not, because every version of every row that   *)
(* was ever in the index is one the figures can divide: detected, or a     *)
(* miss.  That is the invariant, carried from the index to the rows read,  *)
(* to the summary, to what doc-figures holds and to the page.              *)

\* A malicious row expects a rule, or is a known miss.
Answers(row) == row.malicious => row.must # {} \/ row.miss

Tells(rows) ==
  \A h \in Half : \A s \in Held(rows[h]) :
    SaysOneThing(rows[h][s]) /\ Answers(rows[h][s])

\* What a script will write keeps to it.
Bears(r) ==
  /\ job[r].op = "promote" =>
       \A s \in Held(job[r].rows) : job[r].rows[s].must # {}
  /\ job[r].op = "publish" =>
       \A s \in Held(job[r].rows) : Answers(job[r].rows[s])

RowsAnswer == \A h \in Half : \A s \in Held(index[h]) : Answers(index[h][s])
AnswersInv == RowsAnswer /\ \A r \in Run : Bears(r)

LEMMA OneBears ==
  ASSUME AnswersInv, NEW r \in Run, \A q \in Run \ {r} : job'[q] = job[q], Bears(r)'
  PROVE  \A q \in Run : Bears(q)'
BY DEF AnswersInv, Bears, Held

LEMMA RestBears ==
  ASSUME NEW r \in Run, job'[r].op \notin {"promote", "publish"}
  PROVE  Bears(r)'
BY DEF Bears

LEMMA SameBears ==
  ASSUME NEW r \in Run, Bears(r), job'[r].op = job[r].op, job'[r].rows = job[r].rows
  PROVE  Bears(r)'
BY DEF Bears, Held

\* One half is given new rows.
LEMMA NewHalfAnswers ==
  ASSUME HandoffInv, AnswersInv, NEW h \in Half, NEW f,
         index' = [index EXCEPT ![h] = f],
         \A s \in Held(f) : Answers(f[s])
  PROVE  RowsAnswer'
<1>1. index \in [Half -> Rows]
  BY DEF HandoffInv, HandoffTypeOK, Rows
<1>2. index'[h] = f /\ \A g \in Half \ {h} : index'[g] = index[g]
  BY <1>1
<1> QED BY <1>2 DEF AnswersInv, RowsAnswer, Held

LEMMA SameIndexAnswers ==
  ASSUME AnswersInv, index' = index
  PROVE  RowsAnswer'
BY DEF AnswersInv, RowsAnswer, Held

LEMMA PromoteAnswers ==
  ASSUME HandoffInv, AnswersInv, NEW r \in Run, Promote(r)
  PROVE  AnswersInv'
<1>1. job \in [Run -> Job] /\ Bears(r)
  BY DEF HandoffInv, HandoffTypeOK, AnswersInv
<1>2. CASE PromoteLook(r)
  <2> DEFINE done == {s \in Sample : Promotes(s)}
             rows == [s \in Sample |-> IF s \in done
                       THEN Closed(index["published"][s], Measured(s)) ELSE Absent]
             j == [AtRest EXCEPT !.op = "promote", !.pc = "published", !.rows = rows]
  <2>1. Starts(r, j) /\ index' = index
    BY <1>2 DEF PromoteLook
  <2>2. ASSUME NEW s \in done
        PROVE  Closed(index["published"][s], Measured(s)).must # {}
    <3>1. index["published"][s] \in Row /\ Measured(s) # {}
      BY HalfIsPublished DEF HandoffInv, HandoffTypeOK, Promotes
    <3>2. Closed(index["published"][s], Measured(s)).must = Measured(s)
      BY <3>1 DEF Closed, Row
    <3> QED BY <3>1, <3>2
  <2>3. \A s \in Held(rows) : rows[s].must # {}
    BY <2>2 DEF Held
  <2>4. j.op = "promote" /\ j.rows = rows
    BY DEF AtRest
  <2> HIDE DEF j, rows
  <2>5. job'[r] = j /\ \A q \in Run \ {r} : job'[q] = job[q]
    BY <1>1, <2>1 DEF Starts
  <2>6. Bears(r)'
    BY <2>3, <2>4, <2>5 DEF Bears, Held
  <2> QED BY <2>1, <2>5, <2>6, OneBears, SameIndexAnswers DEF AnswersInv
<1>3. CASE PromoteWrite(r)
  <2> DEFINE done == Held(job[r].rows)
             half == index["published"]
             with(s) == [half[s] EXCEPT !.must = job[r].rows[s].must,
                           !.miss = job[r].rows[s].miss, !.kind = job[r].rows[s].kind]
             new == [s \in Sample |-> IF s \in done THEN with(s) ELSE half[s]]
  <2>1. job[r].op = "promote" /\ half \in Rows
    BY <1>3, HalfIsPublished DEF PromoteWrite, At, HandoffInv, HandoffTypeOK, Rows
  <2>2. CASE /\ done \subseteq Held(half)
             /\ index' = [index EXCEPT !["published"] = new]
             /\ Goes(r, "pending")
    <3>1. ASSUME NEW s \in done
          PROVE  Answers(with(s))
      <4>1. half[s] \in Row /\ job[r].rows[s].must # {}
        BY <1>1, <2>1, <2>2 DEF Bears, Held, Rows
      <4>2. with(s).must = job[r].rows[s].must
        BY <4>1 DEF Row
      <4> HIDE DEF with
      <4> QED BY <4>1, <4>2 DEF Answers
    <3>2. \A s \in Held(half) : Answers(half[s])
      BY HalfIsPublished DEF AnswersInv, RowsAnswer
    <3>3. \A s \in Held(new) : Answers(new[s])
      <4> HIDE DEF with, done
      <4> QED BY <3>1, <3>2 DEF Held
    <3> HIDE DEF new
    <3>4. RowsAnswer'
      BY <2>2, <3>3, NewHalfAnswers, HalfIsPublished
    <3>5. /\ job'[r].op = job[r].op /\ job'[r].rows = job[r].rows
          /\ \A q \in Run \ {r} : job'[q] = job[q]
      BY <1>1, <2>2, GoesType
    <3> QED BY <1>1, <3>4, <3>5, SameBears, OneBears DEF AnswersInv
  <2>3. CASE Ends(r) /\ UNCHANGED index
    <3>1. job'[r].op = "none" /\ \A q \in Run \ {r} : job'[q] = job[q]
      BY <1>1, <2>3, EndsType, AtRestType
    <3> QED BY <2>3, <3>1, RestBears, OneBears, SameIndexAnswers DEF AnswersInv
  <2> QED BY <1>3, <2>2, <2>3 DEF PromoteWrite
<1>4. CASE PromoteForget(r)
  <2>1. Ends(r) /\ index' = index
    BY <1>4 DEF PromoteForget
  <2>2. job'[r].op = "none" /\ \A q \in Run \ {r} : job'[q] = job[q]
    BY <1>1, <2>1, EndsType, AtRestType
  <2> QED BY <2>1, <2>2, RestBears, OneBears, SameIndexAnswers DEF AnswersInv
<1> QED BY <1>2, <1>3, <1>4 DEF Promote

LEMMA KindedAnswers ==
  ASSUME NEW row \in Row \cup {Absent}, NEW decided,
         row # Absent => Answers(row)
  PROVE  /\ row = Absent => Kinded(row, decided) = Absent
         /\ row # Absent => Answers(Kinded(row, decided))
<1>1. CASE row = Absent \/ decided = Absent \/ ~row.miss
  BY <1>1 DEF Kinded
<1>2. CASE row # Absent /\ decided # Absent /\ row.miss
  <2> DEFINE new == [row EXCEPT !.kind = decided.kind]
  <2>1. Kinded(row, decided) = new /\ row \in Row
    BY <1>2 DEF Kinded
  <2>2. new.must = row.must /\ new.miss = row.miss /\ new.malicious = row.malicious
    BY <2>1 DEF Row
  <2> HIDE DEF new
  <2> QED BY <1>2, <2>1, <2>2 DEF Answers
<1> QED BY <1>1, <1>2

\* Scripts that only start, go on and end.
LEMMA OthersAnswer ==
  ASSUME HandoffInv, AnswersInv, NEW r \in Run,
         Refresh(r) \/ ClassifyLook(r) \/ Manifest(r) \/ Dies(r)
  PROVE  AnswersInv'
<1>1. job \in [Run -> Job]
  BY DEF HandoffInv, HandoffTypeOK
<1>2. index' = index /\ job'[r].op \notin {"promote", "publish"}
      /\ \A q \in Run \ {r} : job'[q] = job[q]
  <2>1. CASE RefreshLook(r) \/ ClassifyLook(r) \/ ManifestLook(r)
    <3>1. PICK j : j.op \in {"refresh", "classify", "manifest"} /\ Starts(r, j)
      <4>1. CASE RefreshLook(r)
        <5> DEFINE e == [s \in Sample |-> Refreshed(s)]
                   j == [AtRest EXCEPT !.op = "refresh", !.pc = "pending", !.entries = e]
        <5>1. Starts(r, j)
          BY <4>1 DEF RefreshLook
        <5> HIDE DEF e
        <5>2. j.op = "refresh"
          BY DEF AtRest
        <5> HIDE DEF j
        <5> QED BY <5>1, <5>2
      <4>2. CASE ClassifyLook(r)
        <5> DEFINE e == [s \in Sample |->
                     IF (\E h \in Half : index[h][s] # Absent /\ index[h][s].miss)
                        /\ KindOf(s) # Absent
                       THEN [(IF index["published"][s] # Absent
                                 /\ index["published"][s].miss
                                THEN index["published"][s] ELSE index["local"][s])
                               EXCEPT !.kind = KindOf(s)]
                       ELSE Absent]
                   j == [AtRest EXCEPT !.op = "classify", !.pc = "published", !.rows = e]
        <5>1. Starts(r, j)
          BY <4>2 DEF ClassifyLook
        <5> HIDE DEF e
        <5>2. j.op = "classify"
          BY DEF AtRest
        <5> HIDE DEF j
        <5> QED BY <5>1, <5>2
      <4>3. CASE ManifestLook(r)
        <5> DEFINE e == [s \in Sample |->
                     IF manifest[s] = Absent \/ index["published"][s] = Absent
                       THEN manifest[s] ELSE ClaimOf(index["published"][s])]
                   j == [AtRest EXCEPT !.op = "manifest", !.pc = "manifest", !.claims = e]
        <5>1. Starts(r, j)
          BY <4>3 DEF ManifestLook
        <5> HIDE DEF e
        <5>2. j.op = "manifest"
          BY DEF AtRest
        <5> HIDE DEF j
        <5> QED BY <5>1, <5>2
      <4> QED BY <2>1, <4>1, <4>2, <4>3
    <3>2. job'[r] = j /\ \A q \in Run \ {r} : job'[q] = job[q]
      BY <1>1, <3>1 DEF Starts
    <3> QED BY <2>1, <3>1, <3>2 DEF RefreshLook, ClassifyLook, ManifestLook
  <2>2. CASE ManifestWrite(r)
    BY <1>1, <2>2, GoesType DEF ManifestWrite, At
  <2>3. CASE RefreshWrite(r) \/ TrackedWrite(r) \/ Dies(r)
    BY <1>1, <2>3, EndsType, AtRestType DEF RefreshWrite, TrackedWrite, Dies
  <2> QED BY <2>1, <2>2, <2>3 DEF Refresh, Manifest
<1> QED BY <1>2, RestBears, OneBears, SameIndexAnswers DEF AnswersInv

LEMMA ClassifyAnswers ==
  ASSUME HandoffInv, AnswersInv, NEW r \in Run, NEW h \in Half, ClassifyWrite(r, h)
  PROVE  AnswersInv'
<1> DEFINE new == [s \in Sample |-> Kinded(index[h][s], job[r].rows[s])]
<1>1. /\ job[r].op = "classify" /\ index' = [index EXCEPT ![h] = new]
      /\ job \in [Run -> Job]
  BY DEF ClassifyWrite, HandoffInv, HandoffTypeOK, At
<1>2. \A s \in Held(new) : Answers(new[s])
  <2>1. \A s \in Sample : index[h][s] \in Row \cup {Absent}
                          /\ (index[h][s] # Absent => Answers(index[h][s]))
    BY DEF HandoffInv, HandoffTypeOK, AnswersInv, RowsAnswer, Held
  <2>2. \A s \in Sample :
          /\ index[h][s] = Absent => Kinded(index[h][s], job[r].rows[s]) = Absent
          /\ index[h][s] # Absent => Answers(Kinded(index[h][s], job[r].rows[s]))
    BY <2>1, KindedAnswers
  <2> QED BY <2>2 DEF Held
<1> HIDE DEF new
<1>3. RowsAnswer'
  BY <1>1, <1>2, NewHalfAnswers
<1>4. job'[r].op \in {"classify", "none"} /\ \A q \in Run \ {r} : job'[q] = job[q]
  <2>1. CASE Goes(r, "local")
    BY <1>1, <2>1, GoesType
  <2>2. CASE Ends(r)
    BY <1>1, <2>2, EndsType, AtRestType
  <2> QED BY <2>1, <2>2 DEF ClassifyWrite
<1> QED BY <1>3, <1>4, RestBears, OneBears DEF AnswersInv

LEMMA PublishAnswers ==
  ASSUME HandoffInv, AnswersInv, NEW r \in Run, Publish(r)
  PROVE  AnswersInv'
<1>1. job \in [Run -> Job] /\ Bears(r) /\ index \in [Half -> Rows]
  BY DEF HandoffInv, HandoffTypeOK, AnswersInv, Rows
<1>2. ASSUME NEW s \in Sample, PublishLook(r, s)
      PROVE  AnswersInv'
  <2> DEFINE j == [AtRest EXCEPT !.op = "publish", !.pc = "published",
                                 !.rows[s] = index["local"][s]]
             rows == [Nowhere EXCEPT ![s] = index["local"][s]]
  <2>1. Starts(r, j) /\ index' = index /\ index["local"][s] # Absent
    BY <1>2 DEF PublishLook
  <2>2. Answers(index["local"][s])
    BY <2>1, HalfIsPublished DEF AnswersInv, RowsAnswer, Held
  <2>3. \A q \in Held(rows) : Answers(rows[q])
    BY <2>2 DEF Held, Nowhere
  <2>4. j.op = "publish" /\ j.rows = rows
    BY DEF AtRest
  <2> HIDE DEF j, rows
  <2>5. job'[r] = j /\ \A q \in Run \ {r} : job'[q] = job[q]
    BY <1>1, <2>1 DEF Starts
  <2>6. Bears(r)'
    BY <2>3, <2>4, <2>5 DEF Bears, Held
  <2> QED BY <2>1, <2>5, <2>6, OneBears, SameIndexAnswers DEF AnswersInv
<1>3. CASE PublishWrite(r)
  <2> DEFINE half == index["published"]
             new == [s \in Sample |-> IF half[s] = Absent THEN job[r].rows[s] ELSE half[s]]
  <2>1. /\ job[r].op = "publish" /\ Goes(r, "local")
        /\ index' = [index EXCEPT !["published"] = new]
    BY <1>1, <1>3, HalfIsPublished DEF PublishWrite, At
  <2>2. \A s \in Held(half) : Answers(half[s])
    BY HalfIsPublished DEF AnswersInv, RowsAnswer
  <2>3. \A s \in Held(new) : Answers(new[s])
    BY <1>1, <2>1, <2>2 DEF Bears, Held
  <2> HIDE DEF new
  <2>4. RowsAnswer'
    BY <2>1, <2>3, NewHalfAnswers, HalfIsPublished
  <2>5. /\ job'[r].op = job[r].op /\ job'[r].rows = job[r].rows
        /\ \A q \in Run \ {r} : job'[q] = job[q]
    BY <1>1, <2>1, GoesType
  <2> QED BY <1>1, <2>4, <2>5, SameBears, OneBears DEF AnswersInv
<1>4. CASE PublishRemove(r)
  <2> DEFINE half == index["local"]
             new == [s \in Sample |-> IF job[r].rows[s] # Absent THEN Absent ELSE half[s]]
  <2>1. Ends(r) /\ index' = [index EXCEPT !["local"] = new]
    BY <1>1, <1>4, HalfIsPublished DEF PublishRemove
  <2>2. \A s \in Held(new) : Answers(new[s])
    BY HalfIsPublished DEF AnswersInv, RowsAnswer, Held
  <2> HIDE DEF new
  <2>3. RowsAnswer'
    BY <2>1, <2>2, NewHalfAnswers, HalfIsPublished
  <2>4. job'[r].op = "none" /\ \A q \in Run \ {r} : job'[q] = job[q]
    BY <1>1, <2>1, EndsType, AtRestType
  <2> QED BY <2>3, <2>4, RestBears, OneBears DEF AnswersInv
<1> QED BY <1>2, <1>3, <1>4 DEF Publish

LEMMA GateAnswers ==
  ASSUME HandoffInv, AnswersInv, NEW h \in Half, NEW s \in Sample, Gate(h, s)
  PROVE  AnswersInv'
<1> DEFINE row == index[h][s]
           other == [row EXCEPT !.publishable = ~row.publishable]
           new == [index[h] EXCEPT ![s] = other]
<1>1. row # Absent /\ index' = [index EXCEPT ![h] = new] /\ job' = job
  BY DEF Gate
<1>2. index[h] \in Rows /\ row \in Row
  BY <1>1 DEF HandoffInv, HandoffTypeOK, Rows
<1>3. \A q \in Held(index[h]) : Answers(index[h][q])
  BY DEF AnswersInv, RowsAnswer
<1>4. other.must = row.must /\ other.miss = row.miss /\ other.malicious = row.malicious
  BY <1>2 DEF Row
<1>5. Answers(other)
  <2>1. Answers(row)
    BY <1>1, <1>3 DEF Held
  <2> HIDE DEF other
  <2> QED BY <1>4, <2>1 DEF Answers
<1> HIDE DEF other
<1>6. \A q \in Held(new) : Answers(new[q])
  BY <1>2, <1>3, <1>5 DEF Held, Rows
<1> HIDE DEF new
<1>7. RowsAnswer'
  BY <1>1, <1>6, NewHalfAnswers
<1>8. \A q \in Run : Bears(q)'
  BY <1>1 DEF AnswersInv, Bears, Held
<1> QED BY <1>7, <1>8 DEF AnswersInv

LEMMA AnswersStep ==
  ASSUME HandoffInv, AnswersInv, [HandoffNext]_handoffVars
  PROVE  AnswersInv'
<1>1. CASE UNCHANGED <<index, job>>
  BY <1>1, SameIndexAnswers DEF AnswersInv, Bears, Held
<1>2. CASE UNCHANGED handoffVars \/ OtherTool
  BY <1>1, <1>2 DEF handoffVars, OtherTool
<1>3. ASSUME NEW r \in Run, \/ Promote(r) \/ Refresh(r) \/ Classify(r) \/ Publish(r)
                            \/ Manifest(r) \/ Dies(r)
      PROVE  AnswersInv'
  <2>1. CASE Promote(r)
    BY <2>1, PromoteAnswers
  <2>2. CASE Publish(r)
    BY <2>2, PublishAnswers
  <2>3. CASE Classify(r)
    BY <2>3, ClassifyAnswers, OthersAnswer DEF Classify
  <2>4. CASE Refresh(r) \/ Manifest(r) \/ Dies(r)
    BY <2>4, OthersAnswer
  <2> QED BY <1>3, <2>1, <2>2, <2>3, <2>4
<1>4. CASE People
  <2>1. CASE \E h \in Half : \E s \in Sample : Gate(h, s)
    BY <2>1, GateAnswers
  <2>2. CASE UNCHANGED <<index, job>>
    BY <1>1, <2>2
  <2> QED BY <1>4, <2>1, <2>2 DEF People, HandOver, Rebuild, Stage, Pack
<1> QED BY <1>2, <1>3, <1>4 DEF HandoffNext, HandoffStep

---------------------------------------------------------------------------
(* Counting rows that answer.                                              *)

Balances(f) ==
  f.detected + f.split["rule-gap"] + f.split["detected-not-shippable"]
    + f.split["unverified"] = f.reviewed

LEMMA TwoParts ==
  ASSUME NEW A, NEW B, IsFiniteSet(A), IsFiniteSet(B), A \cap B = {}
  PROVE  /\ IsFiniteSet(A \cup B)
         /\ Cardinality(A \cup B) = Cardinality(A) + Cardinality(B)
<1>1. Cardinality(A) \in Nat /\ Cardinality(B) \in Nat
  BY FS_CardinalityType
<1>2. Cardinality(A \cap B) = 0
  BY FS_EmptySet
<1>3. /\ IsFiniteSet(A \cup B)
      /\ Cardinality(A \cup B) = Cardinality(A) + Cardinality(B) - Cardinality(A \cap B)
  BY FS_Union
<1> QED BY <1>1, <1>2, <1>3

LEMMA FourParts ==
  ASSUME NEW S, IsFiniteSet(S), NEW A, NEW B, NEW C, NEW D,
         S = A \cup B \cup C \cup D,
         A \cap B = {}, (A \cup B) \cap C = {}, (A \cup B \cup C) \cap D = {}
  PROVE  Cardinality(A) + Cardinality(B) + Cardinality(C) + Cardinality(D)
           = Cardinality(S)
<1>1. IsFiniteSet(A) /\ IsFiniteSet(B) /\ IsFiniteSet(C) /\ IsFiniteSet(D)
  BY FS_Subset
<1>2. /\ IsFiniteSet(A \cup B)
      /\ Cardinality(A \cup B) = Cardinality(A) + Cardinality(B)
  BY <1>1, TwoParts
<1>3. /\ IsFiniteSet(A \cup B \cup C)
      /\ Cardinality(A \cup B \cup C) = Cardinality(A \cup B) + Cardinality(C)
  BY <1>1, <1>2, TwoParts
<1>4. Cardinality(S) = Cardinality(A \cup B \cup C) + Cardinality(D)
  BY <1>1, <1>3, TwoParts
<1> QED BY <1>2, <1>3, <1>4

\* make-summary.build over any rows that answer: once every miss has a kind,
\* the detected and the three kinds are the reviewed.
LEMMA FiguresBalance ==
  ASSUME NEW rows \in [Half -> Rows], Tells(rows),
         Figures(rows).split["<unclassified>"] = 0
  PROVE  Balances(Figures(rows))
<1> DEFINE row(e) == rows[e[1]][e[2]]
           all == {e \in Half \X Sample : row(e) # Absent}
           bad == {e \in all : row(e).malicious}
           hit == {e \in bad : row(e).must # {}}
           missed(k) == {e \in bad : row(e).miss /\ row(e).kind = k}
<1>1. IsFiniteSet(bad)
  <2>1. IsFiniteSet(Half)
    <3>1. Half = {"published"} \cup {"local"}
      BY DEF Half
    <3> QED BY <3>1, FS_Singleton, FS_Union
  <2>2. IsFiniteSet(Half \X Sample)
    BY <2>1, FS_Product, ReleaseAssumption
  <2>3. bad \subseteq Half \X Sample
    OBVIOUS
  <2> QED BY <2>2, <2>3, FS_Subset
<1>2. \A e \in bad : /\ row(e) \in Row /\ SaysOneThing(row(e)) /\ Answers(row(e))
                     /\ row(e).malicious
  <2> SUFFICES ASSUME NEW e \in bad
               PROVE  row(e) \in Row /\ SaysOneThing(row(e)) /\ Answers(row(e))
    OBVIOUS
  <2>1. e[1] \in Half /\ e[2] \in Sample /\ row(e) # Absent
    OBVIOUS
  <2> QED BY <2>1 DEF Tells, Held, Rows
<1>3. LET f == Figures(rows) IN
      /\ f.detected = Cardinality(hit) /\ f.reviewed = Cardinality(bad)
      /\ \A k \in Kind \cup {"<unclassified>"} : f.split[k] = Cardinality(missed(k))
  BY DEF Figures
<1>4. \A e \in bad : \/ row(e).must # {} /\ ~row(e).miss
                     \/ row(e).must = {} /\ row(e).miss
                          /\ row(e).kind \in Kind \cup {"<unclassified>"}
  <2> HIDE DEF row, bad
  <2>1. \A e \in bad : row(e).kind \in Kind \cup {"<unclassified>"} /\ row(e).miss \in BOOLEAN
    BY <1>2 DEF Row
  <2> QED BY <1>2, <2>1 DEF SaysOneThing, Answers
<1>5. missed("<unclassified>") = {}
  <2>1. missed("<unclassified>") \subseteq bad
    OBVIOUS
  <2>2. IsFiniteSet(missed("<unclassified>"))
    BY <1>1, <2>1, FS_Subset
  <2>3. Cardinality(missed("<unclassified>")) = 0
    BY <1>3
  <2> HIDE DEF missed
  <2> QED BY <2>2, <2>3, FS_EmptySet
<1> DEFINE A == hit
           B == missed("rule-gap")
           C == missed("detected-not-shippable")
           D == missed("unverified")
<1>6. /\ bad = A \cup B \cup C \cup D
      /\ A \cap B = {} /\ (A \cup B) \cap C = {} /\ (A \cup B \cup C) \cap D = {}
  <2> HIDE DEF row, bad
  <2>1. bad \subseteq A \cup B \cup C \cup D
    BY <1>4, <1>5 DEF Kind
  <2>2. A \cup B \cup C \cup D \subseteq bad
    OBVIOUS
  <2>3. /\ \A e \in A : ~row(e).miss
        /\ \A e \in B : row(e).miss /\ row(e).kind = "rule-gap"
        /\ \A e \in C : row(e).miss /\ row(e).kind = "detected-not-shippable"
        /\ \A e \in D : row(e).miss /\ row(e).kind = "unverified"
    BY <1>4
  <2> HIDE DEF A, B, C, D
  <2>4. bad = A \cup B \cup C \cup D
    BY <2>1, <2>2
  <2>5. A \cap B = {} /\ A \cap C = {} /\ A \cap D = {}
    BY <2>3
  <2>6. B \cap C = {} /\ B \cap D = {} /\ C \cap D = {}
    BY <2>3
  <2> QED BY <2>4, <2>5, <2>6
<1>7. LET f == Figures(rows) IN
      /\ f.detected = Cardinality(A) /\ f.reviewed = Cardinality(bad)
      /\ f.split["rule-gap"] = Cardinality(B)
      /\ f.split["detected-not-shippable"] = Cardinality(C)
      /\ f.split["unverified"] = Cardinality(D)
  BY <1>3 DEF Kind
<1> HIDE DEF A, B, C, D, bad
<1>8. Cardinality(A) + Cardinality(B) + Cardinality(C) + Cardinality(D) = Cardinality(bad)
  BY <1>1, <1>6, FourParts
<1> QED BY <1>7, <1>8 DEF Balances

---------------------------------------------------------------------------
(* From the rows to the page.                                              *)

\* A summary that doc-figures will render balances.
SumOK(f) == f # Torn /\ f.split["<unclassified>"] = 0 => Balances(f)

\* What README.md shows.
Quoted(shown) ==
  shown \notin {Torn, Typed} =>
    shown[1] + shown[3]["rule-gap"] + shown[3]["detected-not-shippable"]
      + shown[3]["unverified"] = shown[2]

\* What a reader holds; open_ro holds rows too, and makes no figure of them.
HoldsTrue(j) ==
  /\ j.op # "open" => Tells(j.rows)
  /\ Quoted(j.text["corpus-figures"])
  /\ j.op = "figures" => Quoted(Shown("corpus-figures", j.sum))

SplitInv ==
  /\ AnswersInv
  /\ SumOK(summary)
  /\ Quoted(docs["corpus-figures"])
  /\ \A t \in Desk : HoldsTrue(tool[t])

LEMMA BalancedIsQuoted ==
  ASSUME NEW f, Balances(f)
  PROVE  Quoted(Shown("corpus-figures", f))
BY DEF Balances, Quoted, Shown

LEMMA DumpBalances ==
  ASSUME NEW rows \in [Half -> Rows], Tells(rows)
  PROVE  SumOK(Figures(rows))
BY FiguresBalance DEF SumOK

LEMMA RenderedIsQuoted ==
  ASSUME NEW f, SumOK(f), Renderable(f)
  PROVE  Quoted(Shown("corpus-figures", f))
BY BalancedIsQuoted DEF SumOK, Renderable

LEMMA SameHolds ==
  ASSUME NEW j, NEW k, HoldsTrue(j), k.rows = j.rows, k.text = j.text,
         k.op = j.op, k.sum = j.sum
  PROVE  HoldsTrue(k)
BY DEF HoldsTrue

LEMMA NobodyAnswers == Tells(NoRows)
BY DEF Tells, NoRows, Nowhere, Held

LEMMA AtDeskHolds == HoldsTrue(AtDesk)
<1>1. /\ AtDesk.rows = NoRows /\ AtDesk.op = "none"
      /\ AtDesk.text["corpus-figures"] = Typed
  BY DEF AtDesk, Region, Regions
<1> QED BY <1>1, NobodyAnswers DEF HoldsTrue, Quoted

\* The rows of one half, put beside those a reader has.
LEMMA OneHalfTells ==
  ASSUME NEW i \in [Half -> Rows], Tells(i), NEW rows \in [Half -> Rows], Tells(rows),
         NEW h \in Half
  PROVE  Tells([rows EXCEPT ![h] = i[h]])
<1> DEFINE new == [rows EXCEPT ![h] = i[h]]
<1>1. new[h] = i[h] /\ \A g \in Half \ {h} : new[g] = rows[g]
  OBVIOUS
<1> HIDE DEF new
<1>2. \A g \in Half : new[g] \in {i[g], rows[g]}
  BY <1>1
<1>3. Tells(new)
  BY <1>2 DEF Tells
<1> QED BY <1>3 DEF new

LEMMA OneDesk ==
  ASSUME SplitInv, ReleaseType, NEW t \in Desk, NEW k, HoldsTrue(k),
         tool' = [tool EXCEPT ![t] = k]
  PROVE  \A q \in Desk : HoldsTrue(tool'[q])
BY DEF SplitInv, ReleaseType

LEMMA TellsIndex ==
  ASSUME HandoffInv, AnswersInv
  PROVE  Tells(index) /\ index \in [Half -> Rows]
BY DEF HandoffInv, HandoffTypeOK, ExpectSaysOneThing, AnswersInv, RowsAnswer, Tells, Rows

\* The steps that change what is at one desk only.
Desks == \A q \in Desk : HoldsTrue(tool'[q])

LEMMA SitsHolds ==
  ASSUME SplitInv, ReleaseType, NEW t \in Desk, NEW j, HoldsTrue(j), Sits(t, j)
  PROVE  Desks
BY OneDesk DEF Sits, Desks

LEMMA LeavesHolds ==
  ASSUME SplitInv, ReleaseType, NEW t \in Desk, Leaves(t)
  PROVE  Desks
BY OneDesk, AtDeskHolds DEF Leaves, Desks

LEMMA GoesHolds ==
  ASSUME SplitInv, ReleaseType, NEW t \in Desk, NEW pc, NEW bad,
         Then(t, pc) \/ Finds(t, pc, bad)
  PROVE  Desks
<1>1. tool[t] \in DeskJob /\ HoldsTrue(tool[t])
  BY DEF ReleaseType, SplitInv
<1>2. CASE Then(t, pc)
  <2> DEFINE k == [tool[t] EXCEPT !.pc = pc]
  <2>1. /\ k.rows = tool[t].rows /\ k.text = tool[t].text
        /\ k.op = tool[t].op /\ k.sum = tool[t].sum
    BY <1>1 DEF DeskJob
  <2>2. tool' = [tool EXCEPT ![t] = k]
    BY <1>2 DEF Then
  <2> HIDE DEF k
  <2> QED BY <1>1, <2>1, <2>2, SameHolds, OneDesk DEF Desks
<1>3. CASE Finds(t, pc, bad)
  <2> DEFINE k == [tool[t] EXCEPT !.pc = pc, !.bad = bad]
  <2>1. /\ k.rows = tool[t].rows /\ k.text = tool[t].text
        /\ k.op = tool[t].op /\ k.sum = tool[t].sum
    BY <1>1 DEF DeskJob
  <2>2. tool' = [tool EXCEPT ![t] = k]
    BY <1>3 DEF Finds
  <2> HIDE DEF k
  <2> QED BY <1>1, <2>1, <2>2, SameHolds, OneDesk DEF Desks
<1> QED BY <1>2, <1>3

LEMMA ReadsHolds ==
  ASSUME SplitInv, ReleaseType, HandoffInv, NEW t \in Desk, NEW h \in Half, NEW pc,
         Reads(t, h, pc), tool[t].op # "open"
  PROVE  Desks
<1>1. tool[t] \in DeskJob /\ HoldsTrue(tool[t])
  BY DEF ReleaseType, SplitInv
<1> DEFINE rows == [tool[t].rows EXCEPT ![h] = index[h]]
           k == [tool[t] EXCEPT !.pc = pc, !.rows = rows]
<1>2. Tells(rows)
  <2>1. Tells(index) /\ index \in [Half -> Rows]
    BY TellsIndex DEF SplitInv
  <2>2. Tells(tool[t].rows) /\ tool[t].rows \in [Half -> Rows]
    BY <1>1 DEF HoldsTrue, DeskJob
  <2> QED BY <2>1, <2>2, OneHalfTells
<1>3. tool' = [tool EXCEPT ![t] = k]
  BY DEF Reads
<1> HIDE DEF rows
<1>4. /\ k.rows = rows /\ k.text = tool[t].text
      /\ k.op = tool[t].op /\ k.sum = tool[t].sum
  BY <1>1 DEF DeskJob
<1> HIDE DEF k
<1>5. HoldsTrue(k)
  BY <1>1, <1>2, <1>4 DEF HoldsTrue
<1> QED BY <1>3, <1>5, OneDesk DEF Desks

\* A reader that sits down with the first half, or with nothing.
LEMMA BeginHolds ==
  ASSUME HandoffInv, AnswersInv, NEW j, j.op # "figures",
         j.rows \in {FirstHalf, NoRows}, j.text = AtDesk.text
  PROVE  HoldsTrue(j)
<1>1. Tells(FirstHalf)
  <2>1. Tells(index) /\ index \in [Half -> Rows]
    BY TellsIndex
  <2>2. NoRows \in [Half -> Rows]
    BY NowhereType DEF NoRows
  <2> QED BY <2>1, <2>2, NobodyAnswers, OneHalfTells, HalfIsPublished DEF FirstHalf
<1>2. Quoted(AtDesk.text["corpus-figures"])
  BY AtDeskHolds DEF HoldsTrue
<1> HIDE DEF AtDesk
<1> QED BY <1>1, <1>2, NobodyAnswers DEF HoldsTrue

LEMMA WritesKeepTheSplit ==
  ASSUME SplitInv, ReleaseType, HandoffInv, NEW t \in Desk, Writes(t)
  PROVE  SumOK(summary') /\ Quoted(docs'["corpus-figures"]) /\ Desks
<1>1. /\ SumOK(summary) /\ Quoted(docs["corpus-figures"]) /\ HoldsTrue(tool[t])
      /\ tool[t] \in DeskJob /\ AnswersInv
  BY DEF SplitInv, ReleaseType
<1>2. CASE SummaryPublished(t)
  <2> DEFINE j == [AtDesk EXCEPT !.op = "summary", !.pc = "local", !.rows = FirstHalf]
  <2>1. Sits(t, j) /\ UNCHANGED <<summary, docs>>
    BY <1>2 DEF SummaryPublished
  <2>2. j.op = "summary" /\ j.rows = FirstHalf /\ j.text = AtDesk.text
    BY DEF AtDesk
  <2> HIDE DEF j
  <2> QED BY <1>1, <2>1, <2>2, BeginHolds, SitsHolds
<1>3. CASE SummaryLocal(t) \/ DerivePublished(t) \/ DeriveLocal(t)
  <2>1. UNCHANGED <<summary, docs>> /\ \E h \in Half : \E pc \in Steps : Reads(t, h, pc)
    BY <1>3, HalfIsPublished DEF SummaryLocal, DerivePublished, DeriveLocal, Steps
  <2>2. tool[t].op # "open"
    BY <1>3 DEF SummaryLocal, DerivePublished, DeriveLocal, Does
  <2> QED BY <1>1, <2>1, <2>2, ReadsHolds
<1>4. CASE SummaryOpen(t)
  <2>1. Then(t, "dump") /\ summary' = Torn /\ UNCHANGED docs
    BY <1>4 DEF SummaryOpen
  <2> QED BY <1>1, <2>1, GoesHolds DEF SumOK
<1>5. CASE SummaryDump(t)
  <2>1. /\ Leaves(t) /\ summary' = Figures(tool[t].rows) /\ UNCHANGED docs
        /\ tool[t].op # "open"
    BY <1>5 DEF SummaryDump, Does
  <2>2. SumOK(summary')
    BY <1>1, <2>1, DumpBalances DEF HoldsTrue, DeskJob
  <2> QED BY <1>1, <2>1, <2>2, LeavesHolds
<1>6. CASE FiguresRead(t)
  <2> DEFINE j == [AtDesk EXCEPT !.op = "figures", !.pc = "region", !.sum = summary,
                                 !.next = 1]
  <2>1. Renderable(summary) /\ Sits(t, j) /\ UNCHANGED <<summary, docs>>
    BY <1>6 DEF FiguresRead
  <2>2. j.sum = summary /\ j.rows = AtDesk.rows /\ j.text = AtDesk.text
    BY DEF AtDesk
  <2> HIDE DEF j
  <2>3. Quoted(Shown("corpus-figures", summary))
    BY <1>1, <2>1, RenderedIsQuoted
  <2>4. HoldsTrue(j)
    BY <2>2, <2>3, AtDeskHolds, AtDeskType DEF HoldsTrue
  <2> QED BY <1>1, <2>1, <2>4, SitsHolds
<1>7. ASSUME NextRegion(t)
      PROVE  Desks
  <2>1. CASE Leaves(t)
    BY <2>1, LeavesHolds
  <2>2. CASE tool' = [tool EXCEPT ![t] = [tool[t] EXCEPT !.pc = "region",
                                                         !.next = tool[t].next + 1]]
    <3> DEFINE n == tool[t].next + 1
               k == [tool[t] EXCEPT !.pc = "region", !.next = n]
    <3>1. /\ k.rows = tool[t].rows /\ k.text = tool[t].text
          /\ k.op = tool[t].op /\ k.sum = tool[t].sum
      BY <1>1 DEF DeskJob
    <3> HIDE DEF k
    <3>2. HoldsTrue(k)
      BY <1>1, <3>1, SameHolds
    <3>3. tool' = [tool EXCEPT ![t] = k]
      BY <2>2 DEF k
    <3> QED BY <3>2, <3>3, OneDesk DEF Desks
  <2> QED BY <1>7, <2>1, <2>2 DEF NextRegion
<1>8. CASE RegionOpen(t)
  <2> DEFINE g == Regions[tool[t].next]
             cut == [o \in Region |-> IF FileOf(o) = FileOf(g) THEN Torn ELSE docs[o]]
             k == [tool[t] EXCEPT !.pc = "write", !.text = docs]
  <2>1. /\ summary' = summary
        /\ \/ NextRegion(t) /\ UNCHANGED docs
           \/ tool' = [tool EXCEPT ![t] = k] /\ docs' = cut
    BY <1>8 DEF RegionOpen
  <2>2. Quoted(cut["corpus-figures"])
    <3>1. cut["corpus-figures"] \in {Torn, docs["corpus-figures"]}
      BY DEF Region, Regions
    <3> HIDE DEF cut
    <3> QED BY <1>1, <3>1 DEF Quoted
  <2>3. /\ k.rows = tool[t].rows /\ k.text = docs
        /\ k.op = tool[t].op /\ k.sum = tool[t].sum
    BY <1>1 DEF DeskJob
  <2> HIDE DEF cut, k
  <2>4. HoldsTrue(k)
    BY <1>1, <2>3 DEF HoldsTrue
  <2>5. CASE NextRegion(t) /\ UNCHANGED docs
    BY <1>1, <1>7, <2>1, <2>5
  <2>6. CASE tool' = [tool EXCEPT ![t] = k] /\ docs' = cut
    BY <1>1, <2>1, <2>2, <2>4, <2>6, OneDesk DEF Desks
  <2> QED BY <2>1, <2>5, <2>6
<1>9. CASE RegionWrite(t)
  <2> DEFINE g == Regions[tool[t].next]
  <2>1. /\ summary' = summary /\ NextRegion(t) /\ tool[t].op = "figures"
        /\ docs' = [o \in Region |->
                     IF o = g THEN Shown(g, tool[t].sum)
                     ELSE IF FileOf(o) = FileOf(g) THEN tool[t].text[o] ELSE docs[o]]
    BY <1>9 DEF RegionWrite, Does
  <2>2. docs'["corpus-figures"] \in {Shown("corpus-figures", tool[t].sum),
                                     tool[t].text["corpus-figures"],
                                     docs["corpus-figures"]}
    <3>1. "corpus-figures" \in Region
      BY DEF Region, Regions
    <3> HIDE DEF g
    <3> QED BY <2>1, <3>1
  <2>3. Quoted(docs'["corpus-figures"])
    BY <1>1, <2>1, <2>2 DEF HoldsTrue
  <2> QED BY <1>1, <1>7, <2>1, <2>3
<1>10. CASE DeriveLock(t)
  <2> DEFINE j == [AtDesk EXCEPT !.op = "derive", !.pc = "published"]
  <2>1. Sits(t, j) /\ UNCHANGED <<summary, docs>>
    BY <1>10 DEF DeriveLock
  <2>2. j.op = "derive" /\ j.rows = NoRows /\ j.text = AtDesk.text
    BY DEF AtDesk
  <2> HIDE DEF j
  <2> QED BY <1>1, <2>1, <2>2, BeginHolds, SitsHolds
<1>11. CASE DeriveUnlock(t)
  BY <1>1, <1>11, GoesHolds DEF DeriveUnlock
<1>12. CASE DeriveReplace(t) \/ Quits(t)
  BY <1>1, <1>12, LeavesHolds DEF DeriveReplace, Quits
<1> QED BY <1>2, <1>3, <1>4, <1>5, <1>6, <1>8, <1>9, <1>10, <1>11, <1>12 DEF Writes

LEMMA ChecksKeepTheSplit ==
  ASSUME SplitInv, ReleaseType, HandoffInv, NEW t \in Desk, Checks(t)
  PROVE  Desks
<1>1. AnswersInv
  BY DEF SplitInv
<1>2. CASE OpenPublished(t)
  <2> DEFINE j == [AtDesk EXCEPT !.op = "open", !.pc = "local", !.rows = db,
                                 !.bad = ~SameHalf(db, "published")]
  <2>1. Sits(t, j)
    BY <1>2 DEF OpenPublished
  <2>2. j.op = "open" /\ j.text = AtDesk.text
    BY DEF AtDesk
  <2>3. Quoted(AtDesk.text["corpus-figures"])
    BY AtDeskHolds DEF HoldsTrue
  <2> HIDE DEF j, AtDesk
  <2>4. HoldsTrue(j)
    BY <2>2, <2>3 DEF HoldsTrue
  <2> QED BY <2>1, <2>4, SitsHolds
<1>3. CASE PushTree(t)
  <2> DEFINE j == [AtDesk EXCEPT !.op = "push", !.pc = "index", !.bad = leak]
  <2>1. Sits(t, j)
    BY <1>3 DEF PushTree
  <2>2. j.op = "push" /\ j.rows = NoRows /\ j.text = AtDesk.text
    BY DEF AtDesk
  <2> HIDE DEF j
  <2> QED BY <1>1, <2>1, <2>2, BeginHolds, SitsHolds
<1>4. ASSUME NEW op \in {"verify", "census"}, ReadToCheck(t, op)
      PROVE  Desks
  <2> DEFINE j == [AtDesk EXCEPT !.op = op, !.pc = "shards", !.sum = summary,
                                 !.rows = FirstHalf]
  <2>1. Sits(t, j)
    BY <1>4 DEF ReadToCheck
  <2>2. j.op = op /\ j.rows = FirstHalf /\ j.text = AtDesk.text
    BY DEF AtDesk
  <2> HIDE DEF j
  <2> QED BY <1>1, <2>1, <2>2, BeginHolds, SitsHolds
<1>5. CASE PushPublished(t) \/ PushLocal(t)
  <2>1. \E h \in Half : \E pc \in Steps : Reads(t, h, pc)
    BY <1>5, HalfIsPublished DEF PushPublished, PushLocal, Steps
  <2>2. tool[t].op # "open"
    BY <1>5 DEF PushPublished, PushLocal, Does
  <2> QED BY <2>1, <2>2, ReadsHolds
<1>6. CASE PushIndex(t) \/ PushSummary(t)
  <2>1. \E pc, bad : Finds(t, pc, bad)
    BY <1>6 DEF PushIndex, PushSummary
  <2> QED BY <2>1, GoesHolds
<1>7. CASE OpenLocal(t) \/ PushDocs(t) \/ VerifyRun(t) \/ CensusRun(t)
  <2>1. Leaves(t)
    BY <1>7 DEF OpenLocal, PushDocs, VerifyRun, CensusRun, Reports
  <2> QED BY <2>1, LeavesHolds
<1> QED BY <1>2, <1>3, <1>4, <1>5, <1>6, <1>7 DEF Checks

LEMMA SplitStep ==
  ASSUME ReleaseInv, SplitInv, [ReleaseNext]_releaseVars
  PROVE  SplitInv'
<1>1. HandoffInv /\ ReleaseType /\ AnswersInv /\ SumOK(summary)
      /\ Quoted(docs["corpus-figures"]) /\ \A q \in Desk : HoldsTrue(tool[q])
  BY DEF ReleaseInv, SplitInv
<1>2. AnswersInv'
  BY <1>1, ReleaseStepIsHandoff, AnswersStep
<1>3. SumOK(summary') /\ Quoted(docs'["corpus-figures"]) /\ Desks
  <2>1. CASE UNCHANGED <<summary, docs, tool>>
    BY <1>1, <2>1 DEF Desks
  <2>2. CASE \E g \in Region : Restore(g)
    <3>1. PICK g \in Region : docs' = [docs EXCEPT ![g] = Typed]
      BY <2>2 DEF Restore
    <3>2. UNCHANGED <<summary, tool>>
      BY <2>2 DEF Restore
    <3>3. docs \in Pages
      BY <1>1 DEF ReleaseType
    <3>4. docs'["corpus-figures"] \in {Typed, docs["corpus-figures"]}
      BY <3>1, <3>3 DEF Pages, Region, Regions
    <3> QED BY <1>1, <3>2, <3>4 DEF Quoted, Desks
  <2>3. ASSUME NEW t \in Desk, Writes(t)
        PROVE  <1>3
    BY <1>1, <2>3, WritesKeepTheSplit
  <2>4. ASSUME NEW t \in Desk, NotHandoff, Checks(t)
        PROVE  <1>3
    <3>1. Desks
      BY <1>1, <2>4, ChecksKeepTheSplit
    <3>2. UNCHANGED <<summary, docs>>
      BY <2>4, ChecksAreStill DEF Still
    <3> QED BY <1>1, <3>1, <3>2
  <2>5. CASE UNCHANGED releaseVars \/ Edit
    BY <2>1, <2>5 DEF releaseVars, Edit
  <2> QED BY <2>1, <2>2, <2>3, <2>4, <2>5 DEF ReleaseNext
<1> QED BY <1>2, <1>3 DEF SplitInv, Desks

LEMMA SplitBegins ==
  ASSUME \A i \in Begin : Tells(i), ReleaseInit
  PROVE  SplitInv
<1>1. HandoffInv /\ index \in Begin /\ index \in [Half -> Rows]
  BY InitGood DEF ReleaseInit, HandoffInit, HandoffInv, HandoffTypeOK, Rows
<1>2. Tells(index)
  BY <1>1
<1>3. AnswersInv
  <2>1. \A r \in Run : job[r].op = "none"
    BY AtRestType DEF ReleaseInit, HandoffInit
  <2> QED BY <1>2, <2>1 DEF AnswersInv, RowsAnswer, Bears, Tells
<1>4. SumOK(summary)
  BY <1>1, <1>2, DumpBalances DEF ReleaseInit
<1>5. Quoted(docs["corpus-figures"])
  <2>1. "corpus-figures" \in Region
    BY DEF Region, Regions
  <2>2. CASE docs["corpus-figures"] = Typed
    BY <2>2 DEF Quoted
  <2>3. CASE /\ summary.split["<unclassified>"] = 0
             /\ docs["corpus-figures"] = Shown("corpus-figures", summary)
    <3>1. Balances(summary)
      BY <1>1, <1>2, <2>3, FiguresBalance DEF ReleaseInit
    <3> QED BY <2>3, <3>1, BalancedIsQuoted
  <2> QED BY <2>1, <2>2, <2>3 DEF ReleaseInit
<1>6. \A t \in Desk : HoldsTrue(tool[t])
  BY AtDeskHolds DEF ReleaseInit
<1> QED BY <1>3, <1>4, <1>5, <1>6 DEF SplitInv

\* make-summary and doc-figures, with no lock between them and the scripts that
\* move, close and classify rows: whatever two reads of the index went into it,
\* the split README.md shows adds up to the reviewed samples it shows, as long
\* as every malicious row there was to begin with expected a rule or was a
\* known miss (index-summary.json, "malicious_no_expectation": 0).
THEOREM TheSplitAddsUp ==
  ASSUME \A i \in Begin : Tells(i)
  PROVE  Release => []SplitAddsUp
<1>1. ReleaseInit => ReleaseInv /\ SplitInv
  BY ReleaseBegins, SplitBegins
<1>2. ReleaseInv /\ SplitInv /\ [ReleaseNext]_releaseVars => (ReleaseInv /\ SplitInv)'
  BY ReleaseStep, SplitStep
<1>3. SplitInv => SplitAddsUp
  BY DEF SplitInv, Quoted, SplitAddsUp
<1> QED BY <1>1, <1>2, <1>3, PTL DEF Release
=============================================================================
