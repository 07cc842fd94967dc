------------------------------ MODULE Release ------------------------------
(***************************************************************************)
(* What is published about the corpus, and the checks before it is.        *)
(*                                                                         *)
(* make-summary counts the two halves of the index, doc-figures writes the *)
(* counts into marked regions of two documents, derived_db builds a        *)
(* database of the rows.  pre-push-check, verify, shard-census and open_ro *)
(* say whether all that agrees with the index, the shards and the scanner. *)
(* They read the files one after the other and without locks, while the    *)
(* scripts of Handoff rewrite them; a document or the summary is rewritten *)
(* in place, so what dies in mid-write leaves it cut off.                  *)
(*                                                                         *)
(* A check that passed is believed until something it may have read        *)
(* changes: "passed" holds the checks with nothing changed since they      *)
(* began.                                                                  *)
(***************************************************************************)
EXTENDS Handoff, Sequences

CONSTANTS
  Desk,      \* places for a running reader
  Shipping,  \* the samples whose row names a reason that ships bytes
  Torn,      \* what is left of a file cut off in mid-write
  Typed      \* a region somebody typed

ASSUME ReleaseAssumption ==
  /\ IsFiniteSet(Sample) /\ Shipping \subseteq Sample
  /\ {Torn, Typed, Absent} \cap [Half -> [Sample -> Row \cup {Absent}]] = {}

Reader == {"summary", "figures", "derive", "open", "push", "verify", "census"}
Check == {"open", "push", "verify", "census"}

VARIABLES
  summary,   \* index-summary.json
  docs,      \* the generated regions of README.md and corpus/SOURCES.md
  db,        \* the derived database: the rows it was built from
  leak,      \* a customer identifier is in a tracked file
  tool,      \* what each reader is doing
  disturbed, \* the readers something has changed under
  passed     \* the checks that passed, and nothing has changed since they began

releaseVars == <<handoffVars, summary, docs, db, leak, tool, disturbed, passed>>

---------------------------------------------------------------------------
(* The figures.                                                            *)

\* make-summary.build: the counts over the rows of the two halves.  A row that
\* is read in both halves is counted twice.
Figures(rows) ==
  LET all == {e \in Half \X Sample : rows[e[1]][e[2]] # Absent}
      row(e) == rows[e[1]][e[2]]
      public == {e \in all : e[1] = "published"}
      ships == {e \in public : e[2] \in Shipping /\ row(e).publishable}
      bad == {e \in all : row(e).malicious}
  IN [published |-> Cardinality(public),
      local |-> Cardinality(all \ public),
      shipped |-> Cardinality(ships),
      reviewed |-> Cardinality(bad),
      detected |-> Cardinality({e \in bad : row(e).must # {}}),
      runnable |-> Cardinality({e \in ships \cap bad : row(e).must # {}}),
      known |-> Cardinality({e \in all : row(e).miss}),
      split |-> [k \in Kind \cup {"<unclassified>"} |->
                  Cardinality({e \in bad : row(e).miss /\ row(e).kind = k})]]

\* Mutant: a miss nobody classified may be left out of the split.
Renderable_Unclassified(f) == f # Torn /\ f.reviewed # 0

\* figures(): the summary parses, every miss has a kind, the kinds add up to
\* the misses, there is something to divide by and a family to name.
Renderable(f) ==
  /\ f # Torn
  /\ f.split["<unclassified>"] = 0
  /\ f.split["rule-gap"] + f.split["detected-not-shippable"]
       + f.split["unverified"] = f.known
  /\ f.reviewed # 0 /\ f.known # 0

\* make-summary --check: every key it computes has the value on disk.
Compared(f, rows) == f # Torn /\ f = Figures(rows)

Regions == <<"corpus-figures", "family-detection", "index-halves",
             "shipped-vs-fetched">>
Region == {Regions[i] : i \in 1..4}
FileOf(g) == IF g \in {"corpus-figures", "family-detection"} THEN "README.md"
             ELSE "corpus/SOURCES.md"

\* The renderers: what each region quotes of the summary.
Shown(g, f) ==
  CASE g = "corpus-figures" -> <<f.detected, f.reviewed, f.split, f.runnable>>
    [] g = "family-detection" -> <<f.detected, f.reviewed>>
    [] g = "index-halves" -> <<f.published, f.local>>
    [] g = "shipped-vs-fetched" -> <<f.published, f.shipped>>

---------------------------------------------------------------------------
(* The readers.                                                            *)

NoRows == [h \in Half |-> Nowhere]
AtDesk == [op |-> "none", pc |-> "idle", rows |-> NoRows, sum |-> Torn,
           next |-> 0, text |-> [g \in Region |-> Typed], bad |-> FALSE]

Inputs == <<index, summary, docs, db, leak, shards, tracked, build>>
busy == {t \in Desk : tool[t] # AtDesk}

ReleaseInit ==
  /\ HandoffInit
  /\ summary = Figures(index)
  /\ \/ docs = [g \in Region |-> Typed]
     \/ summary.split["<unclassified>"] = 0 /\ docs = [g \in Region |-> Shown(g, summary)]
  /\ db = Absent
  /\ leak = FALSE
  /\ tool = [t \in Desk |-> AtDesk]
  /\ disturbed = {} /\ passed = {}

Does(t, op, pc) == tool[t].op = op /\ tool[t].pc = pc
Sits(t, j) == /\ tool[t] = AtDesk /\ {t, j.op} \subseteq menu
              /\ tool' = [tool EXCEPT ![t] = j]
Then(t, pc) == tool' = [tool EXCEPT ![t].pc = pc]
Finds(t, pc, bad) ==
  tool' = [tool EXCEPT ![t] = [@ EXCEPT !.pc = pc, !.bad = bad]]
Leaves(t) == tool' = [tool EXCEPT ![t] = AtDesk]

\* A check ends: it counts as passed only if nothing changed under it.
Reports(t, ok) ==
  /\ Leaves(t)
  /\ passed' = IF ok /\ t \notin disturbed THEN passed \cup {tool[t].op}
               ELSE passed \ {tool[t].op}

\* The published half is read first, by every reader.
FirstHalf == [NoRows EXCEPT !["published"] = index["published"]]
Reads(t, h, pc) ==
  tool' = [tool EXCEPT ![t] = [@ EXCEPT !.pc = pc,
                                 !.rows = [tool[t].rows EXCEPT ![h] = index[h]]]]

---------------------------------------------------------------------------
(* make-summary.                                                           *)

\* The published half, then the local half, and no lock.
SummaryPublished(t) ==
  /\ Sits(t, [AtDesk EXCEPT !.op = "summary", !.pc = "local", !.rows = FirstHalf])
  /\ UNCHANGED <<summary, docs, db, leak, locked>>

SummaryLocal(t) ==
  /\ Does(t, "summary", "local")
  /\ Reads(t, "local", "open")
  /\ UNCHANGED <<summary, docs, db, leak, locked>>

\* json.dump into open(p, "w"): the file is cut off first.
SummaryOpen(t) ==
  /\ Does(t, "summary", "open")
  /\ summary' = Torn /\ Then(t, "dump")
  /\ UNCHANGED <<docs, db, leak, locked>>

SummaryDump(t) ==
  /\ Does(t, "summary", "dump")
  /\ summary' = Figures(tool[t].rows) /\ Leaves(t)
  /\ UNCHANGED <<docs, db, leak, locked>>

---------------------------------------------------------------------------
(* doc-figures.                                                            *)

\* run: one read of the summary, or no region is written at all.
FiguresRead(t) ==
  /\ Renderable(summary)
  /\ Sits(t, [AtDesk EXCEPT !.op = "figures", !.pc = "region", !.sum = summary,
                            !.next = 1])
  /\ UNCHANGED <<summary, docs, db, leak, locked>>

Finished(t) == tool[t].next = 4
NextRegion(t) == IF Finished(t) THEN Leaves(t)
                 ELSE tool' = [tool EXCEPT ![t] = [@ EXCEPT !.pc = "region",
                                               !.next = tool[t].next + 1]]

\* A region that agrees, or has lost its markers, is left alone; a file with
\* another is read, and cut off by open(path, "w")...
RegionOpen(t) ==
  LET g == Regions[tool[t].next]
      same == docs[g] = Torn \/ docs[g] = Shown(g, tool[t].sum)
  IN /\ Does(t, "figures", "region")
     /\ \/ same /\ NextRegion(t) /\ UNCHANGED docs
        \/ /\ ~same
           /\ tool' = [tool EXCEPT ![t] = [@ EXCEPT !.pc = "write", !.text = docs]]
           /\ docs' = [o \in Region |-> IF FileOf(o) = FileOf(g) THEN Torn
                                        ELSE docs[o]]
     /\ UNCHANGED <<summary, db, leak, locked>>

\* ...and written back as it was read, with the region replaced.
RegionWrite(t) ==
  LET g == Regions[tool[t].next]
  IN /\ Does(t, "figures", "write")
     /\ docs' = [o \in Region |->
                  IF o = g THEN Shown(g, tool[t].sum)
                  ELSE IF FileOf(o) = FileOf(g) THEN tool[t].text[o] ELSE docs[o]]
     /\ NextRegion(t)
     /\ UNCHANGED <<summary, db, leak, locked>>

---------------------------------------------------------------------------
(* derived_db.                                                             *)

\* build: the locks of both halves before either read...
DeriveLock(t) ==
  /\ Borrow /\ Sits(t, [AtDesk EXCEPT !.op = "derive", !.pc = "published"])
  /\ UNCHANGED <<summary, docs, db, leak>>

DerivePublished(t) ==
  /\ Does(t, "derive", "published") /\ Reads(t, "published", "local")
  /\ UNCHANGED <<summary, docs, db, leak, locked>>

DeriveLocal(t) ==
  /\ Does(t, "derive", "local") /\ Reads(t, "local", "unlock")
  /\ UNCHANGED <<summary, docs, db, leak, locked>>

\* ...and let go before the build, which is put in place by os.replace.
DeriveUnlock(t) ==
  /\ Does(t, "derive", "unlock") /\ Then(t, "replace")
  /\ locked' = IF locked = "reader" THEN Nobody ELSE locked
  /\ UNCHANGED <<summary, docs, db, leak>>

DeriveReplace(t) ==
  /\ Does(t, "derive", "replace")
  /\ db' = tool[t].rows /\ Leaves(t)
  /\ UNCHANGED <<summary, docs, leak, locked>>

\* open_ro: the database is opened once, then one half after the other is
\* hashed, without a lock, and compared with what the build recorded.
SameHalf(rows, h) == rows[h] = index[h]

OpenPublished(t) ==
  /\ db # Absent
  /\ Sits(t, [AtDesk EXCEPT !.op = "open", !.pc = "local", !.rows = db,
                            !.bad = ~SameHalf(db, "published")])
  /\ UNCHANGED <<summary, docs, db, leak, locked, passed>>

OpenLocal(t) ==
  /\ Does(t, "open", "local")
  /\ Reports(t, ~tool[t].bad /\ SameHalf(tool[t].rows, "local"))
  /\ UNCHANGED <<summary, docs, db, leak, locked>>

---------------------------------------------------------------------------
(* pre-push-check.                                                         *)

\* main: the tracked files, the messages and the secrets; a finding is counted
\* and the check goes on.
PushTree(t) ==
  /\ Sits(t, [AtDesk EXCEPT !.op = "push", !.pc = "index", !.bad = leak])
  /\ UNCHANGED <<summary, docs, db, leak, locked, passed>>

\* shard-gate over the published half: nothing in it is blocked.
PushIndex(t) ==
  /\ Does(t, "push", "index")
  /\ Finds(t, "published", \/ tool[t].bad
                           \/ \E s \in Held(index["published"]) :
                                ~index["published"][s].publishable)
  /\ UNCHANGED <<summary, docs, db, leak, locked, passed>>

\* summary_check: make-summary --check, which reads what make-summary reads.
PushPublished(t) ==
  /\ Does(t, "push", "published") /\ Reads(t, "published", "local")
  /\ UNCHANGED <<summary, docs, db, leak, locked, passed>>

PushLocal(t) ==
  /\ Does(t, "push", "local") /\ Reads(t, "local", "summary")
  /\ UNCHANGED <<summary, docs, db, leak, locked, passed>>

PushSummary(t) ==
  /\ Does(t, "push", "summary")
  /\ Finds(t, "docs", tool[t].bad \/ ~Compared(summary, tool[t].rows))
  /\ UNCHANGED <<summary, docs, db, leak, locked, passed>>

\* Mutant: only the regions of the first document are looked at.
Agree_Readme(f) ==
  Renderable(f) /\ \A g \in Region : FileOf(g) = "README.md" => docs[g] = Shown(g, f)

\* doc-figures --check: every region is there and carries the figures.
Agree(f) == Renderable(f) /\ \A g \in Region : docs[g] = Shown(g, f)

PushDocs(t) ==
  /\ Does(t, "push", "docs")
  /\ Reports(t, ~tool[t].bad /\ Agree(summary))
  /\ UNCHANGED <<summary, docs, db, leak, locked>>

---------------------------------------------------------------------------
(* verify and shard-census.                                                *)

\* Both unpack the shards and go through the published half, as it was read.
ReadToCheck(t, op) ==
  /\ Sits(t, [AtDesk EXCEPT !.op = op, !.pc = "shards", !.sum = summary,
                            !.rows = FirstHalf])
  /\ UNCHANGED <<summary, docs, db, leak, locked, passed>>

\* The rows verify runs: reviewed malicious, publishable, and no known miss.
Expected(rows) ==
  {s \in Held(rows) : rows[s].malicious /\ rows[s].publishable /\ ~rows[s].miss}

\* Mutant: a sample that fires anything counts as the recorded rule.
Green_AnyRule(rows, f) ==
  /\ f # Torn
  /\ \A s \in Expected(rows) : shards[s] # Absent /\ Says[build][s].shipped # {}

\* main: each is in a shard and check reports exactly the expected rules, and
\* as many are detected as the summary says a stranger can re-run.
Green(rows, f) ==
  /\ f # Torn
  /\ \A s \in Held(rows) : rows[s].malicious /\ rows[s].publishable
                             => shards[s] # Absent
  /\ \A s \in Expected(rows) :
       Says[build][s].shipped = rows[s].must /\ rows[s].must # {}
  /\ Cardinality(Expected(rows)) = f.runnable

VerifyRun(t) ==
  /\ Does(t, "verify", "shards")
  /\ Reports(t, Green(tool[t].rows["published"], tool[t].sum))
  /\ UNCHANGED <<summary, docs, db, leak, locked>>

\* census: every shipped sample has a publishable row of the published half,
\* and manifest, tracked copy and row expect the same of it.
Clean(rows) ==
  \A s \in Held(shards) :
    /\ rows[s] # Absent /\ rows[s].publishable
    /\ shards[s] = ClaimOf(rows[s]) /\ tracked[s] = ClaimOf(rows[s])

CensusRun(t) ==
  /\ Does(t, "census", "shards")
  /\ Reports(t, Clean(tool[t].rows["published"]))
  /\ UNCHANGED <<summary, docs, db, leak, locked>>

---------------------------------------------------------------------------
(* The rest of the world.                                                  *)

\* An identifier gets into a tracked file, or is taken out again.
Edit == /\ "edit" \in menu
        /\ leak' = ~leak
        /\ UNCHANGED <<summary, docs, db, tool, locked>>

\* Somebody restores the markers of a region that was cut off.
Restore(g) == /\ "restore" \in menu /\ docs[g] = Torn
              /\ docs' = [docs EXCEPT ![g] = Typed]
              /\ UNCHANGED <<summary, db, leak, tool, locked>>

\* A reader dies where it is.
Quits(t) == /\ tool[t] # AtDesk
            /\ Leaves(t)
            /\ locked' = IF tool[t].op = "derive" /\ tool[t].pc # "replace"
                            /\ locked = "reader" THEN Nobody ELSE locked
            /\ UNCHANGED <<summary, docs, db, leak>>

Checks(t) == \/ OpenPublished(t) \/ OpenLocal(t)
             \/ PushTree(t) \/ PushIndex(t) \/ PushPublished(t) \/ PushLocal(t)
             \/ PushSummary(t) \/ PushDocs(t)
             \/ (\E op \in {"verify", "census"} : ReadToCheck(t, op))
             \/ VerifyRun(t) \/ CensusRun(t)
Writes(t) == \/ SummaryPublished(t) \/ SummaryLocal(t) \/ SummaryOpen(t)
             \/ SummaryDump(t) \/ FiguresRead(t) \/ RegionOpen(t) \/ RegionWrite(t)
             \/ DeriveLock(t) \/ DerivePublished(t) \/ DeriveLocal(t)
             \/ DeriveUnlock(t) \/ DeriveReplace(t) \/ Quits(t)

NotHandoff == UNCHANGED <<menu, index, pending, owed, manifest, tracked, shards,
                          build, job>>
Changed == Inputs' # Inputs

\* What changes an input of the checks takes back what they said.
ReleaseNext ==
  /\ \/ /\ \/ HandoffStep /\ UNCHANGED <<summary, docs, db, leak, tool>>
           \/ NotHandoff /\ (Edit \/ (\E g \in Region : Restore(g))
                                  \/ \E t \in Desk : Writes(t))
        /\ passed' = IF Changed THEN {} ELSE passed
     \/ NotHandoff /\ \E t \in Desk : Checks(t)
  /\ disturbed' = IF Changed THEN busy' ELSE disturbed \cap busy'

Release == ReleaseInit /\ [][ReleaseNext]_releaseVars
---------------------------------------------------------------------------
(* What holds.                                                             *)

\* SAFE TO PUSH is true: while nothing has changed since pre-push-check began,
\* no tracked file carries an identifier, nothing published is blocked, the
\* summary counts this index and every region of both documents quotes it.
SafePushIsTrue ==
  "push" \in passed =>
    /\ ~leak
    /\ \A s \in Held(index["published"]) : index["published"][s].publishable
    /\ summary = Figures(index)
    /\ \A g \in Region : docs[g] = Shown(g, summary)

\* The detections and the three kinds of miss that README.md shows add up to
\* the reviewed samples it shows, whatever moved, closed or was classified
\* while the halves were counted.
SplitAddsUp ==
  LET shown == docs["corpus-figures"]
  IN shown \notin {Torn, Typed} =>
       shown[1] + shown[3]["rule-gap"] + shown[3]["detected-not-shippable"]
         + shown[3]["unverified"] = shown[2]

\* A stranger reproduces the figure: with a push called safe and a verify that
\* passed, the number of samples README.md says can be re-run is the number of
\* samples in the shards on which this scanner reports the recorded rules.
StrangerReproducesTheFigure ==
  {"push", "verify"} \subseteq passed =>
    docs["corpus-figures"][4] =
      Cardinality({s \in Held(shards) \cap Held(index["published"]) :
        LET row == index["published"][s]
        IN row.malicious /\ row.publishable /\ row.must # {}
           /\ Says[build][s].shipped = row.must})
=============================================================================
