------------------------------ MODULE Handoff ------------------------------
(***************************************************************************)
(* From a rule that now fires to an index row that says so.                *)
(*                                                                         *)
(* A row of the index either expects rules to fire on the sample or is a   *)
(* known miss of one of three kinds.  The rules side hands the corpus side *)
(* the misses its new rules close (pending-promotions.jsonl); promote-     *)
(* pending re-measures each over the shipped bytes and closes the row.     *)
(* classify-known-miss says what kind the other misses are, publish-rows   *)
(* moves a row to the published half, make-shard-manifest copies a row's   *)
(* expectation into the stage the shards are packed from.                  *)
(*                                                                         *)
(* Each script decides on what it read and then rewrites a whole file from *)
(* a read taken under that file's lock.  The scripts run at the same time, *)
(* the scanner is rebuilt between two measurements, and any of them may    *)
(* die between two steps.                                                  *)
(***************************************************************************)
EXTENDS FiniteSets, Naturals

CONSTANTS
  Run,       \* places for a running script
  Sample,    \* the samples, each named by its sha256
  Rule,      \* the rule codes
  Build,     \* the builds of the scanner
  Says,      \* Says[b][s]: the rules b reports on s, as collected and as shipped
  OnDisk,    \* the samples whose collected bytes are on this machine
  Begin,     \* the index there may be to begin with
  Menus,     \* which scripts, places and people are at work together
  Absent,    \* no row, no entry
  Nobody     \* nobody holds the locks of both halves

Half == {"published", "local"}
Kind == {"rule-gap", "detected-not-shippable", "unverified"}

\* A row: its verdict, whether the gate lets it ship, and its expect block.
\* A row that is no known miss has no kind, and one nobody classified neither.
Row == [malicious : BOOLEAN, publishable : BOOLEAN, must : SUBSET Rule,
        miss : BOOLEAN, kind : Kind \cup {"<unclassified>"}]

\* What the rules side recorded when it measured: where the row was, whether
\* anything blocked it, and what fired.
Entry == [half : Half, blocked : BOOLEAN, now : SUBSET Rule]

\* The part of expect a manifest repeats.
Claim == [must : SUBSET Rule, miss : BOOLEAN]

\* What every row of the index keeps to, and closed_expect and apply_half with
\* it: a known miss expects no rule, and a row that is none has no kind.
SaysOneThing(row) ==
  (row.miss => row.must = {}) /\ (~row.miss => row.kind = "<unclassified>")

Script == {"promote", "refresh", "classify", "publish", "manifest"}

ASSUME HandoffAssumption ==
  /\ Says \in [Build -> [Sample -> [source : SUBSET Rule, shipped : SUBSET Rule]]]
  /\ OnDisk \subseteq Sample
  /\ Begin \subseteq [Half -> [Sample -> Row \cup {Absent}]]
  /\ \A i \in Begin : \A h \in Half : \A s \in Sample :
       i[h][s] # Absent => SaysOneThing(i[h][s])
  /\ Absent \notin Row \cup Entry \cup Claim
  /\ Nobody \notin Run \cup {"reader"}

VARIABLES
  menu,      \* who is at work in this behaviour
  index,     \* the two halves
  pending,   \* pending-promotions.jsonl
  owed,      \* history: what was handed over and is not closed yet
  manifest,  \* the stage: the entries of its MANIFEST.json
  tracked,   \* corpus/expect: the tracked copy of them
  shards,    \* the shards packed from the stage
  build,     \* the scanner there is now
  locked,    \* who holds the locks of both halves from one step to the next
  job        \* what each script is doing

handoffVars ==
  <<menu, index, pending, owed, manifest, tracked, shards, build, locked, job>>

Nowhere == [s \in Sample |-> Absent]
AtRest == [op |-> "none", pc |-> "idle", rows |-> Nowhere, entries |-> Nowhere,
           claims |-> Nowhere]
Job == [op : Script \cup {"none"},
        pc : {"idle", "published", "local", "pending", "manifest", "tracked"},
        rows : [Sample -> Row \cup {Absent}],
        entries : [Sample -> Entry \cup {Absent}],
        claims : [Sample -> Claim \cup {Absent}]]

Held(f) == {s \in Sample : f[s] # Absent}
ClaimOf(r) == [must |-> r.must, miss |-> r.miss]

HandoffInit ==
  /\ menu \in Menus
  /\ index \in Begin
  /\ pending = Nowhere /\ owed = {}
  /\ manifest = [s \in Sample |-> IF index["published"][s] = Absent THEN Absent
                                  ELSE ClaimOf(index["published"][s])]
  /\ tracked = manifest /\ shards = manifest
  /\ build \in Build
  /\ locked = Nobody
  /\ job = [r \in Run |-> AtRest]

---------------------------------------------------------------------------
(* How a script starts, goes on and ends.                                  *)

At(r, op, pc) == job[r].op = op /\ job[r].pc = pc
Starts(r, j) == /\ job[r] = AtRest /\ {r, j.op} \subseteq menu
                /\ job' = [job EXCEPT ![r] = j]
Goes(r, pc) == job' = [job EXCEPT ![r].pc = pc]
Ends(r) == job' = [job EXCEPT ![r] = AtRest]

\* The lock of a half, from its read to its rewrite: nobody holds both halves.
Unlocked == locked = Nobody

---------------------------------------------------------------------------
(* promote-pending.                                                        *)

\* Mutant: the kind stays on the row.
Closed_KeepsKind(r, rules) == [r EXCEPT !.must = rules, !.miss = FALSE]

\* closed_expect: the block a closed miss is given.
Closed(r, rules) == [r EXCEPT !.must = rules, !.miss = FALSE,
                              !.kind = "<unclassified>"]

\* check_rules over the file the shard carries.
Measured(s) == Says[build][s].shipped

\* adjudicate: neither deferred nor refused.
Promotes(s) ==
  /\ pending[s] # Absent
  /\ ~pending[s].blocked /\ pending[s].half = "published"
  /\ index["published"][s] # Absent
  /\ index["published"][s].malicious
  /\ index["published"][s].publishable
  /\ index["published"][s].miss
  /\ manifest[s] # Absent
  /\ Measured(s) # {} /\ Measured(s) = pending[s].now

\* Mutant: the pending row is removed with the decision, before the index.
PromoteLook_ForgetsFirst(r) ==
  LET done == {s \in Sample : Promotes(s)}
      rows == [s \in Sample |-> IF s \in done
                THEN Closed(index["published"][s], Measured(s)) ELSE Absent]
  IN /\ done # {}
     /\ Starts(r, [AtRest EXCEPT !.op = "promote", !.pc = "published",
                                 !.rows = rows])
     /\ pending' = [s \in Sample |-> IF s \in done THEN Absent ELSE pending[s]]
     /\ UNCHANGED <<menu, index, owed, manifest, tracked, shards, build, locked>>

\* adjudicate over the whole file, before any lock.
PromoteLook(r) ==
  LET done == {s \in Sample : Promotes(s)}
      rows == [s \in Sample |-> IF s \in done
                THEN Closed(index["published"][s], Measured(s)) ELSE Absent]
  IN /\ done # {}
     /\ Starts(r, [AtRest EXCEPT !.op = "promote", !.pc = "published",
                                 !.rows = rows])
     /\ UNCHANGED <<menu, index, pending, owed, manifest, tracked, shards,
                    build, locked>>

\* The half re-read under its lock: the decided expect on the rows decided, or
\* nothing at all when one of them has gone.
PromoteWrite(r) ==
  LET done == Held(job[r].rows)
      told(s) == job[r].rows[s]
      all == done \subseteq Held(index["published"])
  IN /\ At(r, "promote", "published") /\ Unlocked
     /\ \/ /\ all
           /\ index' = [index EXCEPT !["published"] = [s \in Sample |->
                          IF s \in done
                            THEN [@[s] EXCEPT !.must = told(s).must,
                                    !.miss = told(s).miss, !.kind = told(s).kind]
                            ELSE @[s]]]
           /\ owed' = owed \ done
           /\ Goes(r, "pending")
        \/ ~all /\ Ends(r) /\ UNCHANGED <<index, owed>>
     /\ UNCHANGED <<menu, pending, manifest, tracked, shards, build, locked>>

\* The pending file re-read under its lock, without the rows applied.
PromoteForget(r) ==
  /\ At(r, "promote", "pending")
  /\ pending' = [s \in Sample |-> IF s \in Held(job[r].rows) THEN Absent
                                  ELSE pending[s]]
  /\ Ends(r)
  /\ UNCHANGED <<menu, index, owed, manifest, tracked, shards, build, locked>>

\* refreshed: where the row is now and whether anything blocks it, or what was
\* recorded when the index has lost the row.
Refreshed(s) ==
  LET half == IF index["published"][s] # Absent THEN "published" ELSE "local"
  IN IF pending[s] = Absent \/ index[half][s] = Absent THEN pending[s]
     ELSE [pending[s] EXCEPT !.half = half,
                             !.blocked = ~index[half][s].publishable]

\* refresh reads the three files, and writes what it made of them under the
\* lock of the one it writes, which it does not read again.
RefreshLook(r) ==
  /\ Held(pending) # {}
  /\ Starts(r, [AtRest EXCEPT !.op = "refresh", !.pc = "pending",
                    !.entries = [s \in Sample |-> Refreshed(s)]])
  /\ UNCHANGED <<menu, index, pending, owed, manifest, tracked, shards, build,
                 locked>>

RefreshWrite(r) ==
  /\ At(r, "refresh", "pending")
  /\ pending' = job[r].entries
  /\ Ends(r)
  /\ UNCHANGED <<menu, index, owed, manifest, tracked, shards, build, locked>>

---------------------------------------------------------------------------
(* classify-known-miss.                                                    *)

\* classify and measure: the kind of a known miss, over the collected bytes.
\* A sample that fires and ships is refused: it is a promotion.
KindOf(s) ==
  IF s \notin OnDisk THEN "unverified"
  ELSE IF Says[build][s].source = {} THEN "rule-gap"
  ELSE IF shards[s] # Absent THEN Absent
  ELSE "detected-not-shippable"

ClassifyLook(r) ==
  LET miss(h, s) == index[h][s] # Absent /\ index[h][s].miss
      seen(s) == IF miss("published", s) THEN index["published"][s]
                 ELSE index["local"][s]
      rows == [s \in Sample |->
                IF (\E h \in Half : miss(h, s)) /\ KindOf(s) # Absent
                  THEN [seen(s) EXCEPT !.kind = KindOf(s)] ELSE Absent]
  IN /\ Held(rows) # {}
     /\ Starts(r, [AtRest EXCEPT !.op = "classify", !.pc = "published",
                                 !.rows = rows])
     /\ UNCHANGED <<menu, index, pending, owed, manifest, tracked, shards,
                    build, locked>>

\* Mutant: the rows measured are written as they were seen.
Kinded_AsSeen(row, decided) ==
  IF row = Absent \/ decided = Absent THEN row ELSE decided

\* apply_half: only onto a row that is still a known miss.
Kinded(row, decided) ==
  IF row = Absent \/ decided = Absent THEN row
  ELSE IF ~row.miss THEN row
  ELSE [row EXCEPT !.kind = decided.kind]

\* The published half, then the local half, each under its own lock.
ClassifyWrite(r, h) ==
  /\ At(r, "classify", h) /\ Unlocked
  /\ index' = [index EXCEPT ![h] =
                 [s \in Sample |-> Kinded(@[s], job[r].rows[s])]]
  /\ IF h = "published" THEN Goes(r, "local") ELSE Ends(r)
  /\ UNCHANGED <<menu, pending, owed, manifest, tracked, shards, build, locked>>

---------------------------------------------------------------------------
(* publish-rows, make-shard-manifest.                                      *)

\* adjudicate: in the local half, not in the other, publishable and staged.
PublishLook(r, s) ==
  /\ index["local"][s] # Absent /\ index["published"][s] = Absent
  /\ index["local"][s].publishable /\ manifest[s] # Absent
  /\ Starts(r, [AtRest EXCEPT !.op = "publish", !.pc = "published",
                    !.rows[s] = index["local"][s]])
  /\ UNCHANGED <<menu, index, pending, owed, manifest, tracked, shards, build,
                 locked>>

\* apply_move: both locks, the row it looked at into the published half...
PublishWrite(r) ==
  /\ At(r, "publish", "published") /\ Unlocked
  /\ index' = [index EXCEPT !["published"] = [s \in Sample |->
                 IF @[s] = Absent THEN job[r].rows[s] ELSE @[s]]]
  /\ locked' = r /\ Goes(r, "local")
  /\ UNCHANGED <<menu, pending, owed, manifest, tracked, shards, build>>

\* ...and out of the local half.
PublishRemove(r) ==
  /\ At(r, "publish", "local")
  /\ index' = [index EXCEPT !["local"] = [s \in Sample |->
                 IF job[r].rows[s] # Absent THEN Absent ELSE @[s]]]
  /\ locked' = Nobody /\ Ends(r)
  /\ UNCHANGED <<menu, pending, owed, manifest, tracked, shards, build>>

\* build: what the published row expects, or the old entry when no row joins it.
ManifestLook(r) ==
  /\ Held(manifest) # {}
  /\ Starts(r, [AtRest EXCEPT !.op = "manifest", !.pc = "manifest",
       !.claims = [s \in Sample |->
          IF manifest[s] = Absent \/ index["published"][s] = Absent
            THEN manifest[s] ELSE ClaimOf(index["published"][s])]])
  /\ UNCHANGED <<menu, index, pending, owed, manifest, tracked, shards, build,
                 locked>>

ManifestWrite(r) ==
  /\ At(r, "manifest", "manifest")
  /\ manifest' = job[r].claims
  /\ Goes(r, "tracked")
  /\ UNCHANGED <<menu, index, pending, owed, tracked, shards, build, locked>>

TrackedWrite(r) ==
  /\ At(r, "manifest", "tracked")
  /\ tracked' = job[r].claims
  /\ Ends(r)
  /\ UNCHANGED <<menu, index, pending, owed, manifest, shards, build, locked>>

---------------------------------------------------------------------------
(* The people, the rules side and the other tools.                         *)

\* The rules side measured a known miss that fires, on the bytes it has, and
\* adds it to the file with where the row is and whether anything blocks it.
HandOver(s, bytes) ==
  LET half == IF index["published"][s] # Absent THEN "published" ELSE "local"
      row == index[half][s]
  IN /\ "handoff" \in menu
     /\ pending[s] = Absent /\ row # Absent
     /\ row.miss /\ Says[build][s][bytes] # {}
     /\ pending' = [pending EXCEPT ![s] =
          [half |-> half, blocked |-> ~row.publishable,
           now |-> Says[build][s][bytes]]]
     /\ owed' = owed \cup {s}
     /\ UNCHANGED <<menu, index, manifest, tracked, shards, build, locked, job>>

\* The scanner is rebuilt.
Rebuild(b) ==
  /\ "rebuild" \in menu /\ b # build
  /\ build' = b
  /\ UNCHANGED <<menu, index, pending, owed, manifest, tracked, shards, locked,
                 job>>

\* The gate finds, or stops finding, a reason the row may not ship.
Gate(h, s) ==
  /\ "gate" \in menu /\ Unlocked /\ index[h][s] # Absent
  /\ index' = [index EXCEPT ![h][s].publishable = ~@]
  /\ UNCHANGED <<menu, pending, owed, manifest, tracked, shards, build, locked,
                 job>>

\* A sample of the local half enters the stage, with what its row expects.
Stage(s) ==
  /\ "stage" \in menu
  /\ manifest[s] = Absent /\ index["local"][s] # Absent
  /\ manifest' = [manifest EXCEPT ![s] = ClaimOf(index["local"][s])]
  /\ UNCHANGED <<menu, index, pending, owed, tracked, shards, build, locked, job>>

\* The shards are packed from the stage.
Pack ==
  /\ "pack" \in menu /\ shards # manifest
  /\ shards' = manifest
  /\ UNCHANGED <<menu, index, pending, owed, manifest, tracked, build, locked,
                 job>>

\* Another tool takes the locks of both halves, and lets them go.
Borrow == Unlocked /\ locked' = "reader"
GiveBack == locked = "reader" /\ locked' = Nobody
OtherTool ==
  /\ Borrow \/ GiveBack
  /\ UNCHANGED <<menu, index, pending, owed, manifest, tracked, shards, build,
                 job>>

\* A script dies where it is; the kernel drops its locks.
Dies(r) ==
  /\ job[r] # AtRest
  /\ Ends(r)
  /\ locked' = IF locked = r THEN Nobody ELSE locked
  /\ UNCHANGED <<menu, index, pending, owed, manifest, tracked, shards, build>>

Promote(r) == PromoteLook(r) \/ PromoteWrite(r) \/ PromoteForget(r)
Refresh(r) == RefreshLook(r) \/ RefreshWrite(r)
Classify(r) == ClassifyLook(r) \/ \E h \in Half : ClassifyWrite(r, h)
Publish(r) == (\E s \in Sample : PublishLook(r, s)) \/ PublishWrite(r)
              \/ PublishRemove(r)
Manifest(r) == ManifestLook(r) \/ ManifestWrite(r) \/ TrackedWrite(r)
People ==
  \/ \E s \in Sample : \E bytes \in {"source", "shipped"} : HandOver(s, bytes)
  \/ \E b \in Build : Rebuild(b)
  \/ \E h \in Half : \E s \in Sample : Gate(h, s)
  \/ \E s \in Sample : Stage(s)
  \/ Pack

HandoffStep ==
  \/ \E r \in Run : \/ Promote(r) \/ Refresh(r) \/ Classify(r) \/ Publish(r)
                    \/ Manifest(r) \/ Dies(r)
  \/ People
HandoffNext == HandoffStep \/ OtherTool

Handoff == HandoffInit /\ [][HandoffNext]_handoffVars

---------------------------------------------------------------------------
(* What holds.                                                             *)

HandoffTypeOK ==
  /\ menu \in Menus
  /\ index \in [Half -> [Sample -> Row \cup {Absent}]]
  /\ pending \in [Sample -> Entry \cup {Absent}]
  /\ owed \subseteq Sample
  /\ manifest \in [Sample -> Claim \cup {Absent}]
  /\ tracked \in [Sample -> Claim \cup {Absent}]
  /\ shards \in [Sample -> Claim \cup {Absent}]
  /\ build \in Build
  /\ locked \in Run \cup {"reader", Nobody}
  /\ job \in [Run -> Job]

\* A row says one thing of its sample: a known miss expects no rule, and a row
\* that is none carries no kind, whichever of promotion, classification and
\* publication measured first and wrote last.
ExpectSaysOneThing ==
  \A h \in Half : \A s \in Held(index[h]) : SaysOneThing(index[h][s])

\* A row leaves the pending file only when the index has it closed, whatever
\* dies in between.  (The rewrite of --refresh is the exception: see below.)
OwedWorkIsKept ==
  [][\A s \in Sample :
       pending[s] # Absent /\ pending'[s] = Absent
       /\ ~(\E r \in Run : At(r, "refresh", "pending") /\ job'[r] = AtRest
                           /\ pending' = job[r].entries)
       => s \notin owed]_handoffVars

\* What the file is documented to mean: when there is no row in it (the last
\* one takes the file with it), nothing is owed.
AbsentMeansNoneOwed == Held(pending) = {} => owed = {}

\* A miss that was closed stays closed: no script that measured the row while
\* it was a miss may write its measurement over the promotion.
ClosedStaysClosed ==
  [][\A s \in Held(index["published"]) :
       ~index["published"][s].miss =>
         index'["published"][s] # Absent /\ ~index'["published"][s].miss]_handoffVars
=============================================================================
