-------------------------------- MODULE Rerun --------------------------------
(***************************************************************************)
(* The golden suite.  verify.py reads the index, the summary and the       *)
(* shards, one after the other, and has the scanner read every shipped     *)
(* sample, every carrier that must stay silent, every pinned false         *)
(* positive, and then the benign trees in one scan.  The host may refuse   *)
(* any of these reads, somebody may rebuild the scanner or take up a row   *)
(* meanwhile, and the suite must not call that a result.                   *)
(***************************************************************************)
EXTENDS FiniteSets, Integers

CONSTANTS
  Row,       \* the reviewed malicious samples
  Rule,      \* the rule codes
  Want,      \* Want[r]: the rules the row of r expects
  Carrier,   \* the members of a shard that must not be detected
  Fixture,   \* the files pinned after a false positive
  KnownFP,   \* those of them the scanner is known to fire on still
  Pinned,    \* the rules a fixture must not fire
  File,      \* the files in the benign trees, the fixtures among them
  Oversize,  \* those the scanner declines
  Build,     \* the scanners that get built
  Fires,     \* Fires[b][x]: the rules build b fires on x
  Becomes,   \* Becomes[r]: what a review may make of the row of r
  Accounts,  \* the builds whose report says what a scan left out
  NoRun, NoVerdict

ASSUME RerunAssumption ==
  /\ Want \in [Row -> (SUBSET Rule) \ {{}}]
  /\ Fixture \subseteq File /\ KnownFP \subseteq Fixture /\ Oversize \subseteq File
  /\ Becomes \in [Row -> SUBSET {"held", "expected", "known"}]
  /\ Pinned \subseteq Rule /\ Accounts \subseteq Build
  /\ Fires \in [Build -> [Row \cup Carrier \cup File -> SUBSET Rule]]
  /\ Row \cap Carrier = {} /\ (Row \cup Carrier) \cap File = {}
  /\ IsFiniteSet(Carrier) /\ IsFiniteSet(File)

VARIABLES
  kind,      \* a row is held back, expects its rules, or is a known miss
  shipped,   \* the rows whose bytes are in a shard
  runnable,  \* what the summary says is detected and can be run
  build,     \* the scanner that is built
  run,       \* what the suite is doing
  verdict    \* what it said last

rerunVars == <<kind, shipped, runnable, build, run, verdict>>
kept == <<kind, shipped, runnable, build>>

Expected(kinds) == {r \in Row : kinds[r] = "expected"}
Executed(kinds) == {r \in Row : kinds[r] # "held"}

---------------------------------------------------------------------------
(* The surroundings.                                                       *)

\* A review holds a row back, or takes it up with what the scanner does with it.
Review(r) ==
  /\ \E k \in Becomes[r] : k # kind[r] /\ kind' = [kind EXCEPT ![r] = k]
  /\ UNCHANGED <<shipped, runnable, build, run, verdict>>

\* The shards are written anew from the rows that may be published.
Pack ==
  /\ shipped' = Executed(kind)
  /\ UNCHANGED <<kind, runnable, build, run, verdict>>

\* make-summary: malicious_detected_runnable.
Summarise ==
  /\ runnable' = Cardinality(Expected(kind))
  /\ UNCHANGED <<kind, shipped, build, run, verdict>>

Rebuild ==
  /\ \E b \in Build \ {build} : build' = b
  /\ UNCHANGED <<kind, shipped, runnable, run, verdict>>

---------------------------------------------------------------------------
(* What one check establishes.                                             *)

\* Mutant: no rules printed is no rules fired.
Check_ByItsRules(x, read) ==
  IF ~read \/ Fires[build][x] = {} THEN [outcome |-> "clean", rules |-> {}]
  ELSE [outcome |-> "detected", rules |-> Fires[build][x]]

\* classify_check: from the exit code.  A file nobody read is an error.
Check(x, read) ==
  IF ~read THEN [outcome |-> "error", rules |-> {}]
  ELSE [outcome |-> IF Fires[build][x] = {} THEN "clean" ELSE "detected",
        rules |-> Fires[build][x]]

\* The loop over the shipped samples.
Scored(k, want, chk) ==
  IF chk.outcome = "error" THEN "unscanned"
  ELSE IF k = "known"
       THEN IF chk.rules = {} THEN "still missed" ELSE "newly detected"
       ELSE IF chk.rules = want THEN "exact"
            ELSE IF chk.rules = {} THEN "missed" ELSE "wrong rule"

Silent(chk) ==
  IF chk.outcome = "error" THEN "unscanned"
  ELSE IF chk.rules = {} THEN "clean" ELSE "false positive"

\* A known false positive that still fires is expected.
Fixed(f, chk) ==
  IF chk.outcome = "error" THEN "unscanned"
  ELSE IF f \in KnownFP
       THEN IF chk.rules \cap Pinned # {} THEN "still firing" ELSE "newly fixed"
       ELSE IF chk.rules \cap Pinned # {} THEN "regressed" ELSE "quiet"

Failure == {"absent", "unscanned", "missed", "wrong rule", "false positive",
            "unresolved", "regressed"}

---------------------------------------------------------------------------
(* The scan of the trees.                                                  *)

\* What the host let the scan do: the files it withheld, those behind a name
\* that could not be listed, and whether the scan ran to its end.
Report(withheld, unlisted, ended) ==
  [reached  |-> File \ unlisted, unreadable |-> withheld,
   says     |-> build \in Accounts, gap |-> unlisted # {}, ended |-> ended,
   matched  |-> {f \in File \ (unlisted \cup withheld \cup Oversize) :
                   Fires[build][f] # {}}]

\* Mutant: a file the host withheld is one file less.
Refused_ByTheWalk(report) == ~report.says \/ report.gap \/ ~report.ended

\* coverage_refusal: a channel is not there, a name was not listed, the scan was
\* interrupted, or a file was withheld.
Refused(report) ==
  ~report.says \/ report.gap \/ ~report.ended \/ report.unreadable # {}

\* files_read: what was reached and neither declined nor withheld.
FilesRead(report) ==
  Cardinality(report.reached)
    - Cardinality(report.reached \cap Oversize) - Cardinality(report.unreadable)

---------------------------------------------------------------------------
(* verify.py                                                               *)

Figure(is, files, fp) == [is |-> is, files |-> files, fp |-> fp]

Things == Row \cup Carrier \cup Fixture

\* The index is read.
Start ==
  /\ run = NoRun
  /\ run' = [pc |-> "summary", rows |-> kind, runnable |-> 0, dirs |-> {},
             score |-> [x \in Things |-> "not yet"], read |-> {}, builds |-> {},
             figure |-> Figure("none", 0, 0), swept |-> {}]
  /\ verdict' = NoVerdict
  /\ UNCHANGED kept

ReadSummary ==
  /\ run # NoRun /\ run.pc = "summary"
  /\ run' = [run EXCEPT !.pc = "unpack", !.runnable = runnable]
  /\ UNCHANGED <<kept, verdict>>

\* unpack_shards: a shard that will not unpack ends the run.
Unpack ==
  /\ run # NoRun /\ run.pc = "unpack"
  /\ \/ run' = [run EXCEPT !.pc = "check", !.dirs = shipped]
     \/ run' = NoRun
  /\ UNCHANGED <<kept, verdict>>

Put(x, what) == run' = [run EXCEPT !.score = [run.score EXCEPT ![x] = what]]
Gives(x, what, read) ==
  run' = [run EXCEPT !.score = [run.score EXCEPT ![x] = what],
                     !.read = IF read THEN run.read \cup {x} ELSE run.read,
                     !.builds = run.builds \cup {build}]

\* A held row is counted and left; one that is in no shard is a failure.
CheckRow(r) ==
  /\ run # NoRun /\ run.pc = "check" /\ run.score[r] = "not yet"
  /\ CASE run.rows[r] = "held" -> Put(r, "not shipped")
       [] run.rows[r] # "held" /\ r \notin run.dirs -> Put(r, "absent")
       [] OTHER -> \E read \in BOOLEAN :
            Gives(r, Scored(run.rows[r], Want[r], Check(r, read)), read)
  /\ UNCHANGED <<kept, verdict>>

CheckCarrier(c) ==
  /\ run # NoRun /\ run.pc = "check" /\ run.score[c] = "not yet"
  /\ \A r \in Row : run.score[r] # "not yet"
  /\ \E read \in BOOLEAN : Gives(c, Silent(Check(c, read)), read)
  /\ UNCHANGED <<kept, verdict>>

\* A fixture is looked for by its hash in the trees.
CheckFixture(f) ==
  /\ run # NoRun /\ run.pc = "check" /\ run.score[f] = "not yet"
  /\ \A x \in Row \cup Carrier : run.score[x] # "not yet"
  /\ \/ \E read \in BOOLEAN : Gives(f, Fixed(f, Check(f, read)), read)
     \/ Put(f, "unresolved")
  /\ UNCHANGED <<kept, verdict>>

\* benign_sweep and benign_figures: the figure, or its refusal, which is also
\* what a scanner that writes no report gets.  With --skip-benign, or with no
\* trees on disk, there is neither.
Sweep ==
  /\ run # NoRun /\ run.pc = "check"
  /\ \A x \in Things : run.score[x] # "not yet"
  /\ \/ \E withheld, unlisted \in SUBSET File, ended \in BOOLEAN :
          LET report == Report(withheld \ (unlisted \cup Oversize), unlisted, ended)
          IN run' = [run EXCEPT !.pc = "say", !.builds = run.builds \cup {build},
               !.swept = report.reached \ (withheld \cup Oversize),
               !.figure = IF Refused(report) THEN Figure("refused", 0, 0)
                          ELSE Figure("given", FilesRead(report),
                                      Cardinality(report.matched))]
     \/ run' = [run EXCEPT !.pc = "say", !.figure = Figure("refused", 0, 0)]
     \/ run' = [run EXCEPT !.pc = "say"]
  /\ UNCHANGED <<kept, verdict>>

Detected == {r \in Row : run.score[r] \in {"exact", "wrong rule"}}

\* The benign samples, carriers and trees together, and those that fired.
Benign ==
  LET count(what) == Cardinality({c \in Carrier : run.score[c] \in what})
      fired == count({"false positive"})
  IN Figure(run.figure.is, fired + count({"clean"}) + run.figure.files,
            fired + run.figure.fp)

\* reconcile: as many detected as the summary says can be.
Reconciles(n) == n = run.runnable

\* The figures and the exit code.
Say ==
  /\ run # NoRun /\ run.pc = "say"
  /\ verdict' =
       [green  |-> /\ \A x \in Things : run.score[x] \notin Failure
                   /\ Reconciles(Cardinality(Detected)) /\ run.figure.is # "refused",
        rows |-> run.rows, read |-> run.read, builds |-> run.builds,
        runnable |-> run.runnable, swept |-> run.swept,
        figure |-> Benign]
  /\ run' = NoRun
  /\ UNCHANGED kept

---------------------------------------------------------------------------
RerunInit ==
  /\ kind \in [Row -> {"held", "expected", "known"}]
  /\ \A r \in Row : kind[r] \in Becomes[r]
  /\ shipped = Executed(kind) /\ runnable = Cardinality(Expected(kind))
  /\ build \in Build
  /\ run = NoRun /\ verdict = NoVerdict

Suite == \/ Start \/ ReadSummary \/ Unpack \/ Sweep \/ Say
         \/ \E r \in Row : CheckRow(r)
         \/ \E c \in Carrier : CheckCarrier(c)
         \/ \E f \in Fixture : CheckFixture(f)

RerunNext == \/ \E r \in Row : Review(r)
             \/ Pack \/ Summarise \/ Rebuild
             \/ Suite

Rerun == RerunInit /\ [][RerunNext]_rerunVars
---------------------------------------------------------------------------
(* What holds.                                                             *)

\* A green run was earned: the scanner read every member it was scored on, and
\* when one build did all the work, that build fires on each sample that
\* expects it just the rules its row names, is silent on every carrier, and
\* detects as many as the summary counts.  A refused read, a row taken up
\* meanwhile or a summary of another day cannot be part of it.
GreenIsEarned ==
  verdict # NoVerdict /\ verdict.green =>
    /\ Executed(verdict.rows) \cup Carrier \cup Fixture \subseteq verdict.read
    /\ Cardinality(Expected(verdict.rows)) = verdict.runnable
    /\ \A b \in Build : verdict.builds = {b} =>
         /\ \A r \in Expected(verdict.rows) : Fires[b][r] = Want[r]
         /\ \A c \in Carrier : Fires[b][c] = {}

\* A false-positive figure is over the trees: every file in them was read, or is
\* one the scanner declines on any host, and the denominator is the files read
\* and the carriers read.  "A file that has not been read cannot be clean" (verify.py).
FigureIsOverTheTrees ==
  verdict # NoVerdict /\ verdict.figure.is = "given" =>
    /\ verdict.swept = File \ Oversize
    /\ verdict.figure.files
         = Cardinality(verdict.swept) + Cardinality(Carrier \cap verdict.read)
=============================================================================
