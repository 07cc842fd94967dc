# lyxbosa in TLA+

lyxbosa walks a directory tree, matches every file and every archive member
against rules, moves what is hostile to a quarantine directory, and reports what
it did. These modules model the parts of it that keep state, the runs check them
on small instances, and the proof modules establish the main results for every
value of the constants. Paths below are relative to `src/`; `core/`, `archive/`
and the others are directories of `src/src-lib/cpp/`.

## 1. Inventory

| Component | Code | State it keeps | Operations |
|---|---|---|---|
| Scanner | `core/Scanner.cpp`, `ScanResult.h` | `ScanResult` (rows and counters), the container in hand (`archiveMemberHostile`, `memberRowsBegin/End`), `interrupted_` | `scan` and its `fileCallback`, the archive callbacks, `publishMembers`, `quarantineFile`, `scanFile` |
| Quarantine | `core/Quarantine.cpp` | two directories on disk | `moveWithoutReplacing`: refusing rename, else exclusive copy then unlink |
| File walker | `core/FileWalker.cpp` | `pending` stack, ancestor `chain`, `children`, coverage counters | `walk`, `walkDirectory`, `processEntry`, `countFiles`, filters and glob matching |
| Archive scanner | `archive/ArchiveScanner.cpp`, `ArchiveTypes.h` | `Stats`, `Budget`, nesting depth | `scan`, `scanZip`, `scanTar`, `scanSingleGzip`, `scanMemberBytes`, `countMembers` |
| Archive readers | `archive/ZipReader.cpp`, `TarReader.cpp`, `GzipSource.h` | a cursor in the bytes | `next`, `read` |
| Progress | `core/Scanner.cpp`, `infrastructure/ProgressModel.h` | `ScanProgress`, three atomics of the counting thread | count, publish, render |
| Match engine, analysis, rules | `core/MatchEngine.cpp`, `analysis/`, `rules/`, `patterns/` | none across files | match a buffer |
| Configuration | `config/Config.cpp`, `system/CliArgs.h` | the configuration | parse, validate |
| Commands | `src-cli/use-cases/`, `src-cli/lyxbosa.cpp` | `g_interrupted`, exit code | `scan`, `check`, `update`, `validate-config`, signal handler |
| Delivery and writers | `infrastructure/Delivery.h`, `infrastructure/report/` | what has reached the output | write, flush, close, rank the exit code |
| Update check | `update/UpdateCheck.cpp`, `UpdateState.cpp`, `UpdatePolicy.h` | state file, background worker | decide, reserve, fetch, wait, notify |
| Update apply | `update/UpdateApply.cpp`, `InstallPath.cpp` | the installed binary, the staged one, the one moved aside | verify, stage, replace, undo |
| Transport, cryptography | `update/HttpTransport.cpp`, `Minisign.cpp`, `Checksums.cpp` | none | fetch, verify |
| Corpus index | `corpus/indexio.py` and the scripts that import it | two JSONL files (published and local half), one `flock` each | import, confirm, review, tag, rewrite, publish, resolve, close, derive, summarise |
| Gate record | `corpus/shard-gate.py` (`evaluate`), `gate_provenance.py`, `clearance.py`, `mask-samples.py`, `verify-and-stamp.py`, `remeasure-gates.py`, `clear-finding.py`, `backfill-reason.py`, `lift-adjudication.py`, `mark-not-maskable.py`, `mark-legacy.py`, `keep-credential.py` | the `masking` block of a row, its clearances, `publishable`, `publish_blockers` | measure, stamp, sign, lift, keep, mark, compute whether the row may ship |
| Handoff | `promote-pending.py`, `classify-known-miss.py`, `publish-rows.py`, `make-shard-manifest.py` | `pending-promotions.jsonl`, each row's `expect`, the stage's manifest, the tracked copy of it | hand over, promote, refresh, classify, publish, write the manifest |
| Release checks | `make-summary.py`, `doc-figures.py`, `derived_db.py`, `pre-push-check.py`, `verify.py`, `shard-census.py` | `index-summary.json`, marked regions of two documents, a database | count, render, derive, open, check |
| Family review | `review-app.py`, `assign-family.py` | proposals and log of a session, in memory and in two files; `family` and `family_evidence` of a row | render, record, save, judge, apply, audit |
| Masking | `content_mask.py`, `verify-content-mask.py`, `secret-gate.py`, `regen-tiers.py`, `restage-masked.py` | the map of names with their widths, the masked bytes, what a row records of them | mask, measure, learn, regenerate, restage |
| Golden suite | `verify.py` | the score of each row, carrier and fixture; the sweep's report | unpack, check, sweep, reconcile, report |
| Corpus research | the other scripts of `corpus/` | none | count |

How they meet:

- `Scanner::scan` runs on one thread. It calls the walker, which calls
  `fileCallback` back once per regular file; `fileCallback` calls the archive
  scanner, which calls back once per member with findings.
- A second thread runs a walk of its own (`countFiles`) to learn the totals, and
  talks to the first through three atomics.
- Rows go to streaming report writers through `fileResultCallback_`; the same
  rows are retained in `result.files`. A writer cannot take a row back.
- The signal handler shares one flag with all of them (`g_interrupted`); the
  second signal calls `_Exit`.
- The file system is shared with everybody: other scanners, other programs, and a
  host that changes files between a stat, a read and a move.
- A background thread asks for the newest version while a command runs, and the
  state file that rations those questions is shared by all runs of the program.
- The corpus scripts are separate processes, run by several people and agents at
  once on the same files; they meet through the locks of `indexio.py` only, where they
  take them.
- The gates of `Masking` fill the record of `GateRecord`; `publishable` there is what
  `CorpusIndex` and `Handoff` ask before a row moves; the rows that `Handoff` moves and
  closes are what `Release checks` counts and `Golden suite` runs; the benign trees and
  the shards are scanned by the scanner of the first rows of this table.

What is hard, and what has to hold:

- **Scanner.** A member's row is found before its container's fate is known and
  must be published after it; every branch must keep, count and publish a row
  exactly once; five different places may see the interrupt first; the process may
  die between a move and the row that reports it. *Correct:* published rows are the
  retained ones and true of the disk at every instant; hostile content is moved or
  reported as not moved, and nothing else is moved; a file that was not read is
  counted; a scan that does not say it was interrupted is complete.
- **Quarantine.** Two movers, other creators, a crash between any two system calls,
  a copy that fails, an unlink that fails, links. *Correct:* no sample is lost,
  nothing in quarantine is written over, a reported move really contains.
- **Walker.** Links that lead back into the tree, directories that vanish or will
  not be listed, entries whose type the host refuses. *Correct:* the walk ends, no
  reachable file is lost, a walk that counts no gap has read everything.
- **Archive scanner.** Budgets spent across nested containers, an interrupt at any
  depth. *Correct:* a member not examined is counted once, budgets are never exceeded.
- **Progress.** Totals from one thread, progress from another. *Correct:* the count
  scanned does not pass the total.
- **Delivery.** The report's last byte can fail after the scan succeeded. *Correct:*
  exit code 0 only when the answer was delivered.
- **Update check.** The answer may arrive at the end of the grace period; several
  runs share the state file. *Correct:* the question is rationed, the notice is true.
- **Update apply.** A crash between moving the old binary aside and putting the new
  one in place. *Correct:* a runnable binary is at the installed path or beside it,
  and nothing unverified is ever installed.
- **Corpus index.** Decisions taken before the lock, whole-file rewrites by several
  processes, a move that is two writes, two locks. *Correct:* no sample is lost,
  nobody's row is overwritten, no deadly embrace, nothing uncleared is published, a
  database is derived from a whole index.

- **Gate record.** A dozen writers of one record, each deciding before it has the lock;
  tools and maps that are edited under them; decisions of people keyed to findings that
  are measured again. *Correct:* a result is its writer's own, a signature stays on what
  was signed, a decision is not lost, nothing becomes publishable unclean and unsigned.
- **Handoff.** Measurements that take minutes and are written afterwards, a scanner
  rebuilt in between, a death between two files. *Correct:* no promotion is lost, a
  closed row stays closed, a row says one thing.
- **Release checks.** Nearly all of it reads file after file without a lock while
  everything is being rewritten, some of it in place. *Correct:* what a check passed is
  so while nothing changed, the published split adds up, a stranger reproduces the
  published figure.
- **Family review.** Threads of a server that share lists without a lock, tabs that show
  what was decided elsewhere, sessions applied weeks later. *Correct:* a label rests on
  bytes that were read for it, is not the rule set under another name, and is given
  once.
- **Masking.** Maskers that work on each other's output, encodings one side opens and
  the other does not, a map rewritten without a lock. *Correct:* bytes that pass carry
  no name where the gates look, and the bytes vouched for are those that passed.
- **Golden suite.** A scanner that could not run prints what a clean file prints; the
  inputs change while it runs. *Correct:* a green run was earned, and a figure is over
  all the files it names.

The hazards, each at its line, with the properties that would notice, are in
`PROJECT.json`.

## 2. Order of the work

First the scanner, the code that touches a user's files: `Scan`, `Quarantine` with the
abstract `Custody`, `Walker`. Then the index that everything in `corpus/` is about:
`CorpusIndex` for its two files and locks. Then, one module each, what the scripts
promise to each other through it: `GateRecord`, `Handoff` with `Release` over it,
`Families`, `Masking`, `Rerun`. `Handoff` is both a component and the abstract
specification of what `Release` does to the index; `Masking` and `Rerun` share no state
and one run (`MCSuite`). A run is a question, and each composition has one.

What was taken first in each component is what a test cannot reach: two processes in an
order nobody wrote down, a death between two files, an answer that was true when it was
computed. What is left (section 8) is sequential, about data, or of the operating system.

## 3. Modules

| Module | Models | Composed with |
|---|---|---|
| `Scan` | `Scanner::scan` | takes the archive scanner, the move and the walk as nondeterministic answers |
| `Custody` | what quarantine owes, abstractly | instantiated by `Quarantine` |
| `Quarantine` | `quarantineFile`, `moveWithoutReplacing` (POSIX) | implements `Custody` |
| `Walker` | `walk`, `walkDirectory` | |
| `CorpusIndex` | the two halves, their locks, the scripts that move and rewrite rows | |
| `GateRecord` | what a row records of the gates, and all its writers | |
| `Handoff` | expectations, pending promotions, manifest | extended by `Release` |
| `Release` | summary, documents, database and the checks over them | every step is one of `Handoff` or leaves its variables alone |
| `Families` | the review server, `assign-family.py` | |
| `Masking` | the maskers, the gates, the map, the restaging | run beside `Rerun` in `MCSuite` |
| `Rerun` | `verify.py` | run beside `Masking` in `MCSuite` |
| `*Proofs` | theorems about the module named (`SuiteProofs`: `Masking` and `Rerun`) | extends it |
| `MC*` | constants of the small instances | extends it |

**Scan.** `pc` is the place in `fileCallback`: `walk` (between files), `members` (inside
`archiveScanner_.scan`, whose callbacks are `MemberFinding`), `decide` (the quarantine
decision), `publishMembers`, `publish`, then `walked` and `done`. `BeginFile` is the
part every branch shares (poll, resets); `ExcludedFile`, `UnreadableFile`,
`OversizeFile`, `LooseFile` and `OpenContainer` are the branches of
`Scanner.cpp:359-520`. `cur`, `memberHostile`, `first`, `last` are `fileResult`,
`archiveMemberHostile`, `memberRowsBegin + 1`, `memberRowsEnd`. A row keeps what decides
where it goes: what it matched, why it was skipped, what became of the bytes. `disk`,
`unread` and `passedOver` are not in the program: the first is the disk, the others are
histories of the files not wholly examined, and of those whose bytes a `FaultyRead` or a
container with `max_depth` 0 passes over. `Signal` is the handler, whose second call is
`_Exit`.

**Quarantine.** One action per system call, for any number of scanner processes that
want the same destination names. `vault[n]` is the name with disambiguator `n`. `Crash`
may come between any two calls. `OtherCreates` is a program beside us.

**Walker.** `pending`, `chain`, `children`, `counts` are the code's; a listing is read
entry by entry (`todo`), so that the flag, a removal or a failure comes between any two.
One action per kind of entry. The scenario (entries, identities the host gives,
listings that fail, options, roots) is chosen once.

**CorpusIndex.** A script is a path through steps: looks without a lock, decision, lock,
read, write, release. The paths are functions (`PublishPath`, `ResolvePath`,
`DerivePath`, ...), and one action per kind of step serves all scripts. What a script
decides is `Accepts` and `Decide`, what it writes `NewPublished` and `NewLocal`. A row
is its verdict, its tags and its hold. `importTree` and `importProbe` are the two
import scripts with the rows each makes (`TreeRows`, `ProbeRows`), `confirm` the
latter's second command, `tag` is `tag-sensitivity.py`,
`rewrite` the scripts that recompute fields no property tells apart
(`shard-gate.py --fix`, `drop-field.py`, `incident_mask.py`), `close` is
`resolve-benign.py --no-promote`. `review` stands for the operator's verdicts, written
under the same lock by scripts that are not in the repository (`SOURCES.md:108-115`
tells of them).

**GateRecord.** One row. Each script is a look without the lock (`...Look`: measure,
decide) and a write under it (`...Apply`: read the row again, test what the code tests
again, write); `job` is what the look left in the script's memory. A gate's result is
its verdict and the evidence beneath it; what version of the tools finds is the constant
`Says`, so that an edit of the tools or of a map (`EditTools`, `EditMap`) can change a
finding, keep it, or make it go away. `Blockers` and `Recomputed` are
`shard-gate.py`'s `evaluate` and `--fix`. `Loaded` is what a script that began before an
edit still has in memory, beside the digest it takes of the files on the disk.
`muddied` marks the writes of a stamp over results that were not measured under it,
which the code makes knowingly (section 7); it is a history variable. `Measures` and
`Measurer` say which gates a writer runs, and with what.

**Handoff.** A row is its verdict, whether it may ship, and its `expect` block. `Closed`
is `closed_expect`, `Kinded` is `apply_half`, `Refreshed` is `refreshed`. `HandOver` is
the rules side, which is not in the repository and writes the pending file. `owed` is a
history of what was handed over and is not closed. `locked` is held across steps by the
scripts that need both halves only; a script that needs one half re-reads and rewrites
it in one step.

**Release.** A reader goes file by file (`SummaryPublished`, `SummaryLocal`,
`SummaryOpen`, `SummaryDump`, ...): the summary and the documents are opened for
writing, which cuts them off (`Torn`), and then written. `Figures` are the counts the
documents quote, `Shown` what each marked region shows of them, `Renderable` and `Agree`
the refusals of `doc-figures.py`. `passed` are the checks that said yes with nothing
changed since they began to read, `disturbed` the readers under which something
changed: neither is in the program.

**Families.** `found` is what the collection yields for a sample when it is asked, which
need not be the bytes its row records: `SampleStore.get` hands over a file whose hash is
another with a note that nobody who looks for literals reads (`Here`, `Literals`). `seen`
is what the server read when it was started and has kept since; `CollectionChanges`
replaces files and takes them away. A marker is one of a few literals: that
`verify_markers` looks for it anywhere in the bytes, and the review among whole tokens, is
not told apart. `made` and `log` are the lists the server's threads share, `saved` and
`logged` how much of them the two files hold: a save takes its list (`SaveTake`) and
later renames its file into place (`SavePut`, `LogPut`), with other requests in
between. `Screens` are the clusters by rule set a page shows. `Apply` judges the
whole file as `assign-family.py` does (`Accepted` is its `validate`: `Mine` the rows a
session may still label, `Evidenced` the literals, `Determined` the test against the
rule sets, `Concentrated`), and `Audit` reads the index again.

**Masking.** A file is a set of the things it says that matter, each a value, the
place it stands in and the encodings around it. The masker is `Masked` (the secrets,
the names at their width, the slots, each over what the one before left), the gate
`Gate` and `SecretGate`: what either can open is `Reaches` and `Opens`, and no more is
shared by the two than in the code. An occurrence says which of its layers the gate
leaves shut, for the 32 it opens at a level and for bytes it has met before; places and
value sets say what the search between separators finds (`Contained`), and what the
second search, of the slots, adds (`Truncated`). `Mask`, `Cleared`, `Learn`, `TiersRead`,
`TiersWritten` and `RestageStart`..`RestageEnd` are the scripts.

**Rerun.** `run` is the suite's memory: the rows and the summary it read, the score of
each thing, the report of the sweep. Every check and the sweep may be answered by a
scanner that was rebuilt since, or by a host that refuses the read. `builds` is a
history of which scanners did the work.

## 4. Runs

| Run | Question | Answer |
|---|---|---|
| `scan` | what has been published is final and true of the disk whenever anybody can look; what is moved is hostile and what is hostile is moved or reported; what goes uncounted was passed over at one of three known lines | holds |
| `quarantine` | no sample lost or written over by racing, dying movers; every move ends; `Custody` is implemented | holds |
| `walk` | nothing lost or silently passed by; the walk ends, in every tree of three directories | holds |
| `corpus_index` | any two scripts, over and over, with busy locks and deaths: nothing lost, no embrace, nothing uncleared published, verdicts stand, a database is of a whole index, scripts end | holds |
| `gate_record` | any two writers of a record, with tools, maps and tags changing: results are their writer's own, signatures on what was signed, decisions kept, nothing publishable unclean and unsigned | holds |
| `release` | writers and readers of all that is published: no promotion lost, closed rows closed, one row says one thing; a check that passed undisturbed is true | holds |
| `families` | a live session, an earlier one, publication, files replaced: labels rest on what is read, are not rule sets, are given once | holds |
| `suite` | what two passed gates mean, restaged bytes are the gated ones, a green run was earned, a figure is over all its files | holds |
| `scan_unread` | every file not read in full has a skip or a gap | violated: section 7 |
| `quarantine_link_moved` | a reported move of a link contains what it leads to | violated |
| `corpus_tags` | a tagged row is not published | violated |
| `release_refresh` | an absent pending file means nothing is owed | violated |

### Bounds

- `Scan`: two files show what one leaves behind for the next; two members show a
  container whose members differ; there is no other memory across files. `scan` has each
  option on and off (`SomeOptions`) and each kind of finding alone (`OneFinding`): two
  kinds on one file decide nothing that two files do not. Both faults a read can meet
  after the walk's stat are in (`ReadFaults`), and `max_depth` 0. `scan_unread` has every
  combination of options and findings, and one member. Files are interchangeable.
- `Quarantine`: two movers are what a race needs; two files of one name and a link to
  one; a second candidate name is enough for the loop to run, fill and give up
  (`MaxAttempt = 1`; `kMaxDisambiguators` is 1000). One crash.
- `Walker`: three directories are the least with a loop that is neither a self-loop nor
  through the root. `MaxLinks = 2` stands for 40 and is not reached by the links of
  those trees. One removal.
- `CorpusIndex`: two scripts, each performing one operation after another without end.
  One sample: a lost update, a stale decision and a lock are all about one sample's row
  and one half, and a ruling over several samples is all-or-nothing on the same read.
  The theorems of section 6 cover any number of samples and scripts. The menu of
  `corpus_tags` is the five operations its counterexample needs to be chosen from, and
  `summary`, which would only double the states of the other run.
- `GateRecord`: one identifier gate stands for the two, whose code is one loop; with
  `secret_gate` and `detection_survived` the three ways a gate is treated are there. Two
  versions of the tools and of the map, with findings that change, stay, or go away
  between them. Two scripts are started: the hazard is always one write between
  another's look and write. With three the run ends without an error as well, after
  five minutes and 2.9 million states. It starts from every record an older tool
  may have left (`OldMaskings`). Symmetric slots; no liveness.
- `Release`: two samples, one published and one local, whose shipped and collected
  bytes fire different rules; two builds, two writers, two readers. A behaviour has one
  of eleven menus (`MCMenus`): which scripts and people are at work together. They are
  chosen so that each property meets every writer of every file it is about; all
  at once is out of reach. The theorems have any menu.
- `Families`: four samples on which two rules are expected, two each, and two literals
  in three each, which is the least population in which a label can follow the
  literals, or the rules, or neither; two of them can be published. The collection is in
  one of three states: as recorded, with one file replaced, with one gone (`Held`). One
  earlier session with what a race or an older
  version may have left in its file. One tab and one applier: the theorems have any
  number. One proposal in the live session.
- `suite`: seventeen occurrences in one piece, one for each way the masker and the gates
  differ, with those that no gate sees (`Unseen`); three names in the map, two that may
  be learned, three in the other map; one row that is held back or expected, one that is
  expected or a known miss, a carrier, a fixture, a file the scanner declines, two
  builds. The two modules share no state, so each is explored while the other stands at
  its initial states (`MaskingSide`, `RerunSide`).

### Fairness

`Quarantine`: each mover is scheduled until it is done; crashes and other programs
are not fair. `Walker`: the thread runs. `CorpusIndex`: a script that has begun is
scheduled (`Advance`); nobody has to begin one, and none has to get a lock: that
`RunEnds` holds all the same rests on the deadline in `index_lock`, as its mutant
without one shows. The other modules have safety properties only and state no fairness:
their scripts are begun by people, wait for nothing but those locks, and may stop
anywhere (their configurations do not check for deadlock).

## 5. Properties

Each is stated beside its module with the code it is about. They follow the hazards in
`PROJECT.json`; every property of a passing run is broken by a mutated definition of the
model that a plausible bug would produce (`PROJECT.json`, "mutants"). The mutated
definitions stand in the modules above the ones they replace and are used by nothing.

Two conventions need a word. Where the code accepts that a record is not true for a
while, the model says when: `muddied` in `GateRecord`, `disturbed` and `passed` in
`Release`. `SafePushIsTrue` is thus not "whatever was pushed is right", which no program
can promise that reads files others write; it says that with nothing changed under it
the verdict is about the files, whatever had been left half written, half published or
half counted before.
And `GreenIsEarned` speaks of what a scanner reports only for runs all of which one
build did; when it was rebuilt meanwhile, that every member was read is all that holds.

## 6. Theorems

All proofs are checked by TLAPS down to the last leaf. They assume the named ASSUMEs of
the modules (types of the constants, sentinels outside of the sets they stand beside,
finite sets where something is counted), and nothing about sizes. Three theorems have a
hypothesis of their own, stated in the theorem and justified below:
`TheWalkLosesNothing`, `TheWalkIsSilentOnlyWhenDone` and `TheSplitAddsUp`. The runs that
check these three properties satisfy them.

- **`ScanProofs`**. The inductive invariant `IInv` adds to the published properties where
  the file in hand is (`CurrentFile`), what the row range is at each place
  (`Positions`), whose rows are retained (`Ownership`), that the members in the range
  say why the container is hostile (`MembersKnown`) and that retained rows are true
  (`RetainedRowsAreTrue`). Without `Positions` a published prefix could be
  overwritten by `StampMembers`; without `MembersKnown` a move of a container could
  not be justified by its rows. From it: `TypeCorrect`, `PublicationIsFinal`,
  `PublicationIsTrue`, `QuarantineIsJustified`, `QuarantineIsComplete`,
  and `StreamKeepsUp` (between two files nothing retained is unpublished);
  `CompleteUnlessInterrupted` and `NothingBegunAfterTheFlag` have short arguments of
  their own. `OnlyPassedOverUncounted` compares a counter with the size of a history, so
  its invariant, `UnreadAccounted`, is that inequality while nobody has raised the flag,
  and that a scan which ends without noticing the flag ends without one: a container
  cut short by it has no count, and the scan's end says so instead. Each way a file
  can go unread is a step that adds one file and either at least one count or one file
  to those passed over; the step lemmas say so, and that findings and decisions leave
  these counts alone. It has no hypothesis: that something is passed over at all is the
  violation `scan_unread`.
- **`QuarantineProofs`**. `IInv` is types, `HoldsItsSource` (an open descriptor is of
  the sample behind the path), `OneMaker` and `EvidenceSurvives`. From it: no sample is
  lost, makers exclude each other, nothing is written over, a reported move contains,
  and the refinement `CustodyIsKept`: every system call is a step of `Custody` or a
  stutter.
- **`WalkerProofs`**. `WalkInv` is types, `Shape` (where the stack is empty), `Deepening`
  (depths do not decrease towards the top), `Ancestors` and `Straight`. The chain is one
  list that is cut and grown, and a stacked directory only remembers its depth;
  `Ancestors` says that whatever waits on the stack still finds the identities of its own
  path on the chain, which needs `Deepening`: between its push and its pop the chain is
  cut only for what lies at least as deep. So `resize` gives the ancestry
  (`ChainIsTheAncestry`), a directory already on the path is recognised, and no path
  goes through one twice (`NoLoopIsEntered`), for every file system, every choice of
  roots and every removal. `InterruptStops` needs no invariant.
  That nothing is lost is a statement about a search, and `SearchInv` says of it what
  textbooks say of depth-first search: every entry of every directory entered is still
  to be read (`BeingRead`) or was dealt with (`Dealt`), and a subdirectory that was
  dealt with has been entered, waits on the stack, is among the children in hand, or
  lies on the path that leads to it (`Followed`). `Rooted` makes every beginning of a
  path entered a path entered, `RootsTaken` and `AtTheEnd` do the same for the list of
  roots. When the stack is empty only "entered", "refused as a loop" and "counted" are
  left; the directories found by a path that takes none twice (`Found`) contain the
  roots and are closed under the subdirectories a reader sees, so they contain every
  set the definition of `Reachable` allows. This is the sentence of the code, "everything
  it refuses is being walked anyway and nothing is lost". It needs a hypothesis about
  the host, which resolves a path through at most `MaxLinks` links: `LinksResolve` asks
  that no path of the file system that takes no directory twice needs more, up to a
  link that leads off it. It is asked of the file system the walk starts with, not of the
  walk: `PathsAreReal` (each step of a path the walk holds is an entry of the directory
  before it) brings it to the paths the walk takes. Linux follows 40; with
  `MaxLinks = 1` the property fails, as section 7 says.
- **`CorpusIndexProofs`**. First the tables: at each step of each path, which locks are
  owned (`Owns`) and which copies may be relied on (`Relies`), with one lemma per
  kind of step. `Locking` says that the locks are who owns them and that a relied-on
  copy is the half as it is; that gives `NobodyEmbraces` and `RewritesTouchTheirOwn`.
  `MoveInv` says what stands of a script's samples at each step (`Claim`): decided on,
  published, indexed, peeked at, or read. The one write that takes rows away happens
  where the claim is "published", which gives `MovesLoseNothing`, and at the end of
  `derive` the claim is "whole", which gives `BuiltFromTheWholeIndex`.
  `PublishedRowsWereCleared` needs only that a publisher's decided rows passed the gate.
  `VerdictsStay` goes by the writes of the local half. Under its lock the copy a script
  makes its rows from is the half as it is (`Locking`). From there the scripts that
  close or resolve take only rows that are unreviewed in that copy, an import adds
  only what the copy has not, and a ruling that is not a first verdict changes tags
  and not the verdict (`NewLocalVerdict`, `RuledVerdict`): a review recorded after a
  script decided is seen.
- **`GateRecordProofs`**. `IInv` is types, the three invariants, `WellFormed` (what
  the evidence of a result can be, given who decided it) and `JobOK`: what a script
  carries from its look is, for each script, what its write relies on without asking
  again. `JobOK` is needed because every writer puts a block or a stamp on the row that
  was computed before the lock. Given `IInv`, each of `ClearancesStay`, `DecisionsStay`
  and `PublicationIsEarned` is a case analysis of the writers; so is `ResultsStayMeasured`,
  where what counts is that a writer changes the record it finds under the lock and
  not the one it looked at.
- **`ReleaseProofs`**. `HandoffInv` is types, `ExpectSaysOneThing` and `CarriedIsTrue`:
  a promotion carries closed rows, and once the index has them, they are closed there
  and owed no more. So the pending row may go, which is `OwedRowsAreKept`. `ReleaseInv`
  adds what an undisturbed reader has found out at each of its steps (`Found`) and what
  a check that passed goes on meaning (`Means`); a step that changes an input disturbs
  whoever reads, and a reader's own step extends what it has found. `SafePushHolds`
  and `FigureIsReproduced` are read off `Means`; the figure
  follows from the push check (document, summary and index agree), the suite (the rules
  recorded are those reported) and a lemma that the counted set is the same.
  `ReleaseImplementsHandoff`: `Release => Handoff`.
  `TheSplitAddsUp` cannot rest on the index a summary was made from, because there need
  not have been one: the two halves are read at different times. `SplitInv` is therefore
  about the rows. Every malicious row in a half, on its way into one or already read
  from one expects rules or is a known miss of one kind, never both and never neither
  (`AnswersInv` and, for what was read, `HoldsTrue`); the summary (`SumOK`) and the page
  (`Quoted`) inherit the balance. So any two halves balance, whatever moved, closed or
  was classified between the reads: `FourParts` and `FiguresBalance` count rows over
  finite sets and know nothing of time. The hypothesis, `Tells`, is that the rows there
  are to begin with are of this kind; the repository's own summary says they are
  (`corpus/index-summary.json:297`, `"malicious_no_expectation": 0`, which
  `make-summary.py:572-574` counts), and no modelled script makes a row that does not.
- **`SuiteProofs`**. `MaskingInv` says of every block, wherever it is held (on a row, in
  the memory of a restaging, vouched for), that it is what the gates said of the bytes
  it names. `RerunInv` says of a running suite what it has written down of each thing it
  scored (`Told`): that it was read, and that some build it used answered so.
- **`FamiliesProofs`**. Only an accepted session changes a row, and only the rows its
  decisions name, none of which had a label (`RowsChange`, `AppliedRows`); so labels are
  kept (`LabelsAreKept`). `Accepted` gives the evidence, which is of the collection as it
  is then and not as the review saw it (`LabelsAreReadNotTrusted`), and the pair of
  samples the scanner cannot tell apart, which no later session takes away.

Every safety invariant and every action property a passing run checks is stated by one
of these theorems. Liveness is model-checked and not proved (`MoveEnds`, `WalkEnds`,
`RunEnds`): TLAPS does not reason about ENABLED, and so not about weak
fairness.

## 7. Where the code and what is said of it part

With a run:

- `scan_unread`. Three ways for bytes to go unexamined with no counter that says so.
  `readFile` checks that the file opens and not that the read worked (`Scanner.cpp:773`,
  against `Scanner.h:108-110`); the rest of the buffer is matched as zeros. A file that
  grows past the size limit after the walk's stat is not read, by a branch that says only
  `check` can reach it (`Scanner.cpp:643-645`, 768): its row has the reason and the
  summary, which counts by the walk's answer (426), has no skip. With `max_depth = 0`, which
  is accepted, a container is neither opened nor counted (`ArchiveScanner.cpp:631`). That
  these are all is `UncountedWasPassedOver`, which holds.
- `quarantine_link_moved`. With `follow_symlinks` the hostile path may be a link; the
  link is moved and reported as the file (`Quarantine.cpp:220`, against
  `Quarantine.h:82-84`).
- `corpus_tags`. `publish-rows.py` decides before it has the locks and writes what it
  decided (lines 288-290, 174-175). A `pii` tag recorded meanwhile is not seen, and the
  row that carried it is dropped with the local half.
- `release_refresh`. `promote-pending.py --refresh` writes under the lock what it made
  of a read from before it (241-243, 265-270). A row added in between is dropped, and
  when the others are applied the file is unlinked with work owed; a promotion that
  ended in between is undone. Against lines 7-8 and `SOURCES.md:1442-1445`.

Seen while modelling, without a run of their own. Scanner:

- A directory behind one link more than the host follows is passed by without a count,
  although the link resolves by itself (`FileWalker.cpp:304`, against 280-284): with
  `MaxLinks = 1`, `SilentMeansComplete` fails.

Index and record:

- `resolve-benign.py:228-231` publishes every planned sample without asking its verdict
  again. A review between the plan and the lock leaves the row malicious in the local
  half and benign in the published one. When the second lock stays busy (line 252) the
  row is in both halves, as after a crash; its docstring speaks of the crash only.
- `import-upload-probe.py:435-439` asks the local half alone and can append a sample
  that is already published.
- `keep-credential.py:23-24`: "this tool can only ever make a row LESS publishable". On
  a masked row tagged `secret` whose secret gate was never recorded, the result it writes
  lifts one blocker (`shard-gate.py`, the gates a masked row owes) and the stamp it
  writes (lines 101-103) lifts the other; if the gate passed, nothing blocks the row any
  more. `KeepOnlyHolds` of `GateRecord` states the sentence, and fails in two steps.
- The stamp is replaced over results it did not measure: `keep-credential.py` runs one
  gate and stamps all, `verify-and-stamp.py:37-40` decides `--restamp` before the lock,
  and the digest is of the files on the disk, not of the code a running script loaded
  (`gate_provenance.py:46-47`). These are the writes that set `muddied`. What a stamp says
  is therefore not claimed to be true of the results under it; what is claimed is that
  the results are what some script measured (`ResultsAreMeasured`).
- `mask-samples.py` replaces a whole block, with the decisions made on it since it
  looked; `clear-finding.py` signs whatever finding is on the row when it writes.
- `definitely_stale` calls a stamp proven stale after an edit that changes nothing.

Handoff and release:

- A promotion does not ask blockers and verdict again under its lock. `classify`
  refuses a shipped sample that fires, `promote` may refuse the same one; then the row is
  never classified and `doc-figures.py` refuses from then on. With no known miss left
  that is malicious, `doc-figures.py` ends in a ValueError.
- `make-shard-manifest.py` writes in spite of the problems it prints, where its
  docstring says it "refuses rather than guesses".
- `derived_db.open_ro` opens "verified fresh, or raise" (567), and hashes the halves one
  after the other without their locks, before the caller reads a row. It establishes
  that each half was, at its own moment, what the build read. A half that is changed
  behind the hash is not seen, nor is one that was changed and has the old bytes
  again. That the build itself reads one whole index is `DatabaseIsWhole`.
- `pre-push-check.py` looks at the working tree, not at the commits that are pushed.
- `make-summary.py:448-450` reads without a lock, and a death in `open("w")` leaves the
  documents without their markers. A figure typed in prose is compared with the
  current total only, so one that is stale when the total has moved on is not seen.
- `verify.shipped_sample_path` may take the entry of another row whose name is the
  family.

Families:

- "Every read is verified against the row's `sha256`" (`family_evidence.py:193`): it is,
  and the outcome is a note beside the bytes (244-247). `verify_markers` names the note only
  where there are no bytes (559-568), so a literal found in a file that is not the one the
  row records is evidence, and so is one in the first part of a file past the cap.
  `LabelsRestOnWhatIsRead` claims what the code ensures: that the bytes are read again when
  the label is given, by the process that gives it (542-544).
- `review-app.py:47-49` promises "a log of every screen opened and every decision". Two
  requests at once may write the older list last (`_flush`, 176-178):
  `EveryDecisionIsLogged` of `Families` fails with two tabs.
- A session in which two tabs decided the same row, or which goes on after it was
  applied, is refused whole, then and ever after (`assign-family.py:253-270`). Its audit
  reads only the local half, so publishing a row makes it say `AUDIT FAILED`.

Masking:

- `content_mask.py:342` masks the slots after the names, over what was put in their
  place; `PSEUDONYM` (320) does not know all of those forms (against 516-517). One name
  then has two replacements: `OneNameOneReplacement` of `Masking` fails in two states.
- `regen-tiers.py` writes the map from a read that is older than the last name
  learned, and that name is lost ("a map may never narrow silently", 22-26). The check
  for collisions does not cover the replacements the slot masker makes.
- What two passed gates do not say. They open four layers, 32 at each level
  (`verify-content-mask.py:161`, in a file whose docstring knows of samples with 1,250),
  none they have met before, and no run below its least length (70-76) or that is not
  text. The search cuts at `SEPARATORS` first (`verify-infected-mask.py:60`), so a name
  with one of them in it, a label with a hyphen too, is not found but by the second
  search, in a slot, when a longer name begins with it. It drops names of two characters
  and generic words (140), leaves out what is kept (238), and asks `low.find` (241):
  between two separators only the first place counts, and a short name that letters
  touch there is passed over with the one that stands alone behind it.
  `PassedMeansNameless` names each of these exceptions, and each is an occurrence of the
  run (`Unseen`).

Golden suite:

- With the sweep refused, or with `--skip-benign`, the printed figure is withheld, but
  `false_positive_rate` in the JSON and in the baseline is a number over the carriers
  alone (`verify.py:660`, against 38-39). `recall_delta` compares two populations by
  their size (713, against 698-701).

## 8. Not modelled

- Pattern matching, rules, content analysis, formats of archives and reports,
  rendering, configuration, network and cryptography: sequential, and their interest is
  in data. The archive scanner's budgets are arithmetic over a recursion; what
  it tells `Scan`, and when, is there as every possible sequence of callbacks.
- `countFiles` and the progress counters: no decision of the scan reads them. The
  Windows arms of the walk and the move. The filters and the glob matcher: functions of
  a path.
- The update commands: one request in the background with a grace period, and a chain of
  checks that runs to its end in one thread. A race for the state file costs a request.
  On POSIX the new binary gets its name by one `rename`; the Windows arm takes two, and
  a crash between them leaves the old binary beside its name (`InstallPath.cpp:309-370`).
- A power cut (what survives one is the file system's). A host that writes into the
  scanned tree while a file is being moved: the code has no check to model.
- `make-summary.py` counts much more than the figures the documents quote;
  `doc-figures.py` checks prose with patterns; `shard-gate.py` and
  `field-provenance.py` have many rules about the form of a row. Those are data.
- Addresses, hashed digests and the older masker of tree paths in `Masking`; the
  comparison with a stored baseline in `Rerun`; the HTML and the sampling frame of the
  review server; the research scripts, which read an index nobody writes meanwhile.

`PROJECT.json` says so for each component.
