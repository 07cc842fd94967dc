---------------------------- MODULE CorpusIndex ----------------------------
(***************************************************************************)
(* The corpus index and the scripts that work on it at the same time.      *)
(*                                                                         *)
(* The index is two JSONL files, the published half and the local half     *)
(* (corpus/index.jsonl, corpus/local/index-local.jsonl).  A script looks   *)
(* at them without a lock, decides, and then rewrites a whole half under   *)
(* that half's flock, from a read taken inside the lock (indexio.py).  A   *)
(* script may die at any step: the kernel drops its locks, and os.replace  *)
(* means a half is the old file or the new one, never a part of one.       *)
(***************************************************************************)
CONSTANTS
  Tool,      \* the scripts that may run at the same time
  Sha,       \* the samples, each named by its sha256
  Menu,      \* the operations the scripts of this instance perform
  NoRow,     \* a half has no row for the sample
  Nobody     \* nobody holds the lock

Half == {"pub", "loc"}

\* A row, reduced to what decides where it may be: the verdict, the
\* sensitivity tags (a row that carries pii counts as "pii"), and local_only.
\* "awaiting" is the hold the upload-probe import places, "other" any other.
Verdict == {"unreviewed", "benign", "malicious"}
Tag == {"unassessed", "clean", "pii"}
Hold == {"none", "awaiting", "other"}
Row == [verdict : Verdict, tag : Tag, hold : Hold]
Rows == [Sha -> Row \cup {NoRow}]
NoRows == [s \in Sha |-> NoRow]

Operation == {"importTree", "importProbe", "confirm", "review", "tag",
              "rewrite", "publish", "resolve", "close", "derive", "summary"}

ASSUME CorpusAssumption ==
  /\ Menu \subseteq Operation
  /\ NoRow \notin Row
  /\ Nobody \notin Tool

Step == {"idle", "lookPub", "lookLoc", "lockPub", "lockLoc", "readPub",
         "peekLoc", "readLoc", "writePub", "writeLoc", "freePub", "freeLoc",
         "build"}

VARIABLES
  upstream,  \* the samples whose bytes a pinned benign release contains
  index,     \* the two files: for each half, the rows it holds
  lock,      \* who holds each half's flock
  job        \* what each script is doing

vars == <<upstream, index, lock, job>>

\* A script's own state: the operation, the next step of it, the samples it is
\* about, the rows it decided on before it took a lock, and the rows it read.
\* For the two readers, want is the set of samples there were when it began.
Job == [op : Operation \cup {"none"}, pc : Step, want : SUBSET Sha,
        decided : Rows, copy : [Half -> Rows]]

AtRest == [op |-> "none", pc |-> "idle", want |-> {}, decided |-> NoRows,
           copy |-> [h \in Half |-> NoRows]]

In(rows) == {s \in Sha : rows[s] # NoRow}
Indexed == In(index["pub"]) \cup In(index["loc"])

---------------------------------------------------------------------------
(* The order in which each operation takes its steps.                      *)

\* A read-modify-write of one half: a look, for the scripts that show first
\* what they would do, the lock, the read inside it, the write.
OneHalf == [lookPub |-> "lockPub", lockPub |-> "readPub",
            readPub |-> "writePub", writePub |-> "freePub",
            freePub |-> "idle",
            lookLoc |-> "lockLoc", lockLoc |-> "readLoc",
            readLoc |-> "writeLoc", writeLoc |-> "freeLoc",
            freeLoc |-> "idle"]

\* Mutant: the local half is locked first.
PublishPath_LocksLocalFirst ==
  [lookPub |-> "lookLoc", lookLoc |-> "lockLoc",
   lockLoc |-> "lockPub", lockPub |-> "readPub", readPub |-> "readLoc",
   readLoc |-> "writePub", writePub |-> "writeLoc", writeLoc |-> "freeLoc",
   freeLoc |-> "freePub", freePub |-> "idle"]

\* Mutant: the local half is written first.
PublishPath_WritesLocalFirst ==
  [lookPub |-> "lookLoc", lookLoc |-> "lockPub",
   lockPub |-> "lockLoc", lockLoc |-> "readPub", readPub |-> "readLoc",
   readLoc |-> "writeLoc", writeLoc |-> "writePub", writePub |-> "freeLoc",
   freeLoc |-> "freePub", freePub |-> "idle"]

\* apply_move: both locks, both reads inside them, the published half first.
PublishPath ==
  [lookPub |-> "lookLoc", lookLoc |-> "lockPub",
   lockPub |-> "lockLoc", lockLoc |-> "readPub", readPub |-> "readLoc",
   readLoc |-> "writePub", writePub |-> "writeLoc", writeLoc |-> "freeLoc",
   freeLoc |-> "freePub", freePub |-> "idle"]

\* resolve-benign main: one lock after the other, never both.
ResolvePath ==
  [lookLoc |-> "lockPub",
   lockPub |-> "readPub", readPub |-> "peekLoc", peekLoc |-> "writePub",
   writePub |-> "freePub", freePub |-> "lockLoc",
   lockLoc |-> "readLoc", readLoc |-> "writeLoc", writeLoc |-> "freeLoc",
   freeLoc |-> "idle"]

\* Mutant: each half is read under its own lock, one after the other.
DerivePath_OneAtATime ==
  [lockPub |-> "readPub", readPub |-> "freePub", freePub |-> "lockLoc",
   lockLoc |-> "readLoc", readLoc |-> "freeLoc", freeLoc |-> "build",
   build |-> "idle"]

\* derived_db.build: both locks before either read, both gone before the build.
DerivePath ==
  [lockPub |-> "lockLoc", lockLoc |-> "readPub", readPub |-> "readLoc",
   readLoc |-> "freeLoc", freeLoc |-> "freePub", freePub |-> "build",
   build |-> "idle"]

\* make-summary.build: the two files one after the other, and no lock.
SummaryPath == [lookPub |-> "lookLoc", lookLoc |-> "build", build |-> "idle"]

TreePath == [lookPub |-> "lookLoc", lookLoc |-> "lockLoc",
             lockLoc |-> "readLoc", readLoc |-> "writeLoc",
             writeLoc |-> "freeLoc", freeLoc |-> "idle"]

After(op, pc) ==
  CASE op = "publish"    -> PublishPath[pc]
    [] op = "resolve"    -> ResolvePath[pc]
    [] op = "derive"     -> DerivePath[pc]
    [] op = "summary"    -> SummaryPath[pc]
    [] op = "importTree" -> TreePath[pc]
    [] OTHER             -> OneHalf[pc]

\* The half an operation starts with is its --index argument where it has one.
Entry(op) ==
  CASE op \in {"publish", "summary", "importTree"}  -> {"lookPub"}
    [] op \in {"resolve", "close"}                  -> {"lookLoc"}
    [] op = "derive"                                -> {"lockPub"}
    [] op = "tag"                                   -> {"lookPub", "lookLoc"}
    [] op = "rewrite"                               -> {"lockPub", "lockLoc"}
    [] OTHER                                        -> {"lockLoc"}

---------------------------------------------------------------------------
(* What each script decides, and what it would write.                      *)

\* Mutant: the tags are not asked about.
Publishable_AnyTag(r) == r.verdict # "unreviewed" /\ r.hold = "none"

\* shard-gate.evaluate: nothing unreviewed, unassessed, sensitive or held.
Publishable(r) ==
  r.verdict # "unreviewed" /\ r.tag = "clean" /\ r.hold = "none"

\* publish-rows.adjudicate: the samples that may move, in what was looked at.
Movable(copy) ==
  {s \in In(copy["loc"]) \ In(copy["pub"]) : Publishable(copy["loc"][s])}

\* resolve-benign.plan: the unreviewed rows whose bytes are upstream's.
Closable(copy) ==
  {s \in In(copy["loc"]) \cap upstream :
     copy["loc"][s].verdict = "unreviewed"}

\* import-infected-tree classify: only what there is evidence for is ruled, and
\* what is ruled is held; a container and a cache sidecar are held too.
TreeRows ==
  {[verdict |-> "unreviewed", tag |-> tag, hold |-> "none"] :
     tag \in {"unassessed", "pii"}}
  \cup {[verdict |-> "unreviewed", tag |-> "unassessed", hold |-> "other"]}
  \cup [verdict : {"benign"}, tag : {"clean", "pii"}, hold : {"other"}]
  \cup [verdict : {"malicious"}, tag : {"clean"}, hold : {"other"}]

\* import-upload-probe build_row: malicious, clean, and awaiting confirmation.
ProbeRows == [verdict : {"malicious"}, tag : {"clean"}, hold : {"awaiting"}]

ImportedRows(op) == IF op = "importProbe" THEN ProbeRows ELSE TreeRows

\* close_row; the published copy is built from a list that has no hold in it.
ClosedRow(r) == [r EXCEPT !.verdict = "benign", !.tag = "clean"]
PublishedRow(r) == [ClosedRow(r) EXCEPT !.hold = "none"]

Without(rows, gone) == [s \in Sha |-> IF s \in gone THEN NoRow ELSE rows[s]]
Added(rows, new) == [s \in Sha |-> IF rows[s] = NoRow THEN new[s] ELSE rows[s]]

\* tag-sensitivity check, build: a tag the row has not; no tag is ever dropped.
Taggable(rows) == {s \in In(rows) : rows[s].tag # "pii"}
Tagged(r) == [r EXCEPT !.tag = "pii"]

\* adjudicate_confirmation, confirmed_row: only the hold this import placed.
Confirmable(rows) == {s \in In(rows) : rows[s].hold = "awaiting"}
Confirmed(r) == [r EXCEPT !.hold = "none"]

\* The operator's own review.
Reviewed(r) == [r EXCEPT !.verdict = "malicious",
                         !.tag = IF @ = "unassessed" THEN "clean" ELSE @]

\* Which rows a ruling may be written on, and what it makes of one.
MayRule(op, rows) ==
  CASE op = "tag"     -> Taggable(rows)
    [] op = "confirm" -> Confirmable(rows)
    [] OTHER          -> {s \in In(rows) : rows[s].verdict = "unreviewed"}

RuledRow(op, r) ==
  CASE op = "tag"     -> Tagged(r)
    [] op = "confirm" -> Confirmed(r)
    [] OTHER          -> Reviewed(r)

\* A ruling on several rows is written whole or refused whole.
Ruled(op, rows, want) ==
  IF want \subseteq MayRule(op, rows)
  THEN [s \in Sha |-> IF s \in want THEN RuledRow(op, rows[s]) ELSE rows[s]]
  ELSE rows

\* Mutant: the verdict is not asked again inside the lock.
Unreviewed_NotAsked(rows) == In(rows)

Unreviewed(rows) == {s \in In(rows) : rows[s].verdict = "unreviewed"}

\* The new contents of the published half, from what the script has read.
NewPublished(j) ==
  LET pub == j.copy["pub"]
      loc == j.copy["loc"]
  IN CASE j.op = "publish" -> Added(pub, j.decided)
       [] j.op = "resolve" ->
            Added(pub, [s \in Sha |-> IF s \in j.want \cap In(loc)
                                      THEN PublishedRow(loc[s]) ELSE NoRow])
       [] j.op = "tag"     -> Ruled("tag", pub, j.want)
       [] OTHER            -> pub

\* The new contents of the local half.
NewLocal(j) ==
  LET loc == j.copy["loc"]
      open == j.want \cap Unreviewed(loc)
  IN CASE j.op = "publish" -> Without(loc, j.want)
       [] j.op = "resolve" -> Without(loc, open)
       [] j.op = "close"   -> [s \in Sha |-> IF s \in open
                                            THEN ClosedRow(loc[s]) ELSE loc[s]]
       [] j.op \in {"importTree", "importProbe"} -> Added(loc, j.decided)
       [] j.op \in {"tag", "confirm", "review"}  -> Ruled(j.op, loc, j.want)
       [] OTHER            -> loc

---------------------------------------------------------------------------
Init ==
  /\ upstream \in SUBSET Sha
  /\ index = [h \in Half |-> NoRows]
  /\ lock = [h \in Half |-> Nobody]
  /\ job = [t \in Tool |-> AtRest]

\* Script t, now j, goes on to its next step, or stops where there is none.
Continue(t, j) ==
  LET next == After(j.op, j.pc)
  IN job' = [job EXCEPT ![t] = IF next = "idle" THEN AtRest
                               ELSE [j EXCEPT !.pc = next]]
Stop(t) == job' = [job EXCEPT ![t] = AtRest]

Having(j, h) == [j EXCEPT !.copy[h] = index[h]]

\* A script that has decided uses its first look no more.
Forgetting(j) == [j EXCEPT !.copy = AtRest.copy]

LockStep == [pub |-> "lockPub", loc |-> "lockLoc"]
ReadSteps == [pub |-> {"readPub"}, loc |-> {"readLoc", "peekLoc"}]
WriteStep == [pub |-> "writePub", loc |-> "writeLoc"]
FreeStep == [pub |-> "freePub", loc |-> "freeLoc"]

\* What an operation is told to work on: the samples a file names, or every
\* row, or (the two readers) the samples there are.
Named(op) ==
  CASE op \in {"derive", "summary"}           -> {Indexed}
    [] op \in {"resolve", "close", "rewrite"} -> {{}}
    [] OTHER                                  -> SUBSET Sha \ {{}}

Proposed(op, named) ==
  IF op \in {"importTree", "importProbe"}
  THEN {[s \in Sha |-> IF s \in named THEN r[s] ELSE NoRow] :
          r \in [named -> ImportedRows(op)]}
  ELSE {NoRows}

Begin(t) ==
  /\ job[t].pc = "idle"
  /\ \E op \in Menu : \E pc \in Entry(op), w \in Named(op) :
       \E d \in Proposed(op, w) :
         job' = [job EXCEPT ![t] = [op |-> op, pc |-> pc, want |-> w,
                                    decided |-> d, copy |-> AtRest.copy]]
  /\ UNCHANGED <<upstream, index, lock>>

\* The first of two files looked at without a lock.
LookAtBoth(t) ==
  /\ job[t].pc = "lookPub"
  /\ After(job[t].op, "lookPub") = "lookLoc"
  /\ Continue(t, Having(job[t], "pub"))
  /\ UNCHANGED <<upstream, index, lock>>

\* What a script makes of what it looked at: nothing at all if one sample is
\* refused; the rows to publish as they were; the rows it may close.
Accepts(j, h) ==
  CASE j.op = "publish"    -> j.want \subseteq Movable(j.copy)
    [] j.op = "importTree" -> j.want \cap (In(j.copy["pub"])
                                           \cup In(j.copy["loc"])) = {}
    [] j.op = "tag"        -> j.want \subseteq MayRule("tag", j.copy[h])
    [] j.op \in {"resolve", "close"} -> Closable(j.copy) # {}
    [] OTHER               -> TRUE

Decide(j) ==
  CASE j.op = "publish" ->
         [Forgetting(j) EXCEPT !.decided = [s \in Sha |-> IF s \in j.want
                                                          THEN j.copy["loc"][s]
                                                          ELSE NoRow]]
    [] j.op \in {"resolve", "close"} ->
         [Forgetting(j) EXCEPT !.want = Closable(j.copy)]
    [] j.op = "summary" -> j
    [] OTHER -> Forgetting(j)

\* The last unlocked look, and the decision taken on it.
LookAndDecide(t, h) ==
  LET j == Having(job[t], h)
  IN /\ job[t].pc = [pub |-> "lookPub", loc |-> "lookLoc"][h]
     /\ After(job[t].op, job[t].pc) # "lookLoc"
     /\ IF Accepts(j, h) THEN Continue(t, Decide(j)) ELSE Stop(t)
     /\ UNCHANGED <<upstream, index, lock>>

\* flock is free: taken.
Lock(t, h) ==
  /\ job[t].pc = LockStep[h]
  /\ lock[h] = Nobody
  /\ lock' = [lock EXCEPT ![h] = t]
  /\ Continue(t, job[t])
  /\ UNCHANGED <<upstream, index>>

Released(t) == [h \in Half |-> IF lock[h] = t THEN Nobody ELSE lock[h]]

\* Mutant: the wait has no deadline.
Busy_Retries(t, h) ==
  /\ job[t].pc = LockStep[h]
  /\ lock[h] # Nobody
  /\ UNCHANGED vars

\* LockBusy: the wait reached its timeout.  The script stops; what it had
\* locked is released on the way out.
Busy(t, h) ==
  /\ job[t].pc = LockStep[h]
  /\ lock[h] # Nobody
  /\ lock' = Released(t)
  /\ Stop(t)
  /\ UNCHANGED <<upstream, index>>

Read(t, h) ==
  /\ job[t].pc \in ReadSteps[h]
  /\ Continue(t, Having(job[t], h))
  /\ UNCHANGED <<upstream, index, lock>>

\* write_jsonl_atomic: the half is replaced by the rows the script made.
Write(t, h) ==
  /\ job[t].pc = WriteStep[h]
  /\ index' = [index EXCEPT ![h] = IF h = "pub" THEN NewPublished(job[t])
                                   ELSE NewLocal(job[t])]
  /\ Continue(t, [job[t] EXCEPT !.copy[h] = NoRows])
  /\ UNCHANGED <<upstream, lock>>

Free(t, h) ==
  /\ job[t].pc = FreeStep[h]
  /\ lock' = [lock EXCEPT ![h] = Nobody]
  /\ Continue(t, job[t])
  /\ UNCHANGED <<upstream, index>>

\* The database, or the summary, is made from the rows read.
Build(t) ==
  /\ job[t].pc = "build"
  /\ Continue(t, job[t])
  /\ UNCHANGED <<upstream, index, lock>>

\* The process dies.  The kernel releases its locks; the files stay.
Crash(t) ==
  /\ job[t].pc # "idle"
  /\ lock' = Released(t)
  /\ Stop(t)
  /\ UNCHANGED <<upstream, index>>

Advance(t) ==
  \/ LookAtBoth(t)
  \/ \E h \in Half : \/ LookAndDecide(t, h) \/ Lock(t, h) \/ Busy(t, h)
                     \/ Read(t, h) \/ Write(t, h) \/ Free(t, h)
  \/ Build(t)

Next == \E t \in Tool : Begin(t) \/ Advance(t) \/ Crash(t)

\* A script that runs is scheduled; nobody has to start one.
Fairness == \A t \in Tool : WF_vars(Advance(t))

Spec == Init /\ [][Next]_vars /\ Fairness

---------------------------------------------------------------------------
(* Properties.                                                             *)

TypeOK ==
  /\ upstream \subseteq Sha
  /\ index \in [Half -> Rows]
  /\ lock \in [Half -> Tool \cup {Nobody}]
  /\ job \in [Tool -> Job]

\* A sample that either half has recorded is never in neither half, whichever
\* scripts run together and wherever one of them dies: a move writes the
\* published half first, and takes from the local half only what is already
\* in the other (publish-rows.py:45-50, resolve-benign.py:217-219).
NoSampleIsLost == [][\A s \in Indexed : s \in Indexed']_vars

\* A rewrite of a whole half changes no row but the ones its own script, which
\* holds that half's lock, set out to change: what another script appended or
\* ruled in the meantime is still there (indexio.py:17-21).
OnlyItsOwnRows ==
  [][\A h \in Half : \A s \in Sha :
       index'[h][s] # index[h][s]
         => \E t \in Tool : lock[h] = t /\ s \in job[t].want]_vars

\* Two scripts never each hold the half the other is waiting for: whoever
\* takes both takes the published half first (derived_db.py:359, 381-383).
NoEmbrace ==
  ~ \E t, u \in Tool :
      /\ lock["pub"] = t /\ job[t].pc = "lockLoc"
      /\ lock["loc"] = u /\ job[u].pc = "lockPub"

\* The database is derived from a whole index: every sample that was indexed
\* when the build began is in what the builder read, although the samples move
\* between the two files it reads (derived_db.py:355-358).
DatabaseIsWhole ==
  \A t \in Tool :
    job[t].op = "derive" /\ job[t].pc = "build"
      => job[t].want \subseteq In(job[t].copy["pub"]) \cup In(job[t].copy["loc"])

\* A row enters the published half reviewed, assessed, without a tag that is
\* never published and without a hold, whatever the local row has become since
\* the script decided (publish-rows.py:17-26).
OnlyClearedRowsArePublished ==
  [][\A s \in Sha : s \in In(index["pub"])' /\ s \notin In(index["pub"])
       => index'["pub"][s] \in [verdict : {"benign", "malicious"},
                                tag : {"clean"}, hold : {"none"}]]_vars

\* A verdict a review has set on a local row is never changed by a script: not
\* by an import that finds the sample again, and not by a hash decision made
\* before the review (resolve-benign.py:32-34).
VerdictsStand ==
  [][\A s \in In(index["loc"]) \cap In(index'["loc"]) :
       index["loc"][s].verdict # "unreviewed"
         => index'["loc"][s].verdict = index["loc"][s].verdict]_vars

\* A script that has begun ends, whoever else keeps taking the locks: the wait
\* for a lock has a deadline (indexio.py:107-124).
RunEnds == \A t \in Tool : job[t].pc # "idle" ~> job[t].pc = "idle"

\* What the publisher's documentation says of a tagged row: it is refused, "the
\* one rule whose failure cannot be undone by a later round".  The row it asks
\* about is the one it looked at before it had the locks, and that is the row
\* it writes: a tag recorded while it waited is neither seen nor kept
\* (publish-rows.py:24-26; apply_move writes at 174-175 what 290 adjudicated).
TaggedRowsStayLocal ==
  [][\A s \in In(index["loc"]) \ (upstream \cup In(index["pub"])) :
       index["loc"][s].tag = "pii" => s \notin In(index["pub"])']_vars

=============================================================================
