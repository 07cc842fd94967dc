------------------------- MODULE CorpusIndexProofs -------------------------
(***************************************************************************)
(* Proofs about CorpusIndex, for any number of scripts, samples and        *)
(* operations: who owns the locks, what a script may rely on of what it    *)
(* read, and so what no script takes away, publishes or overrules.         *)
(***************************************************************************)
EXTENDS CorpusIndex, TLAPS

(***************************************************************************)
(* What the rows a script makes are, whatever it has read.                 *)
(***************************************************************************)

LEMMA InType == ASSUME NEW rows \in Rows PROVE In(rows) \subseteq Sha
  BY DEF In

LEMMA RowOfIn ==
  ASSUME NEW rows \in Rows, NEW s \in In(rows)
  PROVE  s \in Sha /\ rows[s] \in Row
  BY DEF In, Rows

LEMMA NoRowsType == NoRows \in Rows
  BY DEF NoRows, Rows

LEMMA ClosedRowType ==
  ASSUME NEW r \in Row PROVE ClosedRow(r) \in Row /\ PublishedRow(r) \in Row
  BY DEF ClosedRow, PublishedRow, Row, Verdict, Tag, Hold

LEMMA RuledRowType ==
  ASSUME NEW r \in Row, NEW op PROVE RuledRow(op, r) \in Row
  BY DEF RuledRow, Tagged, Confirmed, Reviewed, Row, Verdict, Tag, Hold

\* A ruling keeps every row, and changes only those it is about.
LEMMA RuledShape ==
  ASSUME NEW rows \in Rows, NEW want \in SUBSET Sha, NEW op
  PROVE  /\ Ruled(op, rows, want) \in Rows
         /\ \A s \in Sha : s \notin want => Ruled(op, rows, want)[s] = rows[s]
         /\ In(rows) = In(Ruled(op, rows, want))
<1> DEFINE new == Ruled(op, rows, want)
<1>1. MayRule(op, rows) \subseteq In(rows)
  BY DEF MayRule, Taggable, Confirmable, In
<1>2. CASE want \subseteq MayRule(op, rows)
  <2>1. new = [s \in Sha |-> IF s \in want THEN RuledRow(op, rows[s])
                                           ELSE rows[s]]
    BY <1>2 DEF Ruled
  <2>2. \A s \in want : rows[s] \in Row /\ RuledRow(op, rows[s]) \in Row
    BY <1>1, <1>2, RowOfIn, RuledRowType
  <2>3. new \in Rows /\ \A s \in Sha : s \notin want => new[s] = rows[s]
    BY <2>1, <2>2 DEF Rows
  <2>4. \A s \in Sha : new[s] # NoRow <=> rows[s] # NoRow
    BY <2>1, <2>2, CorpusAssumption
  <2> QED BY <2>3, <2>4 DEF In
<1>3. CASE ~ (want \subseteq MayRule(op, rows))
  BY <1>3 DEF Ruled
<1> QED BY <1>2, <1>3

LEMMA AddedShape ==
  ASSUME NEW rows \in Rows, NEW more \in Rows
  PROVE  /\ Added(rows, more) \in Rows
         /\ \A s \in Sha : more[s] = NoRow => Added(rows, more)[s] = rows[s]
         /\ In(Added(rows, more)) = In(rows) \cup In(more)
  BY DEF Added, Rows, In

LEMMA WithoutShape ==
  ASSUME NEW rows \in Rows, NEW gone \in SUBSET Sha
  PROVE  /\ Without(rows, gone) \in Rows
         /\ \A s \in Sha : s \notin gone => Without(rows, gone)[s] = rows[s]
         /\ In(rows) \ gone \subseteq In(Without(rows, gone))
  BY DEF Without, Rows, In

\* The rows a script decided on before the lock are rows it is about; the two
\* that close rows decide on samples and not on rows.
NamesItsRows(j) ==
  \A s \in Sha : j.decided[s] # NoRow
                  => s \in j.want /\ j.op \notin {"resolve", "close"}

\* The published half a script would write: rows, all of those it read, and no
\* row changed that it is not about.
LEMMA NewPublishedShape ==
  ASSUME NEW j \in Job, NamesItsRows(j)
  PROVE  /\ NewPublished(j) \in Rows
         /\ \A s \in Sha : s \notin j.want
                            => NewPublished(j)[s] = j.copy["pub"][s]
         /\ In(j.copy["pub"]) \subseteq In(NewPublished(j))
<1> DEFINE pub == j.copy["pub"]
           loc == j.copy["loc"]
           closed == [s \in Sha |-> IF s \in j.want \cap In(loc)
                                    THEN PublishedRow(loc[s]) ELSE NoRow]
<1>1. pub \in Rows /\ loc \in Rows /\ j.decided \in Rows /\ j.want \subseteq Sha
  BY DEF Job, Half
<1>2. closed \in Rows
  BY <1>1, RowOfIn, ClosedRowType DEF Rows
<1>3. CASE j.op = "publish"
  <2>1. NewPublished(j) = Added(pub, j.decided)
    BY <1>3 DEF NewPublished
  <2> QED BY <1>1, <2>1, AddedShape DEF NamesItsRows
<1>4. CASE j.op = "resolve"
  <2>1. NewPublished(j) = Added(pub, closed)
    BY <1>4 DEF NewPublished
  <2>2. \A s \in Sha : s \notin j.want => closed[s] = NoRow
    OBVIOUS
  <2> HIDE DEF closed
  <2> QED BY <1>1, <1>2, <2>1, <2>2, AddedShape
<1>5. CASE j.op = "tag"
  <2>1. NewPublished(j) = Ruled("tag", pub, j.want)
    BY <1>5 DEF NewPublished
  <2> QED BY <1>1, <2>1, RuledShape
<1>6. CASE j.op \notin {"publish", "resolve", "tag"}
  <2>1. NewPublished(j) = pub
    BY <1>6 DEF NewPublished
  <2> QED BY <1>1, <2>1
<1> QED BY <1>3, <1>4, <1>5, <1>6

\* The local half a script would write: a row goes only where the script is a
\* mover and is about it.
LEMMA NewLocalShape ==
  ASSUME NEW j \in Job, NamesItsRows(j)
  PROVE  /\ NewLocal(j) \in Rows
         /\ \A s \in Sha : s \notin j.want
                            => NewLocal(j)[s] = j.copy["loc"][s]
         /\ \A s \in In(j.copy["loc"]) \ In(NewLocal(j)) :
              j.op \in {"publish", "resolve"} /\ s \in j.want
<1> DEFINE loc == j.copy["loc"]
           open == j.want \cap Unreviewed(loc)
<1>1. loc \in Rows /\ j.decided \in Rows /\ j.want \subseteq Sha
  BY DEF Job, Half
<1>2. open \subseteq In(loc) /\ open \subseteq j.want
  BY DEF Unreviewed
<1>3. CASE j.op = "publish"
  <2>1. NewLocal(j) = Without(loc, j.want)
    BY <1>3 DEF NewLocal
  <2> QED BY <1>1, <1>3, <2>1, WithoutShape
<1>4. CASE j.op = "resolve"
  <2>1. NewLocal(j) = Without(loc, open)
    BY <1>4 DEF NewLocal
  <2>2. open \in SUBSET Sha
    BY <1>1, <1>2
  <2> HIDE DEF open
  <2> QED BY <1>1, <1>2, <1>4, <2>1, <2>2, WithoutShape
<1>5. CASE j.op = "close"
  <2>1. NewLocal(j) = [s \in Sha |-> IF s \in open THEN ClosedRow(loc[s])
                                                    ELSE loc[s]]
    BY <1>5 DEF NewLocal
  <2>2. \A s \in open : loc[s] \in Row /\ ClosedRow(loc[s]) \in Row
    BY <1>1, <1>2, RowOfIn, ClosedRowType
  <2>3. \A s \in open : ClosedRow(loc[s]) # NoRow
    BY <2>2, CorpusAssumption
  <2> HIDE DEF open
  <2>4. NewLocal(j) \in Rows
    BY <1>1, <2>1, <2>2 DEF Rows
  <2>5. In(loc) \subseteq In(NewLocal(j))
    BY <2>1, <2>3 DEF In
  <2> QED BY <1>2, <2>1, <2>4, <2>5
<1>6. CASE j.op \in {"importTree", "importProbe"}
  <2>1. NewLocal(j) = Added(loc, j.decided)
    BY <1>6 DEF NewLocal
  <2> QED BY <1>1, <2>1, AddedShape DEF NamesItsRows
<1>7. CASE j.op \in {"tag", "confirm", "review"}
  <2>1. NewLocal(j) = Ruled(j.op, loc, j.want)
    BY <1>7 DEF NewLocal
  <2> QED BY <1>1, <2>1, RuledShape
<1>8. CASE j.op \notin {"publish", "resolve", "close", "importTree",
                        "importProbe", "tag", "confirm", "review"}
  <2>1. NewLocal(j) = loc
    BY <1>8 DEF NewLocal
  <2> QED BY <1>1, <2>1
<1> QED BY <1>3, <1>4, <1>5, <1>6, <1>7, <1>8

(***************************************************************************)
(* Where in its path a script holds which lock, and may rely on which copy.*)
(***************************************************************************)

BothLocks == {"publish", "derive"}

StepsOf(op) ==
  CASE op = "publish"    -> DOMAIN PublishPath
    [] op = "resolve"    -> DOMAIN ResolvePath
    [] op = "derive"     -> DOMAIN DerivePath
    [] op = "summary"    -> DOMAIN SummaryPath
    [] op = "importTree" -> DOMAIN TreePath
    [] OTHER             -> DOMAIN OneHalf

Owns(op, p, h) ==
  \/ h = "pub" /\ p \in {"readPub", "peekLoc", "writePub", "freePub"}
  \/ h = "loc" /\ p \in {"readLoc", "writeLoc", "freeLoc"}
  \/ h = "pub" /\ op \in BothLocks
     /\ p \in {"lockLoc", "readLoc", "writeLoc", "freeLoc"}
  \/ h = "loc" /\ op \in BothLocks /\ p \in {"readPub", "writePub"}

Relies(op, p, h) ==
  \/ h = "pub" /\ p \in {"peekLoc", "writePub"}
  \/ h = "pub" /\ op \in BothLocks /\ p = "readLoc"
  \/ h = "loc" /\ p = "writeLoc"
  \/ h = "loc" /\ op = "publish" /\ p = "writePub"

\* Every path is closed: from one of its steps to another, or to the end.
LEMMA PathCloses ==
  ASSUME NEW op \in Operation, NEW p \in StepsOf(op)
  PROVE  /\ p \in Step \ {"idle"}
         /\ After(op, p) \in StepsOf(op) \cup {"idle"}
         /\ After(op, p) \in Step
  BY DEF Operation, StepsOf, After, Step, PublishPath, ResolvePath, DerivePath,
         SummaryPath, TreePath, OneHalf

LEMMA EntryOpens ==
  ASSUME NEW op \in Operation, NEW p \in Entry(op), NEW h \in Half
  PROVE  p \in StepsOf(op) /\ p \in Step /\ ~Owns(op, p, h) /\ ~Relies(op, p, h)
  BY DEF Operation, Entry, StepsOf, Step, Half, Owns, Relies, BothLocks,
         PublishPath, ResolvePath, DerivePath, SummaryPath, TreePath, OneHalf

LEMMA AtRestHoldsNothing ==
  ASSUME NEW op, NEW h \in Half
  PROVE  ~Owns(op, "idle", h) /\ ~Relies(op, "idle", h)
  BY DEF Half, Owns, Relies

LEMMA RelianceIsLocked ==
  ASSUME NEW op, NEW p, NEW h \in Half, Relies(op, p, h)
  PROVE  Owns(op, p, h)
  BY DEF Half, Owns, Relies, BothLocks

LEMMA LookPath ==
  ASSUME NEW op \in Operation, NEW p \in StepsOf(op) \cap {"lookPub", "lookLoc"},
         NEW h \in Half
  PROVE  /\ ~Owns(op, p, h)
         /\ ~Owns(op, After(op, p), h) /\ ~Relies(op, After(op, p), h)
  BY DEF Operation, StepsOf, After, Half, Owns, Relies, BothLocks, PublishPath,
         ResolvePath, DerivePath, SummaryPath, TreePath, OneHalf

LEMMA LockPath ==
  ASSUME NEW op \in Operation, NEW h \in Half, NEW g \in Half, NEW p,
         p = LockStep[h], p \in StepsOf(op)
  PROVE  /\ ~Relies(op, After(op, p), g)
         /\ g = h => Owns(op, After(op, p), g)
         /\ g # h => (Owns(op, After(op, p), g) <=> Owns(op, p, g))
  BY DEF Operation, StepsOf, After, Half, Owns, Relies, BothLocks, LockStep,
         PublishPath, ResolvePath, DerivePath, SummaryPath, TreePath, OneHalf

LEMMA ReadPath ==
  ASSUME NEW op \in Operation, NEW h \in Half, NEW g \in Half, NEW p,
         p \in ReadSteps[h], p \in StepsOf(op)
  PROVE  /\ Owns(op, After(op, p), g) <=> Owns(op, p, g)
         /\ Relies(op, After(op, p), g) => g = h \/ Relies(op, p, g)
  BY DEF Operation, StepsOf, After, Half, Owns, Relies, BothLocks, ReadSteps,
         PublishPath, ResolvePath, DerivePath, SummaryPath, TreePath, OneHalf

LEMMA WritePath ==
  ASSUME NEW op \in Operation, NEW h \in Half, NEW g \in Half, NEW p,
         p = WriteStep[h], p \in StepsOf(op)
  PROVE  /\ Relies(op, p, h)
         /\ Owns(op, After(op, p), g) <=> Owns(op, p, g)
         /\ Relies(op, After(op, p), g) => g # h /\ Relies(op, p, g)
  BY DEF Operation, StepsOf, After, Half, Owns, Relies, BothLocks, WriteStep,
         PublishPath, ResolvePath, DerivePath, SummaryPath, TreePath, OneHalf

LEMMA FreePath ==
  ASSUME NEW op \in Operation, NEW h \in Half, NEW g \in Half, NEW p,
         p = FreeStep[h], p \in StepsOf(op)
  PROVE  /\ ~Relies(op, After(op, p), g)
         /\ Owns(op, p, h)
         /\ g = h => ~Owns(op, After(op, p), g)
         /\ g # h => (Owns(op, After(op, p), g) <=> Owns(op, p, g))
  BY DEF Operation, StepsOf, After, Half, Owns, Relies, BothLocks, FreeStep,
         PublishPath, ResolvePath, DerivePath, SummaryPath, TreePath, OneHalf

LEMMA BuildPath ==
  ASSUME NEW op \in Operation, "build" \in StepsOf(op), NEW h \in Half
  PROVE  ~Owns(op, "build", h) /\ After(op, "build") = "idle"
  BY DEF Operation, StepsOf, After, Half, Owns, BothLocks,
         PublishPath, ResolvePath, DerivePath, SummaryPath, TreePath, OneHalf

(***************************************************************************)
(* The invariant about locks: who is past a lock's acquisition holds it,   *)
(* and what was read under a lock is the half until its holder writes.     *)
(***************************************************************************)

Legal(j) == j.pc = "idle" \/ (j.op \in Operation /\ j.pc \in StepsOf(j.op))

LockInv == \A t \in Tool, h \in Half :
             lock[h] = t <=> Owns(job[t].op, job[t].pc, h)

CopyInv == \A t \in Tool, h \in Half :
             Relies(job[t].op, job[t].pc, h) => job[t].copy[h] = index[h]

JobInv == \A t \in Tool : Legal(job[t]) /\ NamesItsRows(job[t])

Locking == TypeOK /\ LockInv /\ CopyInv /\ JobInv

LEMMA AtRestIsJob == AtRest \in Job /\ NamesItsRows(AtRest) /\ Legal(AtRest)
<1>1. AtRest \in Job
  BY NoRowsType DEF AtRest, Job, Step
<1> QED BY <1>1 DEF AtRest, NamesItsRows, NoRows, Legal

\* What the other scripts are doing does not change, and t is at rest.
LEMMA StopShape ==
  ASSUME TypeOK, JobInv, NEW t \in Tool, Stop(t)
  PROVE  /\ job' \in [Tool -> Job]
         /\ JobInv'
         /\ job'[t] = AtRest
         /\ \A u \in Tool \ {t} : job'[u] = job[u]
<1>1. job' \in [Tool -> Job] /\ job'[t] = AtRest
      /\ \A u \in Tool \ {t} : job'[u] = job[u]
  BY AtRestIsJob DEF Stop, TypeOK
<1>2. \A u \in Tool : Legal(job'[u]) /\ NamesItsRows(job'[u])
  BY <1>1, AtRestIsJob DEF JobInv
<1> QED BY <1>1, <1>2 DEF JobInv

\* Script t, now j, took its step: the path gives the next one.
LEMMA ContinueShape ==
  ASSUME TypeOK, JobInv, NEW t \in Tool, NEW j \in Job, j.op \in Operation,
         j.pc \in StepsOf(j.op), NamesItsRows(j), Continue(t, j)
  PROVE  LET n == After(j.op, j.pc)
         IN /\ job' \in [Tool -> Job]
            /\ JobInv'
            /\ \A u \in Tool \ {t} : job'[u] = job[u]
            /\ n = "idle" => job'[t] = AtRest
            /\ n # "idle" => job'[t] = [j EXCEPT !.pc = n]
            /\ \A h \in Half :
                 /\ Owns(job'[t].op, job'[t].pc, h) <=> Owns(j.op, n, h)
                 /\ Relies(job'[t].op, job'[t].pc, h) <=> Relies(j.op, n, h)
                 /\ Relies(j.op, n, h) => job'[t].copy[h] = j.copy[h]
<1> DEFINE n == After(j.op, j.pc)
<1>1. n \in StepsOf(j.op) \cup {"idle"} /\ n \in Step
  BY PathCloses
<1> HIDE DEF n
<1>2. CASE n = "idle"
  <2>1. Stop(t)
    BY <1>2 DEF Continue, Stop, n
  <2>2. job'[t].pc = "idle"
    BY <2>1, StopShape DEF AtRest
  <2> QED BY <1>2, <2>1, <2>2, StopShape, AtRestHoldsNothing DEF n
<1>3. CASE n # "idle"
  <2>1. job' = [job EXCEPT ![t] = [j EXCEPT !.pc = n]]
    BY <1>3 DEF Continue, n
  <2>2. /\ [j EXCEPT !.pc = n] \in Job
        /\ [j EXCEPT !.pc = n].pc = n /\ [j EXCEPT !.pc = n].op = j.op
        /\ [j EXCEPT !.pc = n].copy = j.copy
        /\ [j EXCEPT !.pc = n].want = j.want
        /\ [j EXCEPT !.pc = n].decided = j.decided
    BY <1>1 DEF Job
  <2>3. /\ job' \in [Tool -> Job] /\ job'[t] = [j EXCEPT !.pc = n]
        /\ \A u \in Tool \ {t} : job'[u] = job[u]
    BY <2>1, <2>2 DEF TypeOK
  <2>4. Legal(job'[t]) /\ NamesItsRows(job'[t])
    BY <1>1, <1>3, <2>2, <2>3 DEF Legal, NamesItsRows
  <2>5. \A u \in Tool : Legal(job'[u]) /\ NamesItsRows(job'[u])
    BY <2>3, <2>4 DEF JobInv
  <2> QED BY <1>3, <2>2, <2>3, <2>5 DEF JobInv, n
<1> QED BY <1>2, <1>3

LEMMA ContinueKeepsCopies ==
  ASSUME TypeOK, JobInv, NEW t \in Tool, NEW j \in Job, j.op \in Operation,
         j.pc \in StepsOf(j.op), NamesItsRows(j), Continue(t, j), NEW h \in Half
  PROVE  /\ Relies(job'[t].op, job'[t].pc, h)
              <=> Relies(j.op, After(j.op, j.pc), h)
         /\ Relies(j.op, After(j.op, j.pc), h) => job'[t].copy[h] = j.copy[h]
<1>1. CASE After(j.op, j.pc) = "idle"
  <2>1. job'[t] = AtRest
    BY <1>1, ContinueShape
  <2>2. job'[t].pc = "idle"
    BY <2>1 DEF AtRest
  <2> QED BY <1>1, <2>2, AtRestHoldsNothing
<1>2. CASE After(j.op, j.pc) # "idle"
  <2>1. job'[t] = [j EXCEPT !.pc = After(j.op, j.pc)]
    BY <1>2, ContinueShape
  <2>2. /\ job'[t].pc = After(j.op, j.pc) /\ job'[t].op = j.op
        /\ job'[t].copy = j.copy
    BY <2>1 DEF Job
  <2> QED BY <2>2
<1> QED BY <1>1, <1>2

\* A step of script t that hands no lock of another script around, and changes
\* no half that t has not locked, leaves the others where they were.
LEMMA OthersUndisturbed ==
  ASSUME Locking, NEW t \in Tool, job' \in [Tool -> Job],
         \A u \in Tool \ {t} : job'[u] = job[u],
         \A h \in Half : index'[h] # index[h] => lock[h] = t,
         \A h \in Half, u \in Tool \ {t} : lock'[h] = u <=> lock[h] = u,
         \A h \in Half : lock'[h] = t <=> Owns(job'[t].op, job'[t].pc, h),
         \A h \in Half : Relies(job'[t].op, job'[t].pc, h)
                          => job'[t].copy[h] = index'[h]
  PROVE  LockInv' /\ CopyInv'
<1>1. LockInv'
  <2> SUFFICES ASSUME NEW u \in Tool, NEW h \in Half
               PROVE  lock'[h] = u <=> Owns(job'[u].op, job'[u].pc, h)
    BY DEF LockInv, Owns
  <2>1. CASE u = t  BY <2>1
  <2>2. CASE u # t  BY <2>2 DEF Locking, LockInv
  <2> QED BY <2>1, <2>2
<1>2. CopyInv'
  <2> SUFFICES ASSUME NEW u \in Tool, NEW h \in Half,
                      Relies(job'[u].op, job'[u].pc, h)
               PROVE  job'[u].copy[h] = index'[h]
    BY DEF CopyInv, Relies
  <2>1. CASE u = t  BY <2>1
  <2>2. CASE u # t
    <3>1. job'[u] = job[u]
      BY <2>2
    <3>2. lock[h] = u
      BY <3>1, RelianceIsLocked DEF Locking, LockInv
    <3>3. index'[h] = index[h]
      BY <2>2, <3>2
    <3> QED BY <3>1, <3>3 DEF Locking, CopyInv
  <2> QED BY <2>1, <2>2
<1> QED BY <1>1, <1>2

\* A script that stops releases what it held and relies on nothing.
LEMMA StopStep ==
  ASSUME Locking, NEW t \in Tool, Stop(t), UNCHANGED <<upstream, index>>,
         lock' = Released(t)
  PROVE  Locking'
<1>1. JobInv' /\ job' \in [Tool -> Job] /\ job'[t] = AtRest
      /\ \A u \in Tool \ {t} : job'[u] = job[u]
  BY StopShape DEF Locking
<1>2. lock' \in [Half -> Tool \cup {Nobody}]
  BY DEF Locking, TypeOK, Released
<1>3. \A h \in Half : lock'[h] # t
      /\ \A u \in Tool \ {t} : lock'[h] = u <=> lock[h] = u
  BY CorpusAssumption DEF Locking, TypeOK, Released
<1>4. job'[t].op = "none" /\ job'[t].pc = "idle"
  BY <1>1 DEF AtRest
<1>5. LockInv' /\ CopyInv'
  BY <1>1, <1>3, <1>4, AtRestHoldsNothing, OthersUndisturbed
<1>6. TypeOK'
  BY <1>1, <1>2 DEF Locking, TypeOK
<1> QED BY <1>1, <1>5, <1>6 DEF Locking

\* A script at a step of its path, which changes at most the halves it holds.
LEMMA PathStep ==
  ASSUME Locking, NEW t \in Tool, NEW j \in Job, j.op \in Operation,
         j.pc \in StepsOf(j.op), NamesItsRows(j), Continue(t, j),
         upstream' = upstream, index' \in [Half -> Rows],
         lock' \in [Half -> Tool \cup {Nobody}],
         \A h \in Half : index'[h] # index[h] => lock[h] = t,
         \A h \in Half, u \in Tool \ {t} : lock'[h] = u <=> lock[h] = u,
         \A h \in Half : lock'[h] = t <=> Owns(j.op, After(j.op, j.pc), h),
         \A h \in Half : Relies(j.op, After(j.op, j.pc), h)
                          => j.copy[h] = index'[h]
  PROVE  Locking'
<1>1. JobInv' /\ job' \in [Tool -> Job]
      /\ \A u \in Tool \ {t} : job'[u] = job[u]
  BY ContinueShape DEF Locking
<1>2. \A h \in Half :
        /\ lock'[h] = t <=> Owns(job'[t].op, job'[t].pc, h)
        /\ Relies(job'[t].op, job'[t].pc, h) => job'[t].copy[h] = index'[h]
  <2> TAKE h \in Half
  <2>1. TypeOK /\ JobInv
    BY DEF Locking
  <2>2. Owns(job'[t].op, job'[t].pc, h) <=> Owns(j.op, After(j.op, j.pc), h)
    BY <2>1, ContinueShape
  <2>3. Relies(job'[t].op, job'[t].pc, h) <=> Relies(j.op, After(j.op, j.pc), h)
    BY <2>1, ContinueKeepsCopies
  <2>4. Relies(j.op, After(j.op, j.pc), h) => job'[t].copy[h] = j.copy[h]
    BY <2>1, ContinueKeepsCopies
  <2> QED BY <2>2, <2>3, <2>4
<1>3. LockInv' /\ CopyInv'
  BY <1>1, <1>2, OthersUndisturbed
<1>4. TypeOK'
  BY <1>1 DEF Locking, TypeOK
<1> QED BY <1>1, <1>3, <1>4 DEF Locking

LEMMA WorkingJob ==
  ASSUME Locking, NEW t \in Tool, job[t].pc # "idle"
  PROVE  /\ job[t] \in Job /\ job[t].op \in Operation
         /\ job[t].pc \in StepsOf(job[t].op) /\ NamesItsRows(job[t])
  BY DEF Locking, TypeOK, JobInv, Legal

\* A script that reads a half has read the half as it is.
LEMMA HavingShape ==
  ASSUME TypeOK, NEW j \in Job, NEW h \in Half
  PROVE  /\ Having(j, h) \in Job
         /\ Having(j, h).op = j.op /\ Having(j, h).pc = j.pc
         /\ Having(j, h).want = j.want /\ Having(j, h).decided = j.decided
         /\ Having(j, h).copy[h] = index[h]
         /\ \A g \in Half \ {h} : Having(j, h).copy[g] = j.copy[g]
  BY DEF TypeOK, Having, Job

\* The decision keeps the operation and its step, and names the rows it takes.
LEMMA DecideShape ==
  ASSUME NEW j \in Job, NamesItsRows(j)
  PROVE  /\ Decide(j) \in Job /\ NamesItsRows(Decide(j))
         /\ Decide(j).op = j.op /\ Decide(j).pc = j.pc
<1> DEFINE f == Forgetting(j)
           seen == [s \in Sha |-> IF s \in j.want THEN j.copy["loc"][s]
                                  ELSE NoRow]
<1>1. /\ f \in Job /\ NamesItsRows(f)
      /\ f.op = j.op /\ f.pc = j.pc /\ f.want = j.want
  BY NoRowsType DEF Forgetting, AtRest, Job, NamesItsRows
<1>2. CASE j.op = "publish"
  <2>1. seen \in Rows /\ \A s \in Sha : seen[s] # NoRow => s \in j.want
    BY DEF Job, Rows, Half
  <2>2. Decide(j) = [f EXCEPT !.decided = seen]
    BY <1>2 DEF Decide
  <2> HIDE DEF f, seen
  <2>3. /\ Decide(j) \in Job /\ Decide(j).op = f.op /\ Decide(j).pc = f.pc
        /\ Decide(j).want = f.want /\ Decide(j).decided = seen
    BY <1>1, <2>1, <2>2 DEF Job
  <2> QED BY <1>1, <1>2, <2>1, <2>3 DEF NamesItsRows
<1>3. CASE j.op \in {"resolve", "close"}
  <2>1. Closable(j.copy) \in SUBSET Sha
    BY DEF Closable, In
  <2>2. Decide(j) = [f EXCEPT !.want = Closable(j.copy)]
    BY <1>3 DEF Decide
  <2> HIDE DEF f
  <2>3. /\ Decide(j) \in Job /\ Decide(j).op = f.op /\ Decide(j).pc = f.pc
        /\ Decide(j).decided = f.decided
    BY <1>1, <2>1, <2>2 DEF Job
  <2>4. \A s \in Sha : f.decided[s] = NoRow
    BY <1>1, <1>3 DEF NamesItsRows
  <2> QED BY <1>1, <2>3, <2>4 DEF NamesItsRows
<1>4. CASE j.op = "summary"
  <2>1. Decide(j) = j
    BY <1>4 DEF Decide
  <2> QED BY <2>1
<1>5. CASE j.op \notin {"publish", "resolve", "close", "summary"}
  <2>1. Decide(j) = f
    BY <1>5 DEF Decide
  <2> QED BY <1>1, <2>1
<1> QED BY <1>2, <1>3, <1>4, <1>5

(***************************************************************************)
(* One lemma for each action.                                              *)
(***************************************************************************)

\* What a begun operation proposes are rows for the samples it was given.
LEMMA ProposedShape ==
  ASSUME NEW op \in Operation, NEW w \in Named(op), NEW d \in Proposed(op, w),
         TypeOK
  PROVE  /\ w \in SUBSET Sha /\ d \in Rows
         /\ \A s \in Sha : d[s] # NoRow
                            => s \in w /\ op \notin {"resolve", "close"}
<1>1. Indexed \in SUBSET Sha
  BY DEF Indexed, In
<1>2. w \in SUBSET Sha
  BY <1>1 DEF Named
<1>3. CASE op \in {"importTree", "importProbe"}
  <2>1. PICK r \in [w -> ImportedRows(op)] :
          d = [s \in Sha |-> IF s \in w THEN r[s] ELSE NoRow]
    BY <1>3 DEF Proposed
  <2>2. ImportedRows(op) \subseteq Row
    BY DEF ImportedRows, TreeRows, ProbeRows, Row, Verdict, Tag, Hold
  <2>3. d \in Rows
    BY <2>1, <2>2 DEF Rows
  <2> QED BY <1>2, <1>3, <2>1, <2>3
<1>4. CASE op \notin {"importTree", "importProbe"}
  <2>1. d = NoRows
    BY <1>4 DEF Proposed
  <2> QED BY <1>2, <2>1, NoRowsType DEF NoRows
<1> QED BY <1>3, <1>4

LEMMA BeginStep ==
  ASSUME Locking, NEW t \in Tool, Begin(t)
  PROVE  Locking'
<1>1. PICK op \in Menu : \E p \in Entry(op), w \in Named(op) :
        \E d \in Proposed(op, w) :
          job' = [job EXCEPT ![t] = [op |-> op, pc |-> p, want |-> w,
                                     decided |-> d, copy |-> AtRest.copy]]
  BY DEF Begin
<1>a. PICK p \in Entry(op), w \in Named(op) : \E d \in Proposed(op, w) :
        job' = [job EXCEPT ![t] = [op |-> op, pc |-> p, want |-> w,
                                   decided |-> d, copy |-> AtRest.copy]]
  BY <1>1
<1>2. PICK d \in Proposed(op, w) :
        job' = [job EXCEPT ![t] = [op |-> op, pc |-> p, want |-> w,
                                   decided |-> d, copy |-> AtRest.copy]]
  BY <1>a
<1> DEFINE j == [op |-> op, pc |-> p, want |-> w, decided |-> d,
                 copy |-> AtRest.copy]
<1>3. TypeOK /\ op \in Operation
  BY CorpusAssumption DEF Locking
<1>4. /\ w \in SUBSET Sha /\ d \in Rows
      /\ \A s \in Sha : d[s] # NoRow
                         => s \in w /\ op \notin {"resolve", "close"}
  BY <1>3, ProposedShape
<1>5. p \in StepsOf(op) /\ p \in Step
  BY <1>3, EntryOpens DEF Half
<1>6. AtRest.copy \in [Half -> Rows]
  BY NoRowsType DEF AtRest
<1>7. j \in Job /\ Legal(j) /\ NamesItsRows(j)
  BY <1>3, <1>4, <1>5, <1>6 DEF Job, Legal, NamesItsRows
<1>8. /\ job' \in [Tool -> Job] /\ job'[t] = j
      /\ \A u \in Tool \ {t} : job'[u] = job[u]
  BY <1>2, <1>3, <1>7 DEF TypeOK
<1>9. \A h \in Half : ~Owns(job'[t].op, job'[t].pc, h)
                      /\ ~Relies(job'[t].op, job'[t].pc, h)
  BY <1>3, <1>8, EntryOpens
<1>10. \A h \in Half : lock[h] # t
  BY AtRestHoldsNothing DEF Locking, LockInv, Begin
<1>11. UNCHANGED <<upstream, index, lock>>
  BY DEF Begin
<1>12. LockInv' /\ CopyInv'
  BY <1>8, <1>9, <1>10, <1>11, OthersUndisturbed
<1>13. JobInv'
  BY <1>7, <1>8 DEF Locking, JobInv
<1>14. TypeOK'
  BY <1>8, <1>11 DEF Locking, TypeOK
<1> QED BY <1>12, <1>13, <1>14 DEF Locking

LEMMA LookAtBothStep ==
  ASSUME Locking, NEW t \in Tool, LookAtBoth(t)
  PROVE  Locking'
<1> DEFINE j == Having(job[t], "pub")
<1>1. /\ job[t] \in Job /\ job[t].op \in Operation
      /\ job[t].pc \in StepsOf(job[t].op) /\ NamesItsRows(job[t])
  BY WorkingJob DEF LookAtBoth
<1>2. TypeOK
  BY DEF Locking
<1>3. /\ j \in Job /\ j.op = job[t].op /\ j.pc = job[t].pc
      /\ j.want = job[t].want /\ j.decided = job[t].decided
  BY <1>1, <1>2, HavingShape DEF Half
<1>4. NamesItsRows(j)
  BY <1>1, <1>3 DEF NamesItsRows
<1>5. Continue(t, j) /\ UNCHANGED <<upstream, index, lock>>
      /\ job[t].pc = "lookPub"
  BY DEF LookAtBoth
<1> HIDE DEF j
<1>6. \A h \in Half : /\ lock[h] # t
                      /\ ~Owns(j.op, After(j.op, j.pc), h)
                      /\ ~Relies(j.op, After(j.op, j.pc), h)
  BY <1>1, <1>3, <1>5, LookPath DEF Locking, LockInv
<1>7. index \in [Half -> Rows] /\ lock \in [Half -> Tool \cup {Nobody}]
  BY <1>2 DEF TypeOK
<1> QED BY <1>1, <1>3, <1>4, <1>5, <1>6, <1>7, PathStep

LEMMA LookAndDecideStep ==
  ASSUME Locking, NEW t \in Tool, NEW h \in Half, LookAndDecide(t, h)
  PROVE  Locking'
<1> DEFINE j == Having(job[t], h)
<1>1. /\ Continue(t, Decide(j)) \/ Stop(t)
      /\ UNCHANGED <<upstream, index, lock>>
      /\ job[t].pc \in {"lookPub", "lookLoc"}
  BY DEF LookAndDecide, Half
<1>2. /\ job[t] \in Job /\ job[t].op \in Operation
      /\ job[t].pc \in StepsOf(job[t].op) /\ NamesItsRows(job[t])
  BY <1>1, WorkingJob
<1>3. TypeOK
  BY DEF Locking
<1>4. /\ j \in Job /\ j.op = job[t].op /\ j.pc = job[t].pc
      /\ j.want = job[t].want /\ j.decided = job[t].decided
  BY <1>2, <1>3, HavingShape
<1>5. NamesItsRows(j)
  BY <1>2, <1>4 DEF NamesItsRows
<1> HIDE DEF j
<1>6. /\ Decide(j) \in Job /\ NamesItsRows(Decide(j))
      /\ Decide(j).op = job[t].op /\ Decide(j).pc = job[t].pc
  BY <1>4, <1>5, DecideShape
<1>7. \A g \in Half : /\ lock[g] # t
                      /\ ~Owns(job[t].op, After(job[t].op, job[t].pc), g)
                      /\ ~Relies(job[t].op, After(job[t].op, job[t].pc), g)
  BY <1>1, <1>2, LookPath DEF Locking, LockInv
<1>8. index \in [Half -> Rows] /\ lock \in [Half -> Tool \cup {Nobody}]
  BY <1>3 DEF TypeOK
<1>9. CASE Continue(t, Decide(j))
  BY <1>1, <1>2, <1>6, <1>7, <1>8, <1>9, PathStep
<1>10. CASE Stop(t)
  <2>1. lock' = Released(t)
    BY <1>1, <1>7, <1>8 DEF Released
  <2> QED BY <1>1, <1>10, <2>1, StopStep
<1> QED BY <1>1, <1>9, <1>10

LEMMA LockStepKeeps ==
  ASSUME Locking, NEW t \in Tool, NEW h \in Half, Lock(t, h)
  PROVE  Locking'
<1> DEFINE j == job[t]
<1>1. /\ j.pc = LockStep[h] /\ lock[h] = Nobody /\ Continue(t, j)
      /\ lock' = [lock EXCEPT ![h] = t] /\ UNCHANGED <<upstream, index>>
  BY DEF Lock
<1>2. j.pc # "idle"
  BY <1>1 DEF LockStep, Half
<1>3. /\ j \in Job /\ j.op \in Operation
      /\ j.pc \in StepsOf(j.op) /\ NamesItsRows(j)
  BY <1>2, WorkingJob
<1>4. index \in [Half -> Rows] /\ lock \in [Half -> Tool \cup {Nobody}]
  BY DEF Locking, TypeOK
<1>5. lock' \in [Half -> Tool \cup {Nobody}]
  BY <1>1, <1>4
<1>6. \A g \in Half, u \in Tool \ {t} : lock'[g] = u <=> lock[g] = u
  BY <1>1, <1>4, CorpusAssumption
<1>7. \A g \in Half : lock[g] = t <=> Owns(j.op, j.pc, g)
  BY DEF Locking, LockInv
<1>8. \A g \in Half : index'[g] # index[g] => lock[g] = t
  BY <1>1
<1> HIDE DEF j
<1>9. \A g \in Half : lock'[g] = t <=> Owns(j.op, After(j.op, j.pc), g)
  <2> TAKE g \in Half
  <2>1. CASE g = h
    <3>1. Owns(j.op, After(j.op, j.pc), g)
      BY <1>1, <1>3, <2>1, LockPath
    <3> QED BY <1>1, <1>4, <2>1, <3>1
  <2>2. CASE g # h
    <3>1. Owns(j.op, After(j.op, j.pc), g) <=> Owns(j.op, j.pc, g)
      BY <1>1, <1>3, <2>2, LockPath
    <3> QED BY <1>1, <1>4, <1>7, <2>2, <3>1
  <2> QED BY <2>1, <2>2
<1>10. \A g \in Half : Relies(j.op, After(j.op, j.pc), g)
                        => j.copy[g] = index'[g]
  BY <1>1, <1>3, LockPath
<1> QED BY <1>1, <1>3, <1>4, <1>5, <1>6, <1>8, <1>9, <1>10, PathStep

LEMMA ReadKeeps ==
  ASSUME Locking, NEW t \in Tool, NEW h \in Half, Read(t, h)
  PROVE  Locking'
<1> DEFINE j == Having(job[t], h)
           p == job[t].pc
           op == job[t].op
<1>1. /\ p \in ReadSteps[h] /\ Continue(t, j)
      /\ UNCHANGED <<upstream, index, lock>>
  BY DEF Read
<1>2. p # "idle"
  BY <1>1 DEF ReadSteps, Half
<1>3. /\ job[t] \in Job /\ op \in Operation
      /\ p \in StepsOf(op) /\ NamesItsRows(job[t])
  BY <1>2, WorkingJob
<1>4. TypeOK
  BY DEF Locking
<1>5. /\ j \in Job /\ j.op = op /\ j.pc = p
      /\ j.want = job[t].want /\ j.decided = job[t].decided
      /\ j.copy[h] = index[h]
      /\ \A g \in Half \ {h} : j.copy[g] = job[t].copy[g]
  BY <1>3, <1>4, HavingShape
<1>6. NamesItsRows(j)
  BY <1>3, <1>5 DEF NamesItsRows
<1>7. \A g \in Half : /\ Owns(op, After(op, p), g) <=> Owns(op, p, g)
                      /\ Relies(op, After(op, p), g) => g = h \/ Relies(op, p, g)
  <2> TAKE g \in Half
  <2> HIDE DEF p, op
  <2> QED BY <1>1, <1>3, ReadPath
<1>8. \A g \in Half : /\ lock[g] = t <=> Owns(op, p, g)
                      /\ Relies(op, p, g) => job[t].copy[g] = index[g]
  BY DEF Locking, LockInv, CopyInv
<1>9. index \in [Half -> Rows] /\ lock \in [Half -> Tool \cup {Nobody}]
  BY <1>4 DEF TypeOK
<1> HIDE DEF j, p, op
<1>10. \A g \in Half : lock[g] = t <=> Owns(j.op, After(j.op, j.pc), g)
  BY <1>5, <1>7, <1>8
<1>11. \A g \in Half : Relies(j.op, After(j.op, j.pc), g)
                        => j.copy[g] = index[g]
  BY <1>5, <1>7, <1>8
<1> QED BY <1>1, <1>3, <1>5, <1>6, <1>9, <1>10, <1>11, PathStep

\* What a script writes is made from the half as it is: it holds the lock.
LEMMA WriteShape ==
  ASSUME Locking, NEW t \in Tool, NEW h \in Half, Write(t, h)
  PROVE  /\ lock[h] = t /\ job[t].copy[h] = index[h]
         /\ index' \in [Half -> Rows]
         /\ \A g \in Half : g # h => index'[g] = index[g]
         /\ index'[h] = (IF h = "pub" THEN NewPublished(job[t])
                         ELSE NewLocal(job[t]))
         /\ \A s \in Sha : s \notin job[t].want => index'[h][s] = index[h][s]
<1> DEFINE j == job[t]
           new == IF h = "pub" THEN NewPublished(j) ELSE NewLocal(j)
<1>1. j.pc = WriteStep[h] /\ index' = [index EXCEPT ![h] = new]
  BY DEF Write
<1>2. j.pc # "idle"
  BY <1>1 DEF WriteStep, Half
<1>3. /\ j \in Job /\ j.op \in Operation
      /\ j.pc \in StepsOf(j.op) /\ NamesItsRows(j)
  BY <1>2, WorkingJob
<1>4. Relies(j.op, j.pc, h)
  BY <1>1, <1>3, WritePath
<1>5. Owns(j.op, j.pc, h)
  BY <1>4, RelianceIsLocked
<1>6. lock[h] = t /\ j.copy[h] = index[h]
  BY <1>4, <1>5 DEF Locking, LockInv, CopyInv
<1>7. new \in Rows /\ \A s \in Sha : s \notin j.want => new[s] = j.copy[h][s]
  BY <1>3, NewPublishedShape, NewLocalShape DEF Half
<1>8. index \in [Half -> Rows]
  BY DEF Locking, TypeOK
<1> HIDE DEF new
<1>9. /\ index' \in [Half -> Rows] /\ index'[h] = new
      /\ \A g \in Half : g # h => index'[g] = index[g]
  BY <1>1, <1>7, <1>8
<1> QED BY <1>6, <1>7, <1>9 DEF new

LEMMA WriteKeeps ==
  ASSUME Locking, NEW t \in Tool, NEW h \in Half, Write(t, h)
  PROVE  Locking'
<1> DEFINE p == job[t].pc
           op == job[t].op
           j == [job[t] EXCEPT !.copy[h] = NoRows]
<1>1. p = WriteStep[h] /\ Continue(t, j) /\ UNCHANGED <<upstream, lock>>
  BY DEF Write
<1>2. p # "idle"
  BY <1>1 DEF WriteStep, Half
<1>3. /\ job[t] \in Job /\ op \in Operation
      /\ p \in StepsOf(op) /\ NamesItsRows(job[t])
  BY <1>2, WorkingJob
<1>4. /\ j \in Job /\ j.op = op /\ j.pc = p
      /\ j.want = job[t].want /\ j.decided = job[t].decided
      /\ \A g \in Half \ {h} : j.copy[g] = job[t].copy[g]
  BY <1>3, NoRowsType DEF Job
<1>5. NamesItsRows(j)
  BY <1>3, <1>4 DEF NamesItsRows
<1>6. \A g \in Half : /\ Owns(op, After(op, p), g) <=> Owns(op, p, g)
                      /\ Relies(op, After(op, p), g) => g # h /\ Relies(op, p, g)
  <2> TAKE g \in Half
  <2> HIDE DEF p, op
  <2> QED BY <1>1, <1>3, WritePath
<1>7. \A g \in Half : /\ lock[g] = t <=> Owns(op, p, g)
                      /\ Relies(op, p, g) => job[t].copy[g] = index[g]
  BY DEF Locking, LockInv, CopyInv
<1>8. /\ lock[h] = t /\ index' \in [Half -> Rows]
      /\ \A g \in Half : g # h => index'[g] = index[g]
  BY WriteShape
<1>9. lock \in [Half -> Tool \cup {Nobody}]
  BY DEF Locking, TypeOK
<1> HIDE DEF j, p, op
<1>10. \A g \in Half : lock[g] = t <=> Owns(j.op, After(j.op, j.pc), g)
  BY <1>4, <1>6, <1>7
<1>11. \A g \in Half : Relies(j.op, After(j.op, j.pc), g)
                        => j.copy[g] = index'[g]
  BY <1>4, <1>6, <1>7, <1>8
<1>12. \A g \in Half : index'[g] # index[g] => lock[g] = t
  BY <1>8
<1> QED BY <1>1, <1>3, <1>4, <1>5, <1>8, <1>9, <1>10, <1>11, <1>12, PathStep

LEMMA FreeKeeps ==
  ASSUME Locking, NEW t \in Tool, NEW h \in Half, Free(t, h)
  PROVE  Locking'
<1> DEFINE j == job[t]
<1>1. /\ j.pc = FreeStep[h] /\ Continue(t, j)
      /\ lock' = [lock EXCEPT ![h] = Nobody] /\ UNCHANGED <<upstream, index>>
  BY DEF Free
<1>2. j.pc # "idle"
  BY <1>1 DEF FreeStep, Half
<1>3. /\ j \in Job /\ j.op \in Operation
      /\ j.pc \in StepsOf(j.op) /\ NamesItsRows(j)
  BY <1>2, WorkingJob
<1>4. index \in [Half -> Rows] /\ lock \in [Half -> Tool \cup {Nobody}]
  BY DEF Locking, TypeOK
<1>5. \A g \in Half : lock[g] = t <=> Owns(j.op, j.pc, g)
  BY DEF Locking, LockInv
<1>6. \A g \in Half : index'[g] # index[g] => lock[g] = t
  BY <1>1
<1> HIDE DEF j
<1>7. lock' \in [Half -> Tool \cup {Nobody}]
  BY <1>1, <1>4
<1>8. lock[h] = t
  <2>1. Owns(j.op, j.pc, h)
    BY <1>1, <1>3, FreePath
  <2> QED BY <1>5, <2>1
<1>9. \A g \in Half, u \in Tool \ {t} : lock'[g] = u <=> lock[g] = u
  BY <1>1, <1>4, <1>8, CorpusAssumption
<1>10. \A g \in Half : lock'[g] = t <=> Owns(j.op, After(j.op, j.pc), g)
  <2> TAKE g \in Half
  <2>1. CASE g = h
    <3>1. ~Owns(j.op, After(j.op, j.pc), g)
      BY <1>1, <1>3, <2>1, FreePath
    <3> QED BY <1>1, <1>4, <2>1, <3>1, CorpusAssumption
  <2>2. CASE g # h
    <3>1. Owns(j.op, After(j.op, j.pc), g) <=> Owns(j.op, j.pc, g)
      BY <1>1, <1>3, <2>2, FreePath
    <3> QED BY <1>1, <1>4, <1>5, <2>2, <3>1
  <2> QED BY <2>1, <2>2
<1>11. \A g \in Half : Relies(j.op, After(j.op, j.pc), g)
                        => j.copy[g] = index'[g]
  BY <1>1, <1>3, FreePath
<1> QED BY <1>1, <1>3, <1>4, <1>6, <1>7, <1>9, <1>10, <1>11, PathStep

LEMMA BuildKeeps ==
  ASSUME Locking, NEW t \in Tool, Build(t)
  PROVE  Locking'
<1> DEFINE j == job[t]
<1>1. j.pc = "build" /\ Continue(t, j) /\ UNCHANGED <<upstream, index, lock>>
  BY DEF Build
<1>2. /\ j \in Job /\ j.op \in Operation
      /\ j.pc \in StepsOf(j.op) /\ NamesItsRows(j)
  BY <1>1, WorkingJob
<1>3. After(j.op, j.pc) = "idle" /\ \A g \in Half : lock[g] # t
  BY <1>1, <1>2, BuildPath DEF Locking, LockInv, Half
<1>4. Stop(t)
  BY <1>1, <1>3 DEF Continue, Stop
<1>5. lock' = Released(t)
  BY <1>1, <1>3 DEF Locking, TypeOK, Released
<1> QED BY <1>1, <1>4, <1>5, StopStep

LEMMA LockingInit ==
  ASSUME Init PROVE Locking
<1>1. TypeOK
  BY AtRestIsJob, NoRowsType DEF Init, TypeOK, Half
<1>2. \A t \in Tool : job[t] = AtRest /\ job[t].pc = "idle"
  BY DEF Init, AtRest
<1>3. JobInv
  BY <1>2, AtRestIsJob DEF JobInv
<1>4. LockInv
  BY <1>2, AtRestHoldsNothing, CorpusAssumption DEF LockInv, Init
<1>5. CopyInv
  BY <1>2, AtRestHoldsNothing DEF CopyInv
<1> QED BY <1>1, <1>3, <1>4, <1>5 DEF Locking

LEMMA LockingUnchanged ==
  ASSUME Locking, UNCHANGED vars PROVE Locking'
  BY DEF vars, Locking, TypeOK, LockInv, CopyInv, JobInv

LEMMA LockingStep ==
  ASSUME Locking, [Next]_vars PROVE Locking'
<1>1. CASE UNCHANGED vars
  BY <1>1, LockingUnchanged
<1>2. CASE Next
  <2>1. PICK t \in Tool : Begin(t) \/ Advance(t) \/ Crash(t)
    BY <1>2 DEF Next
  <2>2. CASE Begin(t)       BY <2>2, BeginStep
  <2>3. CASE LookAtBoth(t)  BY <2>3, LookAtBothStep
  <2>4. CASE Build(t)       BY <2>4, BuildKeeps
  <2>5. ASSUME NEW h \in Half, LookAndDecide(t, h) PROVE Locking'
    BY <2>5, LookAndDecideStep
  <2>6. ASSUME NEW h \in Half, Lock(t, h) PROVE Locking'
    BY <2>6, LockStepKeeps
  <2>7. ASSUME NEW h \in Half, Busy(t, h) PROVE Locking'
    BY <2>7, StopStep DEF Busy
  <2>8. ASSUME NEW h \in Half, Read(t, h) PROVE Locking'
    BY <2>8, ReadKeeps
  <2>9. ASSUME NEW h \in Half, Write(t, h) PROVE Locking'
    BY <2>9, WriteKeeps
  <2>10. ASSUME NEW h \in Half, Free(t, h) PROVE Locking'
    BY <2>10, FreeKeeps
  <2>11. CASE Crash(t)
    BY <2>11, StopStep DEF Crash
  <2> QED BY <2>1, <2>2, <2>3, <2>4, <2>5, <2>6, <2>7, <2>8, <2>9, <2>10, <2>11
          DEF Advance
<1> QED BY <1>1, <1>2

THEOREM LockingHolds == Spec => []Locking
<1>1. Init => Locking
  BY LockingInit
<1>2. Locking /\ [Next]_vars => Locking'
  BY LockingStep
<1> QED BY <1>1, <1>2, PTL DEF Spec

\* Every half, lock and script is of its type, whatever runs together.
THEOREM TypeCorrect == Spec => []TypeOK
<1>1. Locking => TypeOK
  BY DEF Locking
<1> QED BY <1>1, LockingHolds, PTL

(***************************************************************************)
(* Two scripts never hold what the other waits for.                        *)
(***************************************************************************)

\* Nobody takes the published half while it holds the local one.
LEMMA PublishedFirst ==
  ASSUME NEW op, NEW h \in Half, Owns(op, "lockPub", h)
  PROVE  FALSE
  BY DEF Owns, Half

\* publish-rows and derived_db agree on the order of the two locks, and no
\* other script holds one while it asks for the other: no deadly embrace.
THEOREM NobodyEmbraces == Spec => []NoEmbrace
<1>1. Locking => NoEmbrace
  BY PublishedFirst DEF Locking, LockInv, NoEmbrace, Half
<1> QED BY <1>1, LockingHolds, PTL

(***************************************************************************)
(* A rewrite changes its own rows.                                         *)
(***************************************************************************)

LEMMA IndexStep ==
  ASSUME Locking, [Next]_vars
  PROVE  \/ UNCHANGED index
         \/ \E t \in Tool, h \in Half : Write(t, h)
  BY DEF Next, vars, Begin, Advance, Crash, LookAtBoth, LookAndDecide, Lock,
         Busy, Read, Free, Build

LEMMA OwnRowsStep ==
  ASSUME Locking, [Next]_vars, NEW h \in Half, NEW s \in Sha,
         index'[h][s] # index[h][s]
  PROVE  \E t \in Tool : lock[h] = t /\ s \in job[t].want
<1>1. PICK t \in Tool, g \in Half : Write(t, g)
  BY IndexStep
<1>2. g = h /\ lock[g] = t
  BY <1>1, WriteShape
<1>3. s \in job[t].want
  BY <1>1, <1>2, WriteShape
<1> QED BY <1>2, <1>3

\* A rewrite of a whole half changes only rows of the script that holds its
\* lock: what it wrote back of the others is what was there.
THEOREM RewritesTouchTheirOwn == Spec => OnlyItsOwnRows
<1>1. Locking /\ [Next]_vars
      => [\A h \in Half : \A s \in Sha :
            index'[h][s] # index[h][s]
              => \E t \in Tool : lock[h] = t /\ s \in job[t].want]_vars
  BY OwnRowsStep
<1> QED BY <1>1, LockingHolds, PTL DEF Spec, OnlyItsOwnRows

(***************************************************************************)
(* The invariant about moves: what is known of the samples a script is     *)
(* about, at each step of its path.                                        *)
(***************************************************************************)

\* What stands at step p of an operation: its samples have a row it decided
\* on; are published; are indexed; are published or in the local half it
\* peeked at; are in the two halves it read.
Claim(op, p) ==
  CASE op = "publish" ->
         (CASE p \in {"lockPub", "lockLoc", "readPub", "readLoc", "writePub"}
                 -> "decided"
            [] p = "writeLoc" -> "published"
            [] OTHER          -> "nothing")
    [] op = "resolve" ->
         (CASE p \in {"lockPub", "readPub", "peekLoc"} -> "indexed"
            [] p = "writePub" -> "peeked"
            [] p \in {"freePub", "lockLoc", "readLoc", "writeLoc"} -> "published"
            [] OTHER -> "nothing")
    [] op = "derive" ->
         (CASE p \in {"lockPub", "lockLoc", "readPub", "readLoc"} -> "indexed"
            [] p \in {"freeLoc", "freePub", "build"} -> "whole"
            [] OTHER -> "nothing")
    [] OTHER -> "nothing"

\* pub and loc are the samples the two halves have.
Stands(claim, j, pub, loc) ==
  /\ claim = "decided"   => j.want \subseteq In(j.decided)
  /\ claim = "published" => j.want \subseteq pub
  /\ claim = "indexed"   => j.want \subseteq pub \cup loc
  /\ claim = "peeked"    => j.want \subseteq pub \cup In(j.copy["loc"])
  /\ claim = "whole"     => j.want \subseteq In(j.copy["pub"])
                                             \cup In(j.copy["loc"])

MoveInv == \A t \in Tool : Stands(Claim(job[t].op, job[t].pc), job[t],
                                  In(index["pub"]), In(index["loc"]))

LEMMA ClaimAtRest ==
  ASSUME NEW op PROVE Claim(op, "idle") = "nothing"
  BY DEF Claim

LEMMA ClaimAtEntry ==
  ASSUME NEW op \in Operation, NEW p \in Entry(op)
  PROVE  \/ Claim(op, p) = "nothing"
         \/ op = "derive" /\ Claim(op, p) = "indexed"
  BY DEF Operation, Entry, Claim

LEMMA ClaimAfterLook ==
  ASSUME NEW op \in Operation, NEW p \in StepsOf(op) \cap {"lookPub", "lookLoc"}
  PROVE  LET c == Claim(op, After(op, p))
         IN /\ op = "publish" => c = (IF p = "lookPub" THEN "nothing"
                                      ELSE "decided")
            /\ op = "resolve" => p = "lookLoc" /\ c = "indexed"
            /\ op \notin {"publish", "resolve"} => c = "nothing"
  BY DEF Operation, StepsOf, After, Claim, PublishPath, ResolvePath, DerivePath,
         SummaryPath, TreePath, OneHalf

LEMMA ClaimAfterLock ==
  ASSUME NEW op \in Operation, NEW p \in StepsOf(op) \cap {"lockPub", "lockLoc"}
  PROVE  Claim(op, After(op, p)) = Claim(op, p)
  BY DEF Operation, StepsOf, After, Claim, PublishPath, ResolvePath, DerivePath,
         SummaryPath, TreePath, OneHalf

LEMMA ClaimAfterRead ==
  ASSUME NEW op \in Operation, NEW h \in Half, NEW p,
         p \in ReadSteps[h], p \in StepsOf(op)
  PROVE  \/ /\ Claim(op, After(op, p)) = Claim(op, p)
            /\ Claim(op, p) \notin {"peeked", "whole"}
         \/ /\ h = "loc" /\ Claim(op, p) = "indexed"
            /\ Relies(op, p, "pub")
            /\ Claim(op, After(op, p)) \in {"peeked", "whole"}
  BY DEF Operation, Half, ReadSteps, StepsOf, After, Claim, Relies, BothLocks,
         PublishPath, ResolvePath, DerivePath, SummaryPath, TreePath, OneHalf

LEMMA ClaimAfterWrite ==
  ASSUME NEW op \in Operation, NEW h \in Half, NEW p,
         p = WriteStep[h], p \in StepsOf(op)
  PROVE  \/ Claim(op, After(op, p)) = "nothing"
         \/ /\ h = "pub" /\ Claim(op, After(op, p)) = "published"
            /\ \/ op = "publish" /\ Claim(op, p) = "decided"
               \/ op = "resolve" /\ Claim(op, p) = "peeked"
  BY DEF Operation, Half, WriteStep, StepsOf, After, Claim, PublishPath,
         ResolvePath, DerivePath, SummaryPath, TreePath, OneHalf

LEMMA ClaimAfterFree ==
  ASSUME NEW op \in Operation, NEW p \in StepsOf(op) \cap {"freePub", "freeLoc"}
  PROVE  Claim(op, After(op, p)) \in {Claim(op, p), "nothing"}
  BY DEF Operation, StepsOf, After, Claim, PublishPath, ResolvePath, DerivePath,
         SummaryPath, TreePath, OneHalf

\* The one step that takes rows from the local half has published them.
LEMMA ClaimOfMovers ==
  ASSUME NEW op \in {"publish", "resolve"}
  PROVE  Claim(op, "writeLoc") = "published"
  BY DEF Claim

(***************************************************************************)
(* No sample is lost.                                                      *)
(***************************************************************************)

\* The published half only grows.
LEMMA PublishedGrows ==
  ASSUME Locking, [Next]_vars
  PROVE  In(index["pub"]) \subseteq In(index'["pub"])
<1>1. CASE UNCHANGED index
  BY <1>1
<1>2. ASSUME NEW t \in Tool, NEW h \in Half, Write(t, h)
      PROVE  In(index["pub"]) \subseteq In(index'["pub"])
  <2>1. CASE h = "pub"
    <3>1. job[t].pc # "idle"
      BY <1>2, <2>1 DEF Write, WriteStep
    <3>2. job[t] \in Job /\ NamesItsRows(job[t])
      BY <3>1, WorkingJob
    <3>3. /\ index'["pub"] = NewPublished(job[t])
          /\ job[t].copy["pub"] = index["pub"]
      BY <1>2, <2>1, WriteShape
    <3> QED BY <3>2, <3>3, NewPublishedShape
  <2>2. CASE h = "loc"
    <3>1. index'["pub"] = index["pub"]
      BY <1>2, <2>2, WriteShape DEF Half
    <3> QED BY <3>1
  <2> QED BY <2>1, <2>2 DEF Half
<1> QED BY <1>1, <1>2, IndexStep

LEMMA IndexedGrows ==
  ASSUME Locking, MoveInv, [Next]_vars
  PROVE  Indexed \subseteq Indexed'
<1>1. In(index["pub"]) \subseteq In(index'["pub"])
  BY PublishedGrows
<1>2. CASE UNCHANGED index
  BY <1>2 DEF Indexed
<1>3. ASSUME NEW t \in Tool, Write(t, "pub") PROVE Indexed \subseteq Indexed'
  <2>1. index'["loc"] = index["loc"]
    BY <1>3, WriteShape DEF Half
  <2> QED BY <1>1, <2>1 DEF Indexed
<1>4. ASSUME NEW t \in Tool, Write(t, "loc") PROVE Indexed \subseteq Indexed'
  <2>1. job[t].pc = "writeLoc"
    BY <1>4 DEF Write, WriteStep
  <2>2. job[t] \in Job /\ NamesItsRows(job[t])
    BY <2>1, WorkingJob
  <2>3. index'["loc"] = NewLocal(job[t]) /\ job[t].copy["loc"] = index["loc"]
    BY <1>4, WriteShape DEF Half
  <2>4. \A s \in In(index["loc"]) \ In(index'["loc"]) :
          job[t].op \in {"publish", "resolve"} /\ s \in job[t].want
    BY <2>2, <2>3, NewLocalShape
  <2>5. job[t].op \in {"publish", "resolve"}
        => job[t].want \subseteq In(index["pub"])
    BY <2>1, ClaimOfMovers DEF MoveInv, Stands
  <2> QED BY <1>1, <2>4, <2>5 DEF Indexed
<1> QED BY <1>2, <1>3, <1>4, IndexStep DEF Half

(***************************************************************************)
(* Every step keeps what stands.                                           *)
(***************************************************************************)

\* What stands goes on standing while the halves grow together.
LEMMA StandsAsHalvesGrow ==
  ASSUME NEW c, NEW j, NEW pub, NEW loc, NEW pub2, NEW loc2,
         pub \subseteq pub2, pub \cup loc \subseteq pub2 \cup loc2,
         Stands(c, j, pub, loc)
  PROVE  Stands(c, j, pub2, loc2)
  BY DEF Stands

LEMMA NothingStands ==
  ASSUME NEW j, NEW pub, NEW loc PROVE Stands("nothing", j, pub, loc)
  BY DEF Stands

\* It is enough to look at the script that took the step.
LEMMA MoveInvOfOne ==
  ASSUME Locking, MoveInv, [Next]_vars, NEW t \in Tool,
         \A u \in Tool \ {t} : job'[u] = job[u],
         Stands(Claim(job'[t].op, job'[t].pc), job'[t],
                In(index'["pub"]), In(index'["loc"]))
  PROVE  MoveInv'
<1>1. In(index["pub"]) \subseteq In(index'["pub"])
  BY PublishedGrows
<1>2. In(index["pub"]) \cup In(index["loc"])
        \subseteq In(index'["pub"]) \cup In(index'["loc"])
  BY IndexedGrows DEF Indexed
<1>3. ASSUME NEW u \in Tool
      PROVE  Stands(Claim(job'[u].op, job'[u].pc), job'[u],
                    In(index'["pub"]), In(index'["loc"]))
  <2>1. CASE u = t  BY <2>1
  <2>2. CASE u # t
    <3>1. job'[u] = job[u]
      BY <2>2
    <3>2. Stands(Claim(job[u].op, job[u].pc), job[u],
                 In(index["pub"]), In(index["loc"]))
      BY DEF MoveInv
    <3>3. Stands(Claim(job[u].op, job[u].pc), job[u],
                 In(index'["pub"]), In(index'["loc"]))
      BY <1>1, <1>2, <3>2, StandsAsHalvesGrow
    <3> QED BY <3>1, <3>3
  <2> QED BY <2>1, <2>2
<1> QED BY <1>3 DEF MoveInv

\* A script that has stopped claims nothing.
LEMMA StopMoves ==
  ASSUME Locking, MoveInv, [Next]_vars, NEW t \in Tool, Stop(t)
  PROVE  MoveInv'
<1>1. job'[t] = AtRest /\ \A u \in Tool \ {t} : job'[u] = job[u]
  BY StopShape DEF Locking
<1>2. Claim(job'[t].op, job'[t].pc) = "nothing"
  BY <1>1, ClaimAtRest DEF AtRest
<1> QED BY <1>1, <1>2, NothingStands, MoveInvOfOne

\* A script that goes on needs what is claimed at its next step.
LEMMA ContinueMoves ==
  ASSUME Locking, MoveInv, [Next]_vars, NEW t \in Tool, NEW j \in Job,
         j.op \in Operation, j.pc \in StepsOf(j.op), NamesItsRows(j),
         Continue(t, j),
         Stands(Claim(j.op, After(j.op, j.pc)), j,
                In(index'["pub"]), In(index'["loc"]))
  PROVE  MoveInv'
<1> DEFINE n == After(j.op, j.pc)
<1>1. CASE n = "idle"
  <2>1. Stop(t)
    BY <1>1 DEF Continue, Stop
  <2> QED BY <2>1, StopMoves
<1>2. CASE n # "idle"
  <2>1. TypeOK /\ JobInv
    BY DEF Locking
  <2>2. job'[t] = [j EXCEPT !.pc = n] /\ \A u \in Tool \ {t} : job'[u] = job[u]
    BY <1>2, <2>1, ContinueShape
  <2> HIDE DEF n
  <2>3. /\ job'[t].pc = n /\ job'[t].op = j.op /\ job'[t].want = j.want
        /\ job'[t].decided = j.decided /\ job'[t].copy = j.copy
    BY <2>2 DEF Job
  <2>4. Stands(Claim(j.op, n), job'[t], In(index'["pub"]), In(index'["loc"]))
    BY <2>3 DEF Stands, n
  <2> QED BY <2>2, <2>3, <2>4, MoveInvOfOne
<1> QED BY <1>1, <1>2

LEMMA BeginMoves ==
  ASSUME Locking, MoveInv, [Next]_vars, NEW t \in Tool, Begin(t)
  PROVE  MoveInv'
<1>1. PICK op \in Menu : \E p \in Entry(op), w \in Named(op) :
        \E d \in Proposed(op, w) :
          job' = [job EXCEPT ![t] = [op |-> op, pc |-> p, want |-> w,
                                     decided |-> d, copy |-> AtRest.copy]]
  BY DEF Begin
<1>2. PICK p \in Entry(op), w \in Named(op) : \E d \in Proposed(op, w) :
        job' = [job EXCEPT ![t] = [op |-> op, pc |-> p, want |-> w,
                                   decided |-> d, copy |-> AtRest.copy]]
  BY <1>1
<1>3. PICK d \in Proposed(op, w) :
        job' = [job EXCEPT ![t] = [op |-> op, pc |-> p, want |-> w,
                                   decided |-> d, copy |-> AtRest.copy]]
  BY <1>2
<1>4. op \in Operation
  BY CorpusAssumption
<1>5. /\ job'[t].op = op /\ job'[t].pc = p /\ job'[t].want = w
      /\ \A u \in Tool \ {t} : job'[u] = job[u]
  BY <1>3 DEF Locking, TypeOK
<1>6. index' = index
  BY DEF Begin
<1>7. CASE Claim(op, p) = "nothing"
  BY <1>5, <1>7, NothingStands, MoveInvOfOne
<1>8. CASE op = "derive" /\ Claim(op, p) = "indexed"
  <2>1. w = In(index["pub"]) \cup In(index["loc"])
    BY <1>8 DEF Named, Indexed
  <2>2. Stands(Claim(job'[t].op, job'[t].pc), job'[t],
               In(index'["pub"]), In(index'["loc"]))
    BY <1>5, <1>6, <1>8, <2>1 DEF Stands
  <2> QED BY <1>5, <2>2, MoveInvOfOne
<1> QED BY <1>4, <1>7, <1>8, ClaimAtEntry

LEMMA LookAtBothMoves ==
  ASSUME Locking, MoveInv, [Next]_vars, NEW t \in Tool, LookAtBoth(t)
  PROVE  MoveInv'
<1> DEFINE j == Having(job[t], "pub")
<1>1. /\ job[t] \in Job /\ job[t].op \in Operation
      /\ job[t].pc \in StepsOf(job[t].op) /\ NamesItsRows(job[t])
  BY WorkingJob DEF LookAtBoth
<1>2. TypeOK
  BY DEF Locking
<1>3. /\ j \in Job /\ j.op = job[t].op /\ j.pc = job[t].pc
      /\ j.want = job[t].want /\ j.decided = job[t].decided
  BY <1>1, <1>2, HavingShape DEF Half
<1>4. Continue(t, j) /\ job[t].pc = "lookPub"
  BY DEF LookAtBoth
<1>5. NamesItsRows(j)
  BY <1>1, <1>3 DEF NamesItsRows
<1>6. Claim(job[t].op, After(job[t].op, job[t].pc)) = "nothing"
  BY <1>1, <1>4, ClaimAfterLook
<1> HIDE DEF j
<1> QED BY <1>1, <1>3, <1>4, <1>5, <1>6, NothingStands, ContinueMoves

\* What a script decides on: rows it saw, or samples the half still has.
LEMMA DecideStands ==
  ASSUME NEW j \in Job, NEW h \in Half, NEW pub,
         j.op \in {"publish", "resolve"}, Accepts(j, h)
  PROVE  /\ j.op = "publish" => Stands("decided", Decide(j), pub, In(j.copy["loc"]))
         /\ j.op = "resolve" => Stands("indexed", Decide(j), pub, In(j.copy["loc"]))
<1>1. CASE j.op = "publish"
  <2>1. j.want \subseteq In(j.copy["loc"])
    BY <1>1 DEF Accepts, Movable
  <2>2. /\ Decide(j).want = j.want
        /\ Decide(j).decided = [s \in Sha |-> IF s \in j.want
                                             THEN j.copy["loc"][s] ELSE NoRow]
    BY <1>1 DEF Decide, Forgetting, Job
  <2>3. j.want \subseteq In(Decide(j).decided)
    BY <2>1, <2>2 DEF In
  <2> QED BY <1>1, <2>2, <2>3 DEF Stands
<1>2. CASE j.op = "resolve"
  <2>1. Decide(j).want = Closable(j.copy)
    BY <1>2 DEF Decide, Forgetting, Job
  <2> QED BY <1>2, <2>1 DEF Stands, Closable
<1> QED BY <1>1, <1>2

LEMMA LookAndDecideMoves ==
  ASSUME Locking, MoveInv, [Next]_vars, NEW t \in Tool, NEW h \in Half,
         LookAndDecide(t, h)
  PROVE  MoveInv'
<1> DEFINE j == Having(job[t], h)
           op == job[t].op
           p == job[t].pc
<1>1. /\ p = [pub |-> "lookPub", loc |-> "lookLoc"][h]
      /\ After(op, p) # "lookLoc"
      /\ UNCHANGED <<upstream, index, lock>>
      /\ (Accepts(j, h) /\ Continue(t, Decide(j))) \/ Stop(t)
  BY DEF LookAndDecide
<1>2. p \in {"lookPub", "lookLoc"} /\ p # "idle"
  BY <1>1 DEF Half
<1>3. /\ job[t] \in Job /\ op \in Operation
      /\ p \in StepsOf(op) /\ NamesItsRows(job[t])
  BY <1>2, WorkingJob
<1>4. TypeOK
  BY DEF Locking
<1>5. /\ j \in Job /\ j.op = op /\ j.pc = p
      /\ j.want = job[t].want /\ j.decided = job[t].decided
      /\ j.copy[h] = index[h]
  BY <1>3, <1>4, HavingShape
<1>6. NamesItsRows(j)
  BY <1>3, <1>5 DEF NamesItsRows
<1> HIDE DEF j
<1>7. /\ Decide(j) \in Job /\ NamesItsRows(Decide(j))
      /\ Decide(j).op = op /\ Decide(j).pc = p
  BY <1>5, <1>6, DecideShape
<1>8. CASE Stop(t)
  BY <1>8, StopMoves
<1>9. CASE Accepts(j, h) /\ Continue(t, Decide(j))
  <2> DEFINE c == Claim(op, After(op, p))
  <2>1. Stands(c, Decide(j), In(index'["pub"]), In(index'["loc"]))
    <3>1. CASE op \notin {"publish", "resolve"}
      <4>1. c = "nothing"
        <5> HIDE DEF op, p
        <5> QED BY <1>2, <1>3, <3>1, ClaimAfterLook
      <4> QED BY <4>1, NothingStands
    <3>2. CASE op \in {"publish", "resolve"}
      <4>1. p = "lookLoc"
        <5> HIDE DEF op
        <5>1. op = "publish" => After(op, "lookPub") = "lookLoc"
          BY DEF After, PublishPath
        <5>2. op = "resolve" => "lookPub" \notin StepsOf(op)
          BY DEF StepsOf, ResolvePath
        <5> QED BY <1>1, <1>2, <1>3, <3>2, <5>1, <5>2
      <4>2. h = "loc"
        BY <1>1, <4>1 DEF Half
      <4>3. c = (IF op = "publish" THEN "decided" ELSE "indexed")
        <5> HIDE DEF op, p
        <5> QED BY <1>2, <1>3, <3>2, <4>1, ClaimAfterLook
      <4>4. index'["loc"] = j.copy["loc"]
        BY <1>1, <1>5, <4>2
      <4> HIDE DEF c, op
      <4> QED BY <1>5, <1>9, <3>2, <4>3, <4>4, DecideStands
    <3> QED BY <3>1, <3>2
  <2> HIDE DEF op, p
  <2> QED BY <1>3, <1>7, <1>9, <2>1, ContinueMoves
<1> QED BY <1>1, <1>8, <1>9

\* Taking or freeing a lock leaves the script with what it had.
LEMMA LockMoves ==
  ASSUME Locking, MoveInv, [Next]_vars, NEW t \in Tool, NEW h \in Half,
         Lock(t, h) \/ Free(t, h)
  PROVE  MoveInv'
<1> DEFINE j == job[t]
<1>1. /\ j.pc \in {"lockPub", "lockLoc", "freePub", "freeLoc"}
      /\ Continue(t, j) /\ index' = index
  BY DEF Lock, Free, LockStep, FreeStep, Half
<1>2. /\ j \in Job /\ j.op \in Operation
      /\ j.pc \in StepsOf(j.op) /\ NamesItsRows(j)
  BY <1>1, WorkingJob
<1>3. Stands(Claim(j.op, j.pc), j, In(index["pub"]), In(index["loc"]))
  BY DEF MoveInv
<1> HIDE DEF j
<1>4. Claim(j.op, After(j.op, j.pc)) \in {Claim(j.op, j.pc), "nothing"}
  BY <1>1, <1>2, ClaimAfterLock, ClaimAfterFree
<1>5. Stands(Claim(j.op, After(j.op, j.pc)), j,
             In(index'["pub"]), In(index'["loc"]))
  BY <1>1, <1>3, <1>4, NothingStands
<1> QED BY <1>1, <1>2, <1>5, ContinueMoves

LEMMA ReadMoves ==
  ASSUME Locking, MoveInv, [Next]_vars, NEW t \in Tool, NEW h \in Half,
         Read(t, h)
  PROVE  MoveInv'
<1> DEFINE j == Having(job[t], h)
           p == job[t].pc
           op == job[t].op
           c == Claim(op, p)
           n == Claim(op, After(op, p))
<1>1. p \in ReadSteps[h] /\ Continue(t, j) /\ index' = index
  BY DEF Read
<1>2. p # "idle"
  BY <1>1 DEF ReadSteps, Half
<1>3. /\ job[t] \in Job /\ op \in Operation
      /\ p \in StepsOf(op) /\ NamesItsRows(job[t])
  BY <1>2, WorkingJob
<1>4. TypeOK
  BY DEF Locking
<1>5. /\ j \in Job /\ j.op = op /\ j.pc = p
      /\ j.want = job[t].want /\ j.decided = job[t].decided
      /\ j.copy[h] = index[h]
      /\ \A g \in Half \ {h} : j.copy[g] = job[t].copy[g]
  BY <1>3, <1>4, HavingShape
<1>6. NamesItsRows(j)
  BY <1>3, <1>5 DEF NamesItsRows
<1>7. Stands(c, job[t], In(index["pub"]), In(index["loc"]))
  BY DEF MoveInv
<1>8. Relies(op, p, "pub") => job[t].copy["pub"] = index["pub"]
  BY DEF Locking, CopyInv, Half
<1> HIDE DEF j
<1>9. Stands(n, j, In(index["pub"]), In(index["loc"]))
  <2>1. CASE n = c /\ c \notin {"peeked", "whole"}
    <3> HIDE DEF c, n
    <3> QED BY <1>5, <1>7, <2>1 DEF Stands
  <2>2. CASE h = "loc" /\ c = "indexed" /\ Relies(op, p, "pub")
             /\ n \in {"peeked", "whole"}
    <3>1. j.copy["loc"] = index["loc"] /\ j.copy["pub"] = index["pub"]
      BY <1>5, <1>8, <2>2 DEF Half
    <3>2. j.want \subseteq In(index["pub"]) \cup In(index["loc"])
      BY <1>5, <1>7, <2>2 DEF Stands
    <3> HIDE DEF c, n
    <3> QED BY <2>2, <3>1, <3>2 DEF Stands
  <2>3. \/ n = c /\ c \notin {"peeked", "whole"}
        \/ h = "loc" /\ c = "indexed" /\ Relies(op, p, "pub")
           /\ n \in {"peeked", "whole"}
    <3> HIDE DEF p, op
    <3> QED BY <1>1, <1>3, ClaimAfterRead
  <2> HIDE DEF c, n
  <2> QED BY <2>1, <2>2, <2>3
<1> HIDE DEF p, op
<1> QED BY <1>1, <1>3, <1>5, <1>6, <1>9, ContinueMoves

\* A mover that has written the published half has published its samples.
LEMMA PublishedAll ==
  ASSUME NEW j \in Job, NamesItsRows(j),
         \/ j.op = "publish" /\ j.want \subseteq In(j.decided)
         \/ j.op = "resolve"
            /\ j.want \subseteq In(j.copy["pub"]) \cup In(j.copy["loc"])
  PROVE  j.want \subseteq In(NewPublished(j))
<1> DEFINE pub == j.copy["pub"]
           loc == j.copy["loc"]
           closed == [s \in Sha |-> IF s \in j.want \cap In(loc)
                                    THEN PublishedRow(loc[s]) ELSE NoRow]
<1>1. pub \in Rows /\ loc \in Rows /\ j.decided \in Rows /\ j.want \subseteq Sha
  BY DEF Job, Half
<1>2. CASE j.op = "publish" /\ j.want \subseteq In(j.decided)
  <2>1. NewPublished(j) = Added(pub, j.decided)
    BY <1>2 DEF NewPublished
  <2> QED BY <1>1, <1>2, <2>1, AddedShape
<1>3. CASE j.op = "resolve" /\ j.want \subseteq In(pub) \cup In(loc)
  <2>1. NewPublished(j) = Added(pub, closed)
    BY <1>3 DEF NewPublished
  <2>2. \A s \in j.want \cap In(loc) : PublishedRow(loc[s]) \in Row
    BY <1>1, RowOfIn, ClosedRowType
  <2>3. closed \in Rows
    BY <2>2 DEF Rows
  <2>4. j.want \cap In(loc) \subseteq In(closed)
    BY <1>1, <2>2, CorpusAssumption DEF In
  <2> HIDE DEF closed
  <2> QED BY <1>1, <1>3, <2>1, <2>3, <2>4, AddedShape
<1> QED BY <1>2, <1>3

LEMMA WriteMoves ==
  ASSUME Locking, MoveInv, [Next]_vars, NEW t \in Tool, NEW h \in Half,
         Write(t, h)
  PROVE  MoveInv'
<1> DEFINE p == job[t].pc
           op == job[t].op
           j == [job[t] EXCEPT !.copy[h] = NoRows]
           c == Claim(op, p)
           n == Claim(op, After(op, p))
<1>1. p = WriteStep[h] /\ Continue(t, j)
  BY DEF Write
<1>2. p # "idle"
  BY <1>1 DEF WriteStep, Half
<1>3. /\ job[t] \in Job /\ op \in Operation
      /\ p \in StepsOf(op) /\ NamesItsRows(job[t])
  BY <1>2, WorkingJob
<1>4. /\ j \in Job /\ j.op = op /\ j.pc = p
      /\ j.want = job[t].want /\ j.decided = job[t].decided
  BY <1>3, NoRowsType DEF Job
<1>5. NamesItsRows(j)
  BY <1>3, <1>4 DEF NamesItsRows
<1>6. Stands(c, job[t], In(index["pub"]), In(index["loc"]))
  BY DEF MoveInv
<1> HIDE DEF j
<1>7. CASE n = "nothing"
  <2> HIDE DEF p, op
  <2> QED BY <1>1, <1>3, <1>4, <1>5, <1>7, NothingStands, ContinueMoves
<1>8. CASE h = "pub" /\ n = "published"
           /\ \/ op = "publish" /\ c = "decided"
              \/ op = "resolve" /\ c = "peeked"
  <2>1. /\ index'["pub"] = NewPublished(job[t])
        /\ job[t].copy["pub"] = index["pub"]
    BY <1>8, WriteShape
  <2>2. \/ op = "publish" /\ job[t].want \subseteq In(job[t].decided)
        \/ op = "resolve" /\ job[t].want \subseteq In(job[t].copy["pub"])
                                               \cup In(job[t].copy["loc"])
    BY <1>6, <1>8, <2>1 DEF Stands
  <2>3. job[t].want \subseteq In(index'["pub"])
    BY <1>3, <2>1, <2>2, PublishedAll
  <2>4. Stands(n, j, In(index'["pub"]), In(index'["loc"]))
    BY <1>4, <1>8, <2>3 DEF Stands
  <2> HIDE DEF p, op
  <2> QED BY <1>1, <1>3, <1>4, <1>5, <2>4, ContinueMoves
<1>9. \/ n = "nothing"
      \/ h = "pub" /\ n = "published" /\ \/ op = "publish" /\ c = "decided"
                                         \/ op = "resolve" /\ c = "peeked"
  <2> HIDE DEF p, op
  <2> QED BY <1>1, <1>3, ClaimAfterWrite
<1> HIDE DEF n, c
<1> QED BY <1>7, <1>8, <1>9

LEMMA BuildMoves ==
  ASSUME Locking, MoveInv, [Next]_vars, NEW t \in Tool, Build(t)
  PROVE  MoveInv'
<1>1. job[t].pc = "build" /\ Continue(t, job[t])
  BY DEF Build
<1>2. /\ job[t] \in Job /\ job[t].op \in Operation
      /\ job[t].pc \in StepsOf(job[t].op) /\ NamesItsRows(job[t])
  BY <1>1, WorkingJob
<1>3. After(job[t].op, job[t].pc) = "idle"
  BY <1>1, <1>2, BuildPath DEF Half
<1>4. Stop(t)
  BY <1>1, <1>3 DEF Continue, Stop
<1> QED BY <1>4, StopMoves

LEMMA MoveInvStep ==
  ASSUME Locking, MoveInv, [Next]_vars PROVE MoveInv'
<1>1. CASE UNCHANGED vars
  BY <1>1 DEF vars, MoveInv
<1>2. CASE Next
  <2>1. PICK t \in Tool : Begin(t) \/ Advance(t) \/ Crash(t)
    BY <1>2 DEF Next
  <2>2. CASE Begin(t)       BY <2>2, BeginMoves
  <2>3. CASE LookAtBoth(t)  BY <2>3, LookAtBothMoves
  <2>4. CASE Build(t)       BY <2>4, BuildMoves
  <2>5. ASSUME NEW h \in Half, LookAndDecide(t, h) PROVE MoveInv'
    BY <2>5, LookAndDecideMoves
  <2>6. ASSUME NEW h \in Half, Lock(t, h) \/ Free(t, h) PROVE MoveInv'
    BY <2>6, LockMoves
  <2>7. ASSUME NEW h \in Half, Busy(t, h) PROVE MoveInv'
    BY <2>7, StopMoves DEF Busy
  <2>8. ASSUME NEW h \in Half, Read(t, h) PROVE MoveInv'
    BY <2>8, ReadMoves
  <2>9. ASSUME NEW h \in Half, Write(t, h) PROVE MoveInv'
    BY <2>9, WriteMoves
  <2>10. CASE Crash(t)
    BY <2>10, StopMoves DEF Crash
  <2> QED BY <2>1, <2>2, <2>3, <2>4, <2>5, <2>6, <2>7, <2>8, <2>9, <2>10
          DEF Advance
<1> QED BY <1>1, <1>2

THEOREM MovesHold == Spec => [](Locking /\ MoveInv)
<1>1. Init => Locking /\ MoveInv
  <2>1. ASSUME Init PROVE MoveInv
    <3>1. \A t \in Tool : Claim(job[t].op, job[t].pc) = "nothing"
      BY <2>1, ClaimAtRest DEF Init, AtRest
    <3> QED BY <3>1, NothingStands DEF MoveInv
  <2> QED BY <2>1, LockingInit
<1>2. (Locking /\ MoveInv) /\ [Next]_vars => (Locking /\ MoveInv)'
  BY LockingStep, MoveInvStep
<1> QED BY <1>1, <1>2, PTL DEF Spec

\* Neither publish-rows nor resolve-benign, nor any script beside them, takes
\* a sample out of one half without its being in the other, even if it dies
\* between its two writes.
THEOREM MovesLoseNothing == Spec => NoSampleIsLost
<1>1. Locking /\ MoveInv /\ [Next]_vars
      => [\A s \in Indexed : s \in Indexed']_vars
  BY IndexedGrows
<1> QED BY <1>1, MovesHold, PTL DEF Spec, NoSampleIsLost

\* derived_db builds from every sample there was when it began.
THEOREM BuiltFromTheWholeIndex == Spec => []DatabaseIsWhole
<1>1. Locking /\ MoveInv => DatabaseIsWhole
  <2> SUFFICES ASSUME MoveInv, NEW t \in Tool,
                      job[t].op = "derive", job[t].pc = "build"
               PROVE  job[t].want \subseteq In(job[t].copy["pub"])
                                            \cup In(job[t].copy["loc"])
    BY DEF DatabaseIsWhole
  <2>1. Claim("derive", "build") = "whole"
    BY DEF Claim
  <2> QED BY <2>1 DEF MoveInv, Stands
<1> QED BY <1>1, MovesHold, PTL

(***************************************************************************)
(* What is published was cleared.                                          *)
(***************************************************************************)

\* The rows a publisher decided on are rows the gate lets through.
Cleared(j) ==
  j.op = "publish" => \A s \in In(j.decided) : Publishable(j.decided[s])

ClearedInv == \A t \in Tool : Cleared(job[t])

LEMMA ClearedOfOne ==
  ASSUME TypeOK, ClearedInv, NEW t \in Tool, NEW j,
         job' = [job EXCEPT ![t] = j], Cleared(j)
  PROVE  ClearedInv'
<1>1. \A u \in Tool : job'[u] = (IF u = t THEN j ELSE job[u])
  BY DEF TypeOK
<1>2. \A u \in Tool : Cleared(job'[u])
  BY <1>1 DEF ClearedInv
<1> QED BY <1>2 DEF ClearedInv

LEMMA ClearedAtRest == Cleared(AtRest)
  BY DEF Cleared, AtRest

LEMMA ClearedStop ==
  ASSUME TypeOK, ClearedInv, NEW t \in Tool, Stop(t) PROVE ClearedInv'
  BY ClearedAtRest, ClearedOfOne DEF Stop

LEMMA ClearedContinue ==
  ASSUME TypeOK, ClearedInv, NEW t \in Tool, NEW j \in Job, Cleared(j),
         Continue(t, j)
  PROVE  ClearedInv'
<1> DEFINE n == After(j.op, j.pc)
<1>1. CASE n = "idle"
  <2>1. Stop(t)
    BY <1>1 DEF Continue, Stop
  <2> QED BY <2>1, ClearedStop
<1>2. CASE n # "idle"
  <2> DEFINE k == [j EXCEPT !.pc = n]
  <2>1. job' = [job EXCEPT ![t] = k]
    BY <1>2 DEF Continue
  <2>2. k.op = j.op /\ k.decided = j.decided
    BY DEF Job
  <2> HIDE DEF k, n
  <2>3. Cleared(k)
    BY <2>2 DEF Cleared
  <2> QED BY <2>1, <2>3, ClearedOfOne
<1> QED BY <1>1, <1>2

LEMMA ClearedBegin ==
  ASSUME TypeOK, ClearedInv, NEW t \in Tool, Begin(t) PROVE ClearedInv'
<1>1. PICK op \in Menu : \E p \in Entry(op), w \in Named(op) :
        \E d \in Proposed(op, w) :
          job' = [job EXCEPT ![t] = [op |-> op, pc |-> p, want |-> w,
                                     decided |-> d, copy |-> AtRest.copy]]
  BY DEF Begin
<1>2. PICK p \in Entry(op), w \in Named(op) : \E d \in Proposed(op, w) :
        job' = [job EXCEPT ![t] = [op |-> op, pc |-> p, want |-> w,
                                   decided |-> d, copy |-> AtRest.copy]]
  BY <1>1
<1>3. PICK d \in Proposed(op, w) :
        job' = [job EXCEPT ![t] = [op |-> op, pc |-> p, want |-> w,
                                   decided |-> d, copy |-> AtRest.copy]]
  BY <1>2
<1> DEFINE j == [op |-> op, pc |-> p, want |-> w, decided |-> d,
                 copy |-> AtRest.copy]
<1>4. op = "publish" => In(d) = {}
  BY DEF Proposed, NoRows, In
<1>5. Cleared(j)
  BY <1>4 DEF Cleared
<1> HIDE DEF j
<1> QED BY <1>3, <1>5, ClearedOfOne DEF j

LEMMA ClearedDecision ==
  ASSUME NEW j \in Job, NEW h \in Half, Cleared(j), Accepts(j, h)
  PROVE  Cleared(Decide(j))
<1>1. CASE j.op = "publish"
  <2>1. \A s \in j.want : Publishable(j.copy["loc"][s])
    BY <1>1 DEF Accepts, Movable
  <2>2. Decide(j).decided = [s \in Sha |-> IF s \in j.want
                                           THEN j.copy["loc"][s] ELSE NoRow]
    BY <1>1 DEF Decide, Forgetting, Job
  <2> QED BY <2>1, <2>2 DEF Cleared, In
<1>2. CASE j.op # "publish"
  BY <1>2 DEF Decide, Forgetting, Cleared, Job
<1> QED BY <1>1, <1>2

LEMMA ClearedStep ==
  ASSUME Locking, ClearedInv, [Next]_vars PROVE ClearedInv'
<1>1. TypeOK
  BY DEF Locking
<1>2. CASE UNCHANGED vars
  BY <1>2 DEF vars, ClearedInv, Cleared
<1>3. ASSUME NEW t \in Tool, Continue(t, job[t]), job[t].pc # "idle"
      PROVE  ClearedInv'
  BY <1>1, <1>3, WorkingJob, ClearedContinue DEF ClearedInv
<1>4. ASSUME NEW t \in Tool, NEW h \in Half,
             Continue(t, Having(job[t], h)), job[t].pc # "idle"
      PROVE  ClearedInv'
  <2>1. job[t] \in Job
    BY <1>4, WorkingJob
  <2>2. Having(job[t], h) \in Job /\ Cleared(Having(job[t], h))
    BY <1>1, <2>1, HavingShape DEF ClearedInv, Cleared
  <2> QED BY <1>1, <1>4, <2>2, ClearedContinue
<1>5. ASSUME NEW t \in Tool, NEW h \in Half, LookAndDecide(t, h)
      PROVE  ClearedInv'
  <2> DEFINE j == Having(job[t], h)
  <2>1. /\ job[t].pc # "idle"
        /\ (Accepts(j, h) /\ Continue(t, Decide(j))) \/ Stop(t)
    BY <1>5 DEF LookAndDecide, Half
  <2>2. job[t] \in Job /\ NamesItsRows(job[t])
    BY <1>5, <2>1, WorkingJob DEF LookAndDecide, Half
  <2>3. /\ j \in Job /\ j.op = job[t].op /\ j.want = job[t].want
        /\ j.decided = job[t].decided
    BY <1>1, <2>2, HavingShape
  <2>4. NamesItsRows(j) /\ Cleared(j)
    BY <2>2, <2>3 DEF NamesItsRows, ClearedInv, Cleared
  <2> HIDE DEF j
  <2>5. CASE Accepts(j, h) /\ Continue(t, Decide(j))
    BY <1>1, <2>3, <2>4, <2>5, DecideShape, ClearedDecision, ClearedContinue
  <2>6. CASE Stop(t)
    BY <1>1, <2>6, ClearedStop
  <2> QED BY <2>1, <2>5, <2>6
<1>6. ASSUME NEW t \in Tool, NEW h \in Half, Write(t, h) PROVE ClearedInv'
  <2> DEFINE j == [job[t] EXCEPT !.copy[h] = NoRows]
  <2>1. Continue(t, j) /\ job[t].pc # "idle"
    BY <1>6 DEF Write, WriteStep, Half
  <2>2. job[t] \in Job
    BY <2>1, WorkingJob
  <2>3. j \in Job /\ j.op = job[t].op /\ j.decided = job[t].decided
    BY <2>2, NoRowsType DEF Job
  <2> HIDE DEF j
  <2>4. Cleared(j)
    BY <2>3 DEF ClearedInv, Cleared
  <2> QED BY <1>1, <2>1, <2>3, <2>4, ClearedContinue
<1>7. CASE Next
  <2>1. PICK t \in Tool : Begin(t) \/ Advance(t) \/ Crash(t)
    BY <1>7 DEF Next
  <2>2. CASE Begin(t)       BY <1>1, <2>2, ClearedBegin
  <2>3. CASE LookAtBoth(t)  BY <1>4, <2>3 DEF LookAtBoth, Half
  <2>4. CASE Build(t)       BY <1>3, <2>4 DEF Build
  <2>5. ASSUME NEW h \in Half, Lock(t, h) \/ Free(t, h) PROVE ClearedInv'
    BY <1>3, <2>5 DEF Lock, Free, LockStep, FreeStep, Half
  <2>6. ASSUME NEW h \in Half, Busy(t, h) PROVE ClearedInv'
    BY <1>1, <2>6, ClearedStop DEF Busy
  <2>7. ASSUME NEW h \in Half, Read(t, h) PROVE ClearedInv'
    BY <1>4, <2>7 DEF Read, ReadSteps, Half
  <2>8. CASE Crash(t)
    BY <1>1, <2>8, ClearedStop DEF Crash
  <2> QED BY <1>5, <1>6, <2>1, <2>2, <2>3, <2>4, <2>5, <2>6, <2>7, <2>8
          DEF Advance
<1> QED BY <1>2, <1>7

\* The rows that enter the published half are the ones the gate let through,
\* or upstream's own, closed.
LEMMA PublishedAreCleared ==
  ASSUME NEW j \in Job, Cleared(j), NEW s \in Sha,
         s \in In(NewPublished(j)), s \notin In(j.copy["pub"])
  PROVE  NewPublished(j)[s] \in [verdict : {"benign", "malicious"},
                                 tag : {"clean"}, hold : {"none"}]
<1> DEFINE pub == j.copy["pub"]
           loc == j.copy["loc"]
           closed == [u \in Sha |-> IF u \in j.want \cap In(loc)
                                    THEN PublishedRow(loc[u]) ELSE NoRow]
<1>1. pub \in Rows /\ loc \in Rows /\ j.decided \in Rows /\ j.want \subseteq Sha
  BY DEF Job, Half
<1>2. pub[s] = NoRow
  BY DEF In
<1>3. CASE j.op = "publish"
  <2>1. NewPublished(j)[s] = j.decided[s]
    BY <1>2, <1>3 DEF NewPublished, Added
  <2>2. s \in In(j.decided)
    BY <2>1 DEF In
  <2>3. j.decided[s] \in Row /\ Publishable(j.decided[s])
    BY <1>1, <1>3, <2>2, RowOfIn DEF Cleared
  <2> QED BY <2>1, <2>3 DEF Row, Verdict, Tag, Hold, Publishable
<1>4. CASE j.op = "resolve"
  <2>1. NewPublished(j)[s] = closed[s]
    BY <1>2, <1>4 DEF NewPublished, Added
  <2>2. closed[s] # NoRow
    BY <2>1 DEF In
  <2>3. s \in In(loc) /\ closed[s] = PublishedRow(loc[s])
    BY <2>2
  <2>4. loc[s] \in Row
    BY <1>1, <2>3, RowOfIn
  <2> QED BY <2>1, <2>3, <2>4 DEF Row, Verdict, Tag, Hold, PublishedRow, ClosedRow
<1>5. CASE j.op = "tag"
  <2>1. In(NewPublished(j)) = In(pub)
    BY <1>1, <1>5, RuledShape DEF NewPublished
  <2> QED BY <2>1
<1>6. CASE j.op \notin {"publish", "resolve", "tag"}
  <2>1. NewPublished(j) = pub
    BY <1>6 DEF NewPublished
  <2> QED BY <2>1
<1> QED BY <1>3, <1>4, <1>5, <1>6

LEMMA ClearedRowsEnter ==
  ASSUME Locking, ClearedInv, [Next]_vars, NEW s \in Sha,
         s \in In(index'["pub"]), s \notin In(index["pub"])
  PROVE  index'["pub"][s] \in [verdict : {"benign", "malicious"},
                               tag : {"clean"}, hold : {"none"}]
<1>1. PICK t \in Tool, h \in Half : Write(t, h)
  BY IndexStep
<1>2. h = "pub"
  BY <1>1, WriteShape DEF Half
<1>3. /\ index'["pub"] = NewPublished(job[t])
      /\ job[t].copy["pub"] = index["pub"]
  BY <1>1, <1>2, WriteShape
<1>4. job[t] \in Job /\ Cleared(job[t])
  BY DEF Locking, TypeOK, ClearedInv
<1> QED BY <1>3, <1>4, PublishedAreCleared

\* A row enters the published half reviewed, assessed, free of sensitive tags
\* and of holds, whatever ran beside the script that published it.
THEOREM PublishedRowsWereCleared == Spec => OnlyClearedRowsArePublished
<1>1. Init => ClearedInv
  BY ClearedAtRest DEF Init, ClearedInv
<1>2. Locking /\ ClearedInv /\ [Next]_vars => ClearedInv'
  BY ClearedStep
<1>3. Locking /\ ClearedInv /\ [Next]_vars
      => [\A s \in Sha : s \in In(index["pub"])' /\ s \notin In(index["pub"])
           => index'["pub"][s] \in [verdict : {"benign", "malicious"},
                                    tag : {"clean"}, hold : {"none"}]]_vars
  BY ClearedRowsEnter
<1> QED BY <1>1, <1>2, <1>3, LockingHolds, PTL
        DEF Spec, OnlyClearedRowsArePublished

(***************************************************************************)
(* A verdict, once given, stays.                                           *)
(***************************************************************************)

\* A ruling changes the verdict of no row that has one: a tag and a
\* confirmation leave the verdict alone, and a review is of unreviewed rows.
LEMMA RuledVerdict ==
  ASSUME NEW rows \in Rows, NEW want \in SUBSET Sha, NEW op, NEW s \in In(rows),
         rows[s].verdict # "unreviewed"
  PROVE  Ruled(op, rows, want)[s].verdict = rows[s].verdict
<1> DEFINE new == Ruled(op, rows, want)
<1>1. s \in Sha /\ rows[s] \in Row
  BY RowOfIn
<1>2. CASE want \subseteq MayRule(op, rows) /\ s \in want
  <2>1. new[s] = RuledRow(op, rows[s])
    BY <1>1, <1>2 DEF Ruled
  <2>2. op = "tag" \/ op = "confirm"
    BY <1>2 DEF MayRule
  <2>3. RuledRow(op, rows[s]) \in {Tagged(rows[s]), Confirmed(rows[s])}
    BY <2>2 DEF RuledRow
  <2> QED BY <1>1, <2>1, <2>3 DEF Tagged, Confirmed, Row
<1>3. CASE ~ (want \subseteq MayRule(op, rows) /\ s \in want)
  BY <1>1, <1>3 DEF Ruled
<1> QED BY <1>2, <1>3

\* What a script makes of the local half keeps the verdict of every row that
\* has one and that it keeps: it closes only what is unreviewed in the half as
\* it was read, and an import adds only what that half has not.
LEMMA NewLocalVerdict ==
  ASSUME NEW j \in Job, NEW s \in In(j.copy["loc"]), s \in In(NewLocal(j)),
         j.copy["loc"][s].verdict # "unreviewed"
  PROVE  NewLocal(j)[s].verdict = j.copy["loc"][s].verdict
<1> DEFINE loc == j.copy["loc"]
           open == j.want \cap Unreviewed(loc)
<1>1. /\ loc \in Rows /\ j.want \in SUBSET Sha
      /\ s \in Sha /\ loc[s] # NoRow
  BY DEF Job, Half, In
<1>2. s \notin open
  BY DEF Unreviewed
<1>3. CASE j.op = "publish"
  <2>1. NewLocal(j) = Without(loc, j.want)
    BY <1>3 DEF NewLocal
  <2> QED BY <1>1, <2>1 DEF Without, In
<1>4. CASE j.op = "resolve"
  <2>1. NewLocal(j) = Without(loc, open)
    BY <1>4 DEF NewLocal
  <2> HIDE DEF open
  <2> QED BY <1>1, <1>2, <2>1 DEF Without
<1>5. CASE j.op = "close"
  <2>1. NewLocal(j) = [u \in Sha |-> IF u \in open THEN ClosedRow(loc[u])
                                                    ELSE loc[u]]
    BY <1>5 DEF NewLocal
  <2> HIDE DEF open
  <2> QED BY <1>1, <1>2, <2>1
<1>6. CASE j.op \in {"importTree", "importProbe"}
  <2>1. NewLocal(j) = Added(loc, j.decided)
    BY <1>6 DEF NewLocal
  <2> QED BY <1>1, <2>1 DEF Added
<1>7. CASE j.op \in {"tag", "confirm", "review"}
  <2>1. NewLocal(j) = Ruled(j.op, loc, j.want)
    BY <1>7 DEF NewLocal
  <2> QED BY <1>1, <2>1, RuledVerdict
<1>8. CASE j.op \notin {"publish", "resolve", "close", "importTree",
                        "importProbe", "tag", "confirm", "review"}
  <2>1. NewLocal(j) = loc
    BY <1>8 DEF NewLocal
  <2> QED BY <2>1
<1> QED BY <1>3, <1>4, <1>5, <1>6, <1>7, <1>8

LEMMA VerdictStep ==
  ASSUME Locking, [Next]_vars, NEW s \in In(index["loc"]) \cap In(index'["loc"]),
         index["loc"][s].verdict # "unreviewed"
  PROVE  index'["loc"][s].verdict = index["loc"][s].verdict
<1>1. CASE UNCHANGED index
  BY <1>1
<1>2. ASSUME NEW t \in Tool, NEW h \in Half, Write(t, h)
      PROVE  index'["loc"][s].verdict = index["loc"][s].verdict
  <2>1. CASE h = "pub"
    BY <1>2, <2>1, WriteShape DEF Half
  <2>2. CASE h = "loc"
    <3>1. /\ index'["loc"] = NewLocal(job[t])
          /\ job[t].copy["loc"] = index["loc"]
      BY <1>2, <2>2, WriteShape
    <3>2. job[t] \in Job
      BY DEF Locking, TypeOK
    <3> QED BY <3>1, <3>2, NewLocalVerdict
  <2> QED BY <2>1, <2>2 DEF Half
<1> QED BY <1>1, <1>2, IndexStep

\* No script changes a verdict that is in the local half: each makes its rows
\* from a read it took under the lock it still holds, so a review that came
\* after its decision is seen, and left alone.
THEOREM VerdictsStay == Spec => VerdictsStand
<1>1. Locking /\ [Next]_vars
      => [\A s \in In(index["loc"]) \cap In(index'["loc"]) :
            index["loc"][s].verdict # "unreviewed"
              => index'["loc"][s].verdict = index["loc"][s].verdict]_vars
  BY VerdictStep
<1> QED BY <1>1, LockingHolds, PTL DEF Spec, VerdictsStand

=============================================================================
