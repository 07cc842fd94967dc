-------------------------------- MODULE Scan --------------------------------
(***************************************************************************)
(* Scanner::scan(): the walk hands over one file at a time, its content    *)
(* (or the archive scanner's callbacks) yields findings, the hostile ones  *)
(* are moved to quarantine, and every row is retained in result.files and  *)
(* published to the streaming report writers.  The scan runs on one        *)
(* thread; what interleaves with it is the signal handler (the first       *)
(* signal raises the interrupt flag, the second ends the process with      *)
(* _Exit) and a host that changes files under the scan.                    *)
(*                                                                         *)
(* Which files exist, what they hold and whether a move succeeds is        *)
(* nondeterministic.  Progress counters are left out; the walk is in       *)
(* module Walker, the move itself in Quarantine.                           *)
(***************************************************************************)
EXTENDS Naturals, Sequences, FiniteSets

CONSTANTS
  File,        \* the regular files the walk finds
  Options,     \* the configurations a scan may be started with
  MatchSets,   \* what the bytes and the name of a file or member may raise
  MaxMembers,  \* bound: findings raised inside one container
  ReadFaults,  \* what may happen between the walk's stat and the read
  NoRow        \* no file is in hand

ASSUME ScanAssumption ==
  /\ Options \subseteq [quarantine : BOOLEAN, reportExcluded : BOOLEAN, maxDepth : Nat]
  /\ MatchSets \subseteq SUBSET {"name", "content"}
  /\ MaxMembers \in Nat
  /\ ReadFaults \subseteq {"grown", "ioError"}

VARIABLES
  config,        \* the options that steer the scan; never changes
  pc,            \* where the scanning thread is
  interrupt,     \* g_interrupted
  visited,       \* files the walk has handed to fileCallback
  cur,           \* fileResult, the row under construction
  memberHostile, \* archiveMemberHostile
  first, last,   \* memberRowsBegin + 1 and memberRowsEnd
  next,          \* the row publishMembers() is about to hand over
  files,         \* result.files
  published,     \* the rows fileResultCallback_ has been given, in order
  tally,         \* the counters of ScanResult
  stopSeen,      \* Scanner::interrupted_
  disk,          \* where the bytes of each file are
  unread,        \* history: files some of whose bytes were never examined
  passedOver     \* history: those among them that no branch counts

historyVars == <<unread, passedOver>>
scanVars == <<config, pc, interrupt, visited, cur, memberHostile, first, last,
              next, files, published, tally, stopSeen, disk, historyVars>>

(***************************************************************************)
(* Findings and rows.                                                      *)
(***************************************************************************)

\* What a finding is about: the bytes, the place the file sits in, its name.
Match == {"content", "exposure", "name"}

FindingMeansMoveTheFile(m) == m \notin {"exposure", "name"}

HasHostileContent(matches) == \E m \in matches : FindingMeansMoveTheFile(m)

HasHostileName(matches) == "name" \in matches

Skip == {"none", "size", "excluded", "unreadable", "corrupt"}

Row == [file : File, member : BOOLEAN, matches : SUBSET Match, skip : Skip,
        quarantined : BOOLEAN, failed : BOOLEAN,
        container : {"absent", "moved", "moveFailed"},
        where : {"source", "quarantine"}]

ASSUME NoRowAssumption == NoRow \notin Row

NewRow(f, isMember, matches, skip) ==
  [file |-> f, member |-> isMember, matches |-> matches, skip |-> skip,
   quarantined |-> FALSE, failed |-> FALSE, container |-> "absent",
   where |-> "source"]

Reportable(row) == row.matches # {} \/ row.quarantined \/ row.failed

Tally == [withMatches : Nat, withNames : Nat, quarantined : Nat, failed : Nat,
          skips : Nat, gaps : Nat]

\* accountFindings: one kept row folded into the counters.
AccountFindings(t, matches) ==
  IF matches = {} THEN t
  ELSE [t EXCEPT !.withMatches = @ + 1,
                 !.withNames   = IF HasHostileName(matches) THEN @ + 1 ELSE @]

CountSkip(t) == [t EXCEPT !.skips = @ + 1]

-----------------------------------------------------------------------------
Init ==
  /\ config \in Options
  /\ pc = "walk"
  /\ interrupt = FALSE
  /\ visited = {}
  /\ cur = NoRow
  /\ memberHostile = FALSE
  /\ first = 1 /\ last = 0 /\ next = 1
  /\ files = << >>
  /\ published = << >>
  /\ tally = [withMatches |-> 0, withNames |-> 0, quarantined |-> 0,
              failed |-> 0, skips |-> 0, gaps |-> 0]
  /\ stopSeen = FALSE
  /\ disk = [f \in File |-> "inPlace"]
  /\ unread = {} /\ passedOver = {}

(***************************************************************************)
(* fileCallback, from the walk handing over f to the branch it takes.      *)
(***************************************************************************)

\* Mutant: what the last container held is remembered for the next file.
BeginFile_StaleMember(f) ==
  /\ pc = "walk" /\ ~interrupt
  /\ f \in File \ visited
  /\ visited' = visited \cup {f}
  /\ first' = Len(files) + 1 /\ last' = Len(files)
  /\ UNCHANGED <<config, interrupt, memberHostile, next, stopSeen, disk>>

\* The interrupt poll and the per-file resets every branch begins with.
BeginFile(f) ==
  /\ pc = "walk" /\ ~interrupt
  /\ f \in File \ visited
  /\ visited' = visited \cup {f}
  /\ memberHostile' = FALSE
  /\ first' = Len(files) + 1 /\ last' = Len(files)
  /\ UNCHANGED <<config, interrupt, next, stopSeen, disk>>

\* A row that is complete as soon as it is known: retained and published.
KeepAndPublish(row) ==
  /\ files' = Append(files, row)
  /\ published' = Append(published, row)

\* A file the filters keep shut.  Its name is asked only when no exclude
\* pattern matched it, and its row is kept only when there is something to say.
ExcludedFile(f, byPattern, named) ==
  LET matches == IF byPattern THEN {} ELSE named
  IN  /\ BeginFile(f)
      /\ tally' = AccountFindings(CountSkip(tally), matches)
      /\ IF config.reportExcluded \/ matches # {}
         THEN KeepAndPublish(NewRow(f, FALSE, matches, "excluded"))
         ELSE UNCHANGED <<files, published>>
      /\ unread' = unread \cup {f}
      /\ UNCHANGED <<pc, cur, passedOver>>

\* Mutant: the row says unreadable and the summary does not.
UnreadableFile_NotCounted(f, named) ==
  /\ BeginFile(f)
  /\ tally' = AccountFindings(tally, named)
  /\ KeepAndPublish(NewRow(f, FALSE, named, "unreadable"))
  /\ unread' = unread \cup {f}
  /\ UNCHANGED <<pc, cur, passedOver>>

\* A file that could not be stat'ed, or that would not open.
UnreadableFile(f, named) ==
  /\ BeginFile(f)
  /\ tally' = AccountFindings(CountSkip(tally), named)
  /\ KeepAndPublish(NewRow(f, FALSE, named, "unreadable"))
  /\ unread' = unread \cup {f}
  /\ UNCHANGED <<pc, cur, passedOver>>

\* A file past the size limit that is not a container.
OversizeFile(f, named) ==
  /\ BeginFile(f)
  /\ tally' = AccountFindings(CountSkip(tally), named)
  /\ KeepAndPublish(NewRow(f, FALSE, named, "size"))
  /\ unread' = unread \cup {f}
  /\ UNCHANGED <<pc, cur, passedOver>>

\* A file read in full that is not a container, or that is not asked whether
\* it is one because archives are off.
LooseFile(f, matches) ==
  /\ BeginFile(f)
  /\ cur' = NewRow(f, FALSE, matches, "none")
  /\ pc' = "decide"
  /\ UNCHANGED <<files, published, tally, historyVars>>

\* Bytes that were not examined, and no counter of the summary that says so.
PassOver(f) ==
  /\ unread' = unread \cup {f}
  /\ passedOver' = passedOver \cup {f}

\* The host changed the file after the walk's stat.  Grown past the limit,
\* readFile() throws OversizeFile and only the name is left; on an I/O error
\* after the open nothing is thrown and whatever was read is matched, and
\* opened where it looks like a container.
FaultyRead(f, fault, matches, opened) ==
  /\ fault \in ReadFaults
  /\ fault = "grown" => matches \subseteq {"name"} /\ ~opened
  /\ opened => config.maxDepth > 0
  /\ BeginFile(f)
  /\ cur' = NewRow(f, FALSE, matches, IF fault = "grown" THEN "size" ELSE "none")
  /\ pc' = IF opened THEN "members" ELSE "decide"
  /\ PassOver(f)
  /\ UNCHANGED <<files, published, tally>>

\* A container, when archives are enabled (with archives off it is a loose
\* file).  Past the size limit only its name is read before its index; with
\* max_depth 0 the archive scanner returns at once, with empty stats.
OpenContainer(f, oversize, matches) ==
  /\ oversize => matches \subseteq {"name"}
  /\ BeginFile(f)
  /\ cur' = NewRow(f, FALSE, matches, "none")
  /\ pc' = IF config.maxDepth = 0 THEN "decide" ELSE "members"
  /\ IF config.maxDepth = 0 /\ oversize THEN PassOver(f) ELSE UNCHANGED historyVars
  /\ UNCHANGED <<files, published, tally>>

(***************************************************************************)
(* The archive scanner's callbacks, and its return.                        *)
(***************************************************************************)

\* Mutant: the member's row goes to the writers before the decision.
MemberFinding_PublishedAtOnce(matches, skip) ==
  /\ pc = "members"
  /\ Len(files) < last + MaxMembers
  /\ matches # {}
  /\ skip # "none" => matches \subseteq {"name"}
  /\ tally' = AccountFindings(tally, matches)
  /\ memberHostile' = (memberHostile \/ HasHostileContent(matches))
  /\ KeepAndPublish(NewRow(cur.file, TRUE, matches, skip))
  /\ UNCHANGED <<config, pc, interrupt, visited, cur, first, last, next,
                 stopSeen, disk, historyVars>>

\* A member with findings: retained now, published once the container's fate
\* is known.  A member that was not opened can only be named.
MemberFinding(matches, skip) ==
  /\ pc = "members"
  /\ Len(files) < last + MaxMembers
  /\ matches # {}
  /\ skip # "none" => matches \subseteq {"name"}
  /\ tally' = AccountFindings(tally, matches)
  /\ memberHostile' = (memberHostile \/ HasHostileContent(matches))
  /\ files' = Append(files, NewRow(cur.file, TRUE, matches, skip))
  /\ UNCHANGED <<config, pc, interrupt, visited, cur, first, last, next,
                 published, stopSeen, disk, historyVars>>

\* archives_.scan() returns: what was exposed joins the container's matches,
\* what went unread joins the statistics.  A scan the interrupt cut short is
\* not attributed to any guard.
CloseContainer(exposure, gap, cutShort) ==
  /\ pc = "members"
  /\ cutShort => interrupt
  /\ last' = Len(files)
  /\ cur' = [cur EXCEPT !.matches = @ \cup exposure]
  /\ tally' = IF gap THEN [tally EXCEPT !.gaps = @ + 1] ELSE tally
  /\ unread' = IF gap \/ cutShort THEN unread \cup {cur.file} ELSE unread
  /\ pc' = "decide"
  /\ UNCHANGED <<config, interrupt, visited, memberHostile, first, next, files,
                 published, stopSeen, disk, passedOver>>

(***************************************************************************)
(* The quarantine decision and the publication of what it settles.         *)
(***************************************************************************)

\* Mutant: a container is judged by its own bytes.
SelectedForQuarantine_OwnBytes == config.quarantine /\ HasHostileContent(cur.matches)

SelectedForQuarantine ==
  config.quarantine /\ (HasHostileContent(cur.matches) \/ memberHostile)

\* fileResult once quarantineFile() has answered.
Settled(moved) ==
  IF ~SelectedForQuarantine THEN cur
  ELSE IF moved THEN [cur EXCEPT !.quarantined = TRUE, !.where = "quarantine"]
  ELSE [cur EXCEPT !.failed = TRUE]

\* Mutant: the member's address still names the scanned tree.
Stamped_OldAddress(row, settled) ==
  IF settled.quarantined THEN [row EXCEPT !.container = "moved"]
  ELSE IF settled.failed THEN [row EXCEPT !.container = "moveFailed"]
  ELSE row

\* What publishMembers() writes onto a member row before handing it over.
Stamped(row, settled) ==
  IF settled.quarantined
  THEN [row EXCEPT !.container = "moved", !.where = "quarantine"]
  ELSE IF settled.failed THEN [row EXCEPT !.container = "moveFailed"]
  ELSE row

CountDecision(t, settled) ==
  [t EXCEPT !.quarantined = IF settled.quarantined THEN @ + 1 ELSE @,
            !.failed      = IF settled.failed THEN @ + 1 ELSE @]

\* publishMembers(), first loop: the member rows of the container in hand.
StampMembers(settled) ==
  [i \in DOMAIN files |->
     IF i \in first..last THEN Stamped(files[i], settled) ELSE files[i]]

\* Statistics, the move, the container's own row and the stamping of its
\* members.  Nothing is published yet: the two signals can still intervene.
Decide(moved) ==
  LET settled == Settled(moved)
      stamped == StampMembers(settled)
  IN  /\ pc = "decide"
      /\ tally' = CountDecision(AccountFindings(tally, cur.matches), settled)
      /\ disk' = IF settled.quarantined
                 THEN [disk EXCEPT ![cur.file] = "quarantine"] ELSE disk
      /\ files' = IF Reportable(settled) THEN Append(stamped, settled) ELSE stamped
      /\ cur' = settled
      /\ next' = first
      /\ pc' = "publish"
      /\ UNCHANGED <<config, interrupt, visited, memberHostile, first, last,
                     published, stopSeen, historyVars>>

PublishMember ==
  /\ pc = "publish" /\ next <= last
  /\ published' = Append(published, files[next])
  /\ next' = next + 1
  /\ UNCHANGED <<config, pc, interrupt, visited, cur, memberHostile, first,
                 last, files, tally, stopSeen, disk, historyVars>>

\* Mutant: the loop over the members stops before the last one.
PublishFile_OneShort ==
  /\ pc = "publish" /\ next >= last
  /\ published' = IF Reportable(cur) THEN Append(published, cur) ELSE published
  /\ cur' = NoRow
  /\ pc' = "walk"
  /\ UNCHANGED <<config, interrupt, visited, memberHostile, first, last, next,
                 files, tally, stopSeen, disk, historyVars>>

\* The file's own row, after its members; then the walk goes on.
PublishFile ==
  /\ pc = "publish" /\ next > last
  /\ published' = IF Reportable(cur) THEN Append(published, cur) ELSE published
  /\ cur' = NoRow
  /\ pc' = "walk"
  /\ UNCHANGED <<config, interrupt, visited, memberHostile, first, last, next,
                 files, tally, stopSeen, disk, historyVars>>

(***************************************************************************)
(* The end of the walk, and the signals.                                   *)
(***************************************************************************)

\* Every file has been handed over.
WalkEnds ==
  /\ pc = "walk" /\ visited = File
  /\ pc' = "walked"
  /\ UNCHANGED <<config, interrupt, visited, cur, memberHostile, first, last,
                 next, files, published, tally, stopSeen, disk, historyVars>>

\* The walk sees the flag: in fileCallback, which records it, or between two
\* entries, which does not.
WalkStops(inCallback) ==
  /\ pc = "walk" /\ interrupt
  /\ inCallback => visited # File
  /\ stopSeen' = inCallback
  /\ pc' = "walked"
  /\ UNCHANGED <<config, interrupt, visited, cur, memberHostile, first, last,
                 next, files, published, tally, disk, historyVars>>

\* Mutant: what the callback saw is the whole answer.
AfterWalk_TrustsCallback ==
  /\ pc = "walked"
  /\ stopSeen' = stopSeen
  /\ pc' = "done"
  /\ UNCHANGED <<config, interrupt, visited, cur, memberHostile, first, last,
                 next, files, published, tally, disk, historyVars>>

\* The flag is read again after the walk, whoever stopped it.
AfterWalk ==
  /\ pc = "walked"
  /\ stopSeen' = (stopSeen \/ interrupt)
  /\ pc' = "done"
  /\ UNCHANGED <<config, interrupt, visited, cur, memberHostile, first, last,
                 next, files, published, tally, disk, historyVars>>

\* signalHandler: the first signal is a flag, the second is the end.
Signal ==
  /\ pc \notin {"done", "killed"}
  /\ IF interrupt THEN pc' = "killed" /\ UNCHANGED interrupt
     ELSE interrupt' = TRUE /\ UNCHANGED pc
  /\ UNCHANGED <<config, visited, cur, memberHostile, first, last, next, files,
                 published, tally, stopSeen, disk, historyVars>>

Finished == pc \in {"done", "killed"} /\ UNCHANGED scanVars

-----------------------------------------------------------------------------
NameSets == {matches \in MatchSets : matches \subseteq {"name"}}

NewFile(f) ==
  \/ \E named \in NameSets :
       \/ \E byPattern \in BOOLEAN : ExcludedFile(f, byPattern, named)
       \/ UnreadableFile(f, named)
       \/ OversizeFile(f, named)
  \/ \E matches \in MatchSets :
       \/ LooseFile(f, matches)
       \/ \E fault \in ReadFaults, opened \in BOOLEAN :
            FaultyRead(f, fault, matches, opened)
       \/ \E oversize \in BOOLEAN : OpenContainer(f, oversize, matches)

InContainer ==
  \/ \E matches \in MatchSets, skip \in {"none", "corrupt"} :
       MemberFinding(matches, skip)
  \/ \E exposure \in SUBSET {"exposure"}, gap, cutShort \in BOOLEAN :
       CloseContainer(exposure, gap, cutShort)

Settle == (\E moved \in BOOLEAN : Decide(moved)) \/ PublishMember \/ PublishFile

EndOfWalk == WalkEnds \/ (\E inCallback \in BOOLEAN : WalkStops(inCallback)) \/ AfterWalk

ScanThread == (\E f \in File : NewFile(f)) \/ InContainer \/ Settle \/ EndOfWalk

Next == ScanThread \/ Signal \/ Finished

Spec == Init /\ [][Next]_scanVars

-----------------------------------------------------------------------------
(***************************************************************************)
(* Type invariant.                                                         *)
(***************************************************************************)
TypeOK ==
  /\ config \in Options
  /\ pc \in {"walk", "members", "decide", "publish", "walked", "done", "killed"}
  /\ interrupt \in BOOLEAN
  /\ visited \subseteq File
  /\ cur \in Row \cup {NoRow}
  /\ memberHostile \in BOOLEAN
  /\ first \in Nat /\ last \in Nat /\ next \in Nat
  /\ files \in Seq(Row)
  /\ published \in Seq(Row)
  /\ tally \in Tally
  /\ stopSeen \in BOOLEAN
  /\ disk \in [File -> {"inPlace", "quarantine"}]
  /\ unread \subseteq File /\ passedOver \subseteq unread

(***************************************************************************)
(* Safety.                                                                 *)
(***************************************************************************)

\* The streaming writers are given exactly the rows the result retains, once
\* each, in the result's order and with their final content: a member row is
\* not published before the container's quarantine verdict is on it, and no
\* published row is corrected afterwards (Scanner.cpp:284-294).
PublishedIsRetained ==
  /\ Len(published) <= Len(files)
  /\ \A i \in DOMAIN published : published[i] = files[i]

\* Between two files nothing is held back: every retained row is published.
NothingHeldBetweenFiles == pc \in {"walk", "walked", "done"} => published = files

\* Whatever the instant the process is ended at, a row that was published says
\* where the bytes of its file are: its own address or its member's, and
\* whether a move was done or failed.
RowIsTrue(row) ==
  /\ (row.where = "quarantine") <=> (disk[row.file] = "quarantine")
  /\ (row.container = "moved" \/ row.quarantined) <=> (row.where = "quarantine")

PublishedRowsAreTrue == \A i \in DOMAIN published : RowIsTrue(published[i])

\* A file is moved only for a finding about bytes, its own or a member's:
\* never for being exposed, never for its name (ScanResult.h:55-76).
OnlyHostileContentMoves ==
  \A f \in File : disk[f] = "quarantine" =>
    /\ config.quarantine
    /\ \E i \in DOMAIN files : files[i].file = f /\ HasHostileContent(files[i].matches)

\* The file whose quarantine decision is still to come.
InHand(f) == pc \in {"members", "decide"} /\ cur.file = f

\* A row of the file itself that says what became of it, truly.
HasSettledRow(f) ==
  \E j \in DOMAIN files :
    /\ files[j].file = f /\ ~files[j].member
    /\ IF disk[f] = "quarantine" THEN files[j].quarantined ELSE files[j].failed

\* With quarantine on, a file that held hostile content, in its bytes or in a
\* member's, was moved or is named by a row saying it could not be.
HostileIsMovedOrReported ==
  \A i \in DOMAIN files :
    (/\ config.quarantine /\ HasHostileContent(files[i].matches)
     /\ pc # "killed" /\ ~InHand(files[i].file)) => HasSettledRow(files[i].file)

\* A file whose bytes were not all examined is counted, as a skipped file or as
\* a container with a gap, unless the scan says it was interrupted: "treating it
\* as content is how an unreadable file came to be reported as scanned and clean"
\* (Scanner.h:108-110).  The code does not keep this.
UnreadIsCounted ==
  (pc = "done" /\ ~stopSeen) => Cardinality(unread) <= tally.skips + tally.gaps

\* What the code keeps of it: a read that goes wrong after the walk's stat and an
\* oversize container under max_depth 0 are the only ways to an unread file
\* without a count; the filters, the failed opens, the size limit, the guards of
\* the archive scanner and the interrupt are none (Scanner.cpp:400-402).
UncountedWasPassedOver ==
  (pc = "done" /\ ~stopSeen) =>
    Cardinality(unread) <= tally.skips + tally.gaps + Cardinality(passedOver)

\* A scan that does not say it was interrupted handed over every file, whoever
\* saw the flag first (Scanner.cpp:591-598).
UninterruptedMeansComplete == (pc = "done" /\ ~stopSeen) => visited = File

(***************************************************************************)
(* An action property.                                                     *)
(***************************************************************************)

\* Once the flag is up no further file is begun, and the file in hand is the
\* only one whose fate can still change.
InterruptStopsTheScan ==
  [][interrupt => /\ visited' = visited
                  /\ \A f \in File : disk'[f] # disk[f] => f = cur.file /\ pc = "decide"]_scanVars

=============================================================================
