------------------------------ MODULE Families ------------------------------
(***************************************************************************)
(* How a reviewed sample of the corpus gets its family.                    *)
(*                                                                         *)
(* review-app.py serves one review session to a browser.  Its server       *)
(* handles each request in a thread of its own and the threads share the   *)
(* session without a lock: a decision is appended to the proposals and to  *)
(* the log in memory, then both files are rewritten from memory.  Two tabs *)
(* can show the same row, and a tab goes on offering what was undecided    *)
(* when it was rendered.                                                   *)
(*                                                                         *)
(* assign-family.py reads a session's proposals and, under the lock of the *)
(* index, judges every one of them from the rows and the bytes: either all *)
(* are recorded or nothing is.  It then reads the index again and compares *)
(* with what it meant to write.                                            *)
(***************************************************************************)
EXTENDS FiniteSets, Naturals, Sequences

CONSTANTS
  Sample,      \* the reviewed malicious samples of the bucket under review
  Publishable, \* those of them whose row nothing holds in the local half
  Rule,        \* the rule codes
  RulesOf,     \* RulesOf[s]: the rules the index expects on s
  Marker,      \* the printable literals
  Collections, \* what the collection on this machine may hold for each sample:
               \* the literals of the file its sha256 leads to, or NoBytes
  NoBytes,     \* there is no such file
  Leaks,       \* the literals that name a customer
  Family,      \* what a reviewer types as the name of a family
  Usable,      \* the names among them that say nothing of the scanner
  Live,        \* the session the server is serving
  Earlier,     \* the sessions there are already
  Before,      \* what those may have in their proposals
  Tab,         \* the browser's tabs
  Applier,     \* places for a running assign-family
  MaxProposals,\* how many decisions the live session gets
  NoFamily     \* a row that carries none

Session == Earlier \cup {Live}

\* What apply_to_row puts on a row: family and family_evidence.
Label == [family : Family, markers : SUBSET Marker, session : Session]

\* One decision: these rows are this family, on these literals.
Proposal == [family : Family, markers : SUBSET Marker, rows : SUBSET Sample]

ASSUME FamiliesAssumption ==
  /\ RulesOf \in [Sample -> SUBSET Rule]
  /\ Collections \subseteq [Sample -> {NoBytes} \cup SUBSET Marker]
  /\ \A b \in SUBSET Marker : b # NoBytes
  /\ Publishable \subseteq Sample /\ Leaks \subseteq Marker /\ Usable \subseteq Family
  /\ Before \subseteq [Earlier -> Seq(Proposal)]
  /\ Live \notin Earlier /\ NoFamily \notin Label
  /\ IsFiniteSet(Sample) /\ MaxProposals \in Nat

VARIABLES
  row,       \* the label of each row: family and family_evidence
  local,     \* the samples whose row is in the local half
  found,     \* the collection: what is read today for each sample
  earlier,   \* the proposals of the sessions there are already
  pool,      \* the population when the server was started
  seen,      \* what the server read for each sample then, and keeps
  made,      \* the proposals of the live session, in memory
  log,       \* the decisions its log has, in memory
  saved,     \* how many of the proposals the proposals file holds
  logged,    \* how many of those decisions the log file holds
  answered,  \* the decisions the browser was told are recorded
  tab,       \* what each tab shows and how far its request has come
  job        \* what each assign-family is doing

index == <<row, local>>
server == <<earlier, pool, seen, made, log, saved, logged, answered, tab>>
vars == <<index, found, server, job>>

---------------------------------------------------------------------------
(* What a family is made of.                                               *)

\* ruleset_key: what the scanner is expected to say, and nothing else.
SameKey(s, t) == RulesOf[s] = RulesOf[t]

\* population: the rows of the half that carry no family yet.
Population(labels, half) == {s \in half : labels[s] = NoFamily}

\* Mutant: only a family that is one cluster is told from the others.
Determined_OneCluster(rows, pop) ==
  \E s \in rows : rows = {t \in pop : SameKey(s, t)}

\* ruleset_determined: it takes whole clusters and nothing else.
Determined(rows, pop) ==
  \A s \in rows : {t \in pop : SameKey(s, t)} \subseteq rows

\* dispersion_detail: the commonest rule is expected of at least half of those
\* of which any is.
Concentrated(rows) ==
  LET detected == {s \in rows : RulesOf[s] # {}}
  IN detected # {} =>
       \E x \in Rule : 2 * Cardinality({s \in detected : x \in RulesOf[s]})
                         >= Cardinality(detected)

\* SampleStore.get: the file the blobmap names first.  That its hash is not the
\* one asked for is a note beside the bytes, and nobody who reads them for
\* literals looks at the note.
Here(bytes, rows) == \A s \in rows : bytes[s] # NoBytes
Literals(bytes, s) == IF bytes[s] = NoBytes THEN {} ELSE bytes[s]
Carrying(bytes, rows, m) == {s \in rows : m \in Literals(bytes, s)}

\* Mutant: the arithmetic of the review is taken for it.
Evidenced_AsReviewed(rows, markers) ==
  /\ markers # {} /\ Here(seen, rows)
  /\ \A m \in markers : Cardinality(Carrying(seen, rows, m)) >= 2
  /\ \A s \in rows : Literals(seen, s) \cap markers # {}

\* verify_markers: what is read now for each row is here and carries one of the
\* literals, and each literal is in two of the rows.
Evidenced(rows, markers) ==
  /\ markers # {} /\ Here(found, rows)
  /\ \A m \in markers : Cardinality(Carrying(found, rows, m)) >= 2
  /\ \A s \in rows : Literals(found, s) \cap markers # {}

---------------------------------------------------------------------------
(* review-app.py: the session.                                             *)

\* decided: every row some proposal of the session names.
Decided(props) == UNION {props[i].rows : i \in DOMAIN props}

\* The literals a screen offers: those two of its rows share.
Shared(rows) ==
  {m \in Marker : Cardinality(Carrying(seen, rows, m)) >= 2}

\* A cluster's screen, or the screen of a literal.
Screens == {{t \in pool : SameKey(s, t)} : s \in pool}
             \cup {Carrying(seen, pool, m) : m \in Marker}

\* A tab shows a screen, with a box for each row that was undecided when it was
\* rendered; keeps: how much of memory its request has serialised; said: the
\* place of its decision among the proposals.
Home == [pc |-> "shown", screen |-> {}, boxes |-> {}, keeps |-> 0, said |-> 0]
Takes(b, n, pc) == tab' = [tab EXCEPT ![b] = [@ EXCEPT !.pc = pc, !.keeps = n]]

\* do_GET: opening a screen is an entry of the log, before it is rendered.
Open(b) ==
  /\ tab[b].pc = "shown"
  /\ \E rows \in Screens \ {{}} :
       tab' = [tab EXCEPT ![b] = [Home EXCEPT !.pc = "open", !.screen = rows]]
  /\ UNCHANGED <<index, found, earlier, pool, seen, made, log, saved, logged, answered, job>>

\* do_POST, skip: an entry of the log too, and another screen.
Skip(b) ==
  /\ tab[b].pc = "shown" /\ tab[b].screen # {}
  /\ tab' = [tab EXCEPT ![b] = [Home EXCEPT !.pc = "open"]]
  /\ UNCHANGED <<index, found, earlier, pool, seen, made, log, saved, logged, answered, job>>

\* do_POST and record: some row and some literal must be ticked and the name
\* usable.  Whether the rows are still undecided is not asked.
Record(b) ==
  /\ tab[b].pc = "shown" /\ Len(made) < MaxProposals
  /\ \E p \in [family : Usable, markers : (SUBSET Shared(tab[b].screen)) \ {{}},
               rows : (SUBSET tab[b].boxes) \ {{}}] :
       made' = Append(made, p) /\ log' = Append(log, p)
  /\ tab' = [tab EXCEPT ![b] = [@ EXCEPT !.pc = "record", !.said = Len(made) + 1]]
  /\ UNCHANGED <<index, found, earlier, pool, seen, saved, logged, answered, job>>

\* _flush, for each of them: the proposals are serialised from memory, the file
\* is replaced by them, and then the same with the log.
SaveTake(b) ==
  /\ tab[b].pc \in {"open", "record"}
  /\ Takes(b, Len(made),
           IF tab[b].pc = "open" THEN "openSave" ELSE "recordSave")
  /\ UNCHANGED <<index, found, earlier, pool, seen, made, log, saved, logged, answered, job>>

SavePut(b) ==
  /\ tab[b].pc \in {"openSave", "recordSave"}
  /\ saved' = tab[b].keeps
  /\ Takes(b, Len(log),
           IF tab[b].pc = "openSave" THEN "openLog" ELSE "recordLog")
  /\ UNCHANGED <<index, found, earlier, pool, seen, made, log, logged, answered, job>>

LogPut(b) ==
  /\ tab[b].pc \in {"openLog", "recordLog"}
  /\ logged' = tab[b].keeps
  /\ Takes(b, 0, IF tab[b].pc = "openLog" THEN "render" ELSE "answer")
  /\ UNCHANGED <<index, found, earlier, pool, seen, made, log, saved, answered, job>>

Render(b) ==
  /\ tab[b].pc = "render"
  /\ tab' = [tab EXCEPT ![b] = [@ EXCEPT !.pc = "shown",
                                         !.boxes = tab[b].screen \ Decided(made)]]
  /\ UNCHANGED <<index, found, earlier, pool, seen, made, log, saved, logged, answered, job>>

\* The redirect.
Answer(b) ==
  /\ tab[b].pc = "answer"
  /\ answered' = answered \cup {made[tab[b].said]}
  /\ tab' = [tab EXCEPT ![b] = [@ EXCEPT !.pc = "shown", !.said = 0]]
  /\ UNCHANGED <<index, found, earlier, pool, seen, made, log, saved, logged, job>>

\* The server is stopped, with its threads, and started again on the session:
\* the rows and the bytes are read anew, and _load reads the two files.  The
\* tabs in the browser show what they did.
Restart ==
  /\ pool' = Population(row, local) /\ seen' = found
  /\ made' = SubSeq(made, 1, saved) /\ log' = SubSeq(log, 1, logged)
  /\ tab' = [b \in Tab |-> [tab[b] EXCEPT !.pc = "shown", !.keeps = 0, !.said = 0]]
  /\ UNCHANGED <<index, found, earlier, saved, logged, answered, job>>

---------------------------------------------------------------------------
(* assign-family.py                                                        *)

Idle == [pc |-> "idle", of |-> Live, props |-> <<>>, wrote |-> 0]
File(s) == IF s = Live THEN SubSeq(made, 1, saved) ELSE earlier[s]

\* read_proposals: a file with no proposal is no session.
ReadProposals(a) ==
  /\ job[a] = Idle
  /\ \E s \in Session :
       /\ File(s) # <<>>
       /\ job' = [job EXCEPT ![a] = [Idle EXCEPT !.pc = "apply", !.of = s,
                                                 !.props = File(s)]]
  /\ UNCHANGED <<index, found, server>>

Named(props, f) ==
  UNION {props[i].rows : i \in {j \in DOMAIN props : props[j].family = f}}
Families(props) == {props[i].family : i \in DOMAIN props}

\* apply_to_row over every row of every proposal.
Applied(labels, props, s) ==
  [r \in Sample |->
     IF \E i \in DOMAIN props : r \in props[i].rows
     THEN LET p == props[CHOOSE i \in DOMAIN props : r \in props[i].rows]
          IN [family |-> p.family, markers |-> p.markers, session |-> s]
     ELSE labels[r]]

\* audit: the rows of the half that a session labelled.
Assigned(labels, half, s) ==
  {r \in half : labels[r] # NoFamily /\ labels[r].session = s}

\* Mutant: every row of the half may be named.
Mine_Relabels(props, labels, half) ==
  /\ Decided(props) \subseteq half
  /\ \A i, j \in DOMAIN props : i # j => props[i].rows \cap props[j].rows = {}

\* validate, membership: no row twice, and each one in the population.
Mine(props, labels, half) ==
  /\ Decided(props) \subseteq Population(labels, half)
  /\ \A i, j \in DOMAIN props : i # j => props[i].rows \cap props[j].rows = {}

\* leak_refusals: a literal of the evidence names a customer.
Leaky(markers) == markers \cap Leaks # {}

\* detection_references: the name says nothing of the scanner.
NamesNoDetection(f) == f \in Usable

\* validate: nothing is refused.
Accepted(props, labels, half, s) ==
  /\ Mine(props, labels, half)
  /\ \A i \in DOMAIN props :
       /\ NamesNoDetection(props[i].family)
       /\ Evidenced(props[i].rows, props[i].markers)
       /\ ~Leaky(props[i].markers)
  /\ \E f \in Families(props) :
       ~Determined(Named(props, f), Population(labels, half))
  /\ LET post == Applied(labels, props, s)
     IN \A f \in Family :
          Concentrated({r \in Assigned(post, half, s) : post[r].family = f})

\* do_apply: the rows are read, judged and written under one lock; the bytes of
\* each row are read once, in this process.
Apply(a) ==
  LET j == job[a]
      post == Applied(row, j.props, j.of)
  IN /\ j.pc = "apply"
     /\ \/ /\ Accepted(j.props, row, local, j.of)
           /\ row' = post
           /\ job' = [job EXCEPT ![a] = [j EXCEPT !.pc = "audit",
                        !.wrote = Cardinality(Assigned(post, local, j.of))]]
        \/ /\ ~Accepted(j.props, row, local, j.of)
           /\ job' = [job EXCEPT ![a] = Idle]
           /\ UNCHANGED row
     /\ UNCHANGED <<local, found, server>>

\* main: the half is read again and what is there counted.
Agrees(a) == Cardinality(Assigned(row, local, job[a].of)) = job[a].wrote

Audit(a) ==
  /\ job[a].pc = "audit"
  /\ job' = [job EXCEPT ![a] = [Idle EXCEPT !.pc = IF Agrees(a) THEN "idle"
                                                   ELSE "mismatch"]]
  /\ UNCHANGED <<index, found, server>>

Investigated(a) ==
  /\ job[a].pc = "mismatch"
  /\ job' = [job EXCEPT ![a] = Idle]
  /\ UNCHANGED <<index, found, server>>

Dies(a) ==
  /\ job[a].pc \in {"apply", "audit"}
  /\ job' = [job EXCEPT ![a] = Idle]
  /\ UNCHANGED <<index, found, server>>

\* publish-rows moves a row, label and all, out of the local half.
Publish(s) ==
  /\ s \in local \cap Publishable
  /\ local' = local \ {s}
  /\ UNCHANGED <<row, found, server, job>>

\* A file of the collection is replaced, removed or put back.
CollectionChanges ==
  /\ found' \in Collections
  /\ UNCHANGED <<index, server, job>>

---------------------------------------------------------------------------
Init ==
  /\ row = [s \in Sample |-> NoFamily]
  /\ local = Sample
  /\ earlier \in Before
  /\ found \in Collections /\ seen = found
  /\ pool = Sample
  /\ made = <<>> /\ log = <<>> /\ saved = 0 /\ logged = 0 /\ answered = {}
  /\ tab = [b \in Tab |-> Home]
  /\ job = [a \in Applier |-> Idle]

Request(b) == \/ Open(b) \/ Skip(b) \/ Record(b) \/ SaveTake(b) \/ SavePut(b)
              \/ LogPut(b) \/ Render(b) \/ Answer(b)
Assign(a) == \/ ReadProposals(a) \/ Apply(a) \/ Audit(a) \/ Investigated(a)
             \/ Dies(a)

Next ==
  \/ \E b \in Tab : Request(b)
  \/ Restart
  \/ \E a \in Applier : Assign(a)
  \/ \E s \in Sample : Publish(s)
  \/ CollectionChanges

Spec == Init /\ [][Next]_vars
---------------------------------------------------------------------------
(* What holds.                                                             *)

\* In particular the files never hold more than memory has, also while a request
\* is being served or after the server was started again.
Serving == {"open", "openSave", "openLog", "render",
            "record", "recordSave", "recordLog", "answer"}
TypeOK ==
  /\ row \in [Sample -> Label \cup {NoFamily}]
  /\ local \in SUBSET Sample /\ pool \in SUBSET Sample
  /\ found \in Collections /\ seen \in Collections
  /\ earlier \in [Earlier -> Seq(Proposal)]
  /\ made \in Seq(Proposal) /\ log \in Seq(Proposal)
  /\ saved \in 0 .. Len(made) /\ logged \in 0 .. Len(log)
  /\ answered \subseteq Proposal
  /\ tab \in [Tab -> [pc : Serving \cup {"shown"}, screen : SUBSET Sample,
                      boxes : SUBSET Sample, keeps : Nat, said : Nat]]
  /\ \A b \in Tab :
       /\ tab[b].pc \in {"openSave", "recordSave"} => tab[b].keeps <= Len(made)
       /\ tab[b].pc \in {"openLog", "recordLog"} => tab[b].keeps <= Len(log)
       /\ tab[b].pc \in {"record", "recordSave", "recordLog", "answer"}
            => tab[b].said \in 1 .. Len(made)
  /\ job \in [Applier -> [pc : {"idle", "apply", "audit", "mismatch"}, of : Session,
                          props : Seq(Proposal), wrote : Nat]]

\* "A writer that could relabel an already-familied row is a writer that can
\* quietly rewrite the census" (assign-family.py): a row that has its family
\* keeps it, with its evidence, whatever two sessions decided about it and in
\* whatever order they are applied.
NobodyRelabels ==
  [][\A s \in Sample : row[s] # NoFamily => row'[s] = row[s]]_vars

\* "Read from the bytes here, in the writer's own process, rather than trusted
\* from the proposal" (family_evidence.py:542): when rows are given a label, what
\* is then read for each of them carries one of the recorded literals, and each
\* literal is read in two of the rows given that label together, whatever the
\* collection held when the review was made.  That what is read is the recorded
\* bytes of the row is not among the things verify_markers sees to.
LabelsRestOnWhatIsRead ==
  [][\A s \in Sample : row'[s] # row[s] =>
       /\ Literals(found, s) \cap row'[s].markers # {}
       /\ \A m \in row'[s].markers :
            Cardinality({t \in Sample : /\ row'[t] = row'[s] /\ row'[t] # row[t]
                                        /\ m \in Literals(found, t)}) >= 2]_vars

\* No session has merely renamed the rule sets the scanner reports: some family
\* of it parts two samples on which the same rules are expected.
NoSessionRenamesTheRules ==
  \A s \in Session :
    LET given == Assigned(row, Sample, s)
    IN given # {} =>
         \E x \in given : \E y \in Sample :
           SameKey(x, y) /\ (y \notin given \/ row[y].family # row[x].family)

\* What review-app.py says it writes, "a log of every screen opened and every
\* decision": with no request under way, a decision that was answered is in it.
\* It is not so when two requests save at once; see the README.
EveryDecisionIsLogged ==
  (\A b \in Tab : tab[b].pc = "shown") =>
    \A p \in answered : \E i \in 1 .. logged : log[i] = p
=============================================================================
