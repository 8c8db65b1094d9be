--------------------------- MODULE ProposalQueue ---------------------------
(***************************************************************************)
(* How what agents learned becomes notes: proposals queued by agents, the  *)
(* captures the ingest gate lands or queues, the decision that turns a     *)
(* proposal into a shared note, and the lessons rejections leave behind.   *)
(*                                                                         *)
(* Requests are split as in NoteLifecycle.  IngestBegin is everything the  *)
(* gate reads about a capture, IngestLand and IngestQueue the writes and   *)
(* the commit; proposal_decide locks its proposal with the UPDATE it       *)
(* begins with, and applies it in ApproveEnd.  retire_prior finds a note   *)
(* and locks it with an UPDATE at once, so it is part of the end.          *)
(***************************************************************************)
EXTENDS AutolearnGate, FiniteSets

CONSTANTS
  Notes,        \* ids of rows of the table memory
  Proposals,    \* ids of rows of the table proposal
  Names, Bodies,
  NamesGiven,   \* the names requests come with, None included
  DerivedName,  \* _derive_name: the name a nameless note gets from its body
  Captures,     \* what extraction may find out about a capture
  Workers,      \* gunicorn workers: one request each at a time
  Severities,   \* severities deciders give to lessons
  PatternsGiven,  \* the patterns they ask for, None included
  ReadersGiven,   \* the readers reviewers and editors name
  SensGiven,      \* the sensitivities editors set
  MaxVerdicts     \* bound on the validations, reviews and edits of live notes

ASSUME QueueAssumption ==
  /\ DerivedName \in [Bodies -> Names]
  /\ NamesGiven \subseteq OrNone(Names)
  /\ PatternsGiven \subseteq OrNone(Names \cup Bodies)
  /\ ReadersGiven \subseteq SUBSET ReaderTokens
  /\ SensGiven \subseteq Sensitivities
  /\ MaxVerdicts \in Nat
  /\ \A c \in Captures :
       /\ c.spans \subseteq SpanKinds
       /\ c.said \in OrNone(Sensitivities)
  /\ \A S \in {Notes, Proposals, Names, Bodies, Agents} : None \notin S

VARIABLES
  memory,      \* the table memory
  proposal,    \* the table proposal
  lesson,      \* the table lesson: titles, patterns and severities
  superseded,  \* the supersedes edges of memory_relation, <<new, old>>
  log,         \* the rows of action_log about what became of notes
  req          \* the request each worker is in the middle of

vars == <<memory, proposal, lesson, superseded, log, req>>

(* hash: the content_hash, over the name the capture came with, or None.   *)
(* An editor may take a note's name away.                                  *)
Row == [name : OrNone(Names), body : Bodies, hash : OrNone(Names) \X Bodies, author : Agents,
        share : {"personal", "trusted"}, trust : {"quarantined", "trusted"},
        sens : Sensitivities, readers : SUBSET ReaderTokens,
        spans : SUBSET SpanKinds, live : {TRUE}, ttl : {"none"}]
NoRow == [live |-> FALSE, used |-> FALSE]

(* Nothing here reads a row with deleted_at set: its content is left out. *)
Retired == [live |-> FALSE, used |-> TRUE]

Proposal == [status : {"pending", "approved", "rejected"}, name : OrNone(Names),
             body : Bodies, author : Agents, sens : Sensitivities,
             by : OrNone(Agents), target : OrNone(Notes)]
NoProposal == [status |-> "absent", by |-> None, target |-> None]

Entry == [action : {"autolearn_personal", "provisional_graduate", "memory_self_validate",
                    "curate_edit"},
          note : Notes]

(* A lesson nobody named is called "rejected": None. *)
Lesson == [title : OrNone(Names), pattern : Names \cup Bodies, severity : Severities]

(* What the gate reads of the notes that bear a capture's name. *)
Version == [note : Notes, author : Agents, share : {"personal", "trusted"}]

ProposeRequest == [op : {"propose"}, by : Agents, row : Proposal]
QueueRequest   == [op : {"queue"}, by : Agents, row : Proposal]
LandRequest    == [op : {"land"}, by : Agents, trust : {"quarantined", "trusted"},
                   spans : SUBSET SpanKinds, seen : SUBSET Version, row : Proposal]
DecideRequest  == [op : {"approve", "reject"}, by : Agents, id : Proposals,
                   teach : SUBSET Lesson]
Requests == ProposeRequest \cup QueueRequest \cup LandRequest \cup DecideRequest
Idle == [op |-> "idle"]

TypeOK ==
  /\ memory \in [Notes -> Row \cup {NoRow, Retired}]
  /\ proposal \in [Proposals -> Proposal \cup {NoProposal}]
  /\ lesson \subseteq Lesson
  /\ superseded \subseteq Notes \X Notes
  /\ log \subseteq Entry
  /\ req \in [Workers -> Requests \cup {Idle}]

Init ==
  /\ memory = [n \in Notes |-> NoRow]
  /\ proposal = [i \in Proposals |-> NoProposal]
  /\ lesson = {}
  /\ superseded = {}
  /\ log = {}
  /\ req = [p \in Workers |-> Idle]

-----------------------------------------------------------------------------
Start(p, request) ==
  /\ req[p] = Idle
  /\ req' = [req EXCEPT ![p] = request]
  /\ UNCHANGED <<memory, proposal, lesson, superseded, log>>

Finish(p) == req' = [req EXCEPT ![p] = Idle]

(* The worker is killed, the embedder fails or a statement raises. *)
Abort(p) ==
  /\ req[p] # Idle
  /\ Finish(p)
  /\ UNCHANGED <<memory, proposal, lesson, superseded, log>>

(* Live notes a caller's SELECT returns. *)
Seen(a) == {n \in Notes : memory[n].live /\ Selectable(a, memory[n])}
Named(a, name) == {n \in Seen(a) : memory[n].name = name}

(* Ids are drawn from a sequence nobody else draws from. *)
Fresh(n) == memory[n] = NoRow
FreshProposal(i) == proposal[i] = NoProposal

(* The partial unique index memory_name_live_uniq: NULLs never collide. *)
NamesUnique(table) ==
  \A m, n \in Notes :
    /\ table[m].live /\ table[n].live
    /\ table[m].name # None /\ table[m].name = table[n].name
    => m = n

-----------------------------------------------------------------------------
(* Applying a proposal (autolearn/apply.py). *)

(* The name a note is stored under: never NULL. *)
StoredName(row) == IF row.name # None THEN row.name ELSE DerivedName[row.body]

(* retire_prior, its SELECT: the live note of that name, if any. *)
Prior(a, row) == Named(a, StoredName(row))

(* Mutant: the share status defaults to "trusted", as for a decided one. *)
BuiltShared(row, share, trust, spans) ==
  [name |-> StoredName(row), body |-> row.body, hash |-> <<row.name, row.body>>,
   author |-> row.author, share |-> "trusted", trust |-> trust, sens |-> row.sens,
   readers |-> DefaultReaders(row.sens, "trusted"), spans |-> spans,
   live |-> TRUE, ttl |-> "none"]

(* build_memory_row and record_provenance. *)
Built(row, share, trust, spans) ==
  [name |-> StoredName(row), body |-> row.body, hash |-> <<row.name, row.body>>,
   author |-> row.author, share |-> share, trust |-> trust, sens |-> row.sens,
   readers |-> DefaultReaders(row.sens, share), spans |-> spans,
   live |-> TRUE, ttl |-> "none"]

(* retire_prior's UPDATE, WHERE id only, and insert_sql. *)
Replaced(a, prior, n, row) ==
  [m \in Notes |->
     CASE m = n -> row
       [] m \in prior /\ Updatable(a, memory[m]) -> Retired
       [] OTHER -> memory[m]]

(* INSERT ... RETURNING must pass the SELECT policy and the unique index. *)
Accepted(a, table, n) == NamesUnique(table) /\ Selectable(a, table[n])

Edges(n, prior) == {<<n, old>> : old \in prior}

-----------------------------------------------------------------------------
(* propose *)

Identical(a, name, body) == \E n \in Named(a, name) : memory[n].body = body

Queued(name, body) ==
  \E i \in Proposals : /\ proposal[i].status = "pending"
                       /\ proposal[i].name = name /\ proposal[i].body = body

Pending(name, body, author, sens) ==
  [status |-> "pending", name |-> name, body |-> body, author |-> author,
   sens |-> sens, by |-> None, target |-> None]

ProposeBegin(p, a) ==
  /\ Role[a] \notin {"readonly", "viewer", "approver"}
  /\ a \notin PersonalOnly
  /\ \E name \in NamesGiven, body \in Bodies, c \in Captures :
       /\ name # None => ~Identical(a, name, body)
       /\ ~Queued(name, body)
       /\ Start(p, [op |-> "propose", by |-> a,
                    row |-> Pending(name, body, a, SensitivityOf(c))])

ProposeEnd(p) ==
  /\ req[p].op = "propose"
  /\ \E i \in Proposals :
       /\ FreshProposal(i)
       /\ proposal' = [proposal EXCEPT ![i] = req[p].row]
  /\ Finish(p)
  /\ UNCHANGED <<memory, lesson, superseded, log>>

-----------------------------------------------------------------------------
(* The ingest gate: _ingest_candidates. *)

(* find_collisions and classify. *)
Verdict(a, name, body) ==
  LET known == \/ \E n \in Seen(a) : memory[n].hash = <<name, body>>
               \/ name # None /\ Identical(a, name, body)
  IN  CASE known                                          -> "skip_dup"
        [] ~known /\ name # None /\ Named(a, name) # {}   -> "conflict"
        [] OTHER                                          -> "clear"

(* load_active and matches_lesson: rows come in no order, the first one    *)
(* whose pattern is in the capture's name or body counts.                  *)
LessonsFor(name, body) ==
  LET matching == {l.severity : l \in {k \in lesson : k.pattern \in {name, body}}}
  IN  IF matching = {} THEN {"none"} ELSE matching

SameName(a, name) == name # None /\ Named(a, name) # {}

(* The live notes of the capture's name, as a SELECT returns them. *)
VersionsOf(a, name) ==
  IF name = None THEN {}
  ELSE {[note |-> n, author |-> memory[n].author, share |-> memory[n].share]
          : n \in Named(a, name)}

OwnPersonal(version, author) == version.author = author /\ version.share = "personal"

(* Mutant: a correction of any personal note. *)
AutoSupersedeAnyones(a, author, name) ==
  /\ SameName(a, name)
  /\ \A v \in VersionsOf(a, name) : v.share = "personal"

(* A correction of the author's own note that no manager validated. *)
AutoSupersede(a, author, name) ==
  /\ SameName(a, name)
  /\ \A v \in VersionsOf(a, name) : OwnPersonal(v, author)

IngestBegin(p, a) ==
  /\ a \in Managers
  /\ \E author \in Agents, name \in NamesGiven, body \in Bodies, c \in Captures :
     \E lz \in LessonsFor(name, body) :
       LET verdict == Verdict(a, name, body)
           lands   == Lands(c, verdict, lz, SameName(a, name), AutoSupersede(a, author, name))
           row     == Pending(name, body, author, SensitivityOf(c))
       IN  /\ verdict # "skip_dup"
           /\ \/ /\ lands
                 /\ Start(p, [op |-> "land", by |-> a, trust |-> EffectiveTrust(c),
                              spans |-> c.spans, seen |-> VersionsOf(a, name), row |-> row])
              \/ /\ ~lands
                 /\ Start(p, [op |-> "queue", by |-> a, row |->
                       IF DecideOne(c, verdict, lz) = "drop"
                       THEN [row EXCEPT !.status = "rejected"] ELSE row])

(* Pending for a human, or rejected by a critical lesson.  A landing that  *)
(* raised is rolled back to its savepoint and comes here too.              *)
IngestQueue(p) ==
  /\ req[p].op \in {"queue", "land"}
  /\ \E i \in Proposals :
       /\ FreshProposal(i)
       /\ proposal' = [proposal EXCEPT ![i] = req[p].row]
  /\ Finish(p)
  /\ UNCHANGED <<memory, lesson, superseded, log>>

IngestLand(p) ==
  /\ req[p].op = "land"
  /\ \E n \in Notes :
       LET r     == req[p]
           prior == Prior(r.by, r.row)
           table == Replaced(r.by, prior, n, Built(r.row, "personal", r.trust, r.spans))
       IN  /\ Fresh(n)
           /\ Accepted(r.by, table, n)
           /\ memory' = table
           /\ superseded' = superseded \cup Edges(n, prior)
           /\ log' = log \cup {[action |-> "autolearn_personal", note |-> n]}
  /\ Finish(p)
  /\ UNCHANGED <<proposal, lesson>>

-----------------------------------------------------------------------------
(* proposal_decide *)

Locked(i) ==
  \E q \in Workers : IF req[q].op \in {"approve", "reject"} THEN req[q].id = i ELSE FALSE

(* Mutant: a decision may be taken again. *)
DecidableAgain(i) == proposal[i].status # "absent"

Decidable(i) == proposal[i].status = "pending"

RejectedBefore(i) ==
  \E j \in Proposals \ {i} :
    proposal[j].status = "rejected" /\ proposal[j].name = proposal[i].name

(* The lessons a rejection teaches: the pattern given or else the name, if *)
(* asked for or if the name was rejected before; none if a lesson of this  *)
(* title and pattern is there.                                             *)
Taught(i, asked, given, severity) ==
  LET pattern == IF given # None THEN given ELSE proposal[i].name
  IN  {l \in {[title |-> proposal[i].name, pattern |-> pattern, severity |-> severity]} :
         /\ pattern # None
         /\ asked \/ (proposal[i].name # None /\ RejectedBefore(i))
         /\ \A k \in lesson : k.title = l.title => k.pattern # l.pattern}

DecideBegin(p, a, i) ==
  /\ a \in Reviewers
  /\ Decidable(i)
  /\ ~Locked(i)
  /\ \/ Start(p, [op |-> "approve", by |-> a, id |-> i, teach |-> {}])
     \/ \E asked \in BOOLEAN, given \in PatternsGiven, severity \in Severities :
          Start(p, [op |-> "reject", by |-> a, id |-> i,
                    teach |-> Taught(i, asked, given, severity)])

ApproveEnd(p) ==
  /\ req[p].op = "approve"
  /\ \E n \in Notes :
       LET r     == req[p]
           prior == Prior(r.by, proposal[r.id])
           table == Replaced(r.by, prior, n, Built(proposal[r.id], "trusted", "trusted", {}))
       IN  /\ Fresh(n)
           /\ Accepted(r.by, table, n)
           /\ memory' = table
           /\ proposal' = [proposal EXCEPT ![r.id].status = "approved", ![r.id].by = r.by,
                                           ![r.id].target = n]
           /\ superseded' = superseded \cup Edges(n, prior)
  /\ Finish(p)
  /\ UNCHANGED <<lesson, log>>

RejectEnd(p) ==
  /\ req[p].op = "reject"
  /\ LET r == req[p]
     IN  /\ proposal' = [proposal EXCEPT ![r.id].status = "rejected", ![r.id].by = r.by]
         /\ lesson' = lesson \cup r.teach
  /\ Finish(p)
  /\ UNCHANGED <<memory, superseded, log>>

-----------------------------------------------------------------------------
(* What NoteLifecycle does meanwhile, as far as it matters here.  There    *)
(* these handlers are split at their commits; here each is one step.       *)

Log(action, n) ==
  /\ Cardinality({e \in log : e.action # "autolearn_personal" /\ memory[e.note].live})
       < MaxVerdicts
  /\ log' = log \cup {[action |-> action, note |-> n]}

(* An agent writes a note of its own. *)
Remember(a, n) ==
  /\ Role[a] \in {"manager", "worker"}
  /\ Fresh(n)
  /\ \E name \in Names, body \in Bodies :
       LET row == [Built([name |-> name, body |-> body, author |-> a, sens |-> "normal"],
                         "personal", "quarantined", {}) EXCEPT !.readers = {a}]
           table == [memory EXCEPT ![n] = row]
       IN  NamesUnique(table) /\ memory' = table
  /\ UNCHANGED <<proposal, lesson, superseded, log, req>>

(* memory_validate: the author, or a manager, trusts a quarantined note.   *)
(* A manager's vouch is logged by another name.                            *)
Validate(a, n) ==
  /\ memory[n].live
  /\ memory[n].share = "personal" /\ memory[n].trust = "quarantined"
  /\ a \in Managers \/ memory[n].author = a
  /\ Updatable(a, memory[n])
  /\ memory' = [memory EXCEPT ![n].trust = "trusted"]
  /\ Log("memory_self_validate", n)
  /\ UNCHANGED <<proposal, lesson, superseded, req>>

(* A row whose content a reviewer changed is hashed anew. *)
Amended(row, name, body) ==
  [row EXCEPT !.name = name, !.body = body,
              !.hash = IF name = row.name /\ body = row.body THEN row.hash
                       ELSE <<name, body>>]

(* The readers of a note that passes the review when none are named. *)
GraduationReaders(row) ==
  IF row.sens \in {"public", "normal"} /\ row.readers # {}
  THEN row.readers
  ELSE DefaultReaders(row.sens, "trusted")

(* The author's offer and provisional_decide, which may rename and rewrite *)
(* what it makes permanent.                                                *)
Graduate(a, n) ==
  /\ a \in Reviewers
  /\ memory[n].live /\ memory[n].share = "personal"
  /\ memory[n].author # a \/ a \in Managers
  /\ Updatable(a, memory[n])
  /\ \E name \in (NamesGiven \ {None}) \cup {memory[n].name}, body \in Bodies,
        readers \in (ReadersGiven \ {{}}) \cup {GraduationReaders(memory[n])} :
       LET row   == [Amended(memory[n], name, body) EXCEPT
                       !.share = "trusted", !.trust = "trusted", !.readers = readers]
           table == [memory EXCEPT ![n] = row]
       IN  NamesUnique(table) /\ memory' = table
  /\ Log("provisional_graduate", n)
  /\ UNCHANGED <<proposal, lesson, superseded, req>>

(* curate_memory_edit: any live note, shared ones too. *)
CurateEdit(a, n) ==
  /\ a \in Reviewers
  /\ memory[n].live /\ Updatable(a, memory[n])
  /\ \E name \in NamesGiven \cup {memory[n].name}, body \in Bodies :
     \E sens \in SensGiven \cup {memory[n].sens}, readers \in ReadersGiven \cup {memory[n].readers} :
       LET row   == [Amended(memory[n], name, body) EXCEPT !.sens = sens, !.readers = readers]
           table == [memory EXCEPT ![n] = row]
       IN  NamesUnique(table) /\ memory' = table
  /\ Log("curate_edit", n)
  /\ UNCHANGED <<proposal, lesson, superseded, req>>

(* A note is deleted, rejected or swept. *)
Retire(n) ==
  /\ memory[n].live
  /\ memory' = [memory EXCEPT ![n] = Retired]
  /\ UNCHANGED <<proposal, lesson, superseded, log, req>>

-----------------------------------------------------------------------------
Next ==
  \/ \E p \in Workers :
       \/ \E a \in Agents : ProposeBegin(p, a) \/ IngestBegin(p, a)
       \/ ProposeEnd(p)
       \/ IngestQueue(p) \/ IngestLand(p)
       \/ \E a \in Agents, i \in Proposals : DecideBegin(p, a, i)
       \/ ApproveEnd(p) \/ RejectEnd(p)
       \/ Abort(p)
  \/ \E a \in Agents, n \in Notes :
       Remember(a, n) \/ Validate(a, n) \/ Graduate(a, n) \/ CurateEdit(a, n)
  \/ \E n \in Notes : Retire(n)

Spec == Init /\ [][Next]_vars

-----------------------------------------------------------------------------
Logged(action, n) == [action |-> action, note |-> n] \in log
Landed(n)    == Logged("autolearn_personal", n)
Graduated(n) == Logged("provisional_graduate", n)
Validated(n) == Logged("memory_self_validate", n)
Curated(n)   == Logged("curate_edit", n)
Shared(n)    == memory[n].live /\ memory[n].share = "trusted"

(* The queue keeps what ReviewQueue promises: proposals are decided once,  *)
(* by a manager or an approver, and each approval publishes one note.      *)
Review == INSTANCE ReviewQueue WITH
  Items     <- Proposals,
  Deciders  <- Reviewers,
  stage     <- [i \in Proposals |-> proposal[i].status],
  decidedBy <- [i \in Proposals |-> proposal[i].by],
  published <- {i \in Proposals : proposal[i].target # None}

ReviewSpec == Review!Spec

(* A shared note went through a review, or comes from a proposal that a    *)
(* manager or an approver approved and says what the proposal said, unless *)
(* a manager or an approver has edited it since.  Nothing the gate lands   *)
(* is shared, whatever is landed, replaced and renamed in between.         *)
SharedNotesWereDecided ==
  \A n \in Notes : Shared(n) =>
    \/ Graduated(n)
    \/ \E i \in Proposals :
         /\ proposal[i].status = "approved" /\ proposal[i].target = n
         /\ proposal[i].by \in Reviewers
         /\ \/ Curated(n)
            \/ memory[n].name = StoredName(proposal[i]) /\ memory[n].body = proposal[i].body

(* A note that landed with no human and that no human has judged since is  *)
(* not of a private topic, unless the knob says so, and if it counts as    *)
(* trusted it rests on nothing but what the operator typed and the         *)
(* assistant wrote.  Trust comes by validation or review, a private topic  *)
(* by an editor.                                                           *)
LandedNotesPassTheGate ==
  \A n \in Notes : Landed(n) /\ memory[n].live =>
    /\ LandSensitive \/ Curated(n) \/ ~Private(memory[n].sens)
    /\ memory[n].trust = "trusted" =>
         \/ Validated(n) \/ Graduated(n)
         \/ memory[n].spans # {} /\ memory[n].spans \subseteq {"typed", "assistant"}

(* A capture that lands replaces the author's own personal note, as the    *)
(* gate read it.  It replaces another note only if its landing was         *)
(* overtaken: the note appeared, or was shared, after the gate had looked; *)
(* or if it came without a name, which the gate does not look up.          *)
OnlyOvertakenLandingsReplaceOthers ==
  [][\A p \in Workers :
       LET r == req[p] IN
       r.op = "land" /\ req'[p] = Idle =>
         \A e \in superseded' \ superseded :
           LET version == [note |-> e[2], author |-> memory[e[2]].author,
                           share |-> memory[e[2]].share] IN
           \/ OwnPersonal(version, r.row.author)
           \/ version \notin r.seen
           \/ r.row.name = None]_vars
=============================================================================
