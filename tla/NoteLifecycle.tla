--------------------------- MODULE NoteLifecycle ---------------------------
(***************************************************************************)
(* The life of a note: captured as its author's personal note, validated,  *)
(* offered for sharing, reviewed, shared, curated, retired.                *)
(*                                                                         *)
(* Every endpoint runs in one PostgreSQL transaction at READ COMMITTED,    *)
(* and several gunicorn workers and two scheduled jobs run at once.  A     *)
(* handler whose writes depend on rows it SELECTed earlier is two actions: *)
(* ...Begin checks the guards and keeps what it read in req[p]; ...End     *)
(* runs its UPDATEs and commits.  Anything may commit in between, and the  *)
(* UPDATE re-checks only what its own WHERE clause says.  A handler that   *)
(* is one guarded UPDATE is one action.                                    *)
(***************************************************************************)
EXTENDS AccessModel, FiniteSets

CONSTANTS
  Notes,          \* ids of rows of the table memory
  Names, Bodies,  \* what a note can be called and say
  Sessions,       \* values of source_session
  Tables,         \* display names of sandbox tables
  Workers,        \* gunicorn workers: one request each at a time
  Handlers,       \* the endpoints and jobs in use in this instance
  SensChoices,    \* sensitivities the callers pass
  ReaderChoices,  \* audiences the callers pass
  TagChoices,     \* TRUE: tags with 'needs-human-vouch', FALSE: without
  EmptyBody,      \* the body '', which only an amendment can give a note
  Unembeddable,   \* the bodies for which embed() raises every time
  Batch,          \* REEMBED_BATCH
  None            \* SQL NULL, and a field a request leaves out

AllHandlers ==
  {"provisional_memory", "memory_share", "escalate_human", "vouch",
   "vouch_invalid", "self_validate", "self_invalid", "graduate",
   "decide_delete", "provisional_sweep", "curate_edit", "curate_delete",
   "recall_fastkill", "provisional_table", "validate_sweep", "reembed_null"}

(* The jobs of the systemd timers: each is one process at a time. *)
Jobs == {"validate_sweep", "reembed_null"}
Procs == Workers \cup Jobs

ASSUME LifecycleAssumption ==
  /\ Handlers \subseteq AllHandlers
  /\ SensChoices \subseteq Sensitivities
  /\ ReaderChoices \subseteq SUBSET ReaderTokens
  /\ TagChoices \subseteq BOOLEAN
  /\ Workers \cap Jobs = {}
  /\ None \notin Notes /\ None \notin Names /\ None \notin Bodies
  /\ None \notin Sessions /\ None \notin Tables /\ None \notin Agents
  /\ None \notin Names \X Bodies
  /\ EmptyBody # None
  /\ Unembeddable \subseteq Bodies
  /\ Batch \in Nat \ {0}

VARIABLES
  memory,    \* the table memory
  artifact,  \* by author and table name, the newest row of provisional_artifact
  log,       \* the rows of action_log about sharing and trust
  req        \* the transaction each process is in the middle of

vars == <<memory, artifact, log, req>>

Contents == Names \X Bodies
OrNone(S) == S \cup {None}

(* A signature and an embedding are the contents they were computed from.  *)
Row == [name : Names, body : Bodies, author : Agents,
        session : OrNone(Sessions), share : {"personal", "ready_to_share", "trusted"},
        trust : {"quarantined", "trusted"}, tier : {"provisional", "semantic"},
        live : BOOLEAN, ttl : {"none", "running", "lapsed"},
        sens : Sensitivities, readers : SUBSET ReaderTokens,
        escalated : BOOLEAN, sig : OrNone(Contents), emb : OrNone(Bodies)]

NoRow == [live |-> FALSE, share |-> "none"]

Artifact == [status : {"none", "provisional", "graduated", "deleted"},
             anchor : OrNone(Notes)]

Entry == [action : {"memory_share", "memory_vouch", "memory_self_validate",
                    "provisional_graduate"},
          actor : Agents, note : Notes]

(* A transaction in progress: who asked for what on which notes, the fields *)
(* the body of the request changes, and what the SELECTs returned.          *)
Request == [op : AllHandlers, by : OrNone(Agents), notes : SUBSET Notes,
            seen : [Notes -> OrNone(Contents)],
            name : OrNone(Names), body : OrNone(Bodies),
            sens : OrNone(Sensitivities), readers : OrNone(SUBSET ReaderTokens),
            tagged : OrNone(BOOLEAN), table : OrNone(Tables)]

Idle == [op |-> "idle"]

TypeOK ==
  /\ memory \in [Notes -> Row \cup {NoRow}]
  /\ artifact \in [Agents \X Tables -> Artifact]
  /\ log \subseteq Entry
  /\ req \in [Procs -> Request \cup {Idle}]

Init ==
  /\ memory = [n \in Notes |-> NoRow]
  /\ artifact = [t \in Agents \X Tables |-> [status |-> "none", anchor |-> None]]
  /\ log = {}
  /\ req = [p \in Procs |-> Idle]

-----------------------------------------------------------------------------
(* What SELECT and UPDATE do under the access model. *)

Content(n) == <<memory[n].name, memory[n].body>>
Exists(n)  == memory[n] # NoRow

Untrusted(n) ==
  /\ memory[n].live
  /\ memory[n].share = "personal"
  /\ memory[n].trust = "quarantined"

(* The partial unique index memory_name_live_uniq. *)
NamesUnique(table) ==
  \A m, n \in Notes :
    table[m].live /\ table[n].live /\ table[m].name = table[n].name => m = n

(* Can the connection of this caller match row n?  Jobs connect as the     *)
(* owner of the table and bypass the policies.                             *)
Reaches(by, n) == Exists(n) /\ (by = None \/ Updatable(by, memory[n]))

(* The rows a caller's UPDATE leaves must pass the policies as well, and   *)
(* the unique index; otherwise the statement raises.                       *)
Legal(by, table) ==
  /\ by # None =>
       \A n \in Notes : table[n] # memory[n] => Updatable(by, table[n])
  /\ NamesUnique(table)

Put(n, row) == [memory EXCEPT ![n] = row]

Retired(S) ==
  [n \in Notes |-> IF n \in S THEN [memory[n] EXCEPT !.live = FALSE] ELSE memory[n]]

Logged(action, actor, n) == {[action |-> action, actor |-> actor, note |-> n]}

(* Mutant: the tables of a dropped anchor get the action's name as status. *)
CascadedByAction(S, status) ==
  [t \in Agents \X Tables |->
     IF artifact[t].status = "provisional" /\ artifact[t].anchor \in S
     THEN [artifact[t] EXCEPT !.status = IF status = "deleted" THEN "drop" ELSE status]
     ELSE artifact[t]]

(* _drop_or_graduate_anchor_tables *)
Cascaded(S, status) ==
  [t \in Agents \X Tables |->
     IF artifact[t].status = "provisional" /\ artifact[t].anchor \in S
     THEN [artifact[t] EXCEPT !.status = status]
     ELSE artifact[t]]

-----------------------------------------------------------------------------
(* Transactions. *)

Call(op, by, notes) ==
  [op |-> op, by |-> by, notes |-> notes, seen |-> [n \in Notes |-> None],
   name |-> None, body |-> None, sens |-> None, readers |-> None,
   tagged |-> None, table |-> None]

Seen(S) == [n \in Notes |-> IF n \in S THEN Content(n) ELSE None]

Start(p, call) ==
  /\ req[p] = Idle
  /\ call.op \in Handlers
  /\ req' = [req EXCEPT ![p] = call]
  /\ UNCHANGED <<memory, artifact, log>>

Running(p, ops) == req[p] # Idle /\ req[p].op \in ops

(* Commit the new contents of the tables, or, if a statement raises, roll  *)
(* back and answer 500.                                                    *)
Commit(p, table, entries, artifacts) ==
  /\ req' = [req EXCEPT ![p] = Idle]
  /\ IF Legal(req[p].by, table)
     THEN /\ memory' = table
          /\ log' = log \cup entries
          /\ artifact' = artifacts
     ELSE UNCHANGED <<memory, log, artifact>>

(* The worker is killed, the client goes away or a call raises (embed() on *)
(* an amended body, for one): the transaction is rolled back.              *)
Abort(p) ==
  /\ req[p] # Idle
  /\ req' = [req EXCEPT ![p] = Idle]
  /\ UNCHANGED <<memory, artifact, log>>

-----------------------------------------------------------------------------
NewNote(a, name, body, session, sens, trust, emb, tagged) ==
  [name |-> name, body |-> body, author |-> a, session |-> session,
   share |-> "personal", trust |-> trust, tier |-> "provisional",
   live |-> TRUE, ttl |-> "none", sens |-> sens, readers |-> {a},
   escalated |-> tagged, sig |-> <<name, body>>, emb |-> emb]

(* What embed() answers for a body, None when it raises. *)
Embedded(body) == {None} \cup ({body} \ Unembeddable)

(* provisional_memory: a manager or a worker writes a personal note, with  *)
(* some text.  Only a manager may have it trusted at birth.  embed() may   *)
(* fail.  The name is the caller's or one derived from the body.           *)
CreateNote(a, n) ==
  /\ "provisional_memory" \in Handlers
  /\ Role[a] \in {"manager", "worker"}
  /\ memory[n] = NoRow
  /\ \E name \in Names, body \in Bodies \ {EmptyBody}, session \in OrNone(Sessions),
        sens \in SensChoices, trust \in {"quarantined", "trusted"}, emb \in OrNone(Bodies),
        tagged \in TagChoices \cup {FALSE} :
       /\ trust = "trusted" => Role[a] = "manager"
       /\ emb \in Embedded(body)
       /\ memory' = Put(n, NewNote(a, name, body, session, sens, trust, emb, tagged))
       /\ NamesUnique(memory')
  /\ UNCHANGED <<artifact, log, req>>

(* Mutants of Sharable: without the author guard, without the status guard. *)
SharableByAnyone(a, n) == memory[n].live /\ memory[n].share = "personal"
SharableAgain(a, n)    == memory[n].live /\ memory[n].author = a

Sharable(a, n) ==
  memory[n].live /\ memory[n].share = "personal" /\ memory[n].author = a

(* memory_share: one guarded UPDATE; the author may propose an audience.   *)
ShareNote(a, n) ==
  /\ "memory_share" \in Handlers
  /\ a \notin PersonalOnly
  /\ Sharable(a, n)
  /\ \E readers \in (ReaderChoices \ {{}}) \cup {memory[n].readers} :
       memory' = Put(n, [memory[n] EXCEPT !.share = "ready_to_share", !.readers = readers])
  /\ log' = log \cup Logged("memory_share", a, n)
  /\ UNCHANGED <<artifact, req>>

-----------------------------------------------------------------------------
(* memory_validate: a verdict on an untrusted personal note, tied to the   *)
(* note's own source session, or vouched for by a manager.                 *)
ManagerVerdicts == {"escalate_human", "vouch", "vouch_invalid"}
SourceVerdicts  == {"self_validate", "self_invalid"}
Verdicts == ManagerVerdicts \cup SourceVerdicts

(* Mutant: a worker may vouch for its own note. *)
MayVouchForOwn(a, n, verdict) ==
  /\ Role[a] = "manager" \/ memory[n].author = a
  /\ verdict \in SourceVerdicts => memory[n].session # None

MayJudge(a, n, verdict) ==
  /\ Role[a] = "manager" \/ memory[n].author = a
  /\ verdict \in ManagerVerdicts => Role[a] = "manager"
  /\ verdict \in SourceVerdicts => memory[n].session # None

ValidateBegin(p, a, n, verdict) ==
  /\ Untrusted(n)
  /\ Selectable(a, memory[n])
  /\ MayJudge(a, n, verdict)
  /\ LET signs == IF verdict \in {"vouch", "self_validate"} THEN {n} ELSE {}
     IN  Start(p, [Call(verdict, a, {n}) EXCEPT !.seen = Seen(signs)])

Judged(row, verdict, seen) ==
  CASE verdict = "escalate_human" -> [row EXCEPT !.escalated = TRUE]
    [] verdict = "vouch" ->
         [row EXCEPT !.trust = "trusted", !.escalated = FALSE, !.sig = seen]
    [] verdict = "self_validate" -> [row EXCEPT !.trust = "trusted", !.sig = seen]
    [] OTHER -> [row EXCEPT !.live = FALSE]

VerdictEntries(r, n) ==
  CASE r.op = "vouch"         -> Logged("memory_vouch", r.by, n)
    [] r.op = "self_validate" -> Logged("memory_self_validate", r.by, n)
    [] OTHER                  -> {}

(* Every UPDATE of the handler says WHERE id=... and nothing else. *)
ValidateEnd(p) ==
  /\ Running(p, Verdicts)
  /\ \E n \in req[p].notes :
       Commit(p,
              IF Reaches(req[p].by, n)
              THEN Put(n, Judged(memory[n], req[p].op, req[p].seen[n]))
              ELSE memory,
              VerdictEntries(req[p], n),
              artifact)

-----------------------------------------------------------------------------
(* provisional_decide: a reviewer graduates or deletes a note in review.   *)

(* The audience of a graduated note when the reviewer names none. *)
GraduationReaders(row) ==
  IF row.sens \in {"public", "normal"} /\ row.readers # {}
  THEN row.readers
  ELSE DefaultReaders(row.sens, "trusted")

(* Mutant: any live note may be decided. *)
InReviewOrNot(a, n) ==
  a \in Reviewers /\ memory[n].live /\ Selectable(a, memory[n])

InReview(a, n) ==
  /\ a \in Reviewers
  /\ memory[n].live /\ memory[n].share = "ready_to_share"
  /\ Selectable(a, memory[n])

(* The collision check, as far as the caller can see. *)
NoCollision(a, n, name) ==
  \A m \in Notes \ {n} :
    ~(memory[m].live /\ memory[m].name = name /\ Selectable(a, memory[m]))

(* An amendment of name or body signs the note again. *)
Resigns(n, name, body) == IF name = None /\ body = None THEN {} ELSE {n}

(* An amended body is embedded at once, or the request fails. *)
GraduateBegin(p, a, n) ==
  /\ InReview(a, n)
  /\ memory[n].author = a => Role[a] = "manager"
  /\ \E name \in OrNone(Names), body \in OrNone(Bodies) \ Unembeddable,
        readers \in (ReaderChoices \ {{}}) \cup {GraduationReaders(memory[n])} :
       /\ name # None => NoCollision(a, n, name)
       /\ Start(p, [Call("graduate", a, {n}) EXCEPT
                      !.name = name, !.body = body, !.readers = readers,
                      !.seen = Seen(Resigns(n, name, body))])

DecideDeleteBegin(p, a, n) ==
  /\ InReview(a, n)
  /\ Start(p, Call("decide_delete", a, {n}))

(* A field of a request, or the value it leaves alone. *)
Given(field, otherwise) == IF field = None THEN otherwise ELSE field

(* Mutant: a note is signed again only when its body changes. *)
ResignedOnNewBody(r, n, sig) ==
  IF r.body = None THEN sig ELSE <<Given(r.name, r.seen[n][1]), r.body>>

(* The signature an amendment writes: computed from the amended fields and *)
(* from what the SELECT returned for the others.                           *)
Resigned(r, n, sig) ==
  IF r.name = None /\ r.body = None
  THEN sig
  ELSE <<Given(r.name, r.seen[n][1]), Given(r.body, r.seen[n][2])>>

(* Mutant: an amended body keeps the old embedding. *)
GraduatedUnembedded(row, r, n) ==
  [row EXCEPT !.share = "trusted", !.trust = "trusted", !.tier = "semantic",
              !.ttl = "none", !.readers = r.readers,
              !.name = Given(r.name, @), !.body = Given(r.body, @),
              !.sig = Resigned(r, n, @)]

Graduated(row, r, n) ==
  [row EXCEPT !.share = "trusted", !.trust = "trusted", !.tier = "semantic",
              !.ttl = "none", !.readers = r.readers,
              !.name = Given(r.name, @), !.body = Given(r.body, @),
              !.emb = Given(r.body, @), !.sig = Resigned(r, n, @)]

(* UPDATE ... WHERE id=... AND share_status='ready_to_share': no test of   *)
(* deleted_at.  The tables follow and the entry is written even when no    *)
(* row matched.                                                            *)
GraduateEnd(p) ==
  /\ Running(p, {"graduate"})
  /\ \E n \in req[p].notes :
       Commit(p,
              IF memory[n].share = "ready_to_share" /\ Reaches(req[p].by, n)
              THEN Put(n, Graduated(memory[n], req[p], n))
              ELSE memory,
              Logged("provisional_graduate", req[p].by, n),
              Cascaded({n}, "graduated"))

DecideDeleteEnd(p) ==
  /\ Running(p, {"decide_delete"})
  /\ \E n \in req[p].notes :
       Commit(p,
              IF memory[n].share = "ready_to_share" /\ Reaches(req[p].by, n)
              THEN Retired({n})
              ELSE memory,
              {},
              Cascaded({n}, "deleted"))

(* provisional_sweep: one UPDATE of every provisional row past its TTL,    *)
(* whatever its share_status, and the tables anchored to it.               *)
Sweep(a) ==
  /\ "provisional_sweep" \in Handlers
  /\ Role[a] = "manager"
  /\ LET expired == {n \in Notes : /\ memory[n].live
                                   /\ memory[n].tier = "provisional"
                                   /\ memory[n].ttl = "lapsed"
                                   /\ Reaches(a, n)}
     IN  /\ memory' = Retired(expired)
         /\ artifact' = Cascaded(expired, "deleted")
  /\ UNCHANGED <<log, req>>

-----------------------------------------------------------------------------
(* curate_memory_edit: a reviewer amends a live note in any tier. *)
CurateEditBegin(p, a, n) ==
  /\ a \in Reviewers
  /\ memory[n].live /\ Selectable(a, memory[n])
  /\ \E name \in OrNone(Names), body \in OrNone(Bodies), sens \in OrNone(SensChoices),
        readers \in OrNone(ReaderChoices), tagged \in OrNone(TagChoices) :
       /\ <<name, body, sens, readers, tagged>> # <<None, None, None, None, None>>
       /\ name # None => NoCollision(a, n, name)
       /\ Start(p, [Call("curate_edit", a, {n}) EXCEPT
                      !.name = name, !.body = body, !.sens = sens,
                      !.readers = readers, !.tagged = tagged,
                      !.seen = Seen(Resigns(n, name, body))])

(* emb is the new embedding, NULL when embed() failed on the new body.     *)
Edited(row, r, n, emb) ==
  [row EXCEPT !.name = Given(r.name, @), !.body = Given(r.body, @),
              !.sens = Given(r.sens, @), !.readers = Given(r.readers, @),
              !.escalated = Given(r.tagged, @),
              !.emb = IF r.body = None THEN @ ELSE emb,
              !.sig = Resigned(r, n, @)]

CurateEditEnd(p) ==
  /\ Running(p, {"curate_edit"})
  /\ \E n \in req[p].notes, emb \in Embedded(req[p].body) :
       Commit(p,
              IF memory[n].live /\ Reaches(req[p].by, n)
              THEN Put(n, Edited(memory[n], req[p], n, emb))
              ELSE memory,
              {},
              artifact)

(* curate_memory_delete: one guarded UPDATE; anchored tables stay.         *)
CurateDelete(a, n) ==
  /\ "curate_delete" \in Handlers
  /\ a \in Reviewers
  /\ memory[n].live /\ Reaches(a, n)
  /\ memory' = Retired({n})
  /\ UNCHANGED <<artifact, log, req>>

-----------------------------------------------------------------------------
(* _recall_fastkill: at the end of a recall, retire the caller's own       *)
(* untrusted notes recalled in too many sessions.  Which of them reached   *)
(* the threshold is left open.                                             *)
FastkillBegin(p, a, S) ==
  /\ S # {}
  /\ \A n \in S : Untrusted(n) /\ memory[n].author = a
  /\ Start(p, Call("recall_fastkill", a, S))

FastkillEnd(p) ==
  /\ Running(p, {"recall_fastkill"})
  /\ Commit(p, Retired({n \in req[p].notes : Reaches(req[p].by, n)}), {}, artifact)

(* validate_sweep.py: retire untrusted notes whose transcript was pruned   *)
(* or that were not confirmed in time.  Which are is left open.            *)
ValidateSweepBegin(S) ==
  /\ S # {}
  /\ \A n \in S : Untrusted(n)
  /\ Start("validate_sweep", Call("validate_sweep", None, S))

ValidateSweepEnd ==
  /\ Running("validate_sweep", {"validate_sweep"})
  /\ Commit("validate_sweep", Retired(req["validate_sweep"].notes), {}, artifact)

Missing(n) == memory[n].live /\ memory[n].emb = None /\ memory[n].body # EmptyBody

(* Mutant: personal notes are left out. *)
UnembeddedShared == {n \in Notes : Missing(n) /\ memory[n].share # "personal"}

(* reembed_null.py: compute the missing embeddings, one slow call each: at *)
(* most REEMBED_BATCH of them, in no order (LIMIT without ORDER BY).       *)
Unembedded == {n \in Notes : Missing(n)}

(* Mutant: a backlog that does not fit a run is left alone. *)
FittingBatches == IF Cardinality(Unembedded) \in 1..Batch THEN {Unembedded} ELSE {}

Batches ==
  {S \in SUBSET Unembedded : /\ S # {} /\ Cardinality(S) <= Batch
                             /\ S = Unembedded \/ Cardinality(S) = Batch}

ReembedBegin ==
  \E S \in Batches :
    Start("reembed_null", [Call("reembed_null", None, S) EXCEPT !.seen = Seen(S)])

Answerable(r) == {n \in r.notes : r.seen[n][2] \notin Unembeddable}

(* answered: the notes for which embed() did not raise. *)
ReembedCommit(answered) ==
  LET r == req["reembed_null"]
  IN  Commit("reembed_null",
             [n \in Notes |-> IF n \in answered
                              THEN [memory[n] EXCEPT !.emb = r.seen[n][2]]
                              ELSE memory[n]],
             {}, artifact)

ReembedEnd ==
  /\ Running("reembed_null", {"reembed_null"})
  /\ \E answered \in SUBSET Answerable(req["reembed_null"]) : ReembedCommit(answered)

-----------------------------------------------------------------------------
(* provisional_table_create: a sandbox table anchored to a live provisional *)
(* note of the caller, or to an anchor note written with it.  The table is *)
(* named after its author, and a name is free again once it was dropped.   *)
AnchorBegin(p, a, n, t) ==
  /\ Role[a] \in {"manager", "worker"}
  /\ memory[n].live /\ memory[n].author = a /\ memory[n].tier = "provisional"
  /\ Start(p, [Call("provisional_table", a, {n}) EXCEPT !.table = t])

FreeTable(t) == artifact[t].status \in {"none", "deleted"}

Anchored(t, n) == [artifact EXCEPT ![t] = [status |-> "provisional", anchor |-> n]]

AnchorEnd(p) ==
  /\ Running(p, {"provisional_table"})
  /\ LET t == <<req[p].by, req[p].table>>
     IN  /\ FreeTable(t)
         /\ \E n \in req[p].notes : Commit(p, memory, {}, Anchored(t, n))

CreateTable(a, n, t) ==
  /\ "provisional_table" \in Handlers
  /\ Role[a] \in {"manager", "worker"}
  /\ FreeTable(<<a, t>>)
  /\ memory[n] = NoRow
  /\ \E name \in Names, body \in Bodies \ {EmptyBody} :
       memory' = Put(n,
         [name |-> name, body |-> body, author |-> a, session |-> None,
          share |-> "personal", trust |-> "quarantined", tier |-> "provisional",
          live |-> TRUE, ttl |-> "running", sens |-> "normal", readers |-> {a},
          escalated |-> FALSE, sig |-> None, emb |-> None])
  /\ NamesUnique(memory')
  /\ artifact' = Anchored(<<a, t>>, n)
  /\ UNCHANGED <<log, req>>

(* PROVISIONAL_TTL_DAYS pass: expires_at < now(). *)
TtlLapses(n) ==
  /\ memory[n].live /\ memory[n].ttl = "running"
  /\ memory' = Put(n, [memory[n] EXCEPT !.ttl = "lapsed"])
  /\ UNCHANGED <<artifact, log, req>>

-----------------------------------------------------------------------------
Endpoint(a) ==
  \/ \E n \in Notes : CreateNote(a, n) \/ ShareNote(a, n) \/ CurateDelete(a, n)
  \/ Sweep(a)
  \/ \E n \in Notes, t \in Tables : CreateTable(a, n, t)

Begins(p, a) ==
  \/ \E n \in Notes :
       \/ \E verdict \in Verdicts : ValidateBegin(p, a, n, verdict)
       \/ GraduateBegin(p, a, n)
       \/ DecideDeleteBegin(p, a, n)
       \/ CurateEditBegin(p, a, n)
       \/ \E t \in Tables : AnchorBegin(p, a, n, t)
  \/ \E S \in SUBSET Notes : FastkillBegin(p, a, S)

Ends(p) ==
  \/ ValidateEnd(p)
  \/ GraduateEnd(p)
  \/ DecideDeleteEnd(p)
  \/ CurateEditEnd(p)
  \/ FastkillEnd(p)
  \/ AnchorEnd(p)

Timers ==
  \/ \E S \in SUBSET Notes : ValidateSweepBegin(S)
  \/ ValidateSweepEnd
  \/ ReembedBegin
  \/ ReembedEnd

Next ==
  \/ \E a \in Agents : Endpoint(a)
  \/ \E p \in Workers : Ends(p) \/ \E a \in Agents : Begins(p, a)
  \/ Timers
  \/ \E p \in Procs : Abort(p)
  \/ \E n \in Notes : TtlLapses(n)

Spec == Init /\ [][Next]_vars
-----------------------------------------------------------------------------
(* What the lifecycle promises. *)

HasEntry(n, action, actors) ==
  \E e \in log : e.note = n /\ e.action = action /\ e.actor \in actors

(* A note is shared with other agents only after its own author offered it *)
(* (memory_share) and a reviewer graduated it, one who is not its author   *)
(* unless a manager, whatever the interleaving of the handlers: the audit  *)
(* trail of every shared note shows both steps.                            *)
SharedNotesWereReviewed ==
  \A n \in Notes : memory[n].share = "trusted" =>
    /\ HasEntry(n, "memory_share", {memory[n].author})
    /\ HasEntry(n, "provisional_graduate",
                {r \in Reviewers : r # memory[n].author \/ r \in Managers})

(* Each of the two layers of the access model, alone, keeps a note from    *)
(* every other agent until its author offered it and a reviewer graduated  *)
(* it: except from agents with see_all, and among managers once offered.   *)
OthersReadReviewedNotes ==
  \A n \in Notes, a \in Agents \ SeeAll :
    /\ Exists(n) /\ memory[n].author # a
    /\ MemSel(a, memory[n]) \/ MemReadWhere(a, memory[n])
    => /\ HasEntry(n, "memory_share", {memory[n].author})
       /\ \/ HasEntry(n, "provisional_graduate", Reviewers)
          \/ {a, memory[n].author} \subseteq Managers

(* No note is marked trusted unless a manager wrote it, a manager vouched  *)
(* for it, its author or a manager checked it against the session it came  *)
(* from, or a reviewer graduated it, and the log says which.               *)
TrustIsEarned ==
  \A n \in Notes : Exists(n) /\ memory[n].trust = "trusted" =>
    \/ memory[n].author \in Managers
    \/ HasEntry(n, "memory_vouch", Managers)
    \/ /\ memory[n].session # None
       /\ HasEntry(n, "memory_self_validate", Managers \cup {memory[n].author})
    \/ HasEntry(n, "provisional_graduate", Reviewers)

(* A sandbox table reaches the governed schema only with an anchor note    *)
(* that graduated, although provisional_decide promotes the tables even    *)
(* when its UPDATE matched no row.                                         *)
GovernedTablesWereApproved ==
  \A t \in Agents \X Tables : artifact[t].status = "graduated" =>
    memory[artifact[t].anchor].share = "trusted"

(* With row-level security on, a request of an agent who is no reviewer    *)
(* never changes a shared note, even when the note was shared between the  *)
(* SELECT and the UPDATE of the request (memory_validate, recall_fastkill).*)
WorkersNeverAlterSharedNotes ==
  [][\A p \in Workers :
       req[p] # Idle /\ req'[p] = Idle /\ req[p].by \notin Reviewers =>
         \A n \in Notes : memory[n].share = "trusted" => memory'[n] = memory[n]]_vars

SignatureCovers(row) == row.sig \in {None, <<row.name, row.body>>}
EmbeddingMatches(row) == row.emb \in {None, row.body}

(* The signature of a note stops covering its name and body only when a    *)
(* request that lost a race commits: a verdict or an amendment that signs  *)
(* what its SELECT returned, where another transaction has since written   *)
(* another name or body.  No sequence of requests does it, nor the timers. *)
OnlyOvertakenRequestsMissign ==
  [][\A n \in Notes :
       Exists(n) /\ SignatureCovers(memory[n]) /\ ~SignatureCovers(memory'[n]) =>
         \E p \in Workers : /\ req[p] # Idle /\ req'[p] = Idle
                           /\ req[p].seen[n] \notin {None, Content(n)}]_vars

(* Recall finds a note by what it used to say only after the re-embedding  *)
(* job wrote the vector of a body that was amended while embed() ran: no   *)
(* request leaves a stale vector, whatever it overlaps with.               *)
OnlyTheJobLeavesStaleVectors ==
  [][\A n \in Notes :
       Exists(n) /\ EmbeddingMatches(memory[n]) /\ ~EmbeddingMatches(memory'[n]) =>
         /\ Running("reembed_null", {"reembed_null"}) /\ req'["reembed_null"] = Idle
         /\ req["reembed_null"].seen[n] \notin {None, Content(n)}]_vars

-----------------------------------------------------------------------------
(* The lifecycle implements NoteGovernance: whatever the overlap of the    *)
(* handlers, its author offers a personal note, a reviewer entitled to it  *)
(* shares one that was offered, the log shows both, and a retired note     *)
(* stays retired.  Which handler retires a note it leaves open.            *)
StageOf(row) ==
  CASE row = NoRow                       -> "none"
    [] row # NoRow /\ ~row.live          -> "retired"
    [] row.live /\ row.share = "personal" -> "personal"
    [] row.live /\ row.share = "ready_to_share" -> "review"
    [] OTHER                             -> "shared"

StepOf(e) ==
  [step |-> IF e.action = "memory_share" THEN "offer" ELSE "decision",
   by |-> e.actor, note |-> e.note]

TrailOf(entries) ==
  {StepOf(e) : e \in {e \in entries : e.action \in {"memory_share", "provisional_graduate"}}}

Governance == INSTANCE NoteGovernance WITH
  stage <- [n \in Notes |-> StageOf(memory[n])],
  owner <- [n \in Notes |-> IF memory[n] = NoRow THEN None ELSE memory[n].author],
  trail <- TrailOf(log)

GovernanceSpec == Governance!Spec

-----------------------------------------------------------------------------
(* The timer brain-reembed.timer fires every day (Persistent=true), so the *)
(* job starts again and again; it is not killed every time, nor does the   *)
(* embedder fail every time on a text that can be embedded at all.         *)
ReembedAll ==
  /\ Running("reembed_null", {"reembed_null"})
  /\ ReembedCommit(Answerable(req["reembed_null"]))

FairSpec == Spec /\ WF_vars(ReembedBegin) /\ SF_vars(ReembedAll)

Repairable == {n \in Notes : Missing(n) /\ memory[n].body \notin Unembeddable}
Stuck      == {n \in Notes : Missing(n) /\ memory[n].body \in Unembeddable}

(* A note stored without an embedding because embed() failed gets one, or  *)
(* is retired, emptied or made impossible to embed, however often it is    *)
(* edited meanwhile: unless more notes wait than a run takes.              *)
NullEmbeddingsAreRepaired ==
  \A n \in Notes :
    n \in Repairable ~> n \notin Repairable \/ Cardinality(Repairable \cup Stuck) > Batch

(* A backlog longer than a run takes is worked off all the same, although  *)
(* the runs take its notes in no order, unless new notes join it for ever  *)
(* or notes that cannot be embedded fill whole batches.                    *)
BacklogIsWorkedOff ==
  \/ []<>(Repairable = {})
  \/ []<><<Repairable' \ Repairable # {}>>_vars
  \/ []<>(Cardinality(Stuck) >= Batch)

-----------------------------------------------------------------------------
(* What comments and documents of the code claim, and interleavings or     *)
(* sequences of its handlers refute.                                       *)

(* A signature covers the present name and body: the edit endpoints re-sign *)
(* "on content change (else /memory/verify false-TAMPER)", api.py:4572.     *)
SignatureCoversContent ==
  \A n \in Notes : memory[n].live => SignatureCovers(memory[n])

(* A stale vector is never kept: "Do NOT keep the STALE vector", api.py:4567. *)
EmbeddingMatchesBody ==
  \A n \in Notes : memory[n].live => EmbeddingMatches(memory[n])

(* memory_validate judges untrusted personal notes only: a verdict that    *)
(* commits leaves every other note as it was.                              *)
VerdictsJudgeUntrustedNotesOnly ==
  [][\A p \in Workers :
       Running(p, Verdicts) /\ req'[p] = Idle =>
         \A n \in Notes : Exists(n) /\ ~Untrusted(n) => memory'[n] = memory[n]]_vars

(* A note flagged 'needs-human-vouch' is in the queue /needs-you until a   *)
(* verdict of memory_validate takes it out, so it is one the endpoint      *)
(* accepts.                                                                *)
FlaggedNotesAwaitAVerdict ==
  \A n \in Notes : memory[n].live /\ memory[n].escalated => Untrusted(n)

(* A sandbox table is dropped with its anchor note, never while the note   *)
(* lives on as an approved one.                                            *)
TablesOfApprovedNotesAreKept ==
  \A t \in Agents \X Tables :
    artifact[t].status = "deleted" =>
      ~(memory[artifact[t].anchor].live /\ memory[artifact[t].anchor].share = "trusted")
=============================================================================
