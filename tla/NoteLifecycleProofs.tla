------------------------ MODULE NoteLifecycleProofs ------------------------
(***************************************************************************)
(* Proofs about NoteLifecycle, for any set of notes, agents, workers and   *)
(* handlers.  The inductive invariant adds to the type invariant what a    *)
(* request in progress may still rely on when its UPDATE runs: facts its   *)
(* SELECTs established and no other handler can take away.                 *)
(***************************************************************************)
EXTENDS NoteLifecycle, TLAPS

Table     == [Notes -> Row \cup {NoRow}]
Artifacts == [Agents \X Tables -> Artifact]

(* What an earlier SELECT of the request guarantees at its UPDATE. *)
RequestInv(r, table) ==
  /\ r.op \notin Jobs => r.by \in Agents
  /\ \A n \in r.notes : table[n] # NoRow
  /\ r.op \in {"vouch", "self_validate", "reembed_null"} =>
       \A n \in r.notes : r.seen[n] \in Contents
  /\ r.op \in {"graduate", "curate_edit"} /\ (r.name # None \/ r.body # None) =>
       \A n \in r.notes : r.seen[n] \in Contents
  /\ r.op = "provisional_table" => r.table \in Tables
  /\ r.op = "vouch" => r.by \in Managers
  /\ r.op = "self_validate" =>
       \A n \in r.notes : /\ r.by \in Managers \/ r.by = table[n].author
                          /\ table[n].session # None
  /\ r.op = "graduate" =>
       /\ r.readers \in SUBSET ReaderTokens
       /\ r.by \in Reviewers
       /\ \A n \in r.notes : /\ table[n].share # "personal"
                             /\ r.by # table[n].author \/ r.by \in Managers
                             /\ RLS => r.by \in SeeAll \/ r.by = table[n].author

Listed(entries, n, action, actors) ==
  \E e \in entries : e.note = n /\ e.action = action /\ e.actor \in actors

(* What the log must say of a row. *)
Trail(row, n, entries) ==
  row # NoRow =>
    /\ row.share # "personal" => Listed(entries, n, "memory_share", {row.author})
    /\ row.share = "trusted" =>
         Listed(entries, n, "provisional_graduate",
                {r \in Reviewers : r # row.author \/ r \in Managers})
    /\ row.trust = "trusted" =>
         \/ row.author \in Managers
         \/ Listed(entries, n, "memory_vouch", Managers)
         \/ /\ row.session # None
            /\ Listed(entries, n, "memory_self_validate", Managers \cup {row.author})
         \/ Listed(entries, n, "provisional_graduate", Reviewers)

TableInv(artifacts, table) ==
  \A t \in Agents \X Tables : artifacts[t].status = "graduated" =>
    /\ artifacts[t].anchor \in Notes
    /\ table[artifacts[t].anchor].share = "trusted"

IInv ==
  /\ TypeOK
  /\ \A p \in Procs : req[p] # Idle => RequestInv(req[p], memory)
  /\ \A n \in Notes : Trail(memory[n], n, log)
  /\ TableInv(artifact, memory)

(* What no step does to a row: take it away, change whose it is or where   *)
(* it came from, or move it back.                                          *)
RowStep(old, new) ==
  old # NoRow =>
    /\ new # NoRow
    /\ new.author = old.author /\ new.session = old.session
    /\ old.share # "personal" => new.share # "personal"
    /\ old.share = "trusted" => new.share = "trusted"

Advance == \A n \in Notes : RowStep(memory[n], memory'[n])

(* Changes the log need not speak of. *)
Tame(old, new) ==
  \/ new = old
  \/ /\ old # NoRow /\ new # NoRow
     /\ new.author = old.author /\ new.session = old.session
     /\ new.share = old.share /\ new.trust = old.trust

-----------------------------------------------------------------------------
(* Records. *)

(* The placeholder of a row that does not exist is not a row. *)
LEMMA NoRowIsNoRow == NoRow \notin Row /\ ~NoRow.live /\ NoRow.share = "none"
  BY SMT DEF NoRow, Row

LEMMA IdleIsNoRequest == Idle \notin Request
  BY SMT DEF Idle, Request, AllHandlers

(* The log only grows, so what it says of a row stays said. *)
LEMMA ListedMonotone ==
  ASSUME NEW S, NEW T, S \subseteq T, NEW n, NEW action, NEW A, Listed(S, n, action, A)
  PROVE  Listed(T, n, action, A)
  BY DEF Listed

LEMMA TameTrail ==
  ASSUME NEW old, NEW new, NEW n, NEW S, NEW T, S \subseteq T,
         Tame(old, new), Trail(old, n, S)
  PROVE  Trail(new, n, T)
  BY ListedMonotone DEF Tame, Trail

LEMMA TameStep ==
  ASSUME NEW old, NEW new, Tame(old, new)
  PROVE  RowStep(old, new)
  BY DEF Tame, RowStep

(* What a request relies on survives the steps of the others. *)
LEMMA RequestStable ==
  ASSUME NEW r \in Request, NEW old \in Table, NEW new \in Table,
         \A n \in Notes : RowStep(old[n], new[n]),
         RequestInv(r, old)
  PROVE  RequestInv(r, new)
<1>1. r.notes \subseteq Notes
  BY DEF Request
<1>2. \A n \in r.notes : old[n] # NoRow /\ RowStep(old[n], new[n])
  BY <1>1 DEF RequestInv
<1>3. \A n \in r.notes : /\ new[n] # NoRow
                         /\ new[n].author = old[n].author
                         /\ new[n].session = old[n].session
                         /\ old[n].share # "personal" => new[n].share # "personal"
  BY <1>2 DEF RowStep
<1> QED
  BY <1>3 DEF RequestInv

(* Every action preserves the invariant if what it writes is well typed,   *)
(* no row moves back, the log speaks of every row, the promoted tables     *)
(* keep their shared anchors, and the requests it leaves are sound.        *)
LEMMA Keeps ==
  ASSUME IInv,
         memory' \in Table, artifact' \in Artifacts, log' \subseteq Entry,
         req' \in [Procs -> Request \cup {Idle}],
         \A n \in Notes : RowStep(memory[n], memory'[n]),
         \A n \in Notes : Trail(memory'[n], n, log'),
         TableInv(artifact', memory'),
         \A p \in Procs : \/ req'[p] \in {req[p], Idle}
                          \/ RequestInv(req'[p], memory')
  PROVE  IInv' /\ Advance
<1>1. TypeOK'
  BY DEF TypeOK, Table, Artifacts
<1>2. ASSUME NEW p \in Procs, req'[p] # Idle
      PROVE  RequestInv(req'[p], memory')
  <2>1. CASE req'[p] = req[p]
    <3>1. req[p] \in Request /\ memory \in Table
      BY <1>2, <2>1 DEF IInv, TypeOK, Table
    <3>2. RequestInv(req[p], memory)
      BY <1>2, <2>1 DEF IInv
    <3> QED
      BY <2>1, <3>1, <3>2, RequestStable
  <2> QED
    BY <1>2, <2>1
<1> QED
  BY <1>1, <1>2 DEF IInv, Advance

(* A handler that only begins. *)
LEMMA StartKeeps ==
  ASSUME IInv, NEW p \in Procs, NEW call \in Request, RequestInv(call, memory),
         Start(p, call)
  PROVE  IInv' /\ Advance
<1>1. memory' = memory /\ artifact' = artifact /\ log' = log
      /\ req' = [req EXCEPT ![p] = call]
  BY DEF Start
<1>2. memory \in Table /\ artifact \in Artifacts /\ log \subseteq Entry
      /\ req \in [Procs -> Request \cup {Idle}]
  BY DEF IInv, TypeOK, Table, Artifacts
<1>3. req' \in [Procs -> Request \cup {Idle}]
  BY <1>1, <1>2
<1>4. \A n \in Notes : RowStep(memory[n], memory'[n])
  BY <1>1 DEF RowStep
<1>5. \A q \in Procs : req'[q] = req[q] \/ RequestInv(req'[q], memory')
  BY <1>1, <1>2
<1>6. (\A n \in Notes : Trail(memory'[n], n, log')) /\ TableInv(artifact', memory')
  BY <1>1 DEF IInv
<1> QED
  BY <1>1, <1>2, <1>3, <1>4, <1>5, <1>6, Keeps

(* A handler that commits or is rolled back. *)
LEMMA CommitKeeps ==
  ASSUME IInv, NEW p \in Procs, NEW table \in Table, NEW entries \in SUBSET Entry,
         NEW artifacts \in Artifacts,
         \A n \in Notes : RowStep(memory[n], table[n]),
         \A n \in Notes : Trail(table[n], n, log \cup entries),
         TableInv(artifacts, table),
         Commit(p, table, entries, artifacts)
  PROVE  IInv' /\ Advance
<1>1. memory \in Table /\ artifact \in Artifacts /\ log \subseteq Entry
      /\ req \in [Procs -> Request \cup {Idle}]
  BY DEF IInv, TypeOK, Table, Artifacts
<1>2. req' \in [Procs -> Request \cup {Idle}] /\ \A q \in Procs : req'[q] \in {req[q], Idle}
  BY <1>1 DEF Commit
<1>3. CASE memory' = table /\ log' = log \cup entries /\ artifact' = artifacts
  BY <1>1, <1>2, <1>3, Keeps
<1>4. CASE UNCHANGED <<memory, log, artifact>>
  <2>1. \A n \in Notes : RowStep(memory[n], memory'[n])
    BY <1>4 DEF RowStep
  <2>2. (\A n \in Notes : Trail(memory'[n], n, log')) /\ TableInv(artifact', memory')
    BY <1>4 DEF IInv
  <2> QED
    BY <1>1, <1>2, <1>4, <2>1, <2>2, Keeps
<1> QED
  BY <1>3, <1>4 DEF Commit

(* A handler that is one statement. *)
LEMMA WriteKeeps ==
  ASSUME IInv, memory' \in Table, artifact' \in Artifacts, log' \subseteq Entry, req' = req,
         \A n \in Notes : RowStep(memory[n], memory'[n]),
         \A n \in Notes : Trail(memory'[n], n, log'),
         TableInv(artifact', memory')
  PROVE  IInv' /\ Advance
<1>1. req' \in [Procs -> Request \cup {Idle}]
  BY DEF IInv, TypeOK
<1> QED
  BY <1>1, Keeps
-----------------------------------------------------------------------------
(* What the handlers write. *)

LEMMA LiveRow ==
  ASSUME IInv, NEW n \in Notes,
         memory[n].live \/ memory[n] # NoRow \/ memory[n].share # "none"
  PROVE  memory[n] \in Row /\ memory[n] # NoRow
  BY NoRowIsNoRow DEF IInv, TypeOK

LEMMA PutSound ==
  ASSUME IInv, NEW n \in Notes, NEW row \in Row, NEW S, log \subseteq S,
         RowStep(memory[n], row), Trail(row, n, S)
  PROVE  /\ Put(n, row) \in Table
         /\ \A m \in Notes : RowStep(memory[m], Put(n, row)[m])
         /\ \A m \in Notes : Trail(Put(n, row)[m], m, S)
         /\ TableInv(artifact, Put(n, row))
<1>1. memory \in Table
  BY DEF IInv, TypeOK, Table
<1>2. Put(n, row) \in Table /\ Put(n, row)[n] = row
      /\ \A m \in Notes \ {n} : Put(n, row)[m] = memory[m]
  BY <1>1 DEF Put, Table
<1>3. \A m \in Notes : RowStep(memory[m], Put(n, row)[m])
  BY <1>2 DEF RowStep
<1>4. ASSUME NEW m \in Notes \ {n}
      PROVE  Trail(Put(n, row)[m], m, S)
  BY <1>2, TameTrail DEF IInv, Tame
<1>5. TableInv(artifact, Put(n, row))
  BY <1>3, NoRowIsNoRow DEF IInv, TableInv, RowStep
<1> QED
  BY <1>2, <1>3, <1>4, <1>5

(* A table whose rows differ from the present ones only tamely. *)
LEMMA TameSound ==
  ASSUME IInv, NEW table \in Table, \A n \in Notes : Tame(memory[n], table[n]),
         NEW S, log \subseteq S
  PROVE  /\ \A n \in Notes : RowStep(memory[n], table[n])
         /\ \A n \in Notes : Trail(table[n], n, S)
         /\ TableInv(artifact, table)
<1>1. \A n \in Notes : RowStep(memory[n], table[n])
  BY TameStep
<1>2. \A n \in Notes : Trail(table[n], n, S)
  BY TameTrail DEF IInv
<1>3. TableInv(artifact, table)
  BY <1>1, NoRowIsNoRow DEF IInv, TableInv, RowStep
<1> QED
  BY <1>1, <1>2, <1>3

LEMMA RetiredTame ==
  ASSUME IInv, NEW S, \A n \in S \cap Notes : memory[n] # NoRow
  PROVE  Retired(S) \in Table /\ \A n \in Notes : Tame(memory[n], Retired(S)[n])
<1>1. \A n \in S \cap Notes : memory[n] \in Row /\ memory[n] # NoRow
  BY LiveRow
<1>2. \A n \in S \cap Notes : [memory[n] EXCEPT !.live = FALSE] \in Row
  <2>1. ASSUME NEW row \in Row PROVE [row EXCEPT !.live = FALSE] \in Row
    BY DEF Row
  <2> QED
    BY <1>1, <2>1
<1>3. Retired(S) \in Table
  BY <1>2 DEF Retired, Table, IInv, TypeOK
<1>4. ASSUME NEW n \in Notes
      PROVE  Tame(memory[n], Retired(S)[n])
  <2>1. CASE n \in S
    <3> DEFINE new == [memory[n] EXCEPT !.live = FALSE]
    <3>1. /\ new.author = memory[n].author /\ new.session = memory[n].session
          /\ new.share = memory[n].share /\ new.trust = memory[n].trust
      BY <1>1, <2>1 DEF Row
    <3>2. new # NoRow
      BY <1>2, <2>1, NoRowIsNoRow
    <3> QED
      BY <1>1, <2>1, <3>1, <3>2 DEF Tame, Retired
  <2>2. CASE n \notin S
    BY <2>2 DEF Tame, Retired
  <2> QED
    BY <2>1, <2>2
<1> QED
  BY <1>3, <1>4

LEMMA CascadedSound ==
  ASSUME artifact \in Artifacts, NEW S, NEW status \in {"graduated", "deleted"},
         NEW table, TableInv(artifact, table),
         status = "graduated" => \A n \in S : n \in Notes /\ table[n].share = "trusted"
  PROVE  Cascaded(S, status) \in Artifacts /\ TableInv(Cascaded(S, status), table)
<1>1. ASSUME NEW t \in Agents \X Tables
      PROVE  /\ Cascaded(S, status)[t] \in Artifact
             /\ Cascaded(S, status)[t].anchor = artifact[t].anchor
             /\ \/ Cascaded(S, status)[t].status = artifact[t].status
                \/ artifact[t].anchor \in S /\ Cascaded(S, status)[t].status = status
  BY DEF Cascaded, Artifacts, Artifact
<1>2. Cascaded(S, status) \in Artifacts
  BY <1>1 DEF Cascaded, Artifacts
<1>3. TableInv(Cascaded(S, status), table)
  BY <1>1 DEF TableInv
<1> QED
  BY <1>2, <1>3

LEMMA LoggedListed ==
  ASSUME NEW S, NEW n, NEW action, NEW a, NEW A, a \in A
  PROVE  Listed(S \cup Logged(action, a, n), n, action, A)
<1> DEFINE e == [action |-> action, actor |-> a, note |-> n]
<1>1. e \in S \cup Logged(action, a, n)
  BY DEF Logged
<1>2. e.note = n /\ e.action = action /\ e.actor \in A
  OBVIOUS
<1> QED
  BY <1>1, <1>2 DEF Listed
LEMMA LoggedTyped ==
  ASSUME NEW action \in {"memory_share", "memory_vouch", "memory_self_validate",
                         "provisional_graduate"},
         NEW a \in Agents, NEW n \in Notes
  PROVE  Logged(action, a, n) \subseteq Entry
  BY DEF Logged, Entry

LEMMA Typed ==
  ASSUME IInv
  PROVE  /\ memory \in Table /\ artifact \in Artifacts /\ log \subseteq Entry
         /\ req \in [Procs -> Request \cup {Idle}]
  BY DEF IInv, TypeOK, Table, Artifacts

-----------------------------------------------------------------------------
(* The handlers that are one statement. *)

LEMMA CreateNoteKeeps ==
  ASSUME IInv, NEW a \in Agents, NEW n \in Notes, CreateNote(a, n)
  PROVE  IInv' /\ Advance
<1>1. PICK name \in Names, body \in Bodies, session \in OrNone(Sessions),
           sens \in SensChoices, trust \in {"quarantined", "trusted"}, emb \in OrNone(Bodies),
           tagged \in TagChoices \cup {FALSE} :
        /\ trust = "trusted" => Role[a] = "manager"
        /\ memory' = Put(n, NewNote(a, name, body, session, sens, trust, emb, tagged))
  BY DEF CreateNote
<1> DEFINE row == NewNote(a, name, body, session, sens, trust, emb, tagged)
<1>2. row \in Row
  BY LifecycleAssumption DEF NewNote, Row, OrNone, Contents, ReaderTokens
<1>3. RowStep(memory[n], row)
  BY DEF CreateNote, RowStep
<1>4. Trail(row, n, log)
  BY <1>1 DEF NewNote, Trail, Managers
<1>5. memory' = Put(n, row) /\ artifact' = artifact /\ log' = log /\ req' = req
  BY <1>1 DEF CreateNote
<1> HIDE DEF row
<1> QED
  BY <1>2, <1>3, <1>4, <1>5, PutSound, Typed, WriteKeeps

LEMMA ShareNoteKeeps ==
  ASSUME IInv, NEW a \in Agents, NEW n \in Notes, ShareNote(a, n)
  PROVE  IInv' /\ Advance
<1>1. PICK readers \in (ReaderChoices \ {{}}) \cup {memory[n].readers} :
        memory' = Put(n, [memory[n] EXCEPT !.share = "ready_to_share", !.readers = readers])
  BY DEF ShareNote
<1> DEFINE row == [memory[n] EXCEPT !.share = "ready_to_share", !.readers = readers]
<1>2. memory[n] \in Row /\ memory[n] # NoRow /\ memory[n].share = "personal"
      /\ memory[n].author = a
  BY LiveRow DEF ShareNote, Sharable
<1>3. readers \in SUBSET ReaderTokens
  BY <1>2, LifecycleAssumption DEF Row
<1>4. row \in Row
  BY <1>2, <1>3 DEF Row
<1>5. row.author = a /\ row.session = memory[n].session /\ row.share = "ready_to_share"
      /\ row.trust = memory[n].trust
  BY <1>2 DEF Row
<1>6. RowStep(memory[n], row)
  BY <1>2, <1>4, <1>5, NoRowIsNoRow DEF RowStep
<1>7. memory' = Put(n, row) /\ artifact' = artifact /\ req' = req
      /\ log' = log \cup Logged("memory_share", a, n)
  BY <1>1 DEF ShareNote
<1> HIDE DEF row
<1>8. Listed(log', n, "memory_share", {a})
  BY <1>7, LoggedListed
<1>9. Trail(memory[n], n, log) /\ log \subseteq log'
  BY <1>7 DEF IInv
<1>10. Trail(row, n, log')
  BY <1>2, <1>5, <1>8, <1>9, ListedMonotone DEF Trail
<1>11. log' \subseteq Entry
  BY <1>7, LoggedTyped, Typed
<1> QED
  BY <1>4, <1>6, <1>7, <1>9, <1>10, <1>11, PutSound, Typed, WriteKeeps

LEMMA SweepKeeps ==
  ASSUME IInv, NEW a \in Agents, Sweep(a)
  PROVE  IInv' /\ Advance
<1> DEFINE expired == {n \in Notes : /\ memory[n].live
                                   /\ memory[n].tier = "provisional"
                                   /\ memory[n].ttl = "lapsed"
                                   /\ Reaches(a, n)}
<1>1. memory' = Retired(expired) /\ artifact' = Cascaded(expired, "deleted")
      /\ log' = log /\ req' = req
  BY DEF Sweep
<1>2. \A n \in expired \cap Notes : memory[n] # NoRow
  BY DEF Reaches, Exists
<1> HIDE DEF expired
<1>3. memory' \in Table /\ \A n \in Notes : Tame(memory[n], memory'[n])
  BY <1>1, <1>2, RetiredTame
<1>4. /\ \A n \in Notes : RowStep(memory[n], memory'[n])
      /\ \A n \in Notes : Trail(memory'[n], n, log')
      /\ TableInv(artifact, memory')
  BY <1>1, <1>3, TameSound
<1>5. artifact' \in Artifacts /\ TableInv(artifact', memory')
  BY <1>1, <1>4, Typed, CascadedSound
<1> QED
  BY <1>1, <1>3, <1>4, <1>5, Typed, WriteKeeps

LEMMA CurateDeleteKeeps ==
  ASSUME IInv, NEW a \in Agents, NEW n \in Notes, CurateDelete(a, n)
  PROVE  IInv' /\ Advance
<1>1. memory' = Retired({n}) /\ artifact' = artifact /\ log' = log /\ req' = req
      /\ memory[n] # NoRow
  BY DEF CurateDelete, Reaches, Exists
<1>2. memory' \in Table /\ \A m \in Notes : Tame(memory[m], memory'[m])
  BY <1>1, RetiredTame
<1> QED
  BY <1>1, <1>2, TameSound, Typed, WriteKeeps

LEMMA CreateTableKeeps ==
  ASSUME IInv, NEW a \in Agents, NEW n \in Notes, NEW t \in Tables, CreateTable(a, n, t)
  PROVE  IInv' /\ Advance
<1>1. PICK name \in Names, body \in Bodies :
        memory' = Put(n,
         [name |-> name, body |-> body, author |-> a, session |-> None,
          share |-> "personal", trust |-> "quarantined", tier |-> "provisional",
          live |-> TRUE, ttl |-> "running", sens |-> "normal", readers |-> {a},
          escalated |-> FALSE, sig |-> None, emb |-> None])
  BY DEF CreateTable
<1> DEFINE row == [name |-> name, body |-> body, author |-> a, session |-> None,
          share |-> "personal", trust |-> "quarantined", tier |-> "provisional",
          live |-> TRUE, ttl |-> "running", sens |-> "normal", readers |-> {a},
          escalated |-> FALSE, sig |-> None, emb |-> None]
<1>2. row \in Row /\ row.share = "personal" /\ row.trust = "quarantined"
  BY DEF Row, OrNone, Contents, ReaderTokens, Sensitivities
<1>3. memory' = Put(n, row) /\ log' = log /\ req' = req /\ memory[n] = NoRow
      /\ artifact' = Anchored(<<a, t>>, n)
  BY <1>1 DEF CreateTable
<1> HIDE DEF row
<1>4. RowStep(memory[n], row) /\ Trail(row, n, log)
  BY <1>2, <1>3 DEF RowStep, Trail
<1>5. artifact' \in Artifacts
  BY <1>3, Typed DEF Anchored, Artifacts, Artifact, OrNone
<1>6. TableInv(artifact, memory')
  BY <1>2, <1>3, <1>4, PutSound
<1>7. TableInv(artifact', memory')
  BY <1>3, <1>5, <1>6, Typed DEF TableInv, Anchored, Artifacts
<1> QED
  BY <1>2, <1>3, <1>4, <1>5, <1>7, PutSound, Typed, WriteKeeps

LEMMA TtlLapsesKeeps ==
  ASSUME IInv, NEW n \in Notes, TtlLapses(n)
  PROVE  IInv' /\ Advance
<1> DEFINE row == [memory[n] EXCEPT !.ttl = "lapsed"]
<1>1. memory' = Put(n, row) /\ artifact' = artifact /\ log' = log /\ req' = req
  BY DEF TtlLapses
<1>2. memory[n] \in Row /\ memory[n] # NoRow
  BY LiveRow DEF TtlLapses
<1>3. row \in Row
  BY <1>2 DEF Row
<1>4. /\ row.author = memory[n].author /\ row.session = memory[n].session
      /\ row.share = memory[n].share /\ row.trust = memory[n].trust
  BY <1>2 DEF Row
<1>5. Tame(memory[n], row)
  BY <1>2, <1>3, <1>4, NoRowIsNoRow DEF Tame
<1> HIDE DEF row
<1>6. RowStep(memory[n], row) /\ Trail(row, n, log)
  BY <1>5, TameStep, TameTrail DEF IInv
<1> QED
  BY <1>1, <1>3, <1>6, PutSound, Typed, WriteKeeps
-----------------------------------------------------------------------------
(* The handlers that begin: their requests are sound. *)

LEMMA CallTyped ==
  ASSUME NEW op \in AllHandlers, NEW by \in OrNone(Agents), NEW S \in SUBSET Notes
  PROVE  /\ Call(op, by, S) \in Request
         /\ Call(op, by, S).op = op /\ Call(op, by, S).by = by /\ Call(op, by, S).notes = S
         /\ Call(op, by, S).name = None /\ Call(op, by, S).body = None
  BY DEF Call, Request, OrNone

LEMMA SeenTyped ==
  ASSUME IInv, NEW S \in SUBSET Notes, \A n \in S : memory[n] # NoRow
  PROVE  /\ Seen(S) \in [Notes -> OrNone(Contents)]
         /\ \A n \in S : Seen(S)[n] \in Contents
<1>1. \A n \in S : Content(n) \in Contents
  BY LiveRow DEF Content, Contents, Row
<1> QED
  BY <1>1 DEF Seen, OrNone

(* The requests of provisional_decide and curate_memory_edit. *)
Amending(r, name, body, readers, seen) ==
  [r EXCEPT !.name = name, !.body = body, !.readers = readers, !.seen = seen]

Editing(r, name, body, sens, readers, tagged, seen) ==
  [r EXCEPT !.name = name, !.body = body, !.sens = sens, !.readers = readers,
            !.tagged = tagged, !.seen = seen]

LEMMA ValidateBeginKeeps ==
  ASSUME IInv, NEW p \in Procs, NEW a \in Agents, NEW n \in Notes,
         NEW verdict \in Verdicts, ValidateBegin(p, a, n, verdict)
  PROVE  IInv' /\ Advance
<1> DEFINE signs == IF verdict \in {"vouch", "self_validate"} THEN {n} ELSE {}
           call == [Call(verdict, a, {n}) EXCEPT !.seen = Seen(signs)]
<1>1. memory[n] # NoRow
  BY LiveRow DEF ValidateBegin, Untrusted
<1>2. verdict \in AllHandlers
  BY DEF Verdicts, ManagerVerdicts, SourceVerdicts, AllHandlers
<1>3. Seen(signs) \in [Notes -> OrNone(Contents)] /\ \A m \in signs : Seen(signs)[m] \in Contents
  BY <1>1, SeenTyped
<1>4. /\ call \in Request /\ call.op = verdict /\ call.by = a /\ call.notes = {n}
      /\ call.seen = Seen(signs)
  BY <1>2, <1>3 DEF Call, Request, OrNone
<1>5. RequestInv(call, memory)
  <2>1. verdict = "vouch" => a \in Managers
    BY DEF ValidateBegin, MayJudge, ManagerVerdicts, Managers
  <2>2. verdict = "self_validate" =>
          /\ a \in Managers \/ a = memory[n].author
          /\ memory[n].session # None
    BY DEF ValidateBegin, MayJudge, SourceVerdicts, Managers
  <2>3. verdict \notin {"reembed_null", "graduate", "curate_edit", "provisional_table"}
    BY DEF Verdicts, ManagerVerdicts, SourceVerdicts
  <2> HIDE DEF call, signs
  <2>4. verdict \in {"vouch", "self_validate"} => call.seen[n] \in Contents
    BY <1>3, <1>4 DEF signs
  <2> QED
    BY <1>1, <1>4, <2>1, <2>2, <2>3, <2>4 DEF RequestInv
<1>6. Start(p, call)
  BY DEF ValidateBegin
<1> HIDE DEF call
<1> QED
  BY <1>4, <1>5, <1>6, StartKeeps

LEMMA GraduateBeginKeeps ==
  ASSUME IInv, NEW p \in Procs, NEW a \in Agents, NEW n \in Notes, GraduateBegin(p, a, n)
  PROVE  IInv' /\ Advance
<1>1. PICK name \in OrNone(Names), body \in OrNone(Bodies),
           readers \in (ReaderChoices \ {{}}) \cup {GraduationReaders(memory[n])} :
         Start(p, [Call("graduate", a, {n}) EXCEPT
                      !.name = name, !.body = body, !.readers = readers,
                      !.seen = Seen(Resigns(n, name, body))])
  BY DEF GraduateBegin
<1>2. /\ memory[n] # NoRow /\ memory[n] \in Row /\ memory[n].share = "ready_to_share"
      /\ a \in Reviewers /\ Selectable(a, memory[n])
      /\ memory[n].author = a => a \in Managers
  BY LiveRow DEF GraduateBegin, InReview, Managers
<1>3. RLS => a \in SeeAll \/ a = memory[n].author
  BY <1>2, AccessAssumption DEF Selectable, MemSel, OwnUnshared, Roles
<1>4. readers \in SUBSET ReaderTokens
  <2>1. GraduationReaders(memory[n]) \in SUBSET ReaderTokens
    BY <1>2 DEF GraduationReaders, DefaultReaders, Row, ReaderTokens, GroupTokens
  <2> QED
    BY <2>1, LifecycleAssumption
<1> DEFINE seen == Seen(Resigns(n, name, body))
           call == Amending(Call("graduate", a, {n}), name, body, readers, seen)
<1>5. Start(p, call)
  BY <1>1, Zenon DEF Amending
<1>6. /\ seen \in [Notes -> OrNone(Contents)]
      /\ name # None \/ body # None => seen[n] \in Contents
  BY <1>2, SeenTyped DEF Resigns
<1>7. /\ call \in Request
      /\ call.op = "graduate" /\ call.by = a /\ call.notes = {n} /\ call.seen = seen
      /\ call.name = name /\ call.body = body /\ call.readers = readers
  <2> DEFINE r == Call("graduate", a, {n})
  <2>1. r \in Request /\ r.op = "graduate" /\ r.by = a /\ r.notes = {n}
    BY CallTyped DEF AllHandlers, OrNone
  <2>2. readers \in OrNone(SUBSET ReaderTokens) /\ seen \in [Notes -> OrNone(Contents)]
    BY <1>4, <1>6 DEF OrNone
  <2> HIDE DEF r, seen
  <2>3. /\ Amending(r, name, body, readers, seen) \in Request
        /\ Amending(r, name, body, readers, seen).op = r.op
        /\ Amending(r, name, body, readers, seen).by = r.by
        /\ Amending(r, name, body, readers, seen).notes = r.notes
        /\ Amending(r, name, body, readers, seen).seen = seen
        /\ Amending(r, name, body, readers, seen).name = name
        /\ Amending(r, name, body, readers, seen).body = body
        /\ Amending(r, name, body, readers, seen).readers = readers
    BY <2>1, <2>2 DEF Amending, Request
  <2> QED
    BY <2>1, <2>3 DEF r
<1> HIDE DEF call, seen
<1>8. RequestInv(call, memory)
  BY <1>2, <1>3, <1>4, <1>6, <1>7 DEF RequestInv, Jobs
<1> QED
  BY <1>5, <1>7, <1>8, StartKeeps

LEMMA DecideDeleteBeginKeeps ==
  ASSUME IInv, NEW p \in Procs, NEW a \in Agents, NEW n \in Notes, DecideDeleteBegin(p, a, n)
  PROVE  IInv' /\ Advance
<1>1. memory[n] # NoRow
  BY LiveRow DEF DecideDeleteBegin, InReview
<1>2. Call("decide_delete", a, {n}) \in Request
  BY CallTyped DEF AllHandlers, OrNone
<1>3. RequestInv(Call("decide_delete", a, {n}), memory)
  BY <1>1 DEF RequestInv, Call, Jobs
<1> QED
  BY <1>2, <1>3, StartKeeps DEF DecideDeleteBegin

LEMMA CurateEditBeginKeeps ==
  ASSUME IInv, NEW p \in Procs, NEW a \in Agents, NEW n \in Notes, CurateEditBegin(p, a, n)
  PROVE  IInv' /\ Advance
<1>1. PICK name \in OrNone(Names), body \in OrNone(Bodies), sens \in OrNone(SensChoices),
           readers \in OrNone(ReaderChoices), tagged \in OrNone(TagChoices) :
         Start(p, [Call("curate_edit", a, {n}) EXCEPT
                      !.name = name, !.body = body, !.sens = sens,
                      !.readers = readers, !.tagged = tagged,
                      !.seen = Seen(Resigns(n, name, body))])
  BY DEF CurateEditBegin
<1>2. memory[n] # NoRow
  BY LiveRow DEF CurateEditBegin
<1> DEFINE seen == Seen(Resigns(n, name, body))
           call == Editing(Call("curate_edit", a, {n}), name, body, sens, readers, tagged, seen)
<1>3. Start(p, call)
  BY <1>1, Zenon DEF Editing
<1>4. /\ seen \in [Notes -> OrNone(Contents)]
      /\ name # None \/ body # None => seen[n] \in Contents
  BY <1>2, SeenTyped DEF Resigns
<1>5. /\ call \in Request
      /\ call.op = "curate_edit" /\ call.by = a /\ call.notes = {n} /\ call.seen = seen
      /\ call.name = name /\ call.body = body
  <2> DEFINE r == Call("curate_edit", a, {n})
  <2>1. r \in Request /\ r.op = "curate_edit" /\ r.by = a /\ r.notes = {n}
    BY CallTyped DEF AllHandlers, OrNone
  <2>2. /\ sens \in OrNone(Sensitivities) /\ readers \in OrNone(SUBSET ReaderTokens)
        /\ tagged \in OrNone(BOOLEAN) /\ seen \in [Notes -> OrNone(Contents)]
    BY <1>4, LifecycleAssumption DEF OrNone
  <2> HIDE DEF r, seen
  <2>3. /\ Editing(r, name, body, sens, readers, tagged, seen) \in Request
        /\ Editing(r, name, body, sens, readers, tagged, seen).op = r.op
        /\ Editing(r, name, body, sens, readers, tagged, seen).by = r.by
        /\ Editing(r, name, body, sens, readers, tagged, seen).notes = r.notes
        /\ Editing(r, name, body, sens, readers, tagged, seen).seen = seen
        /\ Editing(r, name, body, sens, readers, tagged, seen).name = name
        /\ Editing(r, name, body, sens, readers, tagged, seen).body = body
    BY <2>1, <2>2 DEF Editing, Request
  <2> QED
    BY <2>1, <2>3 DEF r
<1> HIDE DEF call, seen
<1>6. RequestInv(call, memory)
  BY <1>2, <1>4, <1>5 DEF RequestInv, Jobs
<1> QED
  BY <1>3, <1>5, <1>6, StartKeeps

LEMMA FastkillBeginKeeps ==
  ASSUME IInv, NEW p \in Procs, NEW a \in Agents, NEW S \in SUBSET Notes, FastkillBegin(p, a, S)
  PROVE  IInv' /\ Advance
<1>1. \A n \in S : memory[n] # NoRow
  BY LiveRow DEF FastkillBegin, Untrusted
<1>2. Call("recall_fastkill", a, S) \in Request
  BY CallTyped DEF AllHandlers, OrNone
<1>3. RequestInv(Call("recall_fastkill", a, S), memory)
  BY <1>1 DEF RequestInv, Call, Jobs
<1> QED
  BY <1>2, <1>3, StartKeeps DEF FastkillBegin

LEMMA AnchorBeginKeeps ==
  ASSUME IInv, NEW p \in Procs, NEW a \in Agents, NEW n \in Notes, NEW t \in Tables,
         AnchorBegin(p, a, n, t)
  PROVE  IInv' /\ Advance
<1> DEFINE call == [Call("provisional_table", a, {n}) EXCEPT !.table = t]
<1>1. memory[n] # NoRow
  BY LiveRow DEF AnchorBegin
<1>2. /\ call \in Request /\ call.op = "provisional_table" /\ call.by = a
      /\ call.notes = {n} /\ call.table = t
  BY DEF Call, Request, OrNone, AllHandlers
<1>3. RequestInv(call, memory)
  BY <1>1, <1>2 DEF RequestInv
<1>4. Start(p, call)
  BY DEF AnchorBegin
<1> HIDE DEF call
<1> QED
  BY <1>2, <1>3, <1>4, StartKeeps

LEMMA ValidateSweepBeginKeeps ==
  ASSUME IInv, NEW S \in SUBSET Notes, ValidateSweepBegin(S)
  PROVE  IInv' /\ Advance
<1>1. \A n \in S : memory[n] # NoRow
  BY LiveRow DEF ValidateSweepBegin, Untrusted
<1>2. Call("validate_sweep", None, S) \in Request /\ "validate_sweep" \in Procs
  BY CallTyped DEF AllHandlers, OrNone, Procs, Jobs
<1>3. RequestInv(Call("validate_sweep", None, S), memory)
  BY <1>1 DEF RequestInv, Call, Jobs
<1> QED
  BY <1>2, <1>3, StartKeeps DEF ValidateSweepBegin

LEMMA ReembedBeginKeeps ==
  ASSUME IInv, ReembedBegin
  PROVE  IInv' /\ Advance
<1>1. PICK S \in Batches :
        Start("reembed_null", [Call("reembed_null", None, S) EXCEPT !.seen = Seen(S)])
  BY DEF ReembedBegin
<1> DEFINE call == [Call("reembed_null", None, S) EXCEPT !.seen = Seen(S)]
<1>2. S \in SUBSET Notes /\ \A n \in S : memory[n] # NoRow
  BY <1>1, LiveRow DEF Batches, Unembedded, Missing
<1>3. Seen(S) \in [Notes -> OrNone(Contents)] /\ \A n \in S : Seen(S)[n] \in Contents
  BY <1>2, SeenTyped
<1>4. /\ call \in Request /\ call.op = "reembed_null" /\ call.notes = S
      /\ call.seen = Seen(S)
  BY <1>2, <1>3 DEF Call, Request, OrNone, AllHandlers
<1>5. Start("reembed_null", call) /\ "reembed_null" \in Procs
  BY <1>1 DEF Procs, Jobs
<1> HIDE DEF call
<1>6. RequestInv(call, memory)
  BY <1>2, <1>3, <1>4 DEF RequestInv, Jobs
<1> QED
  BY <1>4, <1>5, <1>6, StartKeeps
-----------------------------------------------------------------------------
(* The handlers that end. *)

(* The request a process is in the middle of. *)
LEMMA Pending ==
  ASSUME IInv, NEW p \in Procs, NEW ops, Running(p, ops)
  PROVE  /\ req[p] \in Request /\ req[p].op \in ops
         /\ RequestInv(req[p], memory)
         /\ req[p].notes \subseteq Notes
         /\ \A n \in req[p].notes : memory[n] \in Row /\ memory[n] # NoRow
<1>1. req[p] \in Request /\ req[p].op \in ops /\ RequestInv(req[p], memory)
  BY DEF Running, IInv, TypeOK
<1>2. req[p].notes \subseteq Notes
  BY <1>1 DEF Request
<1>3. \A n \in req[p].notes : memory[n] # NoRow
  BY <1>1 DEF RequestInv
<1> QED
  BY <1>1, <1>2, <1>3, LiveRow

LEMMA PutOrNot ==
  ASSUME IInv, NEW n \in Notes, NEW row \in Row, NEW S, log \subseteq S,
         RowStep(memory[n], row), Trail(row, n, S),
         NEW table, table = Put(n, row) \/ table = memory
  PROVE  /\ table \in Table
         /\ \A m \in Notes : RowStep(memory[m], table[m])
         /\ \A m \in Notes : Trail(table[m], m, S)
         /\ TableInv(artifact, table)
<1>1. CASE table = Put(n, row)
  BY <1>1, PutSound
<1>2. CASE table = memory
  <2>1. \A m \in Notes : Tame(memory[m], table[m])
    BY <1>2 DEF Tame
  <2> QED
    BY <1>2, <2>1, Typed, TameSound
<1> QED
  BY <1>1, <1>2

LEMMA JudgedRow ==
  ASSUME NEW row \in Row, NEW op \in Verdicts, NEW seen,
         op \in {"vouch", "self_validate"} => seen \in Contents
  PROVE  /\ Judged(row, op, seen) \in Row
         /\ Judged(row, op, seen).author = row.author
         /\ Judged(row, op, seen).session = row.session
         /\ Judged(row, op, seen).share = row.share
         /\ \/ op \in {"vouch", "self_validate"}
            \/ Judged(row, op, seen).trust = row.trust
<1>1. CASE op = "escalate_human"
  BY <1>1 DEF Judged, Row
<1>2. CASE op = "vouch"
  BY <1>2 DEF Judged, Row, OrNone
<1>3. CASE op = "self_validate"
  BY <1>3 DEF Judged, Row, OrNone
<1>4. CASE op \in {"vouch_invalid", "self_invalid"}
  BY <1>4 DEF Judged, Row
<1> QED
  BY <1>1, <1>2, <1>3, <1>4 DEF Verdicts, ManagerVerdicts, SourceVerdicts

LEMMA ValidateEndKeeps ==
  ASSUME IInv, NEW p \in Procs, ValidateEnd(p)
  PROVE  IInv' /\ Advance
<1> DEFINE r == req[p]
<1>1. PICK n \in r.notes :
        Commit(p, IF Reaches(r.by, n) THEN Put(n, Judged(memory[n], r.op, r.seen[n])) ELSE memory,
               VerdictEntries(r, n), artifact)
  BY DEF ValidateEnd
<1>2. /\ r \in Request /\ r.op \in Verdicts /\ RequestInv(r, memory)
      /\ n \in Notes /\ memory[n] \in Row /\ memory[n] # NoRow
  BY Pending DEF ValidateEnd
<1>3. /\ r.by \in Agents
      /\ r.op \in {"vouch", "self_validate"} => r.seen[n] \in Contents
      /\ r.op = "vouch" => r.by \in Managers
      /\ r.op = "self_validate" => /\ r.by \in Managers \/ r.by = memory[n].author
                                   /\ memory[n].session # None
  BY <1>2 DEF RequestInv, Verdicts, ManagerVerdicts, SourceVerdicts, Jobs
<1> DEFINE row == Judged(memory[n], r.op, r.seen[n])
           table == IF Reaches(r.by, n) THEN Put(n, row) ELSE memory
           entries == VerdictEntries(r, n)
<1>4. /\ row \in Row
      /\ row.author = memory[n].author /\ row.session = memory[n].session
      /\ row.share = memory[n].share
      /\ r.op \in {"vouch", "self_validate"} \/ row.trust = memory[n].trust
  BY <1>2, <1>3, JudgedRow
<1>5. entries \in SUBSET Entry
  BY <1>2, <1>3, LoggedTyped DEF VerdictEntries
<1>6. RowStep(memory[n], row)
  BY <1>2, <1>4, NoRowIsNoRow DEF RowStep
<1>7. Trail(row, n, log \cup entries)
  <2>1. Trail(memory[n], n, log)
    BY <1>2 DEF IInv
  <2>2. CASE row.trust = memory[n].trust
    <3>1. Tame(memory[n], row)
      BY <1>2, <1>4, <2>2, NoRowIsNoRow DEF Tame
    <3> HIDE DEF row, entries
    <3> QED
      BY <2>1, <3>1, TameTrail
  <2>3. CASE r.op = "vouch"
    <3>1. entries = Logged("memory_vouch", r.by, n)
      BY <2>3 DEF VerdictEntries
    <3> HIDE DEF row, entries
    <3>2. Listed(log \cup entries, n, "memory_vouch", Managers)
      BY <1>3, <2>3, <3>1, LoggedListed
    <3> QED
      BY <1>2, <1>4, <2>1, <3>2, ListedMonotone DEF Trail
  <2>4. CASE r.op = "self_validate"
    <3>1. entries = Logged("memory_self_validate", r.by, n)
      BY <2>4 DEF VerdictEntries
    <3> HIDE DEF row, entries
    <3>2. Listed(log \cup entries, n, "memory_self_validate", Managers \cup {row.author})
      BY <1>3, <1>4, <2>4, <3>1, LoggedListed
    <3> QED
      BY <1>2, <1>3, <1>4, <2>1, <2>4, <3>2, ListedMonotone DEF Trail
  <2> QED
    BY <1>4, <2>2, <2>3, <2>4
<1>8. Commit(p, table, entries, artifact)
  BY <1>1
<1>9. table = Put(n, row) \/ table = memory
  OBVIOUS
<1> HIDE DEF row, table, entries
<1>10. /\ table \in Table
       /\ \A m \in Notes : RowStep(memory[m], table[m])
       /\ \A m \in Notes : Trail(table[m], m, log \cup entries)
       /\ TableInv(artifact, table)
  BY <1>2, <1>4, <1>6, <1>7, <1>9, PutOrNot
<1> QED
  BY <1>5, <1>8, <1>10, Typed, CommitKeeps

LEMMA ResignedTyped ==
  ASSUME NEW r \in Request, NEW n \in Notes, NEW sig \in OrNone(Contents),
         r.name # None \/ r.body # None => r.seen[n] \in Contents
  PROVE  Resigned(r, n, sig) \in OrNone(Contents)
<1>1. r.name \in OrNone(Names) /\ r.body \in OrNone(Bodies)
  BY DEF Request
<1>2. CASE r.name = None /\ r.body = None
  BY <1>2 DEF Resigned
<1>3. CASE ~(r.name = None /\ r.body = None)
  <2>1. r.seen[n][1] \in Names /\ r.seen[n][2] \in Bodies
    BY <1>3 DEF Contents
  <2>2. Given(r.name, r.seen[n][1]) \in Names /\ Given(r.body, r.seen[n][2]) \in Bodies
    BY <1>1, <2>1 DEF Given, OrNone
  <2> QED
    BY <1>3, <2>2 DEF Resigned, Contents, OrNone
<1> QED
  BY <1>2, <1>3

LEMMA GraduatedRow ==
  ASSUME NEW row \in Row, NEW r \in Request, NEW n \in Notes,
         r.readers \in SUBSET ReaderTokens,
         r.name # None \/ r.body # None => r.seen[n] \in Contents
  PROVE  /\ Graduated(row, r, n) \in Row
         /\ Graduated(row, r, n).author = row.author
         /\ Graduated(row, r, n).session = row.session
         /\ Graduated(row, r, n).share = "trusted"
<1>1. /\ Given(r.name, row.name) \in Names /\ Given(r.body, row.body) \in Bodies
      /\ Given(r.body, row.emb) \in OrNone(Bodies)
  BY DEF Given, Request, Row, OrNone
<1>2. Resigned(r, n, row.sig) \in OrNone(Contents)
  BY ResignedTyped DEF Row
<1> QED
  BY <1>1, <1>2 DEF Graduated, Row

(* An UPDATE of provisional_decide never misses a note still in review. *)
LEMMA ReviewerReaches ==
  ASSUME NEW r, NEW n \in Notes, memory[n] # NoRow, memory[n].share = "ready_to_share",
         r \in Reviewers, RLS => r \in SeeAll \/ r = memory[n].author
  PROVE  Reaches(r, n)
  BY DEF Reaches, Exists, Updatable, MemSel, MemUpd, OwnUnshared

LEMMA GraduateEndKeeps ==
  ASSUME IInv, NEW p \in Procs, GraduateEnd(p)
  PROVE  IInv' /\ Advance
<1> DEFINE r == req[p]
<1>1. PICK n \in r.notes :
        Commit(p, IF memory[n].share = "ready_to_share" /\ Reaches(r.by, n)
                  THEN Put(n, Graduated(memory[n], r, n)) ELSE memory,
               Logged("provisional_graduate", r.by, n), Cascaded({n}, "graduated"))
  BY DEF GraduateEnd
<1>2. /\ r \in Request /\ r.op = "graduate" /\ RequestInv(r, memory)
      /\ n \in Notes /\ memory[n] \in Row /\ memory[n] # NoRow
  BY Pending DEF GraduateEnd
<1>3. /\ r.by \in Agents /\ r.by \in Reviewers /\ r.readers \in SUBSET ReaderTokens
      /\ r.name # None \/ r.body # None => r.seen[n] \in Contents
      /\ memory[n].share # "personal"
      /\ r.by # memory[n].author \/ r.by \in Managers
      /\ RLS => r.by \in SeeAll \/ r.by = memory[n].author
  BY <1>2 DEF RequestInv, Jobs
<1> DEFINE row == Graduated(memory[n], r, n)
           table == IF memory[n].share = "ready_to_share" /\ Reaches(r.by, n)
                    THEN Put(n, row) ELSE memory
           entries == Logged("provisional_graduate", r.by, n)
           artifacts == Cascaded({n}, "graduated")
<1>4. /\ row \in Row /\ row.author = memory[n].author /\ row.session = memory[n].session
      /\ row.share = "trusted"
  BY <1>2, <1>3, GraduatedRow
<1>5. entries \in SUBSET Entry
  BY <1>2, <1>3, LoggedTyped
<1>6. RowStep(memory[n], row)
  BY <1>2, <1>4, NoRowIsNoRow DEF RowStep
<1>7. Commit(p, table, entries, artifacts)
  BY <1>1
<1>8. /\ table = Put(n, row) \/ table = memory
      /\ table = Put(n, row) \/ memory[n].share = "trusted"
  <2>1. memory[n].share \in {"ready_to_share", "trusted"}
    BY <1>2, <1>3 DEF Row
  <2>2. memory[n].share = "ready_to_share" => Reaches(r.by, n)
    BY <1>2, <1>3, ReviewerReaches
  <2> QED
    BY <2>1, <2>2
<1>9. Put(n, row)[n] = row
  BY <1>2, Typed DEF Put, Table
<1>10. table[n].share = "trusted"
  BY <1>4, <1>8, <1>9
<1> HIDE DEF row, table
<1>11. Trail(row, n, log \cup entries)
  <2>1. Trail(memory[n], n, log)
    BY <1>2 DEF IInv
  <2>2. Listed(log \cup entries, n, "memory_share", {row.author})
    BY <1>2, <1>3, <1>4, <2>1, ListedMonotone DEF Trail
  <2>3. /\ Listed(log \cup entries, n, "provisional_graduate", Reviewers)
        /\ Listed(log \cup entries, n, "provisional_graduate",
                  {x \in Reviewers : x # row.author \/ x \in Managers})
    BY <1>3, <1>4, LoggedListed
  <2> QED
    BY <2>2, <2>3 DEF Trail
<1> HIDE DEF entries
<1>12. /\ table \in Table
       /\ \A m \in Notes : RowStep(memory[m], table[m])
       /\ \A m \in Notes : Trail(table[m], m, log \cup entries)
       /\ TableInv(artifact, table)
  BY <1>2, <1>4, <1>6, <1>8, <1>11, PutOrNot
<1>13. artifacts \in Artifacts /\ TableInv(artifacts, table)
  BY <1>2, <1>10, <1>12, Typed, CascadedSound
<1> HIDE DEF artifacts
<1> QED
  BY <1>5, <1>7, <1>12, <1>13, CommitKeeps
LEMMA DecideDeleteEndKeeps ==
  ASSUME IInv, NEW p \in Procs, DecideDeleteEnd(p)
  PROVE  IInv' /\ Advance
<1> DEFINE r == req[p]
<1>1. PICK n \in r.notes :
        Commit(p, IF memory[n].share = "ready_to_share" /\ Reaches(r.by, n)
                  THEN Retired({n}) ELSE memory,
               {}, Cascaded({n}, "deleted"))
  BY DEF DecideDeleteEnd
<1>2. n \in Notes /\ memory[n] # NoRow
  BY Pending DEF DecideDeleteEnd
<1> DEFINE table == IF memory[n].share = "ready_to_share" /\ Reaches(r.by, n)
                    THEN Retired({n}) ELSE memory
           artifacts == Cascaded({n}, "deleted")
<1>3. table \in Table /\ \A m \in Notes : Tame(memory[m], table[m])
  <2>1. Retired({n}) \in Table /\ \A m \in Notes : Tame(memory[m], Retired({n})[m])
    BY <1>2, RetiredTame
  <2>2. memory \in Table /\ \A m \in Notes : Tame(memory[m], memory[m])
    BY Typed DEF Tame
  <2> QED
    BY <2>1, <2>2
<1>4. Commit(p, table, {}, artifacts)
  BY <1>1
<1> HIDE DEF table
<1>5. /\ \A m \in Notes : RowStep(memory[m], table[m])
      /\ \A m \in Notes : Trail(table[m], m, log \cup {})
      /\ TableInv(artifact, table)
  BY <1>3, TameSound
<1>6. artifacts \in Artifacts /\ TableInv(artifacts, table)
  BY <1>5, Typed, CascadedSound
<1> HIDE DEF artifacts
<1> QED
  BY <1>3, <1>4, <1>5, <1>6, CommitKeeps

LEMMA EditedRow ==
  ASSUME NEW row \in Row, NEW r \in Request, NEW n \in Notes, NEW emb \in OrNone(Bodies),
         r.name # None \/ r.body # None => r.seen[n] \in Contents
  PROVE  /\ Edited(row, r, n, emb) \in Row
         /\ Edited(row, r, n, emb).author = row.author
         /\ Edited(row, r, n, emb).session = row.session
         /\ Edited(row, r, n, emb).share = row.share
         /\ Edited(row, r, n, emb).trust = row.trust
<1>1. /\ Given(r.name, row.name) \in Names /\ Given(r.body, row.body) \in Bodies
      /\ Given(r.sens, row.sens) \in Sensitivities
      /\ Given(r.readers, row.readers) \in SUBSET ReaderTokens
  BY DEF Given, Request, Row, OrNone
<1>2. Given(r.tagged, row.escalated) \in BOOLEAN
  BY Zenon DEF Given, Request, Row, OrNone
<1>3. Resigned(r, n, row.sig) \in OrNone(Contents)
  BY ResignedTyped DEF Row
<1> DEFINE vec == IF r.body = None THEN row.emb ELSE emb
<1>4. vec \in OrNone(Bodies)
  BY DEF Row
<1>5. Edited(row, r, n, emb) =
        [row EXCEPT !.name = Given(r.name, row.name), !.body = Given(r.body, row.body),
                    !.sens = Given(r.sens, row.sens), !.readers = Given(r.readers, row.readers),
                    !.escalated = Given(r.tagged, row.escalated), !.emb = vec,
                    !.sig = Resigned(r, n, row.sig)]
  BY DEF Edited
<1> HIDE DEF vec
<1> QED
  BY <1>1, <1>2, <1>3, <1>4, <1>5 DEF Row

LEMMA CurateEditEndKeeps ==
  ASSUME IInv, NEW p \in Procs, CurateEditEnd(p)
  PROVE  IInv' /\ Advance
<1> DEFINE r == req[p]
<1>1. PICK n \in r.notes, emb \in Embedded(r.body) :
        Commit(p, IF memory[n].live /\ Reaches(r.by, n)
                  THEN Put(n, Edited(memory[n], r, n, emb)) ELSE memory,
               {}, artifact)
  BY DEF CurateEditEnd
<1>2. /\ r \in Request /\ r.op = "curate_edit" /\ RequestInv(r, memory)
      /\ n \in Notes /\ memory[n] \in Row /\ memory[n] # NoRow
  BY Pending DEF CurateEditEnd
<1>3. r.name # None \/ r.body # None => r.seen[n] \in Contents
  BY <1>2 DEF RequestInv
<1>4. emb \in OrNone(Bodies)
  BY <1>2 DEF Request, OrNone, Embedded
<1> DEFINE row == Edited(memory[n], r, n, emb)
           table == IF memory[n].live /\ Reaches(r.by, n) THEN Put(n, row) ELSE memory
<1>5. /\ row \in Row
      /\ row.author = memory[n].author /\ row.session = memory[n].session
      /\ row.share = memory[n].share /\ row.trust = memory[n].trust
  BY <1>2, <1>3, <1>4, EditedRow
<1>6. Tame(memory[n], row)
  BY <1>2, <1>5, NoRowIsNoRow DEF Tame
<1>7. Commit(p, table, {}, artifact)
  BY <1>1
<1>8. table = Put(n, row) \/ table = memory
  OBVIOUS
<1> HIDE DEF row, table
<1>9. RowStep(memory[n], row) /\ Trail(row, n, log \cup {})
  BY <1>2, <1>6, TameStep, TameTrail DEF IInv
<1>10. /\ table \in Table
       /\ \A m \in Notes : RowStep(memory[m], table[m])
       /\ \A m \in Notes : Trail(table[m], m, log \cup {})
       /\ TableInv(artifact, table)
  BY <1>2, <1>5, <1>8, <1>9, PutOrNot
<1> QED
  BY <1>7, <1>10, Typed, CommitKeeps

(* A commit that only retires notes, or leaves them alone. *)
LEMMA RetireCommitKeeps ==
  ASSUME IInv, NEW p \in Procs, NEW S, \A n \in S \cap Notes : memory[n] # NoRow,
         Commit(p, Retired(S), {}, artifact)
  PROVE  IInv' /\ Advance
<1>1. Retired(S) \in Table /\ \A m \in Notes : Tame(memory[m], Retired(S)[m])
  BY RetiredTame
<1>2. /\ \A m \in Notes : RowStep(memory[m], Retired(S)[m])
      /\ \A m \in Notes : Trail(Retired(S)[m], m, log \cup {})
      /\ TableInv(artifact, Retired(S))
  BY <1>1, TameSound
<1> QED
  BY <1>1, <1>2, Typed, CommitKeeps

LEMMA FastkillEndKeeps ==
  ASSUME IInv, NEW p \in Procs, FastkillEnd(p)
  PROVE  IInv' /\ Advance
<1> DEFINE S == {n \in req[p].notes : Reaches(req[p].by, n)}
<1>1. Commit(p, Retired(S), {}, artifact)
  BY DEF FastkillEnd
<1>2. \A n \in S \cap Notes : memory[n] # NoRow
  BY DEF Reaches, Exists
<1> HIDE DEF S
<1> QED
  BY <1>1, <1>2, RetireCommitKeeps

LEMMA ValidateSweepEndKeeps ==
  ASSUME IInv, ValidateSweepEnd
  PROVE  IInv' /\ Advance
<1> DEFINE S == req["validate_sweep"].notes
<1>1. "validate_sweep" \in Procs
  BY DEF Procs, Jobs
<1>2. Commit("validate_sweep", Retired(S), {}, artifact)
  BY DEF ValidateSweepEnd
<1>3. \A n \in S \cap Notes : memory[n] # NoRow
  BY <1>1, Pending DEF ValidateSweepEnd
<1> HIDE DEF S
<1> QED
  BY <1>1, <1>2, <1>3, RetireCommitKeeps

LEMMA AnchorEndKeeps ==
  ASSUME IInv, NEW p \in Procs, AnchorEnd(p)
  PROVE  IInv' /\ Advance
<1> DEFINE r == req[p]
           t == <<r.by, r.table>>
<1>1. PICK n \in r.notes : Commit(p, memory, {}, Anchored(t, n))
  BY DEF AnchorEnd
<1>2. r \in Request /\ r.op = "provisional_table" /\ RequestInv(r, memory) /\ n \in Notes
  BY Pending DEF AnchorEnd
<1>3. r.by \in Agents /\ r.table \in Tables
  BY <1>2 DEF RequestInv, Jobs
<1>4. Anchored(t, n) \in Artifacts
  BY <1>2, <1>3, Typed DEF Anchored, Artifacts, Artifact, OrNone
<1>5. TableInv(Anchored(t, n), memory)
  BY <1>3, Typed DEF TableInv, Anchored, Artifacts, IInv
<1>6. memory \in Table /\ \A m \in Notes : Tame(memory[m], memory[m])
  BY Typed DEF Tame
<1>7. /\ \A m \in Notes : RowStep(memory[m], memory[m])
      /\ \A m \in Notes : Trail(memory[m], m, log \cup {})
  BY <1>6, TameSound
<1> HIDE DEF t
<1> QED
  BY <1>1, <1>4, <1>5, <1>6, <1>7, CommitKeeps

LEMMA ReembedCommitKeeps ==
  ASSUME IInv, Running("reembed_null", {"reembed_null"}),
         NEW answered \in SUBSET req["reembed_null"].notes, ReembedCommit(answered)
  PROVE  IInv' /\ Advance
<1> DEFINE r == req["reembed_null"]
           table == [n \in Notes |-> IF n \in answered
                                     THEN [memory[n] EXCEPT !.emb = r.seen[n][2]]
                                     ELSE memory[n]]
<1>1. "reembed_null" \in Procs
  BY DEF Procs, Jobs
<1>2. Commit("reembed_null", table, {}, artifact)
  BY DEF ReembedCommit
<1>3. \A n \in answered : /\ n \in Notes /\ memory[n] \in Row /\ memory[n] # NoRow
                          /\ r.seen[n][2] \in Bodies
  BY <1>1, Pending DEF RequestInv, Contents
<1>4. ASSUME NEW n \in Notes
      PROVE  table[n] \in Row \cup {NoRow} /\ Tame(memory[n], table[n])
  <2>1. CASE n \in answered
    <3> DEFINE row == [memory[n] EXCEPT !.emb = r.seen[n][2]]
    <3>1. row \in Row
      BY <1>3, <2>1 DEF Row, OrNone
    <3>2. /\ row.author = memory[n].author /\ row.session = memory[n].session
          /\ row.share = memory[n].share /\ row.trust = memory[n].trust
      BY <1>3, <2>1 DEF Row
    <3>3. table[n] = row
      BY <2>1
    <3> QED
      BY <1>3, <2>1, <3>1, <3>2, <3>3, NoRowIsNoRow DEF Tame
  <2>2. CASE n \notin answered
    BY <2>2, Typed DEF Tame, Table
  <2> QED
    BY <2>1, <2>2
<1>5. table \in Table
  BY <1>4 DEF Table
<1>6. \A n \in Notes : Tame(memory[n], table[n])
  BY <1>4
<1> HIDE DEF table
<1>7. /\ \A m \in Notes : RowStep(memory[m], table[m])
      /\ \A m \in Notes : Trail(table[m], m, log \cup {})
      /\ TableInv(artifact, table)
  BY <1>5, <1>6, TameSound
<1> QED
  BY <1>1, <1>2, <1>5, <1>7, Typed, CommitKeeps

LEMMA AbortKeeps ==
  ASSUME IInv, NEW p \in Procs, Abort(p)
  PROVE  IInv' /\ Advance
<1>1. /\ memory' = memory /\ artifact' = artifact /\ log' = log
      /\ req' = [req EXCEPT ![p] = Idle]
  BY DEF Abort
<1>2. req' \in [Procs -> Request \cup {Idle}] /\ \A q \in Procs : req'[q] \in {req[q], Idle}
  BY <1>1, Typed
<1>3. \A m \in Notes : RowStep(memory[m], memory'[m])
  BY <1>1 DEF RowStep
<1>4. (\A m \in Notes : Trail(memory'[m], m, log')) /\ TableInv(artifact', memory')
  BY <1>1 DEF IInv
<1> QED
  BY <1>1, <1>2, <1>3, <1>4, Typed, Keeps
-----------------------------------------------------------------------------
(* The invariant. *)

LEMMA InitEstablishes == Init => IInv
<1> SUFFICES ASSUME Init PROVE IInv
  OBVIOUS
<1>1. TypeOK
  <2>1. memory \in [Notes -> Row \cup {NoRow}] /\ log \subseteq Entry
        /\ req \in [Procs -> Request \cup {Idle}]
    BY DEF Init
  <2>2. artifact \in [Agents \X Tables -> Artifact]
    BY DEF Init, Artifact, OrNone
  <2> QED
    BY <2>1, <2>2 DEF TypeOK
<1>2. \A p \in Procs : req[p] = Idle
  BY DEF Init
<1>3. \A n \in Notes : Trail(memory[n], n, log)
  BY DEF Init, Trail
<1>4. TableInv(artifact, memory)
  BY DEF Init, TableInv
<1> QED
  BY <1>1, <1>2, <1>3, <1>4 DEF IInv

LEMMA StepPreserves == IInv /\ [Next]_vars => IInv' /\ Advance
<1> SUFFICES ASSUME IInv, [Next]_vars PROVE IInv' /\ Advance
  OBVIOUS
<1> USE DEF Procs
<1>1. ASSUME NEW a \in Agents, Endpoint(a) PROVE IInv' /\ Advance
  BY <1>1, CreateNoteKeeps, ShareNoteKeeps, CurateDeleteKeeps, SweepKeeps, CreateTableKeeps
     DEF Endpoint
<1>2. ASSUME NEW p \in Workers, Ends(p) PROVE IInv' /\ Advance
  BY <1>2, ValidateEndKeeps, GraduateEndKeeps, DecideDeleteEndKeeps, CurateEditEndKeeps,
     FastkillEndKeeps, AnchorEndKeeps
     DEF Ends
<1>3. ASSUME NEW p \in Workers, NEW a \in Agents, Begins(p, a) PROVE IInv' /\ Advance
  BY <1>3, ValidateBeginKeeps, GraduateBeginKeeps, DecideDeleteBeginKeeps,
     CurateEditBeginKeeps, FastkillBeginKeeps, AnchorBeginKeeps
     DEF Begins
<1>4. CASE Timers
  <2>1. CASE \E S \in SUBSET Notes : ValidateSweepBegin(S)
    BY <2>1, ValidateSweepBeginKeeps
  <2>2. CASE ReembedEnd
    BY <2>2, ReembedCommitKeeps DEF ReembedEnd, Answerable
  <2> QED
    BY <1>4, <2>1, <2>2, ValidateSweepEndKeeps, ReembedBeginKeeps DEF Timers
<1>5. ASSUME NEW p \in Procs, Abort(p) PROVE IInv' /\ Advance
  BY <1>5, AbortKeeps
<1>6. ASSUME NEW n \in Notes, TtlLapses(n) PROVE IInv' /\ Advance
  BY <1>6, TtlLapsesKeeps
<1>7. CASE UNCHANGED vars
  <2>1. memory' = memory /\ artifact' = artifact /\ log' = log /\ req' = req
    BY <1>7 DEF vars
  <2>2. \A m \in Notes : RowStep(memory[m], memory'[m])
    BY <2>1 DEF RowStep
  <2>3. (\A m \in Notes : Trail(memory'[m], m, log')) /\ TableInv(artifact', memory')
    BY <2>1 DEF IInv
  <2> QED
    BY <2>1, <2>2, <2>3, Typed, WriteKeeps
<1> QED
  BY <1>1, <1>2, <1>3, <1>4, <1>5, <1>6, <1>7 DEF Next

(* The inductive invariant holds in every reachable state, whatever the    *)
(* interleaving of requests, jobs and aborted transactions.                *)
THEOREM InductiveInvariant == Spec => []IInv
  BY InitEstablishes, StepPreserves, PTL DEF Spec

(* Every value the tables and the requests in progress hold has its type:  *)
(* a note that was stored stays stored, and no UPDATE writes a field from  *)
(* a SELECT that returned nothing.                                         *)
THEOREM TypeCorrectness == Spec => []TypeOK
<1>1. IInv => TypeOK
  BY DEF IInv
<1> QED
  BY <1>1, InductiveInvariant, PTL

(* For any number of agents, notes and gunicorn workers, a note is shared  *)
(* only after its author offered it and a reviewer who may judge it        *)
(* graduated it, however the handlers overlap.                             *)
THEOREM SharingIsReviewed == Spec => []SharedNotesWereReviewed
<1>1. IInv => SharedNotesWereReviewed
  <2> SUFFICES ASSUME IInv, NEW n \in Notes, memory[n].share = "trusted"
               PROVE  /\ HasEntry(n, "memory_share", {memory[n].author})
                      /\ HasEntry(n, "provisional_graduate",
                           {r \in Reviewers : r # memory[n].author \/ r \in Managers})
    BY DEF SharedNotesWereReviewed
  <2>1. memory[n] # NoRow /\ Trail(memory[n], n, log)
    BY NoRowIsNoRow DEF IInv
  <2> QED
    BY <2>1 DEF Trail, Listed, HasEntry
<1> QED
  BY <1>1, InductiveInvariant, PTL

(* Neither the policies nor the API's read gate lets an agent without      *)
(* see_all read another agent's note that was not offered and reviewed.    *)
THEOREM ReadingIsReviewed == Spec => []OthersReadReviewedNotes
<1>1. IInv => OthersReadReviewedNotes
  <2> SUFFICES ASSUME IInv, NEW n \in Notes, NEW a \in Agents \ SeeAll,
                      Exists(n), memory[n].author # a,
                      MemSel(a, memory[n]) \/ MemReadWhere(a, memory[n])
               PROVE  /\ HasEntry(n, "memory_share", {memory[n].author})
                      /\ \/ HasEntry(n, "provisional_graduate", Reviewers)
                         \/ {a, memory[n].author} \subseteq Managers
    BY DEF OthersReadReviewedNotes
  <2>1. Role[a] \in Roles
    BY AccessAssumption
  <2>2. \/ memory[n].share = "trusted"
        \/ memory[n].share = "ready_to_share" /\ {a, memory[n].author} \subseteq Managers
    BY <2>1 DEF MemSel, MemReadWhere, OwnUnshared, Managers, Roles
  <2>3. Trail(memory[n], n, log)
    BY DEF IInv
  <2> QED
    BY <2>2, <2>3 DEF Trail, Listed, HasEntry, Exists
<1> QED
  BY <1>1, InductiveInvariant, PTL

(* No interleaving of validation, sharing and review makes a note trusted  *)
(* that nobody entitled to vouched for.                                    *)
THEOREM TrustHasAReason == Spec => []TrustIsEarned
<1>1. IInv => TrustIsEarned
  BY DEF IInv, TrustIsEarned, Trail, Listed, HasEntry, Exists
<1> QED
  BY <1>1, InductiveInvariant, PTL

(* A sandbox table is promoted only with a shared anchor note, although    *)
(* provisional_decide promotes it whether or not its UPDATE matched: the   *)
(* UPDATE can only miss a note another reviewer has just graduated.        *)
THEOREM PromotionIsApproved == Spec => []GovernedTablesWereApproved
<1>1. IInv => GovernedTablesWereApproved
  BY DEF IInv, TableInv, GovernedTablesWereApproved
<1> QED
  BY <1>1, InductiveInvariant, PTL

-----------------------------------------------------------------------------
(* What no step may do. *)

(* The policies mem_sel and mem_upd apply to the row an UPDATE leaves, and *)
(* a shared note never becomes an unshared one again.                      *)
LEMMA CommitSpares ==
  ASSUME RLS, IInv, Advance, NEW p \in Procs, NEW table, NEW entries, NEW artifacts,
         Commit(p, table, entries, artifacts),
         req[p].by \in Agents \ Reviewers,
         NEW n \in Notes, memory[n].share = "trusted"
  PROVE  memory'[n] = memory[n]
<1>1. CASE memory' = table /\ Legal(req[p].by, table)
  <2>1. memory'[n].share = "trusted"
    BY NoRowIsNoRow DEF Advance, RowStep
  <2>2. req[p].by # None
    BY LifecycleAssumption
  <2>3. table[n] # memory[n] => MemUpd(req[p].by, table[n])
    BY <1>1, <2>2 DEF Legal, Updatable
  <2> QED
    BY <1>1, <2>1, <2>3 DEF MemUpd, OwnUnshared
<1>2. CASE memory' = memory
  BY <1>2
<1> QED
  BY <1>1, <1>2 DEF Commit

LEMMA EndSpares ==
  ASSUME RLS, IInv, Advance, NEW p \in Workers, Ends(p), req[p].by \notin Reviewers,
         NEW n \in Notes, memory[n].share = "trusted"
  PROVE  memory'[n] = memory[n]
<1>1. p \in Procs
  BY DEF Procs
<1>2. \E table, entries, artifacts : Commit(p, table, entries, artifacts)
  BY DEF Ends, ValidateEnd, GraduateEnd, DecideDeleteEnd, CurateEditEnd, FastkillEnd, AnchorEnd
<1>3. req[p].by \in Agents
  <2>1. Running(p, AllHandlers \ Jobs)
    BY DEF Ends, ValidateEnd, GraduateEnd, DecideDeleteEnd, CurateEditEnd, FastkillEnd,
           AnchorEnd, Running, AllHandlers, Jobs, Verdicts, ManagerVerdicts, SourceVerdicts
  <2> QED
    BY <1>1, <2>1, Pending DEF RequestInv
<1> QED
  BY <1>1, <1>2, <1>3, CommitSpares

(* Which process a step ends the transaction of. *)
LEMMA StepEnds ==
  ASSUME IInv, [Next]_vars, NEW p \in Workers, req[p] # Idle, req'[p] = Idle
  PROVE  Ends(p) \/ memory' = memory
<1>1. p \in Procs /\ p \notin Jobs /\ req \in [Procs -> Request \cup {Idle}]
  BY Typed, LifecycleAssumption DEF Procs
<1>2. req'[p] # req[p]
  OBVIOUS
<1>3. ASSUME NEW a \in Agents, Endpoint(a) PROVE FALSE
  BY <1>2, <1>3 DEF Endpoint, CreateNote, ShareNote, CurateDelete, Sweep, CreateTable
<1>4. ASSUME NEW q \in Workers, Ends(q) PROVE q = p
  <2>1. \E table, entries, artifacts : Commit(q, table, entries, artifacts)
    BY <1>4 DEF Ends, ValidateEnd, GraduateEnd, DecideDeleteEnd, CurateEditEnd, FastkillEnd,
                AnchorEnd
  <2> QED
    BY <1>1, <1>2, <2>1 DEF Commit
<1>5. ASSUME NEW q, NEW call, Start(q, call) PROVE FALSE
  BY <1>1, <1>2, <1>5 DEF Start
<1>6. ASSUME NEW q \in Workers, NEW a \in Agents, Begins(q, a) PROVE FALSE
  BY <1>5, <1>6 DEF Begins, ValidateBegin, GraduateBegin, DecideDeleteBegin, CurateEditBegin,
                    FastkillBegin, AnchorBegin
<1>7. CASE Timers
  <2>1. ASSUME NEW q \in Jobs, NEW table, NEW entries, NEW artifacts,
               Commit(q, table, entries, artifacts)
        PROVE  FALSE
    BY <1>1, <1>2, <2>1 DEF Commit
  <2>2. ~ValidateSweepEnd /\ ~ReembedEnd
    BY <2>1 DEF ValidateSweepEnd, ReembedEnd, ReembedCommit, Jobs
  <2>3. ~ReembedBegin /\ ~\E S \in SUBSET Notes : ValidateSweepBegin(S)
    BY <1>5 DEF ReembedBegin, ValidateSweepBegin
  <2> QED
    BY <1>7, <2>2, <2>3 DEF Timers
<1>8. ASSUME NEW q \in Procs, Abort(q) PROVE memory' = memory
  BY <1>8 DEF Abort
<1>9. ASSUME NEW n \in Notes, TtlLapses(n) PROVE FALSE
  BY <1>2, <1>9 DEF TtlLapses
<1>10. CASE UNCHANGED vars
  BY <1>10 DEF vars
<1> QED
  BY <1>3, <1>4, <1>6, <1>7, <1>8, <1>9, <1>10 DEF Next

(* With row-level security on, no request of an agent who is no reviewer   *)
(* changes a shared note, however stale what the request had read.         *)
THEOREM SharedNotesAreSafeFromWorkers ==
  ASSUME RLS
  PROVE  Spec => WorkersNeverAlterSharedNotes
<1> DEFINE A == \A p \in Workers :
                  req[p] # Idle /\ req'[p] = Idle /\ req[p].by \notin Reviewers =>
                    \A n \in Notes : memory[n].share = "trusted" => memory'[n] = memory[n]
<1>1. IInv /\ [Next]_vars => [A]_vars
  <2> SUFFICES ASSUME IInv, [Next]_vars, NEW p \in Workers,
                      req[p] # Idle, req'[p] = Idle, req[p].by \notin Reviewers,
                      NEW n \in Notes, memory[n].share = "trusted"
               PROVE  memory'[n] = memory[n]
    OBVIOUS
  <2>1. Advance
    BY StepPreserves
  <2> QED
    BY <2>1, StepEnds, EndSpares
<1> QED
  BY <1>1, InductiveInvariant, PTL DEF Spec, WorkersNeverAlterSharedNotes
-----------------------------------------------------------------------------
(* The lifecycle implements NoteGovernance. *)

LEMMA StageOfRow ==
  ASSUME NEW row \in Row
  PROVE  StageOf(row) = IF ~row.live THEN "retired"
                        ELSE IF row.share = "personal" THEN "personal"
                        ELSE IF row.share = "ready_to_share" THEN "review"
                        ELSE "shared"
  BY NoRowIsNoRow DEF StageOf, Row

LEMMA StageOfNoRow == StageOf(NoRow) = "none"
  BY NoRowIsNoRow DEF StageOf

Owner(row) == IF row = NoRow THEN None ELSE row.author

Stages == [n \in Notes |-> StageOf(memory[n])]
Owners == [n \in Notes |-> IF memory[n] = NoRow THEN None ELSE memory[n].author]

(* A row whose owner and stage stay as they are. *)
Steady(old, new) == StageOf(new) = StageOf(old) /\ Owner(new) = Owner(old)

Refines == Governance!Next \/ UNCHANGED Governance!vars

LEMMA SteadyStutters ==
  ASSUME \A n \in Notes : Steady(memory[n], memory'[n]), TrailOf(log') = TrailOf(log)
  PROVE  UNCHANGED Governance!vars
  BY DEF Steady, Owner, Governance!vars

(* The trail is what the log says of offers and decisions. *)
LEMMA TrailOfUnion ==
  ASSUME NEW S, NEW T
  PROVE  TrailOf(S \cup T) = TrailOf(S) \cup TrailOf(T)
  BY Zenon DEF TrailOf

LEMMA TrailOfOffer ==
  ASSUME NEW S, NEW a, NEW n
  PROVE  TrailOf(S \cup Logged("memory_share", a, n))
           = TrailOf(S) \cup {[step |-> "offer", by |-> a, note |-> n]}
<1> DEFINE e == [action |-> "memory_share", actor |-> a, note |-> n]
<1>1. TrailOf(Logged("memory_share", a, n)) = {[step |-> "offer", by |-> a, note |-> n]}
  <2>1. e.action = "memory_share" /\ StepOf(e) = [step |-> "offer", by |-> a, note |-> n]
    BY DEF StepOf
  <2> HIDE DEF e
  <2> QED
    BY <2>1 DEF TrailOf, Logged, e
<1> QED
  BY <1>1, TrailOfUnion

LEMMA TrailOfDecision ==
  ASSUME NEW S, NEW a, NEW n
  PROVE  TrailOf(S \cup Logged("provisional_graduate", a, n))
           = TrailOf(S) \cup {[step |-> "decision", by |-> a, note |-> n]}
<1> DEFINE e == [action |-> "provisional_graduate", actor |-> a, note |-> n]
<1>1. TrailOf(Logged("provisional_graduate", a, n)) = {[step |-> "decision", by |-> a, note |-> n]}
  <2>1. e.action = "provisional_graduate" /\ StepOf(e) = [step |-> "decision", by |-> a, note |-> n]
    BY DEF StepOf
  <2> HIDE DEF e
  <2> QED
    BY <2>1 DEF TrailOf, Logged, e
<1> QED
  BY <1>1, TrailOfUnion

LEMMA TrailOfVerdict ==
  ASSUME NEW S, NEW r, NEW n
  PROVE  TrailOf(S \cup VerdictEntries(r, n)) = TrailOf(S)
<1>1. \A e \in VerdictEntries(r, n) : e.action \in {"memory_vouch", "memory_self_validate"}
  BY DEF VerdictEntries, Logged
<1>2. TrailOf(VerdictEntries(r, n)) = {}
  BY <1>1 DEF TrailOf
<1> QED
  BY <1>2, TrailOfUnion

LEMMA OfferListed ==
  ASSUME NEW S, NEW n, NEW a, Listed(S, n, "memory_share", {a})
  PROVE  [step |-> "offer", by |-> a, note |-> n] \in TrailOf(S)
<1>1. PICK e \in S : e.note = n /\ e.action = "memory_share" /\ e.actor = a
  BY DEF Listed
<1> QED
  BY <1>1 DEF TrailOf, StepOf

LEMMA TameSteady ==
  ASSUME NEW old \in Row, NEW new \in Row, new.author = old.author,
         new.share = old.share, new.live = old.live
  PROVE  Steady(old, new)
  BY StageOfRow, NoRowIsNoRow DEF Steady, Owner

(* A single row changes: the stage of its note moves, its owner does not.  *)
LEMMA RowMoves ==
  ASSUME IInv, NEW n \in Notes, NEW row \in Row, memory[n] \in Row,
         row.author = memory[n].author, memory' = Put(n, row)
  PROVE  /\ Stages' = [Stages EXCEPT ![n] = StageOf(row)]
         /\ Owners' = Owners
         /\ \A m \in Notes : m # n => memory'[m] = memory[m]
         /\ memory'[n] = row
<1>1. memory'[n] = row /\ \A m \in Notes \ {n} : memory'[m] = memory[m]
  BY Typed DEF Put, Table
<1>2. Owners' = Owners
  BY <1>1, NoRowIsNoRow DEF Owners
<1>3. Stages' = [Stages EXCEPT ![n] = StageOf(row)]
  BY <1>1 DEF Stages
<1> QED
  BY <1>1, <1>2, <1>3

(* A single row changes, neither its stage nor the trail does. *)
LEMMA RowStutters ==
  ASSUME IInv, NEW n \in Notes, NEW row \in Row, memory[n] \in Row,
         row.author = memory[n].author, StageOf(row) = StageOf(memory[n]),
         memory' = Put(n, row), TrailOf(log') = TrailOf(log)
  PROVE  Refines
<1>1. memory'[n] = row /\ \A m \in Notes \ {n} : memory'[m] = memory[m]
  BY RowMoves
<1>2. \A m \in Notes : Steady(memory[m], memory'[m])
  BY <1>1, NoRowIsNoRow DEF Steady, Owner
<1> QED
  BY <1>2, SteadyStutters DEF Refines

(* A decision on a note that is no longer in review, or whose request      *)
(* rolls back.                                                             *)
LEMMA LateDecision ==
  ASSUME IInv, NEW n \in Notes, NEW r \in Reviewers, memory[n] # NoRow,
         memory[n].share # "personal", r # memory[n].author \/ r \in Managers,
         Stages' = Stages, Owners' = Owners,
         log' = log \cup Logged("provisional_graduate", r, n)
  PROVE  Governance!Next
<1>1. r \in Agents
  BY DEF Reviewers
<1>2. [step |-> "offer", by |-> memory[n].author, note |-> n] \in TrailOf(log)
  BY OfferListed DEF IInv, Trail
<1>3. TrailOf(log') = TrailOf(log) \cup {[step |-> "decision", by |-> r, note |-> n]}
  BY TrailOfDecision
<1>4. Governance!Decide(n, r)
  BY <1>2, <1>3 DEF Governance!Decide, Governance!Record, Stages, Owners
<1> QED
  BY <1>1, <1>4 DEF Governance!Next

LEMMA TimelyDecision ==
  ASSUME IInv, NEW n \in Notes, NEW r \in Reviewers, memory[n] # NoRow,
         memory[n].share # "personal", r # memory[n].author \/ r \in Managers,
         StageOf(memory[n]) = "review",
         Stages' = [Stages EXCEPT ![n] = "shared"], Owners' = Owners,
         log' = log \cup Logged("provisional_graduate", r, n)
  PROVE  Governance!Next
<1>1. r \in Agents
  BY DEF Reviewers
<1>2. [step |-> "offer", by |-> memory[n].author, note |-> n] \in TrailOf(log)
  BY OfferListed DEF IInv, Trail
<1>3. TrailOf(log') = TrailOf(log) \cup {[step |-> "decision", by |-> r, note |-> n]}
  BY TrailOfDecision
<1>4. Governance!Decide(n, r)
  BY <1>2, <1>3 DEF Governance!Decide, Governance!Record, Stages, Owners
<1> QED
  BY <1>1, <1>4 DEF Governance!Next

LEMMA RetiredRefines ==
  ASSUME IInv, NEW S, \A n \in S \cap Notes : memory[n] # NoRow, memory' = Retired(S),
         TrailOf(log') = TrailOf(log)
  PROVE  Governance!Next
<1> DEFINE T == {n \in S \cap Notes : memory[n].live}
<1>1. \A n \in S \cap Notes : memory[n] \in Row
  BY LiveRow
<1>2. ASSUME NEW n \in S \cap Notes
      PROVE  /\ StageOf(memory'[n]) = "retired" /\ Owner(memory'[n]) = Owner(memory[n])
             /\ memory[n].live => StageOf(memory[n]) \in {"personal", "review", "shared"}
             /\ ~memory[n].live => StageOf(memory[n]) = "retired"
  <2> DEFINE row == [memory[n] EXCEPT !.live = FALSE]
  <2>1. row \in Row /\ ~row.live /\ row.author = memory[n].author /\ memory'[n] = row
    BY <1>1 DEF Row, Retired
  <2> HIDE DEF row
  <2> QED
    BY <1>1, <2>1, StageOfRow, NoRowIsNoRow DEF Owner
<1>3. \A n \in Notes \ S : memory'[n] = memory[n]
  BY DEF Retired
<1>4. Governance!Retire(T)
  <2>1. \A n \in T : StageOf(memory[n]) \in {"personal", "review", "shared"}
    BY <1>2
  <2>2. \A n \in Notes : StageOf(memory'[n]) = IF n \in T THEN "retired" ELSE StageOf(memory[n])
    BY <1>2, <1>3
  <2>3. \A n \in Notes : Owner(memory'[n]) = Owner(memory[n])
    BY <1>2, <1>3
  <2> HIDE DEF T
  <2>4. T \subseteq Notes
    BY DEF T
  <2> QED
    BY <2>1, <2>2, <2>3, <2>4 DEF Governance!Retire, Owner
<1>5. T \in SUBSET Notes
  OBVIOUS
<1> QED
  BY <1>4, <1>5 DEF Governance!Next

LEMMA CaptureRefines ==
  ASSUME IInv, NEW n \in Notes, NEW a \in Agents, NEW row \in Row,
         memory[n] = NoRow, row.author = a, row.live, row.share = "personal",
         memory' = Put(n, row), log' = log
  PROVE  Governance!Next
<1>1. memory'[n] = row /\ \A m \in Notes \ {n} : memory'[m] = memory[m]
  BY Typed DEF Put, Table
<1>2. StageOf(memory[n]) = "none" /\ StageOf(row) = "personal" /\ Owner(row) = a
  BY StageOfNoRow, StageOfRow, NoRowIsNoRow DEF Owner
<1>3. Governance!Capture(n, a)
  BY <1>1, <1>2 DEF Governance!Capture, Owner
<1> QED
  BY <1>3 DEF Governance!Next

LEMMA SameRefines == ASSUME memory' = memory, TrailOf(log') = TrailOf(log) PROVE Refines
  BY SteadyStutters DEF Refines, Steady

LEMMA CreateNoteRefines ==
  ASSUME IInv, NEW a \in Agents, NEW n \in Notes, CreateNote(a, n)
  PROVE  Refines
<1>1. PICK name \in Names, body \in Bodies, session \in OrNone(Sessions),
           sens \in SensChoices, trust \in {"quarantined", "trusted"}, emb \in OrNone(Bodies),
           tagged \in TagChoices \cup {FALSE} :
        memory' = Put(n, NewNote(a, name, body, session, sens, trust, emb, tagged))
  BY DEF CreateNote
<1> DEFINE row == NewNote(a, name, body, session, sens, trust, emb, tagged)
<1>2. row \in Row /\ row.author = a /\ row.live /\ row.share = "personal"
  BY LifecycleAssumption DEF NewNote, Row, OrNone, Contents, ReaderTokens
<1>3. memory' = Put(n, row) /\ memory[n] = NoRow /\ log' = log
  BY <1>1 DEF CreateNote
<1> HIDE DEF row
<1> QED
  BY <1>2, <1>3, CaptureRefines DEF Refines

LEMMA CreateTableRefines ==
  ASSUME IInv, NEW a \in Agents, NEW n \in Notes, NEW t \in Tables, CreateTable(a, n, t)
  PROVE  Refines
<1>1. PICK name \in Names, body \in Bodies :
        memory' = Put(n,
         [name |-> name, body |-> body, author |-> a, session |-> None,
          share |-> "personal", trust |-> "quarantined", tier |-> "provisional",
          live |-> TRUE, ttl |-> "running", sens |-> "normal", readers |-> {a},
          escalated |-> FALSE, sig |-> None, emb |-> None])
  BY DEF CreateTable
<1> DEFINE row == [name |-> name, body |-> body, author |-> a, session |-> None,
          share |-> "personal", trust |-> "quarantined", tier |-> "provisional",
          live |-> TRUE, ttl |-> "running", sens |-> "normal", readers |-> {a},
          escalated |-> FALSE, sig |-> None, emb |-> None]
<1>2. row \in Row /\ row.author = a /\ row.live /\ row.share = "personal"
  BY DEF Row, OrNone, Contents, ReaderTokens, Sensitivities
<1>3. memory' = Put(n, row) /\ memory[n] = NoRow /\ log' = log
  BY <1>1 DEF CreateTable
<1> HIDE DEF row
<1> QED
  BY <1>2, <1>3, CaptureRefines DEF Refines

LEMMA ShareNoteRefines ==
  ASSUME IInv, NEW a \in Agents, NEW n \in Notes, ShareNote(a, n)
  PROVE  Refines
<1>1. PICK readers \in (ReaderChoices \ {{}}) \cup {memory[n].readers} :
        memory' = Put(n, [memory[n] EXCEPT !.share = "ready_to_share", !.readers = readers])
  BY DEF ShareNote
<1> DEFINE row == [memory[n] EXCEPT !.share = "ready_to_share", !.readers = readers]
<1>2. memory[n] \in Row /\ memory[n].live /\ memory[n].share = "personal"
  BY LiveRow DEF ShareNote, Sharable
<1>3. readers \in SUBSET ReaderTokens
  BY <1>2, LifecycleAssumption DEF Row
<1>4. row \in Row /\ row.author = memory[n].author /\ row.live /\ row.share = "ready_to_share"
  BY <1>2, <1>3 DEF Row
<1>5. memory' = Put(n, row)
  BY <1>1
<1> HIDE DEF row
<1>6. StageOf(memory[n]) = "personal" /\ StageOf(row) = "review"
  BY <1>2, <1>4, StageOfRow
<1>7. Stages' = [Stages EXCEPT ![n] = "review"] /\ Owners' = Owners
  BY <1>2, <1>4, <1>5, <1>6, RowMoves
<1>8. TrailOf(log') = TrailOf(log) \cup {[step |-> "offer", by |-> a, note |-> n]}
  BY TrailOfOffer DEF ShareNote
<1>9. Owners[n] = a /\ Stages[n] = "personal"
  BY <1>2, <1>6, NoRowIsNoRow DEF ShareNote, Sharable, Owners, Stages
<1>10. Governance!Offer(n, a)
  BY <1>7, <1>8, <1>9 DEF Governance!Offer, Governance!Record, Stages, Owners
<1> QED
  BY <1>10 DEF Refines, Governance!Next

LEMMA TtlLapsesRefines ==
  ASSUME IInv, NEW n \in Notes, TtlLapses(n)
  PROVE  Refines
<1> DEFINE row == [memory[n] EXCEPT !.ttl = "lapsed"]
<1>1. memory[n] \in Row
  BY LiveRow DEF TtlLapses
<1>2. /\ row \in Row /\ row.author = memory[n].author
      /\ row.share = memory[n].share /\ row.live = memory[n].live
  BY <1>1 DEF Row
<1>3. memory' = Put(n, row) /\ log' = log
  BY DEF TtlLapses
<1> HIDE DEF row
<1> QED
  BY <1>1, <1>2, <1>3, RowStutters, TameSteady DEF Steady

LEMMA JudgedStage ==
  ASSUME NEW row \in Row, NEW op \in Verdicts, NEW seen,
         op \in {"vouch", "self_validate"} => seen \in Contents
  PROVE  \/ Judged(row, op, seen).live = row.live
         \/ Judged(row, op, seen) = [row EXCEPT !.live = FALSE]
<1>1. CASE op = "escalate_human"
  BY <1>1 DEF Judged, Row
<1>2. CASE op = "vouch"
  BY <1>2 DEF Judged, Row, OrNone
<1>3. CASE op = "self_validate"
  BY <1>3 DEF Judged, Row, OrNone
<1>4. CASE op \in {"vouch_invalid", "self_invalid"}
  BY <1>4 DEF Judged
<1> QED
  BY <1>1, <1>2, <1>3, <1>4 DEF Verdicts, ManagerVerdicts, SourceVerdicts

LEMMA ValidateEndRefines ==
  ASSUME IInv, NEW p \in Procs, ValidateEnd(p)
  PROVE  Refines
<1> DEFINE r == req[p]
<1>1. PICK n \in r.notes :
        Commit(p, IF Reaches(r.by, n) THEN Put(n, Judged(memory[n], r.op, r.seen[n])) ELSE memory,
               VerdictEntries(r, n), artifact)
  BY DEF ValidateEnd
<1> DEFINE row == Judged(memory[n], r.op, r.seen[n])
<1>2. /\ r \in Request /\ r.op \in Verdicts /\ RequestInv(r, memory)
      /\ n \in Notes /\ memory[n] \in Row /\ memory[n] # NoRow
  BY Pending DEF ValidateEnd
<1>3. r.op \in {"vouch", "self_validate"} => r.seen[n] \in Contents
  BY <1>2 DEF RequestInv
<1>4. row \in Row /\ row.author = memory[n].author /\ row.share = memory[n].share
  BY <1>2, <1>3, JudgedRow
<1>5. row.live = memory[n].live \/ row = [memory[n] EXCEPT !.live = FALSE]
  BY <1>2, <1>3, JudgedStage
<1>6. memory' = Put(n, row) \/ memory' = memory
  BY <1>1 DEF Commit
<1>9. TrailOf(log') = TrailOf(log)
  <2>1. log' = log \/ log' = log \cup VerdictEntries(r, n)
    BY <1>1 DEF Commit
  <2> QED
    BY <2>1, TrailOfVerdict
<1> HIDE DEF row
<1>7. CASE memory' = Put(n, row) /\ row.live = memory[n].live
  BY <1>2, <1>4, <1>7, <1>9, RowStutters, TameSteady DEF Steady
<1>8. CASE memory' = Put(n, row) /\ row = [memory[n] EXCEPT !.live = FALSE]
  <2>1. memory' = Retired({n})
    BY <1>2, <1>8, Typed DEF Put, Retired, Table
  <2> QED
    BY <1>2, <1>9, <2>1, RetiredRefines DEF Refines
<1> QED
  BY <1>5, <1>6, <1>7, <1>8, <1>9, SameRefines

LEMMA GraduateEndRefines ==
  ASSUME IInv, NEW p \in Procs, GraduateEnd(p)
  PROVE  Refines
<1> DEFINE r == req[p]
<1>1. PICK n \in r.notes :
        Commit(p, IF memory[n].share = "ready_to_share" /\ Reaches(r.by, n)
                  THEN Put(n, Graduated(memory[n], r, n)) ELSE memory,
               Logged("provisional_graduate", r.by, n), Cascaded({n}, "graduated"))
  BY DEF GraduateEnd
<1> DEFINE row == Graduated(memory[n], r, n)
<1>2. /\ r \in Request /\ r.op = "graduate" /\ RequestInv(r, memory)
      /\ n \in Notes /\ memory[n] \in Row /\ memory[n] # NoRow
  BY Pending DEF GraduateEnd
<1>3. /\ r.by \in Reviewers /\ r.readers \in SUBSET ReaderTokens
      /\ r.name # None \/ r.body # None => r.seen[n] \in Contents
      /\ r.by # memory[n].author \/ r.by \in Managers
  BY <1>2 DEF RequestInv
<1>4. row \in Row /\ row.author = memory[n].author /\ row.share = "trusted"
  BY <1>2, <1>3, GraduatedRow
<1>5. row.live = memory[n].live
  BY <1>2 DEF Graduated, Row
<1>6. \/ /\ memory' = Put(n, row) /\ memory[n].share = "ready_to_share"
         /\ log' = log \cup Logged("provisional_graduate", r.by, n)
      \/ memory' = memory /\ log' = log \cup Logged("provisional_graduate", r.by, n)
      \/ memory' = memory /\ log' = log
  BY <1>1 DEF Commit
<1>7. memory[n].share # "personal" /\ r.by \in Reviewers
  BY <1>2, <1>3 DEF RequestInv
<1> HIDE DEF row
<1>8. ASSUME memory' = Put(n, row), memory[n].share = "ready_to_share",
             log' = log \cup Logged("provisional_graduate", r.by, n)
      PROVE  Governance!Next
  <2>1. Stages' = [Stages EXCEPT ![n] = StageOf(row)] /\ Owners' = Owners
    BY <1>2, <1>4, <1>8, RowMoves
  <2>2. CASE memory[n].live
    <3>1. StageOf(memory[n]) = "review" /\ StageOf(row) = "shared"
      BY <1>2, <1>4, <1>5, <1>8, <2>2, StageOfRow
    <3> QED
      BY <1>2, <1>3, <1>7, <1>8, <2>1, <3>1, TimelyDecision
  <2>3. CASE ~memory[n].live
    <3>1. StageOf(memory[n]) = "retired" /\ StageOf(row) = "retired"
      BY <1>2, <1>4, <1>5, <2>3, StageOfRow
    <3>2. Stages' = Stages
      BY <2>1, <3>1 DEF Stages
    <3> QED
      BY <1>2, <1>3, <1>7, <1>8, <2>1, <3>2, LateDecision
  <2> QED
    BY <2>2, <2>3
<1>9. ASSUME memory' = memory, log' = log \cup Logged("provisional_graduate", r.by, n)
      PROVE  Governance!Next
  <2>1. Stages' = Stages /\ Owners' = Owners
    BY <1>9 DEF Stages, Owners
  <2> QED
    BY <1>2, <1>3, <1>7, <1>9, <2>1, LateDecision
<1> QED
  BY <1>6, <1>8, <1>9, SameRefines DEF Refines

LEMMA DecideDeleteEndRefines ==
  ASSUME IInv, NEW p \in Procs, DecideDeleteEnd(p)
  PROVE  Refines
<1>1. PICK n \in req[p].notes : (memory' = Retired({n}) \/ memory' = memory) /\ log' = log
  BY DEF DecideDeleteEnd, Commit
<1>2. n \in Notes /\ memory[n] # NoRow
  BY Pending DEF DecideDeleteEnd
<1> QED
  BY <1>1, <1>2, SameRefines, RetiredRefines DEF Refines

LEMMA CurateEditEndRefines ==
  ASSUME IInv, NEW p \in Procs, CurateEditEnd(p)
  PROVE  Refines
<1> DEFINE r == req[p]
<1>1. PICK n \in r.notes, emb \in Embedded(r.body) :
        Commit(p, IF memory[n].live /\ Reaches(r.by, n)
                  THEN Put(n, Edited(memory[n], r, n, emb)) ELSE memory,
               {}, artifact)
  BY DEF CurateEditEnd
<1> DEFINE row == Edited(memory[n], r, n, emb)
<1>2. /\ r \in Request /\ r.op = "curate_edit" /\ RequestInv(r, memory)
      /\ n \in Notes /\ memory[n] \in Row /\ memory[n] # NoRow
  BY Pending DEF CurateEditEnd
<1>3. /\ r.name # None \/ r.body # None => r.seen[n] \in Contents
      /\ emb \in OrNone(Bodies)
  BY <1>2 DEF RequestInv, Request, OrNone, Embedded
<1>4. row \in Row /\ row.author = memory[n].author /\ row.share = memory[n].share
  BY <1>2, <1>3, EditedRow
<1>5. row.live = memory[n].live
  BY <1>2 DEF Edited, Row
<1>6. (memory' = Put(n, row) \/ memory' = memory) /\ log' = log
  BY <1>1 DEF Commit
<1> HIDE DEF row
<1>7. CASE memory' = Put(n, row)
  BY <1>2, <1>4, <1>5, <1>6, <1>7, RowStutters, TameSteady DEF Steady
<1> QED
  BY <1>6, <1>7, SameRefines

LEMMA RetiringRefines ==
  ASSUME IInv, NEW S, \A n \in S \cap Notes : memory[n] # NoRow,
         memory' = Retired(S) \/ memory' = memory, log' = log
  PROVE  Refines
  BY SameRefines, RetiredRefines DEF Refines

LEMMA ReembedCommitRefines ==
  ASSUME IInv, Running("reembed_null", {"reembed_null"}),
         NEW answered \in SUBSET req["reembed_null"].notes, ReembedCommit(answered)
  PROVE  Refines
<1> DEFINE r == req["reembed_null"]
           table == [n \in Notes |-> IF n \in answered
                                     THEN [memory[n] EXCEPT !.emb = r.seen[n][2]]
                                     ELSE memory[n]]
<1>1. (memory' = table \/ memory' = memory) /\ log' = log
  BY DEF ReembedCommit, Commit
<1>2. "reembed_null" \in Procs
  BY DEF Procs, Jobs
<1>3. \A n \in answered : n \in Notes /\ memory[n] \in Row /\ r.seen[n][2] \in Bodies
  BY <1>2, Pending DEF RequestInv, Contents
<1>4. ASSUME NEW n \in Notes PROVE Steady(memory[n], table[n])
  <2>1. CASE n \in answered
    <3> DEFINE row == [memory[n] EXCEPT !.emb = r.seen[n][2]]
    <3>1. /\ row \in Row /\ row.author = memory[n].author
          /\ row.share = memory[n].share /\ row.live = memory[n].live
      BY <1>3, <2>1 DEF Row, OrNone
    <3>2. table[n] = row
      BY <2>1
    <3> HIDE DEF row, table
    <3> QED
      BY <1>3, <2>1, <3>1, <3>2, TameSteady
  <2>2. CASE n \notin answered
    BY <2>2 DEF Steady
  <2> QED
    BY <2>1, <2>2
<1> HIDE DEF table
<1>5. CASE memory' = table
  BY <1>1, <1>4, <1>5, SteadyStutters DEF Refines
<1> QED
  BY <1>1, <1>5, SameRefines
LEMMA StartSameMemory ==
  ASSUME NEW p, NEW call, Start(p, call)
  PROVE  Refines
  BY SameRefines DEF Start

LEMMA StepRefines ==
  ASSUME IInv, [Next]_vars
  PROVE  Refines
<1> USE DEF Procs
<1>1. ASSUME NEW a \in Agents, Endpoint(a) PROVE Refines
  <2>1. CASE Sweep(a)
    <3> DEFINE expired == {n \in Notes : /\ memory[n].live
                                         /\ memory[n].tier = "provisional"
                                         /\ memory[n].ttl = "lapsed"
                                         /\ Reaches(a, n)}
    <3>1. memory' = Retired(expired) /\ log' = log
      BY <2>1 DEF Sweep
    <3>2. \A n \in expired \cap Notes : memory[n] # NoRow
      BY DEF Reaches, Exists
    <3> HIDE DEF expired
    <3> QED
      BY <3>1, <3>2, RetiringRefines
  <2>2. ASSUME NEW n \in Notes, CurateDelete(a, n) PROVE Refines
    <3>1. memory' = Retired({n}) /\ memory[n] # NoRow /\ log' = log
      BY <2>2 DEF CurateDelete, Reaches, Exists
    <3> QED
      BY <3>1, RetiringRefines
  <2> QED
    BY <1>1, <2>1, <2>2, CreateNoteRefines, ShareNoteRefines, CreateTableRefines DEF Endpoint
<1>2. ASSUME NEW p \in Workers, Ends(p) PROVE Refines
  <2>1. CASE FastkillEnd(p)
    <3> DEFINE S == {n \in req[p].notes : Reaches(req[p].by, n)}
    <3>1. (memory' = Retired(S) \/ memory' = memory) /\ log' = log
      BY <2>1 DEF FastkillEnd, Commit
    <3>2. \A n \in S \cap Notes : memory[n] # NoRow
      BY DEF Reaches, Exists
    <3> HIDE DEF S
    <3> QED
      BY <3>1, <3>2, RetiringRefines
  <2>2. CASE AnchorEnd(p)
    <3>1. memory' = memory /\ log' = log
      BY <2>2 DEF AnchorEnd, Commit
    <3> QED
      BY <3>1, SameRefines
  <2> QED
    BY <1>2, <2>1, <2>2, ValidateEndRefines, GraduateEndRefines, DecideDeleteEndRefines,
       CurateEditEndRefines
       DEF Ends
<1>3. ASSUME NEW p \in Workers, NEW a \in Agents, Begins(p, a) PROVE Refines
  BY <1>3, StartSameMemory
     DEF Begins, ValidateBegin, GraduateBegin, DecideDeleteBegin, CurateEditBegin,
         FastkillBegin, AnchorBegin
<1>4. CASE Timers
  <2>1. CASE ValidateSweepEnd
    <3> DEFINE S == req["validate_sweep"].notes
    <3>1. (memory' = Retired(S) \/ memory' = memory) /\ log' = log
      BY <2>1 DEF ValidateSweepEnd, Commit
    <3>2. \A n \in S \cap Notes : memory[n] # NoRow
      BY <2>1, Pending DEF ValidateSweepEnd, Jobs
    <3> HIDE DEF S
    <3> QED
      BY <3>1, <3>2, RetiringRefines
  <2>2. CASE ReembedEnd
    BY <2>2, ReembedCommitRefines DEF ReembedEnd, Answerable
  <2> QED
    BY <1>4, <2>1, <2>2, StartSameMemory DEF Timers, ValidateSweepBegin, ReembedBegin
<1>5. ASSUME NEW p \in Procs, Abort(p) PROVE Refines
  BY <1>5, SameRefines DEF Abort
<1>6. ASSUME NEW n \in Notes, TtlLapses(n) PROVE Refines
  BY <1>6, TtlLapsesRefines
<1>7. CASE UNCHANGED vars
  BY <1>7, SameRefines DEF vars
<1> QED
  BY <1>1, <1>2, <1>3, <1>4, <1>5, <1>6, <1>7 DEF Next

LEMMA InitRefines == Init => Governance!Init
<1> SUFFICES ASSUME Init PROVE Governance!Init
  OBVIOUS
<1>1. \A n \in Notes : memory[n] = NoRow
  BY DEF Init
<1> QED
  BY <1>1, StageOfNoRow DEF Init, TrailOf, Governance!Init

(* Every behaviour of the handlers, the jobs and their rollbacks is one of *)
(* the abstract lifecycle: personal, offered by its author, shared by a    *)
(* reviewer entitled to it, both on record, retired for good.              *)
THEOREM LifecycleImplementsGovernance == Spec => GovernanceSpec
<1>1. IInv /\ [Next]_vars => [Governance!Next]_(Governance!vars)
  BY StepRefines DEF Refines
<1> QED
  BY <1>1, InitRefines, InductiveInvariant, PTL DEF Spec, GovernanceSpec, Governance!Spec

-----------------------------------------------------------------------------
(* The text of a note, its signature and its embedding.                    *)

(* What a step may do to them: nothing, *)
SameText(n) ==
  \/ memory'[n] = memory[n]
  \/ /\ Exists(n) /\ memory'[n] # NoRow
     /\ memory'[n].name = memory[n].name /\ memory'[n].body = memory[n].body
     /\ memory'[n].sig = memory[n].sig /\ memory'[n].emb = memory[n].emb

(* write the note for the first time, *)
Written(n) ==
  /\ ~Exists(n)
  /\ memory'[n].sig \in {None, <<memory'[n].name, memory'[n].body>>}
  /\ memory'[n].emb \in {None, memory'[n].body}

(* sign what a verdict has read, *)
SignedBy(p, n) ==
  /\ req[p] # Idle /\ n \in req[p].notes /\ req'[p] = Idle
  /\ req[p].op \in {"vouch", "self_validate"}
  /\ Exists(n)
  /\ memory'[n].name = memory[n].name /\ memory'[n].body = memory[n].body
  /\ memory'[n].emb = memory[n].emb
  /\ memory'[n].sig = req[p].seen[n]

(* amend it and sign what results for all that was read, *)
AmendedBy(p, n) ==
  /\ req[p] # Idle /\ n \in req[p].notes /\ req'[p] = Idle
  /\ req[p].op \in {"graduate", "curate_edit"}
  /\ Exists(n)
  /\ memory'[n].name = Given(req[p].name, memory[n].name)
  /\ memory'[n].body = Given(req[p].body, memory[n].body)
  /\ memory'[n].sig = Resigned(req[p], n, memory[n].sig)
  /\ IF req[p].body = None THEN memory'[n].emb = memory[n].emb
                           ELSE memory'[n].emb \in {None, req[p].body}

(* or embed what the job has read. *)
Reembedded(n) ==
  /\ req["reembed_null"] # Idle /\ n \in req["reembed_null"].notes
  /\ req["reembed_null"].op = "reembed_null" /\ req'["reembed_null"] = Idle
  /\ Exists(n)
  /\ memory'[n].name = memory[n].name /\ memory'[n].body = memory[n].body
  /\ memory'[n].sig = memory[n].sig
  /\ memory'[n].emb = req["reembed_null"].seen[n][2]

TextStep ==
  \A n \in Notes :
    \/ SameText(n) \/ Written(n) \/ Reembedded(n)
    \/ \E p \in Workers : SignedBy(p, n) \/ AmendedBy(p, n)

LEMMA NothingWritten ==
  ASSUME memory' = memory
  PROVE  TextStep
  BY DEF TextStep, SameText

LEMMA StartText ==
  ASSUME NEW p, NEW call, Start(p, call)
  PROVE  TextStep
  BY NothingWritten DEF Start

(* The text of the rows a transaction leaves decides, whether or not it    *)
(* commits.                                                                *)
LEMMA CommitText ==
  ASSUME NEW p, NEW table, NEW entries, NEW artifacts, Commit(p, table, entries, artifacts),
         memory' = table => TextStep
  PROVE  TextStep
  BY NothingWritten DEF Commit

LEMMA RetiredText ==
  ASSUME IInv, NEW S, \A n \in S \cap Notes : Exists(n), memory' = Retired(S)
  PROVE  TextStep
<1> SUFFICES ASSUME NEW n \in Notes PROVE SameText(n)
  BY DEF TextStep
<1>1. CASE n \in S
  <2>1. memory'[n] = [memory[n] EXCEPT !.live = FALSE] /\ memory[n] \in Row
    BY <1>1, LiveRow DEF Retired, Exists
  <2>2. /\ memory'[n].name = memory[n].name /\ memory'[n].body = memory[n].body
        /\ memory'[n].sig = memory[n].sig /\ memory'[n].emb = memory[n].emb
        /\ memory'[n] \in Row
    BY <2>1 DEF Row
  <2> QED
    BY <1>1, <2>2, NoRowIsNoRow DEF SameText
<1>2. CASE n \notin S
  BY <1>2 DEF Retired, SameText
<1> QED
  BY <1>1, <1>2

(* Only one row is written: what it becomes decides. *)
LEMMA PutText ==
  ASSUME IInv, NEW n \in Notes, NEW row, memory' = Put(n, row),
         \/ SameText(n) \/ Written(n)
         \/ \E p \in Workers : SignedBy(p, n) \/ AmendedBy(p, n)
  PROVE  TextStep
<1>1. \A m \in Notes \ {n} : memory'[m] = memory[m]
  BY Typed DEF Put, Table
<1> QED
  BY <1>1 DEF TextStep, SameText

LEMMA PutIs ==
  ASSUME IInv, NEW n \in Notes, NEW row
  PROVE  Put(n, row)[n] = row
  BY Typed DEF Put, Table

-----------------------------------------------------------------------------
LEMMA EndpointText ==
  ASSUME IInv, NEW a \in Agents, Endpoint(a)
  PROVE  TextStep
<1>1. ASSUME NEW n \in Notes, CreateNote(a, n) PROVE TextStep
  <2>1. PICK name \in Names, body \in Bodies, session \in OrNone(Sessions),
             sens \in SensChoices, trust \in {"quarantined", "trusted"}, emb \in OrNone(Bodies),
             tagged \in TagChoices \cup {FALSE} :
          /\ emb \in {body, None}
          /\ memory' = Put(n, NewNote(a, name, body, session, sens, trust, emb, tagged))
    BY <1>1 DEF CreateNote, Embedded
  <2>2. memory'[n] = NewNote(a, name, body, session, sens, trust, emb, tagged)
    BY <2>1, PutIs
  <2>3. Written(n)
    BY <1>1, <2>1, <2>2 DEF CreateNote, Written, Exists, NewNote
  <2> QED
    BY <1>1, <2>1, <2>3, PutText DEF CreateNote
<1>2. ASSUME NEW n \in Notes, ShareNote(a, n) PROVE TextStep
  <2>1. PICK readers \in (ReaderChoices \ {{}}) \cup {memory[n].readers} :
          memory' = Put(n, [memory[n] EXCEPT !.share = "ready_to_share", !.readers = readers])
    BY <1>2 DEF ShareNote
  <2>2. memory[n] \in Row
    BY <1>2, LiveRow DEF ShareNote, Sharable
  <2>3. memory'[n] = [memory[n] EXCEPT !.share = "ready_to_share", !.readers = readers]
    BY <2>1, PutIs
  <2>4. /\ memory'[n].name = memory[n].name /\ memory'[n].body = memory[n].body
        /\ memory'[n].sig = memory[n].sig /\ memory'[n].emb = memory[n].emb
        /\ memory'[n].share = "ready_to_share"
    BY <2>2, <2>3 DEF Row
  <2>5. SameText(n)
    BY <2>2, <2>4, NoRowIsNoRow DEF SameText, Exists
  <2> QED
    BY <1>2, <2>1, <2>5, PutText DEF ShareNote
<1>3. ASSUME NEW n \in Notes, CurateDelete(a, n) PROVE TextStep
  BY <1>3, RetiredText DEF CurateDelete, Reaches
<1>4. ASSUME Sweep(a) PROVE TextStep
  BY <1>4, RetiredText DEF Sweep, Reaches
<1>5. ASSUME NEW n \in Notes, NEW t \in Tables, CreateTable(a, n, t) PROVE TextStep
  <2>1. PICK name \in Names, body \in Bodies :
         memory' = Put(n,
           [name |-> name, body |-> body, author |-> a, session |-> None,
            share |-> "personal", trust |-> "quarantined", tier |-> "provisional",
            live |-> TRUE, ttl |-> "running", sens |-> "normal", readers |-> {a},
            escalated |-> FALSE, sig |-> None, emb |-> None])
    BY <1>5 DEF CreateTable
  <2>2. memory'[n].sig = None /\ memory'[n].emb = None
    BY <2>1, PutIs
  <2>3. Written(n)
    BY <1>5, <2>2 DEF CreateTable, Written, Exists
  <2> QED
    BY <1>5, <2>1, <2>3, PutText DEF CreateTable
<1> QED
  BY <1>1, <1>2, <1>3, <1>4, <1>5 DEF Endpoint

LEMMA BeginText ==
  ASSUME NEW p, NEW a, Begins(p, a)
  PROVE  TextStep
  BY StartText
     DEF Begins, ValidateBegin, GraduateBegin, DecideDeleteBegin, CurateEditBegin,
         FastkillBegin, AnchorBegin

LEMMA EndText ==
  ASSUME IInv, NEW p \in Workers, Ends(p)
  PROVE  TextStep
<1> DEFINE r == req[p]
<1>0. p \in Procs
  BY DEF Procs
<1>1. CASE ValidateEnd(p)
  <2>1. PICK n \in r.notes :
          Commit(p, IF Reaches(r.by, n) THEN Put(n, Judged(memory[n], r.op, r.seen[n])) ELSE memory,
                 VerdictEntries(r, n), artifact)
    BY <1>1 DEF ValidateEnd
  <2>2. /\ n \in Notes /\ memory[n] \in Row /\ memory[n] # NoRow /\ r.op \in Verdicts /\ r # Idle
        /\ req'[p] = Idle
    BY <1>0, <1>1, <2>1, Pending, Typed DEF ValidateEnd, Running, Commit
  <2> DEFINE row == Judged(memory[n], r.op, r.seen[n])
  <2>3. /\ row.name = memory[n].name /\ row.body = memory[n].body /\ row.emb = memory[n].emb
        /\ \/ row.sig = memory[n].sig
           \/ r.op \in {"vouch", "self_validate"} /\ row.sig = r.seen[n]
        /\ "name" \in DOMAIN row
    BY <2>2 DEF Judged, Verdicts, ManagerVerdicts, SourceVerdicts, Row
  <2>4. row # NoRow
    BY <2>3 DEF NoRow
  <2>5. ASSUME memory' = Put(n, row) PROVE TextStep
    <3>1. memory'[n] = row
      BY <2>2, <2>5, PutIs
    <3>2. SameText(n) \/ SignedBy(p, n)
      BY <2>1, <2>2, <2>3, <2>4, <3>1 DEF SameText, SignedBy, Exists
    <3> QED
      BY <2>2, <2>5, <3>2, PutText
  <2> QED
    BY <1>0, <2>1, <2>5, NothingWritten, CommitText
<1>2. CASE GraduateEnd(p)
  <2>1. PICK n \in r.notes :
          Commit(p, IF memory[n].share = "ready_to_share" /\ Reaches(r.by, n)
                    THEN Put(n, Graduated(memory[n], r, n)) ELSE memory,
                 Logged("provisional_graduate", r.by, n), Cascaded({n}, "graduated"))
    BY <1>2 DEF GraduateEnd
  <2>2. /\ n \in Notes /\ memory[n] \in Row /\ memory[n] # NoRow /\ r.op = "graduate" /\ r # Idle
        /\ req'[p] = Idle
    BY <1>0, <1>2, <2>1, Pending, Typed DEF GraduateEnd, Running, Commit
  <2> DEFINE row == Graduated(memory[n], r, n)
  <2>3. /\ row.name = Given(r.name, memory[n].name) /\ row.body = Given(r.body, memory[n].body)
        /\ row.emb = Given(r.body, memory[n].emb) /\ row.sig = Resigned(r, n, memory[n].sig)
    BY <2>2 DEF Graduated, Row
  <2>4. ASSUME memory' = Put(n, row) PROVE TextStep
    <3>1. memory'[n] = row
      BY <2>2, <2>4, PutIs
    <3>2. AmendedBy(p, n)
      BY <2>1, <2>2, <2>3, <3>1 DEF AmendedBy, Exists, Given
    <3> QED
      BY <2>2, <2>4, <3>2, PutText
  <2> QED
    BY <1>0, <2>1, <2>4, NothingWritten, CommitText
<1>3. CASE DecideDeleteEnd(p)
  <2>1. PICK n \in r.notes :
          Commit(p, IF memory[n].share = "ready_to_share" /\ Reaches(r.by, n)
                    THEN Retired({n}) ELSE memory, {}, Cascaded({n}, "deleted"))
    BY <1>3 DEF DecideDeleteEnd
  <2>2. Exists(n)
    BY <1>0, <1>3, <2>1, Pending DEF DecideDeleteEnd, Exists
  <2>3. ASSUME memory' = Retired({n}) PROVE TextStep
    BY <2>2, <2>3, RetiredText
  <2> QED
    BY <1>0, <2>1, <2>3, NothingWritten, CommitText
<1>4. CASE CurateEditEnd(p)
  <2>1. PICK n \in r.notes, emb \in Embedded(r.body) :
          Commit(p, IF memory[n].live /\ Reaches(r.by, n)
                    THEN Put(n, Edited(memory[n], r, n, emb)) ELSE memory, {}, artifact)
    BY <1>4 DEF CurateEditEnd
  <2>2. /\ n \in Notes /\ memory[n] \in Row /\ memory[n] # NoRow /\ r.op = "curate_edit" /\ r # Idle
        /\ req'[p] = Idle
    BY <1>0, <1>4, <2>1, Pending, Typed DEF CurateEditEnd, Running, Commit
  <2> DEFINE row == Edited(memory[n], r, n, emb)
  <2>3. /\ row.name = Given(r.name, memory[n].name) /\ row.body = Given(r.body, memory[n].body)
        /\ row.emb = (IF r.body = None THEN memory[n].emb ELSE emb)
        /\ row.sig = Resigned(r, n, memory[n].sig)
    BY <2>2 DEF Edited, Row
  <2>4. ASSUME memory' = Put(n, row) PROVE TextStep
    <3>1. memory'[n] = row
      BY <2>2, <2>4, PutIs
    <3>2. AmendedBy(p, n)
      BY <2>1, <2>2, <2>3, <3>1 DEF AmendedBy, Exists, Embedded
    <3> QED
      BY <2>2, <2>4, <3>2, PutText
  <2> QED
    BY <1>0, <2>1, <2>4, NothingWritten, CommitText
<1>5. CASE FastkillEnd(p)
  <2>1. Commit(p, Retired({n \in r.notes : Reaches(r.by, n)}), {}, artifact)
    BY <1>5 DEF FastkillEnd
  <2>2. ASSUME memory' = Retired({n \in r.notes : Reaches(r.by, n)}) PROVE TextStep
    BY <2>2, RetiredText DEF Reaches
  <2> QED
    BY <1>0, <2>1, <2>2, CommitText
<1>6. CASE AnchorEnd(p)
  <2>1. \E n \in r.notes : Commit(p, memory, {}, Anchored(<<r.by, r.table>>, n))
    BY <1>6 DEF AnchorEnd
  <2> QED
    BY <1>0, <2>1, NothingWritten, CommitText
<1> QED
  BY <1>1, <1>2, <1>3, <1>4, <1>5, <1>6 DEF Ends

LEMMA TimerText ==
  ASSUME IInv, Timers
  PROVE  TextStep
<1>0. "validate_sweep" \in Procs /\ "reembed_null" \in Procs
  BY DEF Procs, Jobs
<1>2. CASE ValidateSweepEnd
  <2> DEFINE S == req["validate_sweep"].notes
  <2>1. Commit("validate_sweep", Retired(S), {}, artifact)
    BY <1>2 DEF ValidateSweepEnd
  <2>2. \A n \in S : Exists(n)
    BY <1>0, <1>2, Pending DEF ValidateSweepEnd, Exists
  <2>3. ASSUME memory' = Retired(S) PROVE TextStep
    BY <2>2, <2>3, RetiredText
  <2> QED
    BY <1>0, <2>1, <2>3, CommitText
<1>4. ASSUME Running("reembed_null", {"reembed_null"}),
             NEW answered \in SUBSET req["reembed_null"].notes, ReembedCommit(answered)
      PROVE  TextStep
  <2> DEFINE r == req["reembed_null"]
             table == [n \in Notes |-> IF n \in answered
                                       THEN [memory[n] EXCEPT !.emb = r.seen[n][2]]
                                       ELSE memory[n]]
  <2>1. Commit("reembed_null", table, {}, artifact) /\ req'["reembed_null"] = Idle
    BY <1>0, <1>4, Typed DEF ReembedCommit, Commit
  <2>2. r # Idle /\ r.op = "reembed_null" /\ \A n \in r.notes : memory[n] \in Row /\ Exists(n)
    BY <1>0, <1>4, Pending DEF Running, Exists
  <2>3. ASSUME memory' = table, NEW n \in Notes PROVE SameText(n) \/ Reembedded(n)
    <3>1. CASE n \in answered
      <4>1. memory'[n] = [memory[n] EXCEPT !.emb = r.seen[n][2]]
        BY <2>3, <3>1
      <4>2. /\ memory'[n].name = memory[n].name /\ memory'[n].body = memory[n].body
            /\ memory'[n].sig = memory[n].sig /\ memory'[n].emb = r.seen[n][2]
        BY <2>2, <3>1, <4>1 DEF Row
      <4> QED
        BY <2>1, <2>2, <3>1, <4>2 DEF Reembedded
    <3>2. CASE n \notin answered
      BY <2>3, <3>2 DEF SameText
    <3> QED
      BY <3>1, <3>2
  <2> QED
    BY <1>0, <2>1, <2>3, CommitText DEF TextStep
<1> QED
  BY <1>2, <1>4, StartText DEF Timers, ValidateSweepBegin, ReembedBegin, ReembedEnd, Answerable

(* Every step of the lifecycle treats the text of each note in one of      *)
(* these ways.                                                             *)
LEMMA StepText == IInv /\ [Next]_vars => TextStep
<1> SUFFICES ASSUME IInv, [Next]_vars PROVE TextStep
  OBVIOUS
<1>1. ASSUME NEW p \in Procs, Abort(p) PROVE TextStep
  BY <1>1, NothingWritten DEF Abort
<1>2. ASSUME NEW n \in Notes, TtlLapses(n) PROVE TextStep
  <2>1. memory[n] \in Row /\ Exists(n)
    BY <1>2, LiveRow DEF TtlLapses, Exists
  <2>2. memory' = Put(n, [memory[n] EXCEPT !.ttl = "lapsed"]) /\ req' = req
    BY <1>2 DEF TtlLapses
  <2>3. memory'[n] = [memory[n] EXCEPT !.ttl = "lapsed"]
    BY <2>2, PutIs
  <2>4. /\ memory'[n].name = memory[n].name /\ memory'[n].body = memory[n].body
        /\ memory'[n].sig = memory[n].sig /\ memory'[n].emb = memory[n].emb
        /\ memory'[n].ttl = "lapsed"
    BY <2>1, <2>3 DEF Row
  <2>5. memory'[n] # NoRow
    BY <2>1, <2>3 DEF Row, NoRow
  <2>6. SameText(n)
    BY <2>1, <2>4, <2>5 DEF SameText
  <2> QED
    BY <2>2, <2>6, PutText
<1>3. CASE UNCHANGED vars
  BY <1>3, NothingWritten DEF vars
<1> QED
  BY <1>1, <1>2, <1>3, EndpointText, BeginText, EndText, TimerText DEF Next, Procs

-----------------------------------------------------------------------------
LEMMA ContentIsText ==
  ASSUME NEW c \in Contents
  PROVE  c # None
  BY LifecycleAssumption DEF Contents

Overtaken(p, n) ==
  req[p] # Idle /\ req'[p] = Idle /\ req[p].seen[n] \notin {None, Content(n)}

LEMMA MissignedWhenOvertaken ==
  ASSUME IInv, TextStep, NEW n \in Notes, Exists(n),
         SignatureCovers(memory[n]), ~SignatureCovers(memory'[n])
  PROVE  \E p \in Workers : Overtaken(p, n)
<1>1. ~SameText(n) /\ ~Written(n) /\ ~Reembedded(n)
  BY DEF SameText, Written, Reembedded, SignatureCovers
<1>2. PICK p \in Workers : SignedBy(p, n) \/ AmendedBy(p, n)
  BY <1>1 DEF TextStep
<1> DEFINE r == req[p]
<1>3. r \in Request /\ RequestInv(r, memory) /\ r # Idle /\ req'[p] = Idle /\ n \in r.notes
  BY <1>2 DEF SignedBy, AmendedBy, IInv, TypeOK, Procs
<1>4. r.seen[n] \in Contents
  <2>1. CASE SignedBy(p, n)
    BY <1>3, <2>1 DEF SignedBy, RequestInv
  <2>2. CASE AmendedBy(p, n)
    <3>1. r.name # None \/ r.body # None
      BY <2>2 DEF AmendedBy, Resigned, Given, SignatureCovers
    <3> QED
      BY <1>3, <2>2, <3>1 DEF AmendedBy, RequestInv
  <2> QED
    BY <1>2, <2>1, <2>2
<1>5. r.seen[n] # Content(n)
  <2> SUFFICES ASSUME r.seen[n] = Content(n) PROVE SignatureCovers(memory'[n])
    OBVIOUS
  <2>1. CASE SignedBy(p, n)
    BY <2>1 DEF SignedBy, Content, SignatureCovers
  <2>2. CASE AmendedBy(p, n)
    <3>1. CASE r.name = None /\ r.body = None
      BY <2>2, <3>1 DEF AmendedBy, Resigned, Given, SignatureCovers
    <3>2. CASE ~(r.name = None /\ r.body = None)
      BY <2>2, <3>2 DEF AmendedBy, Resigned, Given, Content, SignatureCovers
    <3> QED
      BY <3>1, <3>2
  <2> QED
    BY <1>2, <2>1, <2>2
<1> QED
  BY <1>3, <1>4, <1>5, ContentIsText DEF Overtaken

(* For any number of workers and whatever the timers do beside them, the   *)
(* signature of a note stops covering its text only when a verdict or an   *)
(* amendment commits that another transaction has overtaken.               *)
THEOREM SignaturesFailByOverlapOnly == Spec => OnlyOvertakenRequestsMissign
<1> DEFINE Fine ==
      \A n \in Notes :
        Exists(n) /\ SignatureCovers(memory[n]) /\ ~SignatureCovers(memory'[n]) =>
          \E p \in Workers : /\ req[p] # Idle /\ req'[p] = Idle
                            /\ req[p].seen[n] \notin {None, Content(n)}
<1>1. IInv /\ [Next]_vars => Fine
  BY StepText, MissignedWhenOvertaken DEF Overtaken
<1> QED
  BY <1>1, InductiveInvariant, PTL DEF Spec, OnlyOvertakenRequestsMissign

LEMMA StaleWhenJobOvertaken ==
  ASSUME IInv, TextStep, NEW n \in Notes, Exists(n),
         EmbeddingMatches(memory[n]), ~EmbeddingMatches(memory'[n])
  PROVE  Reembedded(n) /\ req["reembed_null"].seen[n] \notin {None, Content(n)}
<1>1. ~SameText(n) /\ ~Written(n) /\ \A p \in Workers : ~SignedBy(p, n)
  BY DEF SameText, Written, SignedBy, EmbeddingMatches
<1>2. \A p \in Workers : ~AmendedBy(p, n)
  BY DEF AmendedBy, Given, EmbeddingMatches
<1>3. Reembedded(n)
  BY <1>1, <1>2 DEF TextStep
<1> DEFINE r == req["reembed_null"]
<1>4. "reembed_null" \in Procs
  BY DEF Procs, Jobs
<1>5. r.seen[n] \in Contents
  BY <1>3, <1>4 DEF Reembedded, IInv, RequestInv
<1>6. r.seen[n] # Content(n)
  BY <1>3 DEF Reembedded, Content, EmbeddingMatches
<1> QED
  BY <1>3, <1>5, <1>6, ContentIsText

(* A vector becomes stale only by a commit of the re-embedding job that an *)
(* amendment has overtaken: the UPDATE of a request that writes a body     *)
(* writes its vector or NULL with it, whatever it overlaps with.           *)
THEOREM VectorsGoStaleByTheJobOnly == Spec => OnlyTheJobLeavesStaleVectors
<1> DEFINE Fine ==
      \A n \in Notes :
        Exists(n) /\ EmbeddingMatches(memory[n]) /\ ~EmbeddingMatches(memory'[n]) =>
          /\ Running("reembed_null", {"reembed_null"}) /\ req'["reembed_null"] = Idle
          /\ req["reembed_null"].seen[n] \notin {None, Content(n)}
<1>1. IInv /\ [Next]_vars => Fine
  BY StepText, StaleWhenJobOvertaken DEF Reembedded, Running
<1> QED
  BY <1>1, InductiveInvariant, PTL DEF Spec, OnlyTheJobLeavesStaleVectors
=============================================================================
