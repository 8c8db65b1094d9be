----------------------------- MODULE TaskBoard -----------------------------
(***************************************************************************)
(* The fleet's board: tasks with their handles and dependencies, projects  *)
(* with their plans, ideas, and the review that turns a personal row into  *)
(* a shared one.                                                           *)
(*                                                                         *)
(* The three tables task, project and idea are one variable here, as their *)
(* policies (migrations 0032, 0036) and the review (_STRUCT) treat them    *)
(* alike.  task_add and structure_decide are split where another request   *)
(* may commit in between; a handler with a single decisive statement is    *)
(* one action.  A request that a policy, an index or a foreign key refuses *)
(* changes nothing, and is the action's guard.                             *)
(***************************************************************************)
EXTENDS AccessModel, FiniteSets

CONSTANTS
  Rows,          \* ids of rows of the three tables
  Slugs,         \* slugs of projects
  MaxHandle,     \* bound: the highest handle T1, T2, ... that is given
  Sections,      \* keys of sections of plans
  Tiers,         \* clearance tiers of tasks
  Clearance,     \* agent.agent_tier, 1 if there is none
  ReadersGiven,  \* the readers requests name, None included
  Workers,       \* gunicorn workers: one request each at a time
  None           \* SQL NULL, and a field a request leaves out

ASSUME BoardAssumption ==
  /\ MaxHandle \in Nat
  /\ 3 \in Tiers /\ Tiers \subseteq Nat
  /\ Clearance \in [Agents -> Nat]
  /\ \A g \in ReadersGiven \ {None} : g \subseteq GroupTokens
  /\ None \notin Rows /\ None \notin Slugs

VARIABLES
  row,         \* the tables task, project and idea
  dep,         \* the table task_dep, <<blocked, blocker>>
  decided,     \* the rows of action_log about decisions, and the row they are about
  req          \* the request each worker is in the middle of

vars == <<row, dep, decided, req>>

Kinds == {"task", "project", "idea"}
Keys  == (1 .. MaxHandle) \cup Slugs \cup Rows

(* key: the handle, the slug or the id.  project: of a task its project_id, *)
(* of an idea the promoted_project_id.  plan: a project's rows of the table *)
(* project_doc.                                                             *)
Row == [kind : Kinds, key : Keys, author : Agents,
        share : {"personal", "ready_to_share", "trusted"}, readers : SUBSET GroupTokens,
        tier : Tiers \cup {0}, done : BOOLEAN, project : Rows \cup {None},
        plan : SUBSET Sections]
NoRow == [kind |-> "none"]
Gone  == [kind |-> "gone"]   \* an id is not given twice

AddRequest    == [op : {"task_add"}, by : Agents, row : Row, stub : Slugs \cup {None},
                  blockers : SUBSET Rows]
DecideRequest == [op : {"decide"}, by : Agents, decision : {"trust", "delete"}, id : Rows,
                  kind : Kinds, key : Keys]
Idle == [op |-> "idle"]

(* A decision is logged with the key; whose row has it may change. *)
Decision == [decision : {"share", "trust", "delete"}, by : Agents, id : Rows,
             kind : Kinds, key : Keys]

TypeOK ==
  /\ row \in [Rows -> Row \cup {NoRow, Gone}]
  /\ dep \subseteq Rows \X Rows
  /\ decided \subseteq Decision
  /\ req \in [Workers -> AddRequest \cup DecideRequest \cup {Idle}]

Init ==
  /\ row = [r \in Rows |-> NoRow]
  /\ dep = {}
  /\ decided = {}
  /\ req = [p \in Workers |-> Idle]

-----------------------------------------------------------------------------
(* Access. *)

(* The policies' _VISIBLE; nothing sets the sensitivity of these rows, and *)
(* every role's ceiling admits the default.                                *)
Visible(a, r) ==
  \/ a \in SeeAll
  \/ OwnUnshared(a, r)
  \/ r.share = "trusted" /\ r.readers \cap GroupsOf[a] # {}

(* Mutant: no WITH CHECK on inserted rows. *)
WriteCheckNone(a, r) == TRUE

(* The policies' _WRITE_CHECK. *)
WriteCheck(a, r) == a \in Managers \/ (r.author = a /\ r.share = "personal")

Seen(a, r) == RLS => Visible(a, r)

(* INSERT ... RETURNING needs the SELECT policy as well. *)
Insertable(a, r) == RLS => WriteCheck(a, r) /\ Visible(a, r)

Deletable(a, r) == RLS => Visible(a, r) /\ a \in Managers

(* The API's own gate. *)
StructReadWhere(a, r) ==
  /\ a \in SeeAll \/ r.readers \cap GroupsOf[a] # {}
  /\ r.share = "trusted" \/ (r.share = "personal" /\ r.author = a)

CanWriteTask(a) == Role[a] \notin {"readonly", "viewer", "approver"}

(* The readers a row gets when the request names none. *)
ReadersFor(a, given) ==
  CASE given # None                   -> given
    [] given = None /\ a \in Managers -> {}
    [] OTHER -> IF GroupsOf[a] \subseteq {"common"} THEN {"common"} ELSE GroupsOf[a] \ {"common"}

-----------------------------------------------------------------------------
(* The tables. *)

Of(kind)         == {r \in Rows : row[r].kind = kind}
SeenOf(a, kind)  == {r \in Of(kind) : Seen(a, row[r])}
With(kind, key)  == {r \in Of(kind) : row[r].key = key}
Free(r)          == row[r] = NoRow
Live             == UNION {Of(kind) : kind \in Kinds}

(* Deleting a row: ON DELETE SET NULL and ON DELETE CASCADE. *)
Without(gone) ==
  [r \in Rows |->
     CASE r \in gone -> Gone
       [] r \in Live \ gone /\ row[r].project \in gone -> [row[r] EXCEPT !.project = None]
       [] OTHER -> row[r]]

Start(p, request) ==
  /\ req[p] = Idle
  /\ req' = [req EXCEPT ![p] = request]
  /\ UNCHANGED <<row, dep, decided>>

Finish(p) == req' = [req EXCEPT ![p] = Idle]

(* Killed, or refused by the database. *)
Abort(p) == req[p] # Idle /\ Finish(p) /\ UNCHANGED <<row, dep, decided>>

-----------------------------------------------------------------------------
(* Projects. *)

Project(a, slug, share, readers, plan) ==
  [kind |-> "project", key |-> slug, author |-> a, share |-> share, readers |-> readers,
   tier |-> 0, done |-> FALSE, project |-> None, plan |-> plan]

(* _resolve_project: the project of that slug a caller sees.  A manager    *)
(* creates a missing one, and may not see what it created or what was in   *)
(* its way.  What becomes of the tables, and the id found.                 *)
Stub(a, slug) == Project(a, slug, "trusted", {}, {})

Found(a, slug) == SeenOf(a, "project") \cap With("project", slug)

Resolutions(a, slug) ==
  CASE slug = None -> {[table |-> row, id |-> None]}
    [] slug # None /\ Found(a, slug) # {} -> {[table |-> row, id |-> r] : r \in Found(a, slug)}
    [] slug # None /\ Found(a, slug) = {} /\ With("project", slug) # {} /\ a \in Managers
         -> {[table |-> row, id |-> None]}
    [] slug # None /\ With("project", slug) = {} /\ a \in Managers
         -> {[table |-> [row EXCEPT ![r] = Stub(a, slug)],
              id    |-> IF Seen(a, Stub(a, slug)) THEN r ELSE None] : r \in {f \in Rows : Free(f)}}
    [] OTHER -> {}

(* The rows of project_doc are trusted and have no readers. *)
Section(a) == Project(a, None, "trusted", {}, {})

(* Upsert: a manager's project is trusted, and an existing one keeps its   *)
(* author and share status; others create a personal one.  Every project   *)
(* gets its starter sections, which must pass their own policy.            *)
ProjectAdd(a, slug) ==
  /\ CanWriteTask(a)
  /\ RLS => WriteCheck(a, Section(a))
  /\ \E given \in ReadersGiven :
       LET share == IF a \in Managers THEN "trusted" ELSE "personal"
           new   == Project(a, slug, share, ReadersFor(a, given), Sections)
       IN  \/ /\ With("project", slug) = {}
              /\ Insertable(a, new)
              /\ \E r \in Rows : Free(r) /\ row' = [row EXCEPT ![r] = new]
           \/ /\ a \in Managers
              /\ \E r \in With("project", slug) :
                   Seen(a, row[r]) /\ row' = [row EXCEPT ![r].plan = Sections]
  /\ UNCHANGED <<dep, decided, req>>

(* project_doc_set and project_doc_del. *)
SectionSet(a, r, s) ==
  /\ a \in Managers
  /\ r \in SeenOf(a, "project")
  /\ row' = [row EXCEPT ![r].plan = row[r].plan \cup {s}]
  /\ UNCHANGED <<dep, decided, req>>

SectionDel(a, r, s) ==
  /\ a \in Managers
  /\ r \in SeenOf(a, "project")
  /\ RLS => Deletable(a, Section(a))
  /\ s \in row[r].plan
  /\ row' = [row EXCEPT ![r].plan = row[r].plan \ {s}]
  /\ UNCHANGED <<dep, decided, req>>

-----------------------------------------------------------------------------
(* Tasks. *)

(* The highest handle the caller sees, plus one. *)
NextHandle(a) ==
  LET used == {row[r].key : r \in SeenOf(a, "task")}
  IN  IF used = {} THEN 1 ELSE 1 + CHOOSE h \in used : \A k \in used : k <= h

(* Mutant: allocation is not serialised. *)
AllocationOpen == FALSE

(* pg_advisory_xact_lock(8123): held until the commit. *)
AllocationLocked == \E p \in Workers : req[p].op = "task_add"

TaskAddBegin(p, a) ==
  /\ CanWriteTask(a)
  /\ ~AllocationLocked
  /\ NextHandle(a) <= MaxHandle
  /\ \E slug \in Slugs \cup {None}, share \in {"personal", "trusted"},
        given \in ReadersGiven, tier \in Tiers, blockers \in SUBSET SeenOf(a, "task") :
     \E res \in Resolutions(a, slug) :
       Start(p, [op |-> "task_add", by |-> a, blockers |-> blockers,
                 stub |-> IF res.table = row THEN None ELSE slug,
                 row |-> [kind |-> "task", key |-> NextHandle(a), author |-> a,
                          share |-> share, readers |-> ReadersFor(a, given), tier |-> tier,
                          done |-> FALSE, plan |-> {},
                          project |-> IF res.table = row THEN res.id ELSE None]])

(* The foreign keys must hold at the commit; a stub appears with it. *)
TaskAddEnd(p) ==
  /\ req[p].op = "task_add"
  /\ LET r == req[p]
     IN  /\ Insertable(r.by, r.row)
         /\ With("task", r.row.key) = {}
         /\ r.blockers \subseteq Of("task")
         /\ r.row.project \in Of("project") \cup {None}
         /\ \E res \in Resolutions(r.by, r.stub), t \in Rows :
              /\ res.table[t] = NoRow
              /\ row' = [res.table EXCEPT ![t] =
                          IF r.stub = None THEN r.row ELSE [r.row EXCEPT !.project = res.id]]
              /\ dep' = dep \cup {<<t, b>> : b \in r.blockers}
  /\ Finish(p)
  /\ UNCHANGED decided

(* Only what the caller sees and is cleared for; readers and tier are for  *)
(* managers.  No row is returned to a caller that does not see it.         *)
(* blocked_by and unblock make any change to the blockers the caller sees. *)
TaskUpdate(a, t) ==
  /\ CanWriteTask(a)
  /\ t \in SeenOf(a, "task")
  /\ StructReadWhere(a, row[t])
  /\ row[t].tier <= Clearance[a]
  /\ \E done \in BOOLEAN, tier \in Tiers, readers \in ReadersGiven,
        slug \in Slugs \cup {None}, blockers \in SUBSET (SeenOf(a, "task") \ {t}) :
     \E res \in Resolutions(a, slug) :
       LET new == [row[t] EXCEPT !.done = done, !.tier = tier,
                     !.readers = IF readers = None THEN @ ELSE readers,
                     !.project = IF slug = None THEN @ ELSE res.id]
       IN  /\ a \notin Managers => tier = row[t].tier /\ readers = None
           /\ Seen(a, new)
           /\ row' = [res.table EXCEPT ![t] = new]
           /\ dep' = {d \in dep : d[1] # t \/ d[2] \notin SeenOf(a, "task")}
                        \cup {<<t, b>> : b \in blockers}
  /\ UNCHANGED <<decided, req>>

(* What can be taken now: the subquery sees no more than its caller. *)
Frontier(a) ==
  {t \in SeenOf(a, "task") :
     /\ StructReadWhere(a, row[t])
     /\ ~row[t].done
     /\ \A b \in SeenOf(a, "task") : <<t, b>> \in dep => row[b].done}

-----------------------------------------------------------------------------
(* Ideas. *)

IdeaAdd(a, r) ==
  /\ CanWriteTask(a)
  /\ Free(r)
  /\ \E given \in ReadersGiven :
       LET new == [kind |-> "idea", key |-> r, author |-> a,
                   share |-> IF a \in Managers THEN "trusted" ELSE "personal",
                   readers |-> ReadersFor(a, given), tier |-> 0, done |-> FALSE,
                   project |-> None, plan |-> {}]
       IN  Insertable(a, new) /\ row' = [row EXCEPT ![r] = new]
  /\ UNCHANGED <<dep, decided, req>>

(* promote_to; the status of an idea is left out. *)
IdeaUpdate(a, r) ==
  /\ a \in Managers
  /\ r \in SeenOf(a, "idea")
  /\ \E pr \in SeenOf(a, "project") : row' = [row EXCEPT ![r].project = pr]
  /\ UNCHANGED <<dep, decided, req>>

-----------------------------------------------------------------------------
(* The review of personal rows. *)

StructureShare(a, r) ==
  /\ r \in Live
  /\ Seen(a, row[r])
  /\ row[r].author = a
  /\ row[r].share = "personal"
  /\ row' = [row EXCEPT ![r].share = "ready_to_share"]
  /\ decided' = decided \cup {[decision |-> "share", by |-> a, id |-> r,
                                kind |-> row[r].kind, key |-> row[r].key]}
  /\ UNCHANGED <<dep, req>>

Awaiting(r) == IF r \in Live THEN row[r].share = "ready_to_share" ELSE FALSE

MayTrust(a, r) == row[r].author = a => a \in Managers

(* A project that tasks map to is not deleted: those the caller sees. *)
Emptied(a, r) == row[r].kind = "project" => \A t \in SeenOf(a, "task") : row[t].project # r

DecideBegin(p, a, r) ==
  /\ a \in Reviewers
  /\ Awaiting(r)
  /\ Seen(a, row[r])
  /\ \E decision \in {"trust", "delete"} :
       /\ IF decision = "trust" THEN MayTrust(a, r) ELSE Emptied(a, r)
       /\ Start(p, [op |-> "decide", by |-> a, decision |-> decision, id |-> r,
                    kind |-> row[r].kind, key |-> row[r].key])

Answer(p) ==
  decided' = decided \cup {[decision |-> req[p].decision, by |-> req[p].by, id |-> req[p].id,
                            kind |-> req[p].kind, key |-> req[p].key]}

(* WHERE key only. *)
Trusted(p) == {r \in With(req[p].kind, req[p].key) : Seen(req[p].by, row[r])}

TrustEnd(p) ==
  /\ IF req[p].op = "decide" THEN req[p].decision = "trust" ELSE FALSE
  /\ row' = [r \in Rows |-> IF r \in Trusted(p) THEN [row[r] EXCEPT !.share = "trusted"]
                                                ELSE row[r]]
  /\ Answer(p)
  /\ Finish(p)
  /\ UNCHANGED dep

DeleteEnd(p) ==
  /\ IF req[p].op = "decide" THEN req[p].decision = "delete" ELSE FALSE
  /\ LET gone == {r \in With(req[p].kind, req[p].key) :
                    Awaiting(r) /\ Deletable(req[p].by, row[r])}
     IN  /\ row' = Without(gone)
         /\ dep' = {d \in dep : d[1] \notin gone /\ d[2] \notin gone}
  /\ Answer(p)
  /\ Finish(p)

-----------------------------------------------------------------------------
Next ==
  \/ \E a \in Agents, slug \in Slugs : ProjectAdd(a, slug)
  \/ \E a \in Agents, r \in Rows :
       \/ \E s \in Sections : SectionSet(a, r, s) \/ SectionDel(a, r, s)
       \/ TaskUpdate(a, r)
       \/ IdeaAdd(a, r) \/ IdeaUpdate(a, r)
       \/ StructureShare(a, r)
  \/ \E p \in Workers :
       \/ \E a \in Agents : TaskAddBegin(p, a)
       \/ TaskAddEnd(p)
       \/ \E a \in Agents, r \in Rows : DecideBegin(p, a, r)
       \/ TrustEnd(p) \/ DeleteEnd(p)
       \/ Abort(p)

Spec == Init /\ [][Next]_vars

-----------------------------------------------------------------------------
(* The log says that the author of the row r, or of a row that is gone,    *)
(* has offered it.                                                         *)
Offered(r) ==
  \E x \in decided : /\ x.decision = "share" /\ x.id = r
                     /\ row[r] = Gone \/ x.by = row[r].author

(* What a worker wrote is shared only after it offered it and a reviewer   *)
(* trusted it, or by the decision about a row that had the same handle or  *)
(* slug, was offered, and is gone: the statement that trusts asks for the  *)
(* key alone, some time after the request has looked at the row.           *)
OnlyReusedKeysSkipTheReview ==
  RLS =>
    \A r \in Live : row[r].share = "trusted" /\ row[r].author \notin Managers =>
      \E x \in decided :
        /\ x.decision = "trust" /\ x.by \in Reviewers
        /\ x.kind = row[r].kind /\ x.key = row[r].key
        /\ x.id = r \/ row[x.id] = Gone
        /\ Offered(x.id)

(* A handle given to a caller that sees every task is not in use, however  *)
(* many requests allocate one: the advisory lock is held until the commit. *)
AllocatedHandlesAreFree ==
  \A p \in Workers : req[p].op = "task_add" /\ req[p].by \in SeeAll =>
    With("task", req[p].row.key) = {}

-----------------------------------------------------------------------------
(* What comments of the code claim, and TLC refutes. *)

(* No create fails on the unique index of the handles. *)
HandlesNeverCollide ==
  \A p \in Workers : req[p].op = "task_add" => With("task", req[p].row.key) = {}

(* What is shown as takeable has no open blocker. *)
FrontierIsTakeable ==
  \A a \in Agents : \A t \in Frontier(a), b \in Of("task") :
    <<t, b>> \in dep => row[b].done

(* Only rows that were offered are trusted, whatever overlaps. *)
TrustedRowsWereOffered ==
  [][\A r \in Live \cap Live' :
       row'[r].share = "trusted" => row[r].share # "personal"]_vars
=============================================================================
