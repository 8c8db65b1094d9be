--------------------------- MODULE TaskBoardProofs ---------------------------
(***************************************************************************)
(* Proofs about TaskBoard, for any agents, rows, slugs, handles and        *)
(* workers: handles given to those who see every task are free, and what   *)
(* is shared was reviewed, but for the rows whose key had an earlier row.  *)
(***************************************************************************)
EXTENDS TaskBoard, WellFoundedInduction, TLAPS

Tables == [Rows -> Row \cup {NoRow, Gone}]

Taken(t) == {t[r].key : r \in {s \in Rows : t[s].kind = "task"}}

(* Keys as the unique indexes have them. *)
Keyed(t) ==
  /\ \A r \in Rows : t[r].kind = "task" => t[r].key \in 1 .. MaxHandle
  /\ \A r \in Rows : t[r].kind = "idea" => t[r].key = r
  /\ \A r, s \in Rows : t[r].kind \in Kinds /\ t[s].kind = t[r].kind /\ t[s].key = t[r].key => r = s

OfferedIn(t, d, r) ==
  \E x \in d : x.decision = "share" /\ x.id = r /\ (t[r] = Gone \/ x.by = t[r].author)

Accepted(t, d, r) ==
  \E x \in d :
    /\ x.decision = "trust" /\ x.by \in Reviewers
    /\ x.kind = t[r].kind /\ x.key = t[r].key
    /\ x.id = r \/ t[x.id] = Gone
    /\ OfferedIn(t, d, x.id)

(* How far a row has got in the review. *)
Reviewed(t, d) ==
  \A r \in Rows : t[r].kind \in Kinds =>
    /\ t[r].share = "ready_to_share" => OfferedIn(t, d, r)
    /\ t[r].share = "trusted" /\ t[r].author \notin Managers => Accepted(t, d, r)

(* What a row read by a deciding request has become. *)
Stands(x, t) == t[x.id] = Gone \/ (t[x.id].kind = x.kind /\ t[x.id].key = x.key)

Deciding(requests, t, d) ==
  \A p \in Workers : requests[p].op = "decide" =>
    /\ requests[p].by \in Reviewers
    /\ Stands(requests[p], t)
    /\ OfferedIn(t, d, requests[p].id)

(* Rows go, or keep their keys and authors. *)
Kept(t, u) ==
  \A r \in Rows :
    /\ t[r].kind \in Kinds =>
         \/ u[r] = Gone
         \/ u[r].kind = t[r].kind /\ u[r].key = t[r].key /\ u[r].author = t[r].author
    /\ t[r] = Gone => u[r] = Gone

(* Why a row may have the share status it has after a step. *)
Justified(t, u, e) ==
  \A r \in Rows : u[r].kind \in Kinds =>
    \/ t[r].kind \in Kinds /\ u[r].share = t[r].share
    \/ u[r].share = "personal"
    \/ u[r].share = "trusted" /\ (u[r].author \in Managers \/ Accepted(u, e, r))
    \/ u[r].share = "ready_to_share" /\ OfferedIn(u, e, r)

(* Allocations are one at a time, and what one gave is unused. *)
Allocating(requests, t) ==
  /\ \A p, q \in Workers : requests[p].op = "task_add" /\ requests[q].op = "task_add" => p = q
  /\ \A p \in Workers : requests[p].op = "task_add" =>
       /\ requests[p].row.kind = "task" /\ requests[p].row.key \in 1 .. MaxHandle
       /\ requests[p].row.author = requests[p].by
       /\ requests[p].row.share # "ready_to_share"
       /\ requests[p].by \in SeeAll => requests[p].row.key \notin Taken(t)

IInv ==
  /\ TypeOK
  /\ Keyed(row)
  /\ Allocating(req, row)
  /\ RLS => Reviewed(row, decided) /\ Deciding(req, row, decided)

-----------------------------------------------------------------------------
(* Numbers. *)

LEMMA LeastOf ==
  ASSUME NEW T, T \subseteq Nat, T # {}
  PROVE  \E x \in T : \A y \in T : x <= y
<1>1. PICK x \in T : \A y \in T : <<y, x>> \notin OpToRel(<, Nat)
      BY NatLessThanWellFounded, WFMin
<1>2. \A y \in T : ~(y < x)
      BY <1>1 DEF OpToRel
<1>3. QED
      BY <1>2

LEMMA GreatestOf ==
  ASSUME NEW N \in Nat, NEW T, T \subseteq 1 .. N, T # {}
  PROVE  \E x \in T : \A y \in T : y <= x
<1> DEFINE S == {k \in Nat : N - k \in T}
<1>1. ASSUME NEW y \in T
      PROVE  N - y \in S
  <2>1. y \in 1 .. N /\ N - y \in Nat /\ N - (N - y) = y
        OBVIOUS
  <2>2. QED
        BY <2>1
<1>2. S \subseteq Nat /\ S # {}
      BY <1>1
<1>3. PICK s \in S : \A u \in S : s <= u
      BY <1>2, LeastOf
<1>4. N - s \in T /\ s \in Nat
      OBVIOUS
<1>5. ASSUME NEW y \in T
      PROVE  y <= N - s
  <2>1. s <= N - y
        BY <1>1, <1>3
  <2>2. QED
        BY <1>4, <2>1
<1>6. QED
      BY <1>4, <1>5

(* The next handle is positive, and new to those who see every task. *)
LEMMA NextHandleIsNew ==
  ASSUME TypeOK, Keyed(row), NEW a \in Agents, NextHandle(a) <= MaxHandle
  PROVE  /\ NextHandle(a) \in 1 .. MaxHandle
         /\ a \in SeeAll => NextHandle(a) \notin Taken(row)
<1> DEFINE used == {row[r].key : r \in SeenOf(a, "task")}
<1>1. MaxHandle \in Nat /\ used \subseteq 1 .. MaxHandle
      BY BoardAssumption DEF Keyed, SeenOf, Of
<1>2. a \in SeeAll => Taken(row) = used
      BY DEF Taken, SeenOf, Of, Seen, Visible
<1>3. NextHandle(a) = IF used = {} THEN 1 ELSE 1 + CHOOSE h \in used : \A k \in used : k <= h
      BY DEF NextHandle
<1> HIDE DEF used
<1>4. CASE used = {}
      BY <1>1, <1>2, <1>3, <1>4
<1>5. CASE used # {}
  <2> DEFINE h == CHOOSE h \in used : \A k \in used : k <= h
  <2>1. \E x \in used : \A y \in used : y <= x
        BY <1>1, <1>5, GreatestOf
  <2>2. h \in used /\ \A k \in used : k <= h
        BY <2>1
  <2>3. NextHandle(a) = 1 + h
        BY <1>3, <1>5
  <2> HIDE DEF h
  <2>4. NextHandle(a) \in 1 .. MaxHandle
        BY <1>1, <2>2, <2>3
  <2>5. NextHandle(a) \notin used
        BY <1>1, <2>2, <2>3
  <2>6. QED
        BY <1>2, <2>4, <2>5
<1>6. QED
      BY <1>4, <1>5

-----------------------------------------------------------------------------
(* Tables. *)

LEMMA KindsDiffer ==
  /\ NoRow.kind = "none" /\ Gone.kind = "gone"
  /\ "none" \notin Kinds /\ "gone" \notin Kinds
  /\ \A x \in Row : x.kind \in Kinds
  /\ \A x \in Row \cup {NoRow, Gone} : x.kind \in Kinds => x \in Row
  /\ NoRow \notin Row /\ Gone \notin Row /\ NoRow # Gone
BY DEF NoRow, Gone, Kinds, Row

(* Rows change or go; none appears. *)
LEMMA ShrunkTable ==
  ASSUME NEW t, Keyed(t), NEW u,
         \A s \in Rows : u[s].kind = "gone" \/ (u[s].kind = t[s].kind /\ u[s].key = t[s].key)
  PROVE  Keyed(u) /\ Taken(u) \subseteq Taken(t)
<1>1. \A s \in Rows : u[s].kind \in Kinds => u[s].kind = t[s].kind /\ u[s].key = t[s].key
      BY DEF Kinds
<1>2. \A s \in Rows : u[s].kind = "task" => t[s].kind = "task" /\ u[s].key = t[s].key
      BY <1>1 DEF Kinds
<1>3. \A s \in Rows : u[s].kind = "idea" => t[s].kind = "idea" /\ u[s].key = t[s].key
      BY <1>1 DEF Kinds
<1>4. Keyed(u)
      BY <1>1, <1>2, <1>3 DEF Keyed
<1>5. Taken(u) \subseteq Taken(t)
      BY <1>2 DEF Taken
<1>6. QED
      BY <1>4, <1>5

(* A row is inserted, with a key of its own. *)
LEMMA InsertedTable ==
  ASSUME NEW t, Keyed(t), NEW u, NEW r \in Rows, t[r].kind = "none",
         \A s \in Rows \ {r} : u[s] = t[s],
         \A s \in Rows : t[s].kind = u[r].kind => t[s].key # u[r].key,
         u[r].kind = "task" => u[r].key \in 1 .. MaxHandle,
         u[r].kind = "idea" => u[r].key = r
  PROVE  Keyed(u) /\ (u[r].kind # "task" => Taken(u) = Taken(t))
<1>1. Keyed(u)
  <2>1. \A s \in Rows : u[s].kind = "task" => u[s].key \in 1 .. MaxHandle
        BY DEF Keyed
  <2>2. \A s \in Rows : u[s].kind = "idea" => u[s].key = s
        BY DEF Keyed
  <2>3. ASSUME NEW s \in Rows, NEW v \in Rows, u[s].kind \in Kinds, u[v].kind = u[s].kind,
               u[v].key = u[s].key
        PROVE  s = v
        BY <2>3 DEF Keyed
  <2>4. QED
        BY <2>1, <2>2, <2>3 DEF Keyed
<1>2. ASSUME u[r].kind # "task"
      PROVE  Taken(u) = Taken(t)
  <2>1. \A s \in Rows : u[s].kind = "task" => t[s] = u[s]
        BY <1>2
  <2>2. {s \in Rows : u[s].kind = "task"} = {s \in Rows : t[s].kind = "task"}
        BY <1>2
  <2>3. QED
        BY <2>1, <2>2 DEF Taken
<1>3. QED
      BY <1>1, <1>2

(* The log grows, and what it says of rows stays. *)
LEMMA OfferedKept ==
  ASSUME NEW t, NEW u, Kept(t, u), NEW d, NEW e, d \subseteq e, NEW r \in Rows,
         t[r] = Gone \/ t[r].kind \in Kinds, OfferedIn(t, d, r)
  PROVE  OfferedIn(u, e, r)
BY DEF OfferedIn, Kept

LEMMA AcceptedKept ==
  ASSUME NEW t, NEW u, Kept(t, u), NEW d, NEW e, d \subseteq e, d \subseteq Decision,
         NEW r \in Rows, t[r].kind \in Kinds, u[r] # Gone, Accepted(t, d, r)
  PROVE  Accepted(u, e, r)
<1>1. PICK x \in d :
        /\ x.decision = "trust" /\ x.by \in Reviewers
        /\ x.kind = t[r].kind /\ x.key = t[r].key
        /\ x.id = r \/ t[x.id] = Gone
        /\ OfferedIn(t, d, x.id)
      BY DEF Accepted
<1>2. x \in e /\ x.id \in Rows
      BY DEF Decision
<1>3. OfferedIn(u, e, x.id)
      BY <1>1, <1>2, OfferedKept
<1>4. u[r].kind = t[r].kind /\ u[r].key = t[r].key /\ (x.id = r \/ u[x.id] = Gone)
      BY <1>1, <1>2 DEF Kept
<1>5. QED
      BY <1>1, <1>2, <1>3, <1>4 DEF Accepted

LEMMA ReviewedKept ==
  ASSUME NEW t, NEW u, Kept(t, u), NEW d, NEW e, d \subseteq e, d \subseteq Decision,
         Reviewed(t, d), Justified(t, u, e)
  PROVE  Reviewed(u, e)
<1> SUFFICES ASSUME NEW r \in Rows, u[r].kind \in Kinds
             PROVE  /\ u[r].share = "ready_to_share" => OfferedIn(u, e, r)
                    /\ u[r].share = "trusted" /\ u[r].author \notin Managers => Accepted(u, e, r)
    BY DEF Reviewed
<1>1. u[r] # Gone
      BY KindsDiffer
<1>2. CASE t[r].kind \in Kinds /\ u[r].share = t[r].share
  <2>1. u[r].author = t[r].author
        BY <1>1, <1>2 DEF Kept
  <2>2. /\ t[r].share = "ready_to_share" => OfferedIn(t, d, r)
        /\ t[r].share = "trusted" /\ t[r].author \notin Managers => Accepted(t, d, r)
        BY <1>2 DEF Reviewed
  <2>3. OfferedIn(t, d, r) => OfferedIn(u, e, r)
        BY <1>2, OfferedKept
  <2>4. Accepted(t, d, r) => Accepted(u, e, r)
        BY <1>1, <1>2, AcceptedKept
  <2>5. QED
        BY <1>2, <2>1, <2>2, <2>3, <2>4
<1>3. CASE ~(t[r].kind \in Kinds /\ u[r].share = t[r].share)
      BY <1>3 DEF Justified
<1>4. QED
      BY <1>2, <1>3

LEMMA ReadersForType ==
  ASSUME NEW a \in Agents, NEW given \in ReadersGiven
  PROVE  ReadersFor(a, given) \in SUBSET GroupTokens
<1>1. GroupsOf[a] \subseteq GroupTokens /\ {"common"} \subseteq GroupTokens
      BY AccessAssumption DEF GroupTokens
<1>2. given # None => given \subseteq GroupTokens
      BY BoardAssumption
<1>3. QED
      BY <1>1, <1>2 DEF ReadersFor

LEMMA StubRow ==
  ASSUME NEW a \in Agents, NEW slug \in Slugs
  PROVE  /\ Stub(a, slug) \in Row /\ Stub(a, slug).kind = "project"
         /\ Stub(a, slug).key = slug /\ Stub(a, slug).author = a
         /\ Stub(a, slug).share = "trusted"
BY DEF Stub, Project, Row, Kinds, Keys

(* What looking for a project may do to the tables. *)
LEMMA ResolvedTable ==
  ASSUME TypeOK, Keyed(row), NEW a \in Agents, NEW slug \in Slugs \cup {None},
         NEW res \in Resolutions(a, slug)
  PROVE  /\ res.table \in Tables /\ Keyed(res.table) /\ res.id \in Rows \cup {None}
         /\ Taken(res.table) = Taken(row)
         /\ \A r \in Rows : row[r] # NoRow => res.table[r] = row[r]
         /\ \A r \in Rows : res.table[r].kind = "task" => res.table[r] = row[r]
         /\ \A r \in Rows : \/ res.table[r] = row[r]
                            \/ /\ row[r].kind = "none" /\ res.table[r].share = "trusted"
                               /\ res.table[r].author \in Managers
<1>1. row \in Tables
      BY DEF TypeOK, Tables
<1>2. CASE res.table = row /\ res.id \in Rows \cup {None}
      BY <1>1, <1>2
<1>3. CASE /\ slug # None /\ With("project", slug) = {} /\ a \in Managers
           /\ \E r \in Rows : /\ Free(r) /\ res.table = [row EXCEPT ![r] = Stub(a, slug)]
                              /\ res.id \in {r, None}
  <2>1. PICK r \in Rows : /\ Free(r) /\ res.table = [row EXCEPT ![r] = Stub(a, slug)]
                          /\ res.id \in {r, None}
        BY <1>3
  <2> DEFINE x == Stub(a, slug)
  <2>2. x \in Row /\ x.kind = "project" /\ x.key = slug /\ x.author = a /\ x.share = "trusted"
        BY <1>3, StubRow
  <2>3. \A s \in Rows : row[s].kind = x.kind => row[s].key # x.key
        BY <1>3, <2>2 DEF With, Of
  <2>4. /\ res.table \in Tables /\ Keyed(res.table) /\ Taken(res.table) = Taken(row)
        /\ res.table[r] = x /\ \A s \in Rows \ {r} : res.table[s] = row[s]
    <3>1. row[r].kind = "none"
          BY <2>1, KindsDiffer DEF Free
    <3>2. /\ res.table \in Tables
          /\ res.table[r] = x /\ \A s \in Rows \ {r} : res.table[s] = row[s]
          BY <1>1, <2>1, <2>2 DEF Tables
    <3> HIDE DEF x
    <3>3. Keyed(res.table) /\ Taken(res.table) = Taken(row)
          BY <2>2, <2>3, <3>1, <3>2, InsertedTable
    <3>4. QED
          BY <3>2, <3>3
  <2> HIDE DEF x
  <2>5. \A s \in Rows : row[s] # NoRow => res.table[s] = row[s]
        BY <2>1, <2>4 DEF Free
  <2>6. \A s \in Rows : res.table[s].kind = "task" => res.table[s] = row[s]
        BY <2>2, <2>4
  <2>7. /\ row[r].kind = "none" /\ res.table[r].share = "trusted"
        /\ res.table[r].author \in Managers
        BY <1>3, <2>1, <2>2, <2>4, KindsDiffer DEF Free
  <2>8. QED
        BY <2>1, <2>4, <2>5, <2>6, <2>7
<1>4. CASE slug = None
      BY <1>2, <1>4 DEF Resolutions
<1>5. CASE slug # None /\ Found(a, slug) # {}
  <2>1. Found(a, slug) \subseteq Rows
        BY DEF Found, SeenOf, Of
  <2>2. Resolutions(a, slug) = {[table |-> row, id |-> r] : r \in Found(a, slug)}
        BY <1>5 DEF Resolutions, Found
  <2>3. QED
        BY <1>2, <2>1, <2>2
<1>6. CASE slug # None /\ Found(a, slug) = {} /\ With("project", slug) # {} /\ a \in Managers
      BY <1>2, <1>6 DEF Resolutions
<1>7. CASE slug # None /\ With("project", slug) = {} /\ a \in Managers
  <2>1. Found(a, slug) = {}
        BY <1>7 DEF Found
  <2>2. res \in {[table |-> [row EXCEPT ![r] = Stub(a, slug)],
                  id    |-> IF Seen(a, Stub(a, slug)) THEN r ELSE None] : r \in {f \in Rows : Free(f)}}
        BY <1>7, <2>1 DEF Resolutions
  <2>3. PICK r \in {f \in Rows : Free(f)} :
          res = [table |-> [row EXCEPT ![r] = Stub(a, slug)],
                 id    |-> IF Seen(a, Stub(a, slug)) THEN r ELSE None]
        BY <2>2
  <2>4. r \in Rows /\ Free(r)
        OBVIOUS
  <2>5. res.table = [row EXCEPT ![r] = Stub(a, slug)] /\ res.id \in {r, None}
        BY <2>3
  <2>6. QED
        BY <1>3, <1>7, <2>4, <2>5
<1>8. CASE slug # None /\ Found(a, slug) = {} /\ a \notin Managers
      BY <1>8 DEF Resolutions
<1>9. QED
      BY <1>4, <1>5, <1>6, <1>7, <1>8

-----------------------------------------------------------------------------
(* Requests. *)

Requests == AddRequest \cup DecideRequest \cup {Idle}

LEMMA RequestFields ==
  ASSUME TypeOK, NEW p \in Workers
  PROVE  /\ req[p] \in Requests
         /\ req[p].op = "task_add" => req[p] \in AddRequest
         /\ req[p].op = "decide" => req[p] \in DecideRequest
BY DEF TypeOK, Requests, AddRequest, DecideRequest, Idle

LEMMA IdleIsNoRequest == Idle.op # "task_add" /\ Idle.op # "decide"
BY DEF Idle

(* Requests that are deciding are about the rows they have read. *)
LEMMA DecidingKept ==
  ASSUME TypeOK, NEW u, Kept(row, u), NEW e, decided \subseteq e,
         Deciding(req, row, decided)
  PROVE  Deciding(req, u, e)
<1> SUFFICES ASSUME NEW p \in Workers, req[p].op = "decide"
             PROVE  /\ req[p].by \in Reviewers
                    /\ Stands(req[p], u)
                    /\ OfferedIn(u, e, req[p].id)
    BY DEF Deciding
<1>1. req[p].id \in Rows /\ req[p].kind \in Kinds
      BY RequestFields DEF DecideRequest
<1>2. req[p].by \in Reviewers /\ Stands(req[p], row) /\ OfferedIn(row, decided, req[p].id)
      BY DEF Deciding
<1>3. row[req[p].id] = Gone \/ row[req[p].id].kind \in Kinds
      BY <1>1, <1>2 DEF Stands
<1>4. OfferedIn(u, e, req[p].id)
      BY <1>1, <1>2, <1>3, OfferedKept
<1>5. Stands(req[p], u)
      BY <1>1, <1>2, <1>3 DEF Stands, Kept
<1>6. QED
      BY <1>2, <1>4, <1>5

(* A handler of one step. *)
LEMMA AtOnceKeeps ==
  ASSUME IInv, req' = req, row' \in Tables, Keyed(row'), Taken(row') \subseteq Taken(row),
         dep' \subseteq Rows \X Rows, decided' \subseteq Decision, decided \subseteq decided',
         Kept(row, row'), RLS => Justified(row, row', decided')
  PROVE  IInv'
<1>1. decided \subseteq Decision /\ TypeOK
      BY DEF IInv, TypeOK
<1>2. TypeOK'
      BY DEF IInv, TypeOK, Tables
<1>3. Allocating(req', row')
      BY DEF IInv, Allocating
<1>4. RLS => Reviewed(row', decided') /\ Deciding(req, row', decided')
      BY <1>1, ReviewedKept, DecidingKept DEF IInv
<1>5. QED
      BY <1>2, <1>3, <1>4 DEF IInv

(* A request ends. *)
LEMMA FinishKeeps ==
  ASSUME IInv, NEW p \in Workers, Finish(p), req[p] # Idle, row' \in Tables, Keyed(row'),
         req[p].op = "task_add" \/ Taken(row') \subseteq Taken(row),
         dep' \subseteq Rows \X Rows, decided' \subseteq Decision, decided \subseteq decided',
         Kept(row, row'), RLS => Justified(row, row', decided')
  PROVE  IInv'
<1>1. req' = [req EXCEPT ![p] = Idle] /\ decided \subseteq Decision /\ TypeOK
      BY DEF Finish, IInv, TypeOK
<1>2. req \in [Workers -> Requests]
      BY DEF IInv, TypeOK, Requests
<1>3. /\ req' \in [Workers -> Requests]
      /\ req'[p] = Idle /\ \A q \in Workers \ {p} : req'[q] = req[q]
      BY <1>1, <1>2 DEF Requests
<1>4. TypeOK'
      BY <1>3 DEF IInv, TypeOK, Tables, Requests
<1>5. Allocating(req', row')
  <2>1. \A q \in Workers \ {p} : req[q].op = "task_add" => Taken(row') \subseteq Taken(row)
        BY DEF IInv, Allocating
  <2>2. QED
        BY <1>3, <2>1, IdleIsNoRequest DEF IInv, Allocating
<1>6. RLS => Reviewed(row', decided') /\ Deciding(req, row', decided')
      BY <1>1, ReviewedKept, DecidingKept DEF IInv
<1>7. RLS => Deciding(req', row', decided')
      BY <1>3, <1>6, IdleIsNoRequest DEF Deciding
<1>8. QED
      BY <1>4, <1>5, <1>6, <1>7 DEF IInv

(* A request begins. *)
LEMMA StartKeeps ==
  ASSUME IInv, NEW p \in Workers, NEW x \in AddRequest \cup DecideRequest, Start(p, x),
         RLS /\ x.op = "decide" =>
           x.by \in Reviewers /\ Stands(x, row) /\ OfferedIn(row, decided, x.id),
         x.op = "task_add" =>
           /\ \A q \in Workers : req[q].op # "task_add"
           /\ x.row.kind = "task" /\ x.row.key \in 1 .. MaxHandle /\ x.row.author = x.by
           /\ x.row.share # "ready_to_share"
           /\ x.by \in SeeAll => x.row.key \notin Taken(row)
  PROVE  IInv'
<1>1. /\ req[p] = Idle /\ req' = [req EXCEPT ![p] = x]
      /\ UNCHANGED <<row, dep, decided>>
      BY DEF Start
<1>2. req \in [Workers -> Requests]
      BY DEF IInv, TypeOK, Requests
<1>3. /\ req' \in [Workers -> Requests]
      /\ req'[p] = x /\ \A q \in Workers \ {p} : req'[q] = req[q]
      BY <1>1, <1>2 DEF Requests
<1>4. TypeOK'
      BY <1>1, <1>3 DEF IInv, TypeOK, Requests
<1>5. Allocating(req', row)
      BY <1>3 DEF IInv, Allocating
<1>6. RLS => Deciding(req', row, decided)
      BY <1>3 DEF IInv, Deciding
<1>7. QED
      BY <1>1, <1>4, <1>5, <1>6 DEF IInv

-----------------------------------------------------------------------------
(* The actions. *)

LEMMA InitIInv ==
  ASSUME Init
  PROVE  IInv
<1>1. TypeOK
      BY DEF Init, TypeOK
<1>2. \A r \in Rows : row[r].kind \notin Kinds
      BY KindsDiffer DEF Init
<1>3. Keyed(row) /\ Reviewed(row, decided)
      BY <1>2 DEF Keyed, Reviewed, Kinds
<1>4. \A p \in Workers : req[p] = Idle
      BY DEF Init
<1>5. Allocating(req, row) /\ Deciding(req, row, decided)
      BY <1>4, IdleIsNoRequest DEF Allocating, Deciding
<1>6. QED
      BY <1>1, <1>3, <1>4, <1>5, IdleIsNoRequest DEF IInv

LEMMA AbortKeeps ==
  ASSUME IInv, NEW p \in Workers, Abort(p)
  PROVE  IInv'
<1>1. req[p] # Idle /\ Finish(p) /\ row' = row /\ dep' = dep /\ decided' = decided
      BY DEF Abort
<1>2. /\ row' \in Tables /\ Keyed(row') /\ Taken(row') \subseteq Taken(row)
      /\ dep' \subseteq Rows \X Rows /\ decided' \subseteq Decision
      BY <1>1 DEF IInv, TypeOK, Tables
<1>3. decided \subseteq decided' /\ Kept(row, row') /\ Justified(row, row', decided')
      BY <1>1 DEF Kept, Justified
<1>4. QED
      BY <1>1, <1>2, <1>3, FinishKeeps

(* One step changes what does not matter to the review or the keys. *)
LEMMA UpdateKeeps ==
  ASSUME IInv, req' = req, NEW r \in Rows, row[r] \in Row, NEW x \in Row,
         row' = [row EXCEPT ![r] = x], x.kind = row[r].kind, x.key = row[r].key,
         x.author = row[r].author, x.share = row[r].share, UNCHANGED <<dep, decided>>
  PROVE  IInv'
<1>1. row \in Tables /\ Keyed(row)
      BY DEF IInv, TypeOK, Tables
<1>2. /\ row' \in Tables /\ Keyed(row') /\ Taken(row') \subseteq Taken(row)
      /\ row'[r] = x /\ \A s \in Rows \ {r} : row'[s] = row[s]
  <2>1. row' \in Tables /\ row'[r] = x /\ \A s \in Rows \ {r} : row'[s] = row[s]
        BY <1>1 DEF Tables
  <2>2. \A s \in Rows : row'[s].kind = row[s].kind /\ row'[s].key = row[s].key
        BY <2>1
  <2>3. QED
        BY <1>1, <2>1, <2>2, ShrunkTable
<1>3. Kept(row, row') /\ Justified(row, row', decided')
      BY <1>2, KindsDiffer DEF Kept, Justified
<1>4. dep' \subseteq Rows \X Rows /\ decided' \subseteq Decision /\ decided \subseteq decided'
      BY DEF IInv, TypeOK
<1>5. QED
      BY <1>2, <1>3, <1>4, AtOnceKeeps

(* One step inserts a row that needs no review. *)
LEMMA InsertKeeps ==
  ASSUME IInv, req' = req, NEW r \in Rows, row[r].kind = "none", row' \in Tables,
         \A s \in Rows \ {r} : row'[s] = row[s],
         row'[r].kind # "task", row'[r].kind = "idea" => row'[r].key = r,
         \A s \in Rows : row[s].kind = row'[r].kind => row[s].key # row'[r].key,
         \/ row'[r].share = "personal"
         \/ row'[r].share = "trusted" /\ row'[r].author \in Managers,
         UNCHANGED <<dep, decided>>
  PROVE  IInv'
<1>1. Keyed(row)
      BY DEF IInv
<1>2. Keyed(row') /\ Taken(row') = Taken(row)
      BY <1>1, InsertedTable
<1>3. Kept(row, row') /\ Justified(row, row', decided')
      BY KindsDiffer DEF Kept, Justified
<1>4. dep' \subseteq Rows \X Rows /\ decided' \subseteq Decision /\ decided \subseteq decided'
      BY DEF IInv, TypeOK
<1>5. QED
      BY <1>2, <1>3, <1>4, AtOnceKeeps

LEMMA PlanRow ==
  ASSUME NEW x \in Row, NEW plan \in SUBSET Sections
  PROVE  LET y == [x EXCEPT !.plan = plan]
         IN  /\ y \in Row /\ y.kind = x.kind /\ y.key = x.key /\ y.author = x.author
             /\ y.share = x.share
BY DEF Row

LEMMA PlanKeeps ==
  ASSUME IInv, req' = req, NEW r \in Rows, row[r].kind = "project", NEW plan \in SUBSET Sections,
         row' = [row EXCEPT ![r].plan = plan], UNCHANGED <<dep, decided>>
  PROVE  IInv'
<1> DEFINE x == [row[r] EXCEPT !.plan = plan]
<1>1. row \in [Rows -> Row \cup {NoRow, Gone}] /\ row[r] \in Row
      BY KindsDiffer DEF IInv, TypeOK, Kinds
<1>2. row' = [row EXCEPT ![r] = x]
      BY <1>1
<1>3. /\ x \in Row /\ x.kind = row[r].kind /\ x.key = row[r].key /\ x.author = row[r].author
      /\ x.share = row[r].share
      BY <1>1, PlanRow
<1> HIDE DEF x
<1>4. QED
      BY <1>1, <1>2, <1>3, UpdateKeeps

LEMMA ProjectAddKeeps ==
  ASSUME IInv, NEW a \in Agents, NEW slug \in Slugs, ProjectAdd(a, slug)
  PROVE  IInv'
<1> DEFINE share == IF a \in Managers THEN "trusted" ELSE "personal"
<1>1. PICK given \in ReadersGiven :
        LET new == Project(a, slug, share, ReadersFor(a, given), Sections)
        IN  \/ /\ With("project", slug) = {}
               /\ Insertable(a, new)
               /\ \E r \in Rows : Free(r) /\ row' = [row EXCEPT ![r] = new]
            \/ /\ a \in Managers
               /\ \E r \in With("project", slug) :
                    Seen(a, row[r]) /\ row' = [row EXCEPT ![r].plan = Sections]
      BY DEF ProjectAdd
<1>2. UNCHANGED <<dep, decided, req>>
      BY DEF ProjectAdd
<1> DEFINE new == Project(a, slug, share, ReadersFor(a, given), Sections)
<1>3. CASE With("project", slug) = {} /\ \E r \in Rows : Free(r) /\ row' = [row EXCEPT ![r] = new]
  <2>1. PICK r \in Rows : Free(r) /\ row' = [row EXCEPT ![r] = new]
        BY <1>3
  <2>2. /\ new \in Row /\ new.kind = "project" /\ new.key = slug
        /\ new.share = "personal" \/ (new.share = "trusted" /\ new.author \in Managers)
        BY ReadersForType DEF Project, Row, Kinds, Keys
  <2>3. \A s \in Rows : row[s].kind = new.kind => row[s].key # new.key
        BY <1>3, <2>2 DEF With, Of
  <2> HIDE DEF new
  <2>4. row[r].kind = "none" /\ row \in [Rows -> Row \cup {NoRow, Gone}]
        BY <2>1, KindsDiffer DEF Free, IInv, TypeOK
  <2>5. row' \in Tables /\ row'[r] = new /\ \A s \in Rows \ {r} : row'[s] = row[s]
        BY <2>1, <2>2, <2>4 DEF Tables
  <2>6. QED
        BY <1>2, <2>2, <2>3, <2>4, <2>5, InsertKeeps
<1>4. CASE \E r \in With("project", slug) : row' = [row EXCEPT ![r].plan = Sections]
  <2>1. PICK r \in With("project", slug) : row' = [row EXCEPT ![r].plan = Sections]
        BY <1>4
  <2>2. r \in Rows /\ row[r].kind = "project"
        BY DEF With, Of
  <2>3. Sections \in SUBSET Sections
        OBVIOUS
  <2>4. QED
        BY <1>2, <2>1, <2>2, <2>3, PlanKeeps
<1>5. QED
      BY <1>1, <1>3, <1>4

LEMMA SectionKeeps ==
  ASSUME IInv, NEW a \in Agents, NEW r \in Rows, NEW s \in Sections,
         SectionSet(a, r, s) \/ SectionDel(a, r, s)
  PROVE  IInv'
<1>1. r \in SeenOf(a, "project") /\ UNCHANGED <<dep, decided, req>>
      BY DEF SectionSet, SectionDel
<1>2. row[r].kind = "project"
      BY <1>1 DEF SeenOf, Of
<1>3. row[r] \in Row
      BY <1>2, KindsDiffer DEF IInv, TypeOK, Kinds
<1>4. row[r].plan \subseteq Sections
      BY <1>3 DEF Row
<1>5. CASE SectionSet(a, r, s)
  <2>1. row' = [row EXCEPT ![r].plan = row[r].plan \cup {s}]
        BY <1>5 DEF SectionSet
  <2>2. row[r].plan \cup {s} \in SUBSET Sections
        BY <1>4
  <2>3. QED
        BY <1>1, <1>2, <2>1, <2>2, PlanKeeps
<1>6. CASE SectionDel(a, r, s)
  <2>1. row' = [row EXCEPT ![r].plan = row[r].plan \ {s}]
        BY <1>6 DEF SectionDel
  <2>2. row[r].plan \ {s} \in SUBSET Sections
        BY <1>4
  <2>3. QED
        BY <1>1, <1>2, <2>1, <2>2, PlanKeeps
<1>7. QED
      BY <1>5, <1>6

LEMMA IdeaAddKeeps ==
  ASSUME IInv, NEW a \in Agents, NEW r \in Rows, IdeaAdd(a, r)
  PROVE  IInv'
<1>1. PICK given \in ReadersGiven :
        row' = [row EXCEPT ![r] =
                 [kind |-> "idea", key |-> r, author |-> a,
                  share |-> IF a \in Managers THEN "trusted" ELSE "personal",
                  readers |-> ReadersFor(a, given), tier |-> 0, done |-> FALSE,
                  project |-> None, plan |-> {}]]
      BY DEF IdeaAdd
<1> DEFINE new == [kind |-> "idea", key |-> r, author |-> a,
                   share |-> IF a \in Managers THEN "trusted" ELSE "personal",
                   readers |-> ReadersFor(a, given), tier |-> 0, done |-> FALSE,
                   project |-> None, plan |-> {}]
<1>2. /\ new \in Row /\ new.kind = "idea" /\ new.key = r
      /\ new.share = "personal" \/ (new.share = "trusted" /\ new.author \in Managers)
      BY ReadersForType DEF Row, Kinds, Keys
<1>3. Free(r) /\ UNCHANGED <<dep, decided, req>> /\ row' = [row EXCEPT ![r] = new]
      BY <1>1 DEF IdeaAdd
<1> HIDE DEF new
<1>4. row[r].kind = "none" /\ row \in [Rows -> Row \cup {NoRow, Gone}]
      BY <1>3, KindsDiffer DEF Free, IInv, TypeOK
<1>5. row' \in Tables /\ row'[r] = new /\ \A s \in Rows \ {r} : row'[s] = row[s]
      BY <1>2, <1>3, <1>4 DEF Tables
<1>6. ASSUME NEW s \in Rows, row[s].kind = "idea"
      PROVE  row[s].key # r
      BY <1>4, <1>6 DEF IInv, Keyed
<1>7. /\ row'[r].kind = "idea" /\ row'[r].key = r
      /\ row'[r].share = "personal" \/ (row'[r].share = "trusted" /\ row'[r].author \in Managers)
      BY <1>2, <1>5
<1>8. \A s \in Rows : row[s].kind = row'[r].kind => row[s].key # row'[r].key
      BY <1>6, <1>7
<1>9. QED
      BY <1>3, <1>4, <1>5, <1>7, <1>8, InsertKeeps

LEMMA IdeaUpdateKeeps ==
  ASSUME IInv, NEW a \in Agents, NEW r \in Rows, IdeaUpdate(a, r)
  PROVE  IInv'
<1>1. PICK pr \in SeenOf(a, "project") : row' = [row EXCEPT ![r].project = pr]
      BY DEF IdeaUpdate
<1>2. UNCHANGED <<dep, decided, req>> /\ r \in SeenOf(a, "idea")
      BY DEF IdeaUpdate
<1>3. row[r].kind = "idea" /\ pr \in Rows
      BY <1>2 DEF SeenOf, Of
<1> DEFINE x == [row[r] EXCEPT !.project = pr]
<1>4. row \in [Rows -> Row \cup {NoRow, Gone}] /\ row[r] \in Row
      BY <1>3, KindsDiffer DEF IInv, TypeOK, Kinds
<1>5. row' = [row EXCEPT ![r] = x]
      BY <1>1, <1>4
<1>6. /\ x \in Row /\ x.kind = row[r].kind /\ x.key = row[r].key /\ x.author = row[r].author
      /\ x.share = row[r].share
      BY <1>3, <1>4 DEF Row
<1> HIDE DEF x
<1>7. QED
      BY <1>2, <1>4, <1>5, <1>6, UpdateKeeps

LEMMA StructureShareKeeps ==
  ASSUME IInv, NEW a \in Agents, NEW r \in Rows, StructureShare(a, r)
  PROVE  IInv'
<1>1. /\ r \in Live /\ row[r].author = a
      /\ row' = [row EXCEPT ![r].share = "ready_to_share"]
      /\ decided' = decided \cup {[decision |-> "share", by |-> a, id |-> r,
                                   kind |-> row[r].kind, key |-> row[r].key]}
      /\ req' = req /\ dep' = dep
      BY DEF StructureShare
<1> DEFINE x == [row[r] EXCEPT !.share = "ready_to_share"]
<1>2. row \in [Rows -> Row \cup {NoRow, Gone}] /\ row[r] \in Row
      BY <1>1, KindsDiffer DEF IInv, TypeOK, Live, Of
<1>3. x \in Row /\ x.kind = row[r].kind /\ x.key = row[r].key /\ x.author = a
      /\ x.share = "ready_to_share"
      BY <1>1, <1>2 DEF Row
<1>4. row' = [row EXCEPT ![r] = x]
      BY <1>1, <1>2
<1> HIDE DEF x
<1>5. row' \in Tables /\ row'[r] = x /\ \A s \in Rows \ {r} : row'[s] = row[s]
      BY <1>2, <1>3, <1>4 DEF Tables
<1>6. Keyed(row') /\ Taken(row') \subseteq Taken(row)
  <2>1. \A s \in Rows : row'[s].kind = row[s].kind /\ row'[s].key = row[s].key
        BY <1>3, <1>5
  <2>2. QED
        BY <2>1, ShrunkTable DEF IInv
<1>7. OfferedIn(row', decided', r)
  <2>1. \E y \in decided' : y.decision = "share" /\ y.by = a /\ y.id = r
    <3> DEFINE y == [decision |-> "share", by |-> a, id |-> r,
                     kind |-> row[r].kind, key |-> row[r].key]
    <3>1. y \in decided'
          BY <1>1
    <3>2. y.decision = "share" /\ y.by = a /\ y.id = r
          OBVIOUS
    <3> HIDE DEF y
    <3>3. QED
          BY <3>1, <3>2
  <2>2. row'[r].author = a
        BY <1>3, <1>5
  <2>3. QED
        BY <2>1, <2>2 DEF OfferedIn
<1>8. Kept(row, row') /\ Justified(row, row', decided')
      BY <1>1, <1>2, <1>3, <1>5, <1>7, KindsDiffer DEF Kept, Justified
<1>9. dep' \subseteq Rows \X Rows /\ decided' \subseteq Decision /\ decided \subseteq decided'
  <2>1. /\ row[r].kind \in Kinds /\ row[r].key \in Keys /\ a \in Agents
        /\ decided \subseteq Decision
        BY <1>2 DEF Row, IInv, TypeOK
  <2>2. QED
        BY <1>1, <2>1 DEF Decision, IInv, TypeOK
<1>10. QED
       BY <1>1, <1>5, <1>6, <1>8, <1>9, AtOnceKeeps

LEMMA TaskUpdateKeeps ==
  ASSUME IInv, NEW a \in Agents, NEW t \in Rows, TaskUpdate(a, t)
  PROVE  IInv'
<1>1. PICK done \in BOOLEAN, tier \in Tiers, readers \in ReadersGiven,
           slug \in Slugs \cup {None}, blockers \in SUBSET (SeenOf(a, "task") \ {t}) :
      \E res \in Resolutions(a, slug) :
        LET new == [row[t] EXCEPT !.done = done, !.tier = tier,
                      !.readers = IF readers = None THEN @ ELSE readers,
                      !.project = IF slug = None THEN @ ELSE res.id]
        IN  /\ a \notin Managers => tier = row[t].tier /\ readers = None
            /\ Seen(a, new)
            /\ row' = [res.table EXCEPT ![t] = new]
            /\ dep' = {d \in dep : d[1] # t \/ d[2] \notin SeenOf(a, "task")}
                         \cup {<<t, b>> : b \in blockers}
      BY Zenon DEF TaskUpdate
<1>2. PICK res \in Resolutions(a, slug) :
        LET new == [row[t] EXCEPT !.done = done, !.tier = tier,
                      !.readers = IF readers = None THEN @ ELSE readers,
                      !.project = IF slug = None THEN @ ELSE res.id]
        IN  /\ row' = [res.table EXCEPT ![t] = new]
            /\ dep' = {d \in dep : d[1] # t \/ d[2] \notin SeenOf(a, "task")}
                         \cup {<<t, b>> : b \in blockers}
      BY <1>1
<1>3. t \in SeenOf(a, "task") /\ req' = req /\ decided' = decided
      BY DEF TaskUpdate
<1>4. row[t].kind = "task" /\ row[t] \in Row /\ row[t] # NoRow
      BY <1>3, KindsDiffer DEF SeenOf, Of, IInv, TypeOK, Kinds
<1>5. /\ res.table \in Tables /\ Keyed(res.table) /\ res.id \in Rows \cup {None}
      /\ Taken(res.table) = Taken(row) /\ res.table[t] = row[t]
      /\ \A r \in Rows : \/ res.table[r] = row[r]
                         \/ /\ row[r].kind = "none" /\ res.table[r].share = "trusted"
                            /\ res.table[r].author \in Managers
      BY <1>4, ResolvedTable DEF IInv
<1> DEFINE new == [row[t] EXCEPT !.done = done, !.tier = tier,
                     !.readers = IF readers = None THEN @ ELSE readers,
                     !.project = IF slug = None THEN @ ELSE res.id]
<1>6. row' = [res.table EXCEPT ![t] = new]
      BY <1>2
<1>7. /\ new \in Row /\ new.kind = row[t].kind /\ new.key = row[t].key
      /\ new.author = row[t].author /\ new.share = row[t].share
  <2>1. readers # None => readers \in SUBSET GroupTokens
        BY BoardAssumption
  <2>2. DEFINE own == IF readers = None THEN row[t].readers ELSE readers
               project == IF slug = None THEN row[t].project ELSE res.id
  <2>3. own \in SUBSET GroupTokens /\ project \in Rows \cup {None}
        BY <1>4, <1>5, <2>1 DEF Row
  <2>4. new = [row[t] EXCEPT !.done = done, !.tier = tier, !.readers = own, !.project = project]
        BY <1>4 DEF Row
  <2> HIDE DEF own, project, new
  <2>5. QED
        BY <1>4, <2>3, <2>4 DEF Row
<1> HIDE DEF new
<1>8. row' \in Tables /\ row'[t] = new /\ \A s \in Rows \ {t} : row'[s] = res.table[s]
      BY <1>5, <1>6, <1>7 DEF Tables
<1>9. Keyed(row') /\ Taken(row') \subseteq Taken(row)
  <2>1. \A s \in Rows : row'[s].kind = res.table[s].kind /\ row'[s].key = res.table[s].key
        BY <1>5, <1>7, <1>8
  <2>2. Keyed(row') /\ Taken(row') \subseteq Taken(res.table)
        BY <1>5, <2>1, ShrunkTable
  <2>3. QED
        BY <1>5, <2>2
<1>10. Kept(row, row') /\ Justified(row, row', decided')
  <2>1. \A s \in Rows \ {t} : \/ row'[s] = row[s]
                             \/ /\ row[s].kind = "none" /\ row'[s].share = "trusted"
                                /\ row'[s].author \in Managers
        BY <1>5, <1>8
  <2>2. QED
        BY <1>4, <1>7, <1>8, <2>1, KindsDiffer DEF Kept, Justified
<1>11. dep' \subseteq Rows \X Rows
  <2>1. blockers \subseteq Rows /\ dep \subseteq Rows \X Rows
        BY DEF SeenOf, Of, IInv, TypeOK
  <2>2. QED
        BY <1>2, <2>1
<1>12. decided' \subseteq Decision /\ decided \subseteq decided'
      BY <1>3 DEF IInv, TypeOK
<1>13. QED
      BY <1>3, <1>8, <1>9, <1>10, <1>11, <1>12, AtOnceKeeps

LEMMA TaskAddBeginKeeps ==
  ASSUME IInv, NEW p \in Workers, NEW a \in Agents, TaskAddBegin(p, a)
  PROVE  IInv'
<1>1. NextHandle(a) <= MaxHandle /\ \A q \in Workers : req[q].op # "task_add"
      BY DEF TaskAddBegin, AllocationLocked
<1>2. PICK slug \in Slugs \cup {None}, share \in {"personal", "trusted"},
           given \in ReadersGiven, tier \in Tiers, blockers \in SUBSET SeenOf(a, "task") :
      \E res \in Resolutions(a, slug) :
        Start(p, [op |-> "task_add", by |-> a, blockers |-> blockers,
                  stub |-> IF res.table = row THEN None ELSE slug,
                  row |-> [kind |-> "task", key |-> NextHandle(a), author |-> a,
                           share |-> share, readers |-> ReadersFor(a, given), tier |-> tier,
                           done |-> FALSE, plan |-> {},
                           project |-> IF res.table = row THEN res.id ELSE None]])
      BY DEF TaskAddBegin
<1>3. PICK res \in Resolutions(a, slug) :
        Start(p, [op |-> "task_add", by |-> a, blockers |-> blockers,
                  stub |-> IF res.table = row THEN None ELSE slug,
                  row |-> [kind |-> "task", key |-> NextHandle(a), author |-> a,
                           share |-> share, readers |-> ReadersFor(a, given), tier |-> tier,
                           done |-> FALSE, plan |-> {},
                           project |-> IF res.table = row THEN res.id ELSE None]])
      BY <1>2
<1>4. /\ NextHandle(a) \in 1 .. MaxHandle
      /\ a \in SeeAll => NextHandle(a) \notin Taken(row)
      BY <1>1, NextHandleIsNew DEF IInv
<1>5. res.id \in Rows \cup {None} /\ blockers \subseteq Rows
      BY ResolvedTable DEF IInv, SeenOf, Of
<1> DEFINE new == [kind |-> "task", key |-> NextHandle(a), author |-> a,
                   share |-> share, readers |-> ReadersFor(a, given), tier |-> tier,
                   done |-> FALSE, plan |-> {},
                   project |-> IF res.table = row THEN res.id ELSE None]
           stub == IF res.table = row THEN None ELSE slug
           x == [op |-> "task_add", by |-> a, blockers |-> blockers, stub |-> stub, row |-> new]
<1>6. /\ new \in Row /\ new.kind = "task" /\ new.key = NextHandle(a) /\ new.author = a
      /\ new.share # "ready_to_share"
      BY <1>4, <1>5, ReadersForType DEF Row, Kinds, Keys
<1>7. stub \in Slugs \cup {None}
      OBVIOUS
<1>8. Start(p, x)
      BY <1>3
<1> HIDE DEF new, stub
<1>9. x \in AddRequest
      BY <1>5, <1>6, <1>7 DEF AddRequest
<1>10. x.op = "task_add" /\ x.row = new /\ x.by = a
      OBVIOUS
<1> HIDE DEF x
<1>11. QED
      BY <1>1, <1>4, <1>6, <1>8, <1>9, <1>10, StartKeeps

LEMMA DecideBeginKeeps ==
  ASSUME IInv, NEW p \in Workers, NEW a \in Agents, NEW r \in Rows, DecideBegin(p, a, r)
  PROVE  IInv'
<1>1. PICK decision \in {"trust", "delete"} :
        Start(p, [op |-> "decide", by |-> a, decision |-> decision, id |-> r,
                  kind |-> row[r].kind, key |-> row[r].key])
      BY DEF DecideBegin
<1>2. a \in Reviewers /\ r \in Live /\ row[r].share = "ready_to_share"
      BY DEF DecideBegin, Awaiting
<1>3. row[r] \in Row /\ row[r].kind \in Kinds
      BY <1>2, KindsDiffer DEF Live, Of, IInv, TypeOK
<1>4. row[r].key \in Keys
      BY <1>3 DEF Row
<1> DEFINE x == [op |-> "decide", by |-> a, decision |-> decision, id |-> r,
                 kind |-> row[r].kind, key |-> row[r].key]
<1>5. x \in DecideRequest
      BY <1>3, <1>4 DEF DecideRequest
<1>6. x.op = "decide" /\ x.by = a /\ x.id = r /\ Stands(x, row)
      BY DEF Stands
<1>7. Start(p, x)
      BY <1>1
<1> HIDE DEF x
<1>8. RLS => OfferedIn(row, decided, r)
      BY <1>2, <1>3 DEF IInv, Reviewed
<1>9. QED
      BY <1>2, <1>5, <1>6, <1>7, <1>8, StartKeeps

LEMMA TaskAddEndKeeps ==
  ASSUME IInv, NEW p \in Workers, TaskAddEnd(p)
  PROVE  IInv'
<1> DEFINE r == req[p]
<1>1. /\ r.op = "task_add" /\ With("task", r.row.key) = {} /\ Insertable(r.by, r.row)
      /\ r.blockers \subseteq Of("task")
      /\ Finish(p) /\ decided' = decided
      BY DEF TaskAddEnd
<1>2. /\ r \in AddRequest /\ r.row \in Row /\ r.by \in Agents /\ r.stub \in Slugs \cup {None}
      /\ r # Idle
      BY <1>1, RequestFields, IdleIsNoRequest DEF IInv, AddRequest
<1>3. /\ r.row.kind = "task" /\ r.row.key \in 1 .. MaxHandle /\ r.row.author = r.by
      /\ r.row.share \in {"personal", "trusted"}
      BY <1>1, <1>2 DEF IInv, Allocating, Row
<1>4. PICK res \in Resolutions(r.by, r.stub), t \in Rows :
        /\ res.table[t] = NoRow
        /\ row' = [res.table EXCEPT ![t] =
                    IF r.stub = None THEN r.row ELSE [r.row EXCEPT !.project = res.id]]
        /\ dep' = dep \cup {<<t, b>> : b \in r.blockers}
      BY DEF TaskAddEnd
<1>5. /\ res.table \in Tables /\ Keyed(res.table) /\ res.id \in Rows \cup {None}
      /\ \A s \in Rows : res.table[s].kind = "task" => res.table[s] = row[s]
      /\ \A s \in Rows : \/ res.table[s] = row[s]
                         \/ /\ row[s].kind = "none" /\ res.table[s].share = "trusted"
                            /\ res.table[s].author \in Managers
      /\ \A s \in Rows : row[s] # NoRow => res.table[s] = row[s]
      BY <1>2, ResolvedTable DEF IInv
<1> DEFINE new == IF r.stub = None THEN r.row ELSE [r.row EXCEPT !.project = res.id]
<1>6. /\ new \in Row /\ new.kind = "task" /\ new.key = r.row.key /\ new.author = r.by
      /\ new.share = r.row.share
  <2>1. CASE r.stub = None
        BY <1>2, <1>3, <2>1
  <2>2. CASE r.stub # None
    <3>1. new = [r.row EXCEPT !.project = res.id]
          BY <2>2
    <3> HIDE DEF new
    <3>2. QED
          BY <1>2, <1>3, <1>5, <3>1 DEF Row
  <2>3. QED
        BY <2>1, <2>2
<1>7. row' = [res.table EXCEPT ![t] = new]
      BY <1>4
<1> HIDE DEF new
<1>8. row' \in Tables /\ row'[t] = new /\ \A s \in Rows \ {t} : row'[s] = res.table[s]
      BY <1>5, <1>6, <1>7 DEF Tables
<1>9. Keyed(row')
  <2>1. ASSUME NEW s \in Rows, res.table[s].kind = row'[t].kind
        PROVE  res.table[s].key # row'[t].key
    <3>1. res.table[s] = row[s] /\ row[s].kind = "task"
          BY <1>5, <1>6, <1>8, <2>1
    <3>2. row[s].key # r.row.key
          BY <1>1, <3>1 DEF With, Of
    <3>3. QED
          BY <1>6, <1>8, <3>1, <3>2
  <2>2. res.table[t].kind = "none"
        BY <1>4, KindsDiffer
  <2>3. row'[t].kind = "task" /\ row'[t].key \in 1 .. MaxHandle
        BY <1>3, <1>6, <1>8
  <2>4. \A s \in Rows \ {t} : row'[s] = res.table[s]
        BY <1>8
  <2>5. Keyed(res.table)
        BY <1>5
  <2>6. QED
        BY <2>1, <2>2, <2>3, <2>4, <2>5, InsertedTable
<1>10. Kept(row, row') /\ (RLS => Justified(row, row', decided'))
  <2>1. RLS => new.share = "personal" \/ (new.share = "trusted" /\ new.author \in Managers)
        BY <1>1, <1>3, <1>6 DEF Insertable, WriteCheck
  <2>2. row[t].kind = "none"
        BY <1>4, <1>5, KindsDiffer
  <2>3. \A s \in Rows \ {t} : \/ row'[s] = row[s]
                             \/ /\ row[s].kind = "none" /\ row'[s].share = "trusted"
                                /\ row'[s].author \in Managers
        BY <1>5, <1>8
  <2>4. Kept(row, row')
        BY <2>2, <2>3, KindsDiffer DEF Kept
  <2>5. RLS => Justified(row, row', decided')
        BY <1>8, <2>1, <2>3 DEF Justified
  <2>6. QED
        BY <2>4, <2>5
<1>11. dep' \subseteq Rows \X Rows
  <2>1. r.blockers \subseteq Rows /\ dep \subseteq Rows \X Rows
        BY <1>1 DEF Of, IInv, TypeOK
  <2>2. QED
        BY <1>4, <2>1
<1>12. decided' \subseteq Decision /\ decided \subseteq decided'
      BY <1>1 DEF IInv, TypeOK
<1>13. QED
       BY <1>1, <1>2, <1>8, <1>9, <1>10, <1>11, <1>12, FinishKeeps

(* The answer of a review is logged. *)
LEMMA AnswerLogged ==
  ASSUME IInv, NEW p \in Workers, req[p].op = "decide", Answer(p)
  PROVE  /\ req[p] \in DecideRequest /\ req[p] # Idle
         /\ decided' \subseteq Decision /\ decided \subseteq decided'
         /\ \E x \in decided' : /\ x.decision = req[p].decision /\ x.by = req[p].by
                              /\ x.id = req[p].id /\ x.kind = req[p].kind /\ x.key = req[p].key
<1>1. req[p] \in DecideRequest /\ req[p] # Idle
      BY RequestFields, IdleIsNoRequest DEF IInv
<1>2. decided \subseteq Decision
      BY DEF IInv, TypeOK
<1> DEFINE y == [decision |-> req[p].decision, by |-> req[p].by, id |-> req[p].id,
                 kind |-> req[p].kind, key |-> req[p].key]
<1>3. decided' = decided \cup {y}
      BY DEF Answer
<1>4. y \in Decision
      BY <1>1 DEF DecideRequest, Decision
<1>5. QED
      BY <1>1, <1>2, <1>3, <1>4

LEMMA TrustEndKeeps ==
  ASSUME IInv, NEW p \in Workers, TrustEnd(p)
  PROVE  IInv'
<1>1. /\ req[p].op = "decide" /\ req[p].decision = "trust"
      /\ Answer(p) /\ Finish(p) /\ dep' = dep
      BY Zenon DEF TrustEnd
<1>2. row' = [r \in Rows |-> IF r \in Trusted(p) THEN [row[r] EXCEPT !.share = "trusted"]
                                                 ELSE row[r]]
      BY DEF TrustEnd
<1>3. /\ req[p] \in DecideRequest /\ req[p] # Idle /\ decided' \subseteq Decision
      /\ decided \subseteq decided'
      /\ \E x \in decided' : /\ x.decision = "trust" /\ x.by = req[p].by
                           /\ x.id = req[p].id /\ x.kind = req[p].kind /\ x.key = req[p].key
      BY <1>1, AnswerLogged
<1>4. \A r \in Trusted(p) :
        r \in Rows /\ row[r].kind = req[p].kind /\ row[r].key = req[p].key /\ row[r] \in Row
      BY <1>3, KindsDiffer DEF Trusted, With, Of, DecideRequest, IInv, TypeOK
<1>5. \A r \in Trusted(p) : /\ row'[r] = [row[r] EXCEPT !.share = "trusted"]
                            /\ row'[r] \in Row /\ row'[r].kind = row[r].kind
                            /\ row'[r].key = row[r].key /\ row'[r].author = row[r].author
  <2>1. SUFFICES ASSUME NEW r \in Trusted(p)
                 PROVE  /\ row'[r] = [row[r] EXCEPT !.share = "trusted"]
                        /\ row'[r] \in Row /\ row'[r].kind = row[r].kind
                        /\ row'[r].key = row[r].key /\ row'[r].author = row[r].author
        OBVIOUS
  <2>2. row'[r] = [row[r] EXCEPT !.share = "trusted"]
        BY <1>2, <1>4
  <2>3. row[r] \in Row
        BY <1>4
  <2>4. QED
        BY <2>2, <2>3 DEF Row
<1>6. \A r \in Rows \ Trusted(p) : row'[r] = row[r]
      BY <1>2
<1>7. row' \in Tables
  <2>1. \A r \in Rows : row'[r] \in Row \cup {NoRow, Gone}
        BY <1>5, <1>6 DEF IInv, TypeOK
  <2>2. QED
        BY <1>2, <2>1 DEF Tables
<1>8. Keyed(row') /\ Taken(row') \subseteq Taken(row)
  <2>1. \A r \in Rows : row'[r].kind = row[r].kind /\ row'[r].key = row[r].key
        BY <1>5, <1>6
  <2>2. QED
        BY <2>1, ShrunkTable DEF IInv
<1>9. Kept(row, row')
      BY <1>4, <1>5, <1>6, KindsDiffer DEF Kept
<1>10. RLS => Justified(row, row', decided')
  <2> SUFFICES ASSUME RLS, NEW r \in Trusted(p)
               PROVE  row'[r].share = "trusted" /\ Accepted(row', decided', r)
      BY <1>6 DEF Justified
  <2>1. r \in Rows /\ row[r].kind = req[p].kind /\ row[r].key = req[p].key /\ row[r] \in Row
        BY <1>4
  <2>2. row'[r].share = "trusted" /\ row'[r].kind = row[r].kind /\ row'[r].key = row[r].key
        BY <1>5, <2>1 DEF Row
  <2>3. /\ req[p].by \in Reviewers /\ Stands(req[p], row)
        /\ OfferedIn(row, decided, req[p].id)
        BY <1>1 DEF IInv, Deciding
  <2>4. req[p].id \in Rows /\ req[p].kind \in Kinds
        BY <1>3 DEF DecideRequest
  <2>5. OfferedIn(row', decided', req[p].id)
        BY <1>3, <1>9, <2>3, <2>4, OfferedKept DEF Stands
  <2>6. req[p].id = r \/ row'[req[p].id] = Gone
    <3>1. CASE row[req[p].id] = Gone
          BY <1>9, <2>4, <3>1 DEF Kept
    <3>2. CASE row[req[p].id].kind = req[p].kind /\ row[req[p].id].key = req[p].key
          BY <2>1, <2>4, <3>2 DEF IInv, Keyed
    <3>3. QED
          BY <2>3, <3>1, <3>2 DEF Stands
  <2>7. Accepted(row', decided', r)
        BY <1>3, <2>1, <2>2, <2>3, <2>5, <2>6 DEF Accepted
  <2>8. QED
        BY <2>2, <2>7
<1>11. dep' \subseteq Rows \X Rows
       BY <1>1 DEF IInv, TypeOK
<1>12. QED
       BY <1>1, <1>3, <1>7, <1>8, <1>9, <1>10, <1>11, FinishKeeps

(* What deleting rows leaves. *)
LEMMA WithoutTable ==
  ASSUME TypeOK, NEW gone \in SUBSET Rows, NEW u, u = Without(gone)
  PROVE  /\ u \in Tables
         /\ \A r \in gone : u[r] = Gone
         /\ \A r \in Rows \ gone : /\ u[r].kind = row[r].kind
                                   /\ u[r].kind \in Kinds =>
                                        /\ u[r].key = row[r].key /\ u[r].author = row[r].author
                                        /\ u[r].share = row[r].share
                                   /\ u[r].key = row[r].key \/ u[r] = row[r]
<1>1. u = [r \in Rows |->
             CASE r \in gone -> Gone
               [] r \in Live \ gone /\ row[r].project \in gone -> [row[r] EXCEPT !.project = None]
               [] OTHER -> row[r]]
      BY DEF Without
<1>2. \A r \in gone : u[r] = Gone
      BY <1>1
<1>3. row \in [Rows -> Row \cup {NoRow, Gone}]
      BY DEF TypeOK
<1>4. ASSUME NEW r \in Rows \ gone
      PROVE  /\ u[r] \in Row \cup {NoRow, Gone} /\ u[r].kind = row[r].kind
             /\ u[r] = row[r] \/ /\ u[r].key = row[r].key /\ u[r].author = row[r].author
                                 /\ u[r].share = row[r].share
  <2>1. CASE r \in Live /\ row[r].project \in gone
    <3>1. u[r] = [row[r] EXCEPT !.project = None]
          BY <1>1, <2>1
    <3>2. row[r] \in Row
          BY <1>3, <2>1, KindsDiffer DEF Live, Of
    <3>3. QED
          BY <3>1, <3>2 DEF Row
  <2>2. CASE ~(r \in Live /\ row[r].project \in gone)
    <3>1. u[r] = row[r]
          BY <1>1, <2>2
    <3>2. QED
          BY <1>3, <3>1
  <2>3. QED
        BY <2>1, <2>2
<1>5. u \in Tables
  <2>1. \A r \in Rows : u[r] \in Row \cup {NoRow, Gone}
        BY <1>2, <1>4
  <2>2. QED
        BY <1>1, <2>1 DEF Tables
<1>6. QED
      BY <1>2, <1>4, <1>5

LEMMA DeleteEndKeeps ==
  ASSUME IInv, NEW p \in Workers, DeleteEnd(p)
  PROVE  IInv'
<1> DEFINE gone == {r \in With(req[p].kind, req[p].key) :
                      Awaiting(r) /\ Deletable(req[p].by, row[r])}
<1>1. req[p].op = "decide" /\ Answer(p) /\ Finish(p)
      BY Zenon DEF DeleteEnd
<1>2. /\ row' = Without(gone)
      /\ dep' = {d \in dep : d[1] \notin gone /\ d[2] \notin gone}
      BY DEF DeleteEnd
<1>3. gone \in SUBSET Rows
      BY DEF With, Of
<1> HIDE DEF gone
<1>4. req[p] # Idle /\ decided' \subseteq Decision /\ decided \subseteq decided'
      BY <1>1, AnswerLogged
<1>5. /\ row' \in Tables
      /\ \A r \in gone : row'[r] = Gone
      /\ \A r \in Rows \ gone : /\ row'[r].kind = row[r].kind
                                /\ row'[r].kind \in Kinds =>
                                     /\ row'[r].key = row[r].key
                                     /\ row'[r].author = row[r].author
                                     /\ row'[r].share = row[r].share
                                /\ row'[r].key = row[r].key \/ row'[r] = row[r]
      BY <1>2, <1>3, WithoutTable DEF IInv
<1>6. Keyed(row') /\ Taken(row') \subseteq Taken(row)
  <2>1. \A r \in Rows : \/ row'[r].kind = "gone"
                        \/ row'[r].kind = row[r].kind /\ row'[r].key = row[r].key
        BY <1>5, KindsDiffer
  <2>2. QED
        BY <2>1, ShrunkTable DEF IInv
<1>7. Kept(row, row') /\ Justified(row, row', decided')
  <2>1. \A r \in Rows : row[r] = Gone => row'[r] = Gone
    <3>1. \A x \in Row \cup {NoRow, Gone} : x.kind = "gone" => x = Gone
          BY KindsDiffer
    <3>2. \A r \in Rows : row'[r] \in Row \cup {NoRow, Gone}
          BY <1>5 DEF Tables
    <3>3. ASSUME NEW r \in Rows \ gone, row[r] = Gone
          PROVE  row'[r].kind = "gone"
          BY <1>5, <3>3, KindsDiffer
    <3>4. QED
          BY <1>5, <3>1, <3>2, <3>3
  <2>2. ASSUME NEW r \in Rows, row[r].kind \in Kinds
        PROVE  \/ row'[r] = Gone
               \/ row'[r].kind = row[r].kind /\ row'[r].key = row[r].key /\ row'[r].author = row[r].author
        BY <1>5, <2>2
  <2>3. ASSUME NEW r \in Rows, row'[r].kind \in Kinds
        PROVE  row[r].kind \in Kinds /\ row'[r].share = row[r].share
        BY <1>5, <2>3, KindsDiffer
  <2>4. QED
        BY <2>1, <2>2, <2>3 DEF Kept, Justified
<1>8. dep' \subseteq Rows \X Rows
      BY <1>2 DEF IInv, TypeOK
<1>9. QED
      BY <1>1, <1>4, <1>5, <1>6, <1>7, <1>8, FinishKeeps

LEMMA StutterKeeps ==
  ASSUME IInv, UNCHANGED vars
  PROVE  IInv'
<1>1. row' = row /\ dep' = dep /\ decided' = decided /\ req' = req
      BY DEF vars
<1>2. TypeOK'
      BY <1>1 DEF IInv, TypeOK
<1>3. QED
      BY <1>1, <1>2 DEF IInv

-----------------------------------------------------------------------------
LEMMA NextIInv ==
  ASSUME IInv, [Next]_vars
  PROVE  IInv'
<1>1. CASE UNCHANGED vars
      BY <1>1, StutterKeeps
<1>2. ASSUME NEW a \in Agents, NEW slug \in Slugs, ProjectAdd(a, slug)
      PROVE  IInv'
      BY <1>2, ProjectAddKeeps
<1>3. ASSUME NEW a \in Agents, NEW r \in Rows,
             \/ \E s \in Sections : SectionSet(a, r, s) \/ SectionDel(a, r, s)
             \/ TaskUpdate(a, r) \/ IdeaAdd(a, r) \/ IdeaUpdate(a, r) \/ StructureShare(a, r)
      PROVE  IInv'
      BY <1>3, SectionKeeps, TaskUpdateKeeps, IdeaAddKeeps, IdeaUpdateKeeps, StructureShareKeeps
<1>4. ASSUME NEW p \in Workers,
             \/ \E a \in Agents : TaskAddBegin(p, a)
             \/ TaskAddEnd(p)
             \/ \E a \in Agents, r \in Rows : DecideBegin(p, a, r)
             \/ TrustEnd(p) \/ DeleteEnd(p) \/ Abort(p)
      PROVE  IInv'
      BY <1>4, TaskAddBeginKeeps, TaskAddEndKeeps, DecideBeginKeeps, TrustEndKeeps,
         DeleteEndKeeps, AbortKeeps
<1>5. QED
      BY <1>1, <1>2, <1>3, <1>4 DEF Next

LEMMA Invariance == Spec => []IInv
<1>1. Init => IInv
      BY InitIInv
<1>2. IInv /\ [Next]_vars => IInv'
      BY NextIInv
<1>3. QED
      BY <1>1, <1>2, PTL DEF Spec

(* Every row, request and decision keeps its type. *)
THEOREM TypeCorrectness == Spec => []TypeOK
<1>1. IInv => TypeOK
      BY DEF IInv
<1>2. QED
      BY <1>1, Invariance, PTL

(* A worker's row is shared only after it offered it and a reviewer        *)
(* trusted it, or by the decision about an offered row that had its key    *)
(* and is gone, however the requests overlap.                              *)
THEOREM ReviewsAreSkippedByReuseOnly == Spec => []OnlyReusedKeysSkipTheReview
<1>1. IInv => OnlyReusedKeysSkipTheReview
  <2> SUFFICES ASSUME IInv, RLS, NEW r \in Live, row[r].share = "trusted",
                      row[r].author \notin Managers
               PROVE  Accepted(row, decided, r)
      BY DEF OnlyReusedKeysSkipTheReview, Accepted, Offered, OfferedIn
  <2>1. r \in Rows /\ row[r].kind \in Kinds
        BY DEF Live, Of
  <2>2. QED
        BY <2>1 DEF IInv, Reviewed
<1>2. QED
      BY <1>1, Invariance, PTL

(* A handle given to a caller that sees every task is free until its task  *)
(* is there.                                                               *)
THEOREM HandlesAreFree == Spec => []AllocatedHandlesAreFree
<1>1. IInv => AllocatedHandlesAreFree
  <2>1. SUFFICES ASSUME IInv, NEW p \in Workers, req[p].op = "task_add",
                        req[p].by \in SeeAll
                 PROVE  With("task", req[p].row.key) = {}
        BY DEF AllocatedHandlesAreFree
  <2>2. req[p].row.key \notin Taken(row)
        BY <2>1 DEF IInv, Allocating
  <2>3. QED
        BY <2>2 DEF Taken, With, Of
<1>2. QED
      BY <1>1, Invariance, PTL

=============================================================================
