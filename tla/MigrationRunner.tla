-------------------------- MODULE MigrationRunner --------------------------
(***************************************************************************)
(* migrate.py: runners that apply the numbered migrations, roll one back   *)
(* or re-hash what is recorded of them, while an operator adds and edits   *)
(* the files.                                                              *)
(*                                                                         *)
(* A migration is its number.  What its up() does to the schema is to      *)
(* (re)define some objects, a policy or a constraint say; its down() puts  *)
(* back, word for word, what the migration before it made of them.  Each   *)
(* migration runs in one transaction with its row of schema_migrations.    *)
(* The bootstrap of a database with no schema_migrations is left out, and  *)
(* so is the refusal to run on another encoding than UTF8: both come       *)
(* before anything is read.                                                *)
(***************************************************************************)
EXTENDS Integers

CONSTANTS
  Latest,     \* the number of the latest migration
  Objects,    \* what several migrations define in turn
  Defines,    \* the objects a migration defines
  Digests,    \* what a migration's file may contain
  Runners,    \* processes
  None

Versions == 1 .. Latest

ASSUME MigrationAssumption ==
  /\ Latest \in Nat
  /\ Defines \in [Versions -> SUBSET Objects]
  /\ None \notin Digests \cup Runners

VARIABLES
  file,       \* migrations/NNNN_*.py, None while there is none
  recorded,   \* the checksum in schema_migrations, None if not applied
  standing,   \* the migration whose definition of an object is in force, 0 if none
  lock,       \* who holds the advisory lock
  run,        \* what each process is doing
  touched,    \* whose file or row was changed since the last `up` read the rows
  orderly     \* whether the operator lets nothing overlap, and undoes the newest first

vars == <<file, recorded, standing, lock, run, touched, orderly>>

Hashes == [Versions -> Digests \cup {None}]

(* view: up's copy of schema_migrations, or the new hashes of a reconcile. *)
Run == [pc : {"start", "locked", "read", "applying", "undoing", "rehashing", "collided"},
        view : Hashes, todo : SUBSET Versions]
Idle == [pc |-> "idle"]

(* The steps of an `up` after it got the lock. *)
Holding == {"locked", "read", "applying", "collided"}

Blank == [v \in Versions |-> None]

TypeOK ==
  /\ file \in Hashes
  /\ recorded \in Hashes
  /\ standing \in [Objects -> Versions \cup {0}]
  /\ lock \in Runners \cup {None}
  /\ run \in [Runners -> Run \cup {Idle}]
  /\ touched \subseteq Versions
  /\ orderly \in BOOLEAN
  /\ lock # None => run[lock].pc \in Holding

Init ==
  /\ file = Blank
  /\ recorded = Blank
  /\ standing = [o \in Objects |-> 0]
  /\ lock = None
  /\ run = [r \in Runners |-> Idle]
  /\ touched = {}
  /\ orderly \in BOOLEAN

-----------------------------------------------------------------------------
Listed(hashes) == {v \in Versions : hashes[v] # None}

At(r, pc) == run[r].pc = pc
Alone == \A r \in Runners : At(r, "idle")

Moved(r, pc) == run' = [run EXCEPT ![r].pc = pc]

(* The versions a copy of schema_migrations holds under another checksum   *)
(* than their file has now.                                                *)
Drifted(view) == {v \in Listed(view) : view[v] # file[v]}

(* What the up() of v leaves in force, and its down(). *)
Defined(v) == [o \in Objects |-> IF o \in Defines[v] THEN v ELSE standing[o]]

Greatest(S) == IF S = {} THEN 0 ELSE CHOOSE v \in S : \A w \in S : w <= v

Before(v, o) == Greatest({w \in Versions : w < v /\ o \in Defines[w]})

Undefined(v) == [o \in Objects |-> IF o \in Defines[v] THEN Before(v, o) ELSE standing[o]]

(* A second runner blocks in pg_advisory_lock. *)
LockFreeUnlocked(r) == TRUE
LockFree(r) == lock = None

(* The session lock goes with the process. *)
LockAfterKept(r) == lock
LockAfter(r) == IF lock = r THEN None ELSE lock

(* discover() sorts by number. *)
TurnLatest(v, todo) == \A w \in todo : w <= v
Turn(v, todo) == \A w \in todo : v <= w

(* up refuses to build on a drifted base. *)
SoundUnchecked(view) == TRUE
Sound(view) == Drifted(view) = {}

-----------------------------------------------------------------------------
(* The operator *)

(* A file is added with the next release, or edited. *)
Edit(v, d) ==
  /\ file[v] # d
  /\ orderly => Alone /\ \A w \in Versions : w < v => file[w] # None
  /\ file' = [file EXCEPT ![v] = d]
  /\ touched' = touched \cup {v}
  /\ UNCHANGED <<recorded, standing, lock, run, orderly>>

-----------------------------------------------------------------------------
(* migrate.py up *)
Up(r) ==
  /\ At(r, "idle")
  /\ orderly => \A s \in Runners : ~At(s, "undoing")
  /\ run' = [run EXCEPT ![r] = [pc |-> "start", view |-> Blank, todo |-> {}]]
  /\ UNCHANGED <<file, recorded, standing, lock, touched, orderly>>

Lock(r) ==
  /\ At(r, "start")
  /\ LockFree(r)
  /\ lock' = r
  /\ Moved(r, "locked")
  /\ UNCHANGED <<file, recorded, standing, touched, orderly>>

ReadApplied(r) ==
  /\ At(r, "locked")
  /\ run' = [run EXCEPT ![r] = [@ EXCEPT !.pc = "read", !.view = recorded]]
  /\ touched' = {}
  /\ UNCHANGED <<file, recorded, standing, lock, orderly>>

Exit(r) ==
  /\ lock' = LockAfter(r)
  /\ run' = [run EXCEPT ![r] = Idle]

CheckDrift(r) ==
  /\ At(r, "read")
  /\ IF Sound(run[r].view)
     THEN /\ run' = [run EXCEPT ![r] = [@ EXCEPT !.pc = "applying",
                                          !.todo = Listed(file) \ Listed(run[r].view)]]
          /\ UNCHANGED lock
     ELSE Exit(r)
  /\ UNCHANGED <<file, recorded, standing, touched, orderly>>

(* One migration, its row and the commit.  version is UNIQUE: a second row *)
(* raises, and the runner ends as in Crash.                                *)
Apply(r, v) ==
  /\ At(r, "applying")
  /\ v \in run[r].todo
  /\ Turn(v, run[r].todo)
  /\ IF recorded[v] = None
     THEN /\ recorded' = [recorded EXCEPT ![v] = file[v]]
          /\ standing' = Defined(v)
          /\ run' = [run EXCEPT ![r].todo = @ \ {v}]
     ELSE Moved(r, "collided") /\ UNCHANGED <<recorded, standing>>
  /\ UNCHANGED <<file, lock, touched, orderly>>

Done(r) ==
  /\ At(r, "applying") /\ run[r].todo = {}
  /\ Exit(r)
  /\ UNCHANGED <<file, recorded, standing, touched, orderly>>

-----------------------------------------------------------------------------
(* migrate.py down <version>: no lock is taken, and it is not looked at    *)
(* whether the version is applied.                                         *)
Down(r, v) ==
  /\ At(r, "idle")
  /\ file[v] # None
  /\ orderly => Alone /\ recorded[v] # None /\ \A w \in Listed(recorded) : w <= v
  /\ run' = [run EXCEPT ![r] = [pc |-> "undoing", view |-> Blank, todo |-> {v}]]
  /\ UNCHANGED <<file, recorded, standing, lock, touched, orderly>>

Undo(r) ==
  /\ At(r, "undoing")
  /\ \E v \in run[r].todo :
       /\ standing' = Undefined(v)
       /\ recorded' = [recorded EXCEPT ![v] = None]
  /\ Exit(r)
  /\ UNCHANGED <<file, touched, orderly>>

-----------------------------------------------------------------------------
(* migrate.py reconcile --yes: the new hashes are taken with the list of   *)
(* what drifted, and are then written without a look at the row.           *)
Reconcile(r) ==
  /\ At(r, "idle")
  /\ Drifted(recorded) # {}
  /\ run' = [run EXCEPT ![r] = [pc |-> "rehashing", todo |-> {},
                                view |-> [v \in Versions |->
                                            IF v \in Drifted(recorded) THEN file[v] ELSE None]]]
  /\ UNCHANGED <<file, recorded, standing, lock, touched, orderly>>

Rehash(r) ==
  /\ At(r, "rehashing")
  /\ recorded' = [v \in Versions |-> IF v \in Listed(run[r].view) /\ recorded[v] # None
                                     THEN run[r].view[v] ELSE recorded[v]]
  /\ touched' = touched \cup (Listed(run[r].view) \cap Listed(recorded))
  /\ Exit(r)
  /\ UNCHANGED <<file, standing, orderly>>

(* The process dies, or a migration raises: its transaction is rolled back. *)
Crash(r) ==
  /\ ~At(r, "idle")
  /\ Exit(r)
  /\ UNCHANGED <<file, recorded, standing, touched, orderly>>

-----------------------------------------------------------------------------
Proceed(r) ==
  \/ ReadApplied(r)
  \/ CheckDrift(r)
  \/ \E v \in Versions : Apply(r, v)
  \/ Done(r)
  \/ Undo(r)
  \/ Rehash(r)

Next ==
  \/ \E v \in Versions, d \in Digests : Edit(v, d)
  \/ \E r \in Runners :
       \/ Up(r)
       \/ Lock(r)
       \/ Proceed(r)
       \/ \E v \in Versions : Down(r, v)
       \/ Reconcile(r)
       \/ Crash(r)

Spec == Init /\ [][Next]_vars

(* PostgreSQL serves those who wait for a lock in turn. *)
Fairness ==
  \A r \in Runners : WF_vars(Proceed(r)) /\ SF_vars(Lock(r))

FairSpec == Spec /\ Fairness

-----------------------------------------------------------------------------
(* However many runners are started at once, killed or rolled back, no     *)
(* `up` meets a migration that somebody else has applied since it read     *)
(* what is pending ("two can't race a migration into a half state").       *)
RunnersDoNotCollide == \A r \in Runners : run[r].pc # "collided"

(* Every object has the definition of the newest migration recorded for    *)
(* it, as long as the operator rolls back the newest one first and lets    *)
(* nothing overlap: crashes, retries and concurrent `up`s change nothing   *)
(* about it.                                                               *)
Newest(o) == Greatest({v \in Listed(recorded) : o \in Defines[v]})

SchemaIsAsRecorded == orderly => \A o \in Objects : standing[o] = Newest(o)

(* An `up` adds a migration to a base of which a row says something else   *)
(* than its file only if that file was edited, or that row re-hashed,      *)
(* after it had read the rows for its check, as no orderly operator does:  *)
(* whatever crashes, waits or is rolled back, drift that was there is      *)
(* never built on ("never run up on a drifted base").                      *)
Grows == Listed(recorded') \ Listed(recorded) # {}

OnlyLateDriftIsBuiltOn ==
  [][Grows => \A v \in Listed(recorded) :
                 recorded[v] # file[v] => v \in touched /\ ~orderly]_vars

(* An `up` that waits for the lock gets it, and ends: whoever holds the    *)
(* lock lets go of it, killed, refused or done.                            *)
EveryUpEnds == \A r \in Runners : (run[r].pc = "start") ~> (run[r].pc = "idle")
=============================================================================
