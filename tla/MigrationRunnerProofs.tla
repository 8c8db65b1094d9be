------------------------ MODULE MigrationRunnerProofs ------------------------
(***************************************************************************)
(* Proofs about MigrationRunner, for every set of migrations and of        *)
(* runners.  `up`s do not collide because of the lock alone, whatever the  *)
(* operator does.  What is in force is what is recorded as long as the     *)
(* operator is orderly: the files and the recorded migrations are then     *)
(* both gapless, so that the next one to apply is newer than all recorded  *)
(* ones, and the one rolled back has all older ones below it.              *)
(***************************************************************************)
EXTENDS MigrationRunner, WellFoundedInduction, TLAPS

(* Whoever is past the lock holds it. *)
LockIsHeld == \A r \in Runners : run[r].pc \in Holding => lock = r

(* Only the holder adds rows: what it found absent stays absent. *)
TodoIsNew ==
  \A r \in Runners :
    /\ run[r].pc = "read" => \A v \in Versions : recorded[v] # None => run[r].view[v] # None
    /\ run[r].pc = "applying" => \A v \in run[r].todo : recorded[v] = None

(* What the holder has read, and found as recorded, is so still but for    *)
(* what was touched. *)
LateDrift ==
  \A r \in Runners : \A v \in Listed(recorded) \ touched :
    /\ run[r].pc = "read" => recorded[v] = run[r].view[v]
    /\ run[r].pc = "applying" => recorded[v] = file[v]

Exclusion == TypeOK /\ LockIsHeld /\ TodoIsNew /\ RunnersDoNotCollide

-----------------------------------------------------------------------------
(* The set of requests, told apart by their step. *)
LEMMA BusyRuns ==
  ASSUME TypeOK, NEW r \in Runners, run[r].pc # "idle"
  PROVE  run[r] \in Run
BY DEF TypeOK, Idle

LEMMA SmallestOf ==
  ASSUME NEW B \in SUBSET Nat, B # {}
  PROVE  \E n \in B : \A m \in B : n <= m
<1> DEFINE R == OpToRel(<, Nat)
<1>1. IsWellFoundedOn(R, Nat)
      BY NatLessThanWellFounded
<1>2. \A x, y \in Nat : x < y => <<x, y>> \in R
      BY DEF OpToRel
<1> HIDE DEF R
<1>3. PICK n \in B : \A m \in B : <<m, n>> \notin R
      BY <1>1, WFMin
<1>4. \A m \in B : ~(m < n)
      BY <1>2, <1>3, Zenon
<1>5. QED
      BY <1>4

(* A set of versions has a greatest one, the smallest of its bounds. *)
LEMMA GreatestOf ==
  ASSUME NEW S \in SUBSET Versions, S # {}
  PROVE  Greatest(S) \in S /\ \A w \in S : w <= Greatest(S)
<1> DEFINE Bounds == {n \in Nat : \A w \in S : w <= n}
<1> USE MigrationAssumption
<1>1. Latest \in Bounds
      BY DEF Versions
<1>2. PICK n \in Bounds : \A m \in Bounds : n <= m
  <2>1. Bounds \in SUBSET Nat /\ Bounds # {}
        BY <1>1
  <2>2. QED
        BY <2>1, SmallestOf
<1>3. n \in S
  <2> SUFFICES ASSUME n \notin S
               PROVE  FALSE
      OBVIOUS
  <2>1. \A w \in S : w \in Nat /\ w >= 1 /\ w <= n - 1
        BY DEF Versions
  <2>2. n - 1 \in Bounds
        BY <2>1
  <2>3. QED
        BY <1>2, <2>2
<1>4. \E v \in S : \A w \in S : w <= v
      BY <1>3
<1>5. QED
      BY <1>4 DEF Greatest

LEMMA GreatestIsVersion ==
  ASSUME NEW S \in SUBSET Versions
  PROVE  Greatest(S) \in Versions \cup {0}
BY GreatestOf DEF Greatest

(* Two sets with the same greatest element have the same Greatest. *)
LEMMA GreatestIs ==
  ASSUME NEW S \in SUBSET Versions, NEW v \in S, \A w \in S : w <= v
  PROVE  Greatest(S) = v
<1>1. Greatest(S) \in S /\ v <= Greatest(S)
  <2>1. S # {}
        OBVIOUS
  <2>2. QED
        BY <2>1, GreatestOf
<1>2. PICK g \in S : g = Greatest(S) /\ v <= g
      BY <1>1
<1>3. S \subseteq Int
      BY MigrationAssumption DEF Versions
<1>4. g <= v /\ g \in Int /\ v \in Int
      BY <1>3
<1>5. QED
      BY <1>2, <1>4

LEMMA InitExclusion == Init => Exclusion
BY MigrationAssumption
DEF Init, Exclusion, TypeOK, LockIsHeld, TodoIsNew, RunnersDoNotCollide, Hashes, Blank,
    Idle, Holding

(* Leaving frees the lock of the holder and of nobody else. *)
LEMMA ExitKeeps ==
  ASSUME Exclusion, NEW r \in Runners, Exit(r)
  PROVE  /\ lock' \in Runners \cup {None}
         /\ run' \in [Runners -> Run \cup {Idle}]
         /\ lock' # None => run'[lock'].pc \in Holding
         /\ LockIsHeld'
BY MigrationAssumption
DEF Exclusion, TypeOK, LockIsHeld, Exit, LockAfter, Idle, Holding

LEMMA NextExclusion == Exclusion /\ [Next]_vars => Exclusion'
<1> SUFFICES ASSUME Exclusion, [Next]_vars
             PROVE  Exclusion'
    OBVIOUS
<1> USE MigrationAssumption DEF At
<1>1. ASSUME NEW v \in Versions, NEW d \in Digests, Edit(v, d)
      PROVE  Exclusion'
      BY <1>1 DEF Exclusion, TypeOK, LockIsHeld, TodoIsNew, RunnersDoNotCollide, Edit, Hashes
<1>2. ASSUME NEW r \in Runners, Up(r)
      PROVE  Exclusion'
  <2>1. Blank \in Hashes
        BY DEF Blank, Hashes
  <2>2. TypeOK'
        BY <1>2, <2>1 DEF Exclusion, TypeOK, Up, Run, Holding, LockIsHeld
  <2>3. QED
        BY <1>2, <2>2 DEF Exclusion, TypeOK, LockIsHeld, TodoIsNew, RunnersDoNotCollide, Up, Holding
<1>3. ASSUME NEW r \in Runners, Lock(r)
      PROVE  Exclusion'
  <2>1. run[r] \in Run
        BY <1>3, BusyRuns DEF Exclusion, Lock
  <2>2. TypeOK'
        BY <1>3, <2>1 DEF Exclusion, TypeOK, Lock, LockFree, Moved, Run, Holding
  <2>3. QED
        BY <1>3, <2>1, <2>2
        DEF Exclusion, TypeOK, LockIsHeld, TodoIsNew, RunnersDoNotCollide, Lock, LockFree, Moved,
            Run, Holding
<1>4. ASSUME NEW r \in Runners, ReadApplied(r)
      PROVE  Exclusion'
  <2>1. run[r] \in Run
        BY <1>4, BusyRuns DEF Exclusion, ReadApplied
  <2>2. TypeOK'
        BY <1>4, <2>1 DEF Exclusion, TypeOK, ReadApplied, Run, Holding
  <2>3. QED
        BY <1>4, <2>1, <2>2
        DEF Exclusion, TypeOK, LockIsHeld, TodoIsNew, RunnersDoNotCollide, ReadApplied, Run, Holding
<1>5. ASSUME NEW r \in Runners, CheckDrift(r)
      PROVE  Exclusion'
  <2>1. run[r] \in Run
        BY <1>5, BusyRuns DEF Exclusion, CheckDrift
  <2>2. CASE Sound(run[r].view)
    <3>1. run' = [run EXCEPT ![r] = [@ EXCEPT !.pc = "applying",
                                       !.todo = Listed(file) \ Listed(run[r].view)]]
          BY <1>5, <2>2 DEF CheckDrift
    <3>2. UNCHANGED <<file, recorded, standing, lock, touched, orderly>>
          BY <1>5, <2>2 DEF CheckDrift
    <3>3. TypeOK'
          BY <2>1, <3>1, <3>2 DEF Exclusion, TypeOK, Run, Holding, Listed
    <3>4. LockIsHeld' /\ RunnersDoNotCollide'
          BY <1>5, <2>1, <3>1, <3>2
          DEF Exclusion, TypeOK, LockIsHeld, RunnersDoNotCollide, CheckDrift, Run, Holding
    <3>5. TodoIsNew'
          BY <1>5, <2>1, <3>1, <3>2 DEF Exclusion, TypeOK, TodoIsNew, CheckDrift, Run, Listed, Hashes
    <3>6. QED
          BY <3>3, <3>4, <3>5 DEF Exclusion
  <2>3. CASE ~Sound(run[r].view)
    <3>1. Exit(r) /\ UNCHANGED <<file, recorded, standing, touched, orderly>>
          BY <1>5, <2>3 DEF CheckDrift
    <3>2. QED
          BY <3>1, ExitKeeps DEF Exclusion, TypeOK, TodoIsNew, RunnersDoNotCollide, Exit, Idle
  <2>4. QED
        BY <2>2, <2>3
<1>6. ASSUME NEW r \in Runners, NEW v \in Versions, Apply(r, v)
      PROVE  Exclusion'
  <2>1. run[r] \in Run
        BY <1>6, BusyRuns DEF Exclusion, Apply
  <2>2. /\ recorded[v] = None
        /\ recorded' = [recorded EXCEPT ![v] = file[v]]
        /\ standing' = Defined(v)
        /\ run' = [run EXCEPT ![r].todo = @ \ {v}]
        BY <1>6 DEF Apply, Exclusion, TodoIsNew
  <2>3. TypeOK'
        BY <1>6, <2>1, <2>2 DEF Apply, Exclusion, TypeOK, Hashes, Defined, Run, Holding
  <2>4. LockIsHeld' /\ RunnersDoNotCollide'
        BY <1>6, <2>1, <2>2 DEF Apply, Exclusion, TypeOK, LockIsHeld, RunnersDoNotCollide, Run, Holding
  <2>5. TodoIsNew'
    <3> SUFFICES ASSUME NEW s \in Runners
                 PROVE  /\ run'[s].pc = "read" =>
                             \A w \in Versions : recorded'[w] # None => run'[s].view[w] # None
                        /\ run'[s].pc = "applying" =>
                             \A w \in run'[s].todo : recorded'[w] = None
        BY DEF TodoIsNew
    <3>1. CASE s = r
          BY <1>6, <2>1, <2>2, <3>1 DEF Apply, Exclusion, TypeOK, TodoIsNew, Run, Hashes
    <3>2. CASE s # r
          BY <1>6, <2>1, <2>2, <3>2 DEF Apply, Exclusion, TypeOK, LockIsHeld, Holding
    <3>3. QED
          BY <3>1, <3>2
  <2>6. QED
        BY <2>3, <2>4, <2>5 DEF Exclusion
<1>7. ASSUME NEW r \in Runners, Done(r) \/ Crash(r)
      PROVE  Exclusion'
      BY <1>7, ExitKeeps
      DEF Done, Crash, Exclusion, TypeOK, TodoIsNew, RunnersDoNotCollide, Exit, Idle
<1>8. ASSUME NEW r \in Runners, NEW v \in Versions, Down(r, v)
      PROVE  Exclusion'
  <2>1. Blank \in Hashes
        BY DEF Blank, Hashes
  <2>2. QED
        BY <1>8, <2>1
        DEF Exclusion, TypeOK, LockIsHeld, TodoIsNew, RunnersDoNotCollide, Down, Run, Holding
<1>9. ASSUME NEW r \in Runners, Undo(r)
      PROVE  Exclusion'
  <2>1. run[r] \in Run
        BY <1>9, BusyRuns DEF Exclusion, Undo
  <2>2. PICK v \in Versions : /\ standing' = Undefined(v)
                              /\ recorded' = [recorded EXCEPT ![v] = None]
        BY <1>9, <2>1 DEF Undo, Run
  <2>3. standing' \in [Objects -> Versions \cup {0}]
    <3>1. \A o \in Objects : Before(v, o) \in Versions \cup {0}
          BY GreatestIsVersion DEF Before
    <3>2. QED
          BY <2>2, <3>1 DEF Undefined, Exclusion, TypeOK
  <2>4. recorded' \in Hashes
        BY <2>2 DEF Exclusion, TypeOK, Hashes
  <2>5. TodoIsNew' /\ RunnersDoNotCollide'
        BY <1>9, <2>2
        DEF Undo, Exit, Exclusion, TypeOK, TodoIsNew, RunnersDoNotCollide, Run, Hashes, Idle
  <2>6. QED
        BY <1>9, <2>3, <2>4, <2>5, ExitKeeps DEF Undo, Exclusion, TypeOK
<1>10. ASSUME NEW r \in Runners, Reconcile(r)
       PROVE  Exclusion'
  <2>1. [v \in Versions |-> IF v \in Drifted(recorded) THEN file[v] ELSE None] \in Hashes
        BY DEF Exclusion, TypeOK, Hashes
  <2>2. QED
        BY <1>10, <2>1
        DEF Exclusion, TypeOK, LockIsHeld, TodoIsNew, RunnersDoNotCollide, Reconcile, Run, Holding
<1>11. ASSUME NEW r \in Runners, Rehash(r)
       PROVE  Exclusion'
  <2>1. run[r] \in Run
        BY <1>11, BusyRuns DEF Exclusion, Rehash
  <2>2. recorded' \in Hashes /\ \A v \in Versions : recorded'[v] # None <=> recorded[v] # None
        BY <1>11, <2>1 DEF Rehash, Exclusion, TypeOK, Run, Hashes, Listed
  <2>3. TodoIsNew' /\ RunnersDoNotCollide'
        BY <1>11, <2>2
        DEF Rehash, Exit, Exclusion, TypeOK, TodoIsNew, RunnersDoNotCollide, Run, Idle
  <2>4. QED
        BY <1>11, <2>2, <2>3, ExitKeeps DEF Rehash, Exclusion, TypeOK, Listed
<1>12. CASE UNCHANGED vars
       BY <1>12 DEF vars, Exclusion, TypeOK, LockIsHeld, TodoIsNew, RunnersDoNotCollide
<1>13. QED
       BY <1>1, <1>2, <1>3, <1>4, <1>5, <1>6, <1>7, <1>8, <1>9, <1>10, <1>11, <1>12
       DEF Next, Proceed

(* Every variable and every step of a process has its type, and the lock   *)
(* is held by nobody but an `up`.                                          *)
THEOREM TypeCorrectness == Spec => []TypeOK
<1>1. Exclusion => TypeOK
      BY DEF Exclusion
<1>2. QED
      BY InitExclusion, NextExclusion, <1>1, PTL DEF Spec

(* No `up` meets a migration that was applied after it read what was       *)
(* pending, whatever is killed, edited or rolled back meanwhile.           *)
THEOREM NoCollisions == Spec => []RunnersDoNotCollide
<1>1. Exclusion => RunnersDoNotCollide
      BY DEF Exclusion
<1>2. QED
      BY InitExclusion, NextExclusion, <1>1, PTL DEF Spec

-----------------------------------------------------------------------------
(* An orderly operator: the numbers in use have no gap, *)
Gapless(hashes) ==
  \A v, w \in Versions : w < v /\ hashes[v] # None => hashes[w] # None

(* what a process has read stays true but for what is re-hashed, *)
AsRead(r) ==
  run[r].pc = "read" =>
    \A w \in Versions : /\ run[r].view[w] # None <=> recorded[w] # None
                        /\ recorded[w] \in {run[r].view[w], file[w]}

AsChecked(r) ==
  run[r].pc = "applying" =>
    \A w \in Versions : /\ w \in run[r].todo <=> recorded[w] = None /\ file[w] # None
                        /\ recorded[w] # None => recorded[w] = file[w]

AsReviewed(r) ==
  run[r].pc = "rehashing" =>
    \A w \in Versions : run[r].view[w] # None => run[r].view[w] = file[w]

(* and a rollback of the newest migration meets no `up`. *)
AsRolledBack(r) ==
  run[r].pc = "undoing" =>
    /\ \A s \in Runners \ {r} : run[s].pc \in {"idle", "rehashing"}
    /\ \E v \in Versions : /\ run[r].todo = {v}
                           /\ recorded[v] # None
                           /\ \A w \in Versions : recorded[w] # None => w <= v

Settled(r) == AsRead(r) /\ AsChecked(r) /\ AsReviewed(r) /\ AsRolledBack(r)

Tidy ==
  /\ Gapless(file)
  /\ Gapless(recorded)
  /\ \A v \in Versions : recorded[v] # None => file[v] # None
  /\ \A o \in Objects : standing[o] = Newest(o)
  /\ \A r \in Runners : Settled(r)

Orderly == Exclusion /\ (orderly => Tidy)

LEMMA InitOrderly == Init => Orderly
<1> SUFFICES ASSUME Init
             PROVE  Tidy
    BY InitExclusion DEF Orderly
<1>1. \A o \in Objects : Newest(o) = 0
  <2>1. Listed(recorded) = {}
        BY DEF Init, Blank, Listed
  <2>2. QED
        BY <2>1 DEF Newest, Greatest
<1>2. QED
      BY <1>1
      DEF Init, Tidy, Gapless, Blank, Idle, Settled, AsRead, AsChecked, AsReviewed, AsRolledBack

(* A process that ends leaves the others as settled as they were. *)
LEMMA ExitSettles ==
  ASSUME Exclusion, NEW r \in Runners, Exit(r), UNCHANGED <<file, recorded>>,
         \A s \in Runners : Settled(s)
  PROVE  \A s \in Runners : Settled(s)'
BY DEF Exclusion, TypeOK, Exit, Idle, Settled, AsRead, AsChecked, AsReviewed, AsRolledBack

LEMMA NewestStands ==
  ASSUME UNCHANGED <<recorded, standing>>, \A o \in Objects : standing[o] = Newest(o)
  PROVE  \A o \in Objects : standing'[o] = Newest(o)'
BY DEF Newest, Listed

(* Above all recorded versions, the one applied is the newest. *)
LEMMA ApplyStands ==
  ASSUME Orderly, orderly, NEW r \in Runners, NEW v \in Versions, Apply(r, v)
  PROVE  /\ recorded' = [recorded EXCEPT ![v] = file[v]]
         /\ standing' = Defined(v)
         /\ run' = [run EXCEPT ![r].todo = @ \ {v}]
         /\ run[r] \in Run
         /\ recorded[v] = None /\ file[v] # None
         /\ \A w \in Versions : recorded[w] # None <=> w < v
         /\ \A o \in Objects : standing'[o] = Newest(o)'
<1> USE MigrationAssumption DEF At
<1>1. run[r] \in Run
      BY BusyRuns DEF Orderly, Exclusion, Apply
<1>2. recorded[v] = None /\ file[v] # None
      BY DEF Apply, Orderly, Tidy, Settled, AsChecked
<1>3. /\ recorded' = [recorded EXCEPT ![v] = file[v]]
      /\ standing' = Defined(v)
      /\ run' = [run EXCEPT ![r].todo = @ \ {v}]
      BY <1>2 DEF Apply
<1>4. \A w \in Versions : w < v => recorded[w] # None
  <2> SUFFICES ASSUME NEW w \in Versions, w < v, recorded[w] = None
               PROVE  FALSE
      OBVIOUS
  <2>1. file[w] # None
        BY <1>2 DEF Orderly, Tidy, Gapless
  <2>2. w \in run[r].todo
        BY <2>1 DEF Apply, Orderly, Tidy, Settled, AsChecked
  <2>3. v <= w
        BY <2>2 DEF Apply, Turn
  <2>4. QED
        BY <2>3 DEF Versions
<1>5. \A w \in Versions : recorded[w] # None => w < v
  <2> SUFFICES ASSUME NEW w \in Versions, recorded[w] # None, ~(w < v)
               PROVE  FALSE
      OBVIOUS
  <2>1. v < w
        BY <1>2 DEF Versions
  <2>2. QED
        BY <1>2, <2>1 DEF Orderly, Tidy, Gapless
<1>6. ASSUME NEW o \in Objects
      PROVE  standing'[o] = Newest(o)'
  <2> DEFINE S == {w \in Listed(recorded) : o \in Defines[w]}
             T == {w \in Listed(recorded') : o \in Defines[w]}
  <2>1. Newest(o) = Greatest(S) /\ Newest(o)' = Greatest(T)
        BY DEF Newest, Listed
  <2>2. recorded \in Hashes
        BY DEF Orderly, Exclusion, TypeOK
  <2>3. CASE o \in Defines[v]
    <3>1. T \in SUBSET Versions /\ v \in T /\ \A w \in T : w <= v
          BY <1>2, <1>3, <1>5, <2>2, <2>3 DEF Listed, Hashes, Versions
    <3>2. Greatest(T) = v
          BY <3>1, GreatestIs
    <3>3. QED
          BY <1>3, <2>1, <2>3, <3>2 DEF Defined
  <2>4. CASE o \notin Defines[v]
    <3>1. S = T
          BY <1>3, <2>2, <2>4 DEF Listed, Hashes
    <3>2. QED
          BY <1>3, <2>1, <2>4, <3>1 DEF Defined, Orderly, Tidy
  <2>5. QED
        BY <2>3, <2>4
<1>7. QED
      BY <1>1, <1>2, <1>3, <1>4, <1>5, <1>6

(* Below the newest recorded version all are recorded, so that what its    *)
(* down() puts back is the newest definition of those that remain.         *)
LEMMA UndoStands ==
  ASSUME Orderly, orderly, NEW r \in Runners, Undo(r)
  PROVE  \E v \in Versions :
           /\ recorded' = [recorded EXCEPT ![v] = None]
           /\ \A w \in Versions : recorded[w] # None => w <= v
           /\ \A o \in Objects : standing'[o] = Newest(o)'
<1> USE MigrationAssumption DEF At
<1>1. PICK v \in Versions : /\ run[r].todo = {v}
                            /\ recorded[v] # None
                            /\ \A w \in Versions : recorded[w] # None => w <= v
      BY DEF Undo, Orderly, Tidy, Settled, AsRolledBack
<1>2. standing' = Undefined(v) /\ recorded' = [recorded EXCEPT ![v] = None]
      BY <1>1 DEF Undo
<1>3. recorded \in Hashes
      BY DEF Orderly, Exclusion, TypeOK
<1>4. \A w \in Versions : recorded'[w] # None <=> w < v
      BY <1>1, <1>2, <1>3 DEF Orderly, Tidy, Gapless, Hashes, Versions
<1>5. ASSUME NEW o \in Objects
      PROVE  standing'[o] = Newest(o)'
  <2> DEFINE S == {w \in Listed(recorded) : o \in Defines[w]}
             T == {w \in Listed(recorded') : o \in Defines[w]}
  <2>1. Newest(o) = Greatest(S) /\ Newest(o)' = Greatest(T)
        BY DEF Newest, Listed
  <2>2. CASE o \in Defines[v]
    <3>1. T = {w \in Versions : w < v /\ o \in Defines[w]}
          BY <1>4 DEF Listed
    <3>2. QED
          BY <1>2, <2>1, <2>2, <3>1 DEF Undefined, Before
  <2>3. CASE o \notin Defines[v]
    <3>1. S = T
          BY <1>2, <1>3, <2>3 DEF Listed, Hashes
    <3>2. QED
          BY <1>2, <2>1, <2>3, <3>1 DEF Undefined, Orderly, Tidy
  <2>4. QED
        BY <2>2, <2>3
<1>6. QED
      BY <1>1, <1>2, <1>5

LEMMA NextOrderly == Orderly /\ [Next]_vars => Orderly'
<1> SUFFICES ASSUME Orderly, [Next]_vars
             PROVE  Orderly'
    OBVIOUS
<1>1. Exclusion'
      BY NextExclusion DEF Orderly
<1>2. orderly' = orderly
      BY DEF Next, Proceed, Edit, Up, Lock, ReadApplied, CheckDrift, Apply, Done, Down, Undo,
             Reconcile, Rehash, Crash, vars
<1> SUFFICES ASSUME orderly
             PROVE  Tidy'
    BY <1>1, <1>2 DEF Orderly
<1> USE MigrationAssumption DEF At
<1>3. Exclusion /\ Tidy
      BY DEF Orderly
<1>4. file \in Hashes /\ recorded \in Hashes
      BY <1>3 DEF Exclusion, TypeOK
<1>5. ASSUME NEW v \in Versions, NEW d \in Digests, Edit(v, d)
      PROVE  Tidy'
  <2>1. \A r \in Runners : run'[r].pc = "idle"
        BY <1>5 DEF Edit, Alone
  <2>2. \A r \in Runners : Settled(r)'
        BY <2>1 DEF Settled, AsRead, AsChecked, AsReviewed, AsRolledBack
  <2>3. Gapless(file)'
        BY <1>3, <1>4, <1>5 DEF Edit, Tidy, Gapless, Hashes, Versions
  <2>4. \A w \in Versions : recorded'[w] # None => file'[w] # None
        BY <1>3, <1>4, <1>5 DEF Edit, Tidy, Hashes
  <2>5. Gapless(recorded)' /\ \A o \in Objects : standing'[o] = Newest(o)'
        BY <1>3, <1>5, NewestStands DEF Edit, Tidy, Gapless
  <2>6. QED
        BY <2>2, <2>3, <2>4, <2>5 DEF Tidy
<1>6. ASSUME UNCHANGED <<file, recorded, standing>>, \A r \in Runners : Settled(r)'
      PROVE  Tidy'
      BY <1>3, <1>6, NewestStands DEF Tidy, Gapless
<1>7. ASSUME NEW r \in Runners, Up(r)
      PROVE  Tidy'
  <2>1. \A s \in Runners : Settled(s)'
        BY <1>3, <1>7
        DEF Up, Exclusion, TypeOK, Tidy, Settled, AsRead, AsChecked, AsReviewed, AsRolledBack
  <2>2. QED
        BY <1>6, <1>7, <2>1 DEF Up
<1>8. ASSUME NEW r \in Runners, Lock(r)
      PROVE  Tidy'
  <2>1. run[r] \in Run
        BY <1>3, <1>8, BusyRuns DEF Exclusion, Lock
  <2>2. \A s \in Runners : Settled(s)'
        BY <1>3, <1>8, <2>1
        DEF Lock, Moved, Run, Exclusion, TypeOK, Tidy, Settled, AsRead, AsChecked, AsReviewed,
            AsRolledBack
  <2>3. QED
        BY <1>6, <1>8, <2>2 DEF Lock
<1>9. ASSUME NEW r \in Runners, ReadApplied(r)
      PROVE  Tidy'
  <2>1. run[r] \in Run
        BY <1>3, <1>9, BusyRuns DEF Exclusion, ReadApplied
  <2>2. \A s \in Runners : Settled(s)'
        BY <1>3, <1>9, <2>1
        DEF ReadApplied, Run, Exclusion, TypeOK, Tidy, Settled, AsRead, AsChecked, AsReviewed,
            AsRolledBack
  <2>3. QED
        BY <1>6, <1>9, <2>2 DEF ReadApplied
<1>10. ASSUME NEW r \in Runners, CheckDrift(r)
       PROVE  Tidy'
  <2>1. run[r] \in Run
        BY <1>3, <1>10, BusyRuns DEF Exclusion, CheckDrift
  <2>2. UNCHANGED <<file, recorded, standing>>
        BY <1>10 DEF CheckDrift
  <2>3. CASE Sound(run[r].view)
    <3>1. run' = [run EXCEPT ![r] = [@ EXCEPT !.pc = "applying",
                                       !.todo = Listed(file) \ Listed(run[r].view)]]
          BY <1>10, <2>3 DEF CheckDrift
    <3>2. AsChecked(r)'
      <4> SUFFICES ASSUME NEW w \in Versions
                   PROVE  /\ w \in run'[r].todo <=> recorded[w] = None /\ file[w] # None
                          /\ recorded[w] # None => recorded[w] = file[w]
          BY <2>2 DEF AsChecked
      <4>1. /\ run[r].view[w] # None <=> recorded[w] # None
            /\ recorded[w] \in {run[r].view[w], file[w]}
            BY <1>3, <1>10 DEF CheckDrift, Tidy, Settled, AsRead
      <4>2. run[r].view[w] # None => run[r].view[w] = file[w]
            BY <2>3 DEF Sound, Drifted, Listed
      <4>3. run'[r].todo = Listed(file) \ Listed(run[r].view)
            BY <1>3, <2>1, <3>1 DEF Exclusion, TypeOK, Run
      <4>4. QED
            BY <4>1, <4>2, <4>3 DEF Listed
    <3>3. \A s \in Runners : Settled(s)'
          BY <1>3, <1>10, <2>1, <2>2, <3>1, <3>2
          DEF CheckDrift, Run, Exclusion, TypeOK, Tidy, Settled, AsRead, AsChecked, AsReviewed,
              AsRolledBack
    <3>4. QED
          BY <1>6, <2>2, <3>3
  <2>4. CASE ~Sound(run[r].view)
    <3>1. Exit(r)
          BY <1>10, <2>4 DEF CheckDrift
    <3>2. QED
          BY <1>3, <1>6, <2>2, <3>1, ExitSettles DEF Tidy
  <2>5. QED
        BY <2>3, <2>4
<1>11. ASSUME NEW r \in Runners, NEW v \in Versions, Apply(r, v)
       PROVE  Tidy'
  <2>1. /\ recorded' = [recorded EXCEPT ![v] = file[v]]
        /\ run' = [run EXCEPT ![r].todo = @ \ {v}]
        /\ run[r] \in Run
        /\ recorded[v] = None /\ file[v] # None
        /\ \A w \in Versions : recorded[w] # None <=> w < v
        /\ \A o \in Objects : standing'[o] = Newest(o)'
        BY <1>11, ApplyStands
  <2>2. file' = file
        BY <1>11 DEF Apply
  <2>3. AsChecked(r)'
        BY <1>3, <1>4, <1>11, <2>1, <2>2
        DEF Apply, Exclusion, TypeOK, Run, Tidy, Settled, AsChecked, Hashes
  <2>4. \A s \in Runners : Settled(s)'
    <3> SUFFICES ASSUME NEW s \in Runners, s # r
                 PROVE  Settled(s)'
        BY <1>3, <1>11, <2>1, <2>3
        DEF Apply, Exclusion, TypeOK, Run, Settled, AsRead, AsReviewed, AsRolledBack
    <3>1. run'[s] = run[s] /\ run[s].pc \notin Holding
          BY <1>3, <1>11, <2>1 DEF Apply, Exclusion, TypeOK, LockIsHeld, Holding
    <3>2. run[s].pc # "undoing"
          BY <1>3, <1>11 DEF Apply, Tidy, Settled, AsRolledBack
    <3>3. QED
          BY <1>3, <2>2, <3>1, <3>2
          DEF Holding, Tidy, Settled, AsRead, AsChecked, AsReviewed, AsRolledBack
  <2>5. Gapless(recorded)' /\ \A w \in Versions : recorded'[w] # None => file'[w] # None
        BY <1>3, <1>4, <2>1, <2>2 DEF Tidy, Gapless, Hashes, Versions
  <2>6. QED
        BY <1>3, <2>1, <2>2, <2>4, <2>5 DEF Tidy, Gapless
<1>12. ASSUME NEW r \in Runners, Done(r) \/ Crash(r)
       PROVE  Tidy'
       BY <1>3, <1>6, <1>12, ExitSettles DEF Done, Crash, Tidy
<1>13. ASSUME NEW r \in Runners, NEW v \in Versions, Down(r, v)
       PROVE  Tidy'
  <2>1. AsRolledBack(r)'
        BY <1>3, <1>13 DEF Down, Alone, Exclusion, TypeOK, AsRolledBack, Listed
  <2>2. \A s \in Runners : Settled(s)'
        BY <1>3, <1>13, <2>1
        DEF Down, Alone, Exclusion, TypeOK, Settled, AsRead, AsChecked, AsReviewed, AsRolledBack
  <2>3. QED
        BY <1>6, <1>13, <2>2 DEF Down
<1>14. ASSUME NEW r \in Runners, Undo(r)
       PROVE  Tidy'
  <2>1. PICK v \in Versions :
              /\ recorded' = [recorded EXCEPT ![v] = None]
              /\ \A w \in Versions : recorded[w] # None => w <= v
              /\ \A o \in Objects : standing'[o] = Newest(o)'
        BY <1>14, UndoStands
  <2>2. file' = file /\ Exit(r)
        BY <1>14 DEF Undo
  <2>3. \A s \in Runners : Settled(s)'
    <3> SUFFICES ASSUME NEW s \in Runners
                 PROVE  Settled(s)'
        OBVIOUS
    <3>1. run[s].pc \in {"idle", "rehashing", "undoing"}
          BY <1>3, <1>14 DEF Undo, Tidy, Settled, AsRolledBack
    <3>2. s # r => run[s].pc # "undoing" /\ run'[s] = run[s]
          BY <1>3, <1>14, <2>2 DEF Undo, Exit, Exclusion, TypeOK, Tidy, Settled, AsRolledBack
    <3>3. run'[r].pc = "idle"
          BY <1>3, <2>2 DEF Exit, Exclusion, TypeOK, Idle
    <3>4. QED
          BY <1>3, <2>2, <3>1, <3>2, <3>3
          DEF Tidy, Settled, AsRead, AsChecked, AsReviewed, AsRolledBack
  <2>4. Gapless(recorded)' /\ \A w \in Versions : recorded'[w] # None => file'[w] # None
        BY <1>3, <1>4, <2>1, <2>2 DEF Tidy, Gapless, Hashes, Versions
  <2>5. QED
        BY <1>3, <2>1, <2>2, <2>3, <2>4 DEF Tidy, Gapless
<1>15. ASSUME NEW r \in Runners, Reconcile(r)
       PROVE  Tidy'
  <2>1. \A s \in Runners : Settled(s)'
        BY <1>3, <1>4, <1>15
        DEF Reconcile, Drifted, Listed, Exclusion, TypeOK, Tidy, Settled, AsRead, AsChecked,
            AsReviewed, AsRolledBack
  <2>2. QED
        BY <1>6, <1>15, <2>1 DEF Reconcile
<1>16. ASSUME NEW r \in Runners, Rehash(r)
       PROVE  Tidy'
  <2>1. file' = file /\ standing' = standing /\ Exit(r)
        BY <1>16 DEF Rehash
  <2>2. \A w \in Versions : /\ recorded'[w] # None <=> recorded[w] # None
                            /\ recorded'[w] \in {recorded[w], file[w]}
        BY <1>3, <1>16 DEF Rehash, Listed, Tidy, Settled, AsReviewed
  <2>3. Listed(recorded') = Listed(recorded)
        BY <2>2 DEF Listed
  <2>4. \A o \in Objects : standing'[o] = Newest(o)'
        BY <1>3, <2>1, <2>3 DEF Tidy, Newest
  <2>5. \A s \in Runners : Settled(s)'
    <3> SUFFICES ASSUME NEW s \in Runners
                 PROVE  Settled(s)'
        OBVIOUS
    <3>1. CASE s = r
          BY <1>3, <2>1, <3>1
          DEF Exit, Exclusion, TypeOK, Idle, Settled, AsRead, AsChecked, AsReviewed, AsRolledBack
    <3>2. CASE s # r
      <4>1. run'[s] = run[s]
            BY <1>3, <2>1, <3>2 DEF Exit, Exclusion, TypeOK
      <4>2. AsRead(s)' /\ AsChecked(s)' /\ AsReviewed(s)'
            BY <1>3, <2>1, <2>2, <4>1 DEF Tidy, Settled, AsRead, AsChecked, AsReviewed
      <4>3. AsRolledBack(s)'
            BY <1>3, <2>1, <2>2, <4>1
            DEF Exit, Idle, Exclusion, TypeOK, Tidy, Settled, AsRolledBack
      <4>4. QED
            BY <4>2, <4>3 DEF Settled
    <3>3. QED
          BY <3>1, <3>2
  <2>6. QED
        BY <1>3, <2>1, <2>2, <2>4, <2>5 DEF Tidy, Gapless
<1>17. CASE UNCHANGED vars
       BY <1>3, <1>17
       DEF vars, Tidy, Gapless, Newest, Listed, Settled, AsRead, AsChecked, AsReviewed, AsRolledBack
<1>18. QED
       BY <1>5, <1>7, <1>8, <1>9, <1>10, <1>11, <1>12, <1>13, <1>14, <1>15, <1>16, <1>17
       DEF Next, Proceed

(* With an orderly operator every object has the definition of the newest  *)
(* migration recorded for it, through crashes, retries and concurrent      *)
(* `up`s.                                                                  *)
THEOREM SchemaMatches == Spec => []SchemaIsAsRecorded
<1>1. Orderly => SchemaIsAsRecorded
      BY DEF Orderly, Tidy, SchemaIsAsRecorded
<1>2. QED
      BY InitOrderly, NextOrderly, <1>1, PTL DEF Spec

(* Only what the operator touched after the holder's reading drifts under  *)
(* it.                                                                     *)
Watched == Exclusion /\ LateDrift

LEMMA InitWatched == Init => Watched
BY InitExclusion DEF Watched, Init, LateDrift, Idle

LEMMA NextWatched == Watched /\ [Next]_vars => Watched'
<1> SUFFICES ASSUME Watched, [Next]_vars
             PROVE  LateDrift'
    BY NextExclusion DEF Watched
<1> USE MigrationAssumption DEF At
<1>1. Exclusion /\ LateDrift /\ run \in [Runners -> Run \cup {Idle}]
      BY DEF Watched, Exclusion, TypeOK
<1>2. recorded \in Hashes /\ file \in Hashes
      BY DEF Watched, Exclusion, TypeOK
<1>3. ASSUME NEW v \in Versions, NEW d \in Digests, Edit(v, d)
      PROVE  LateDrift'
      BY <1>1, <1>2, <1>3 DEF Edit, LateDrift, Listed, Hashes
<1>4. ASSUME NEW r \in Runners, Up(r)
      PROVE  LateDrift'
      BY <1>1, <1>4 DEF Up, LateDrift, Listed
<1>5. ASSUME NEW r \in Runners, Lock(r)
      PROVE  LateDrift'
  <2>1. run[r] \in Run
        BY <1>1, <1>5, BusyRuns DEF Exclusion, Lock
  <2>2. QED
        BY <1>1, <1>5, <2>1 DEF Lock, Moved, Run, LateDrift, Listed
<1>6. ASSUME NEW r \in Runners, ReadApplied(r)
      PROVE  LateDrift'
  <2>1. run[r] \in Run
        BY <1>1, <1>6, BusyRuns DEF Exclusion, ReadApplied
  <2>2. \A s \in Runners : s # r => run'[s] = run[s] /\ run[s].pc \notin {"read", "applying"}
        BY <1>1, <1>6 DEF ReadApplied, Exclusion, LockIsHeld, Holding
  <2>3. run'[r].pc = "read" /\ run'[r].view = recorded /\ recorded' = recorded
        BY <1>1, <1>6, <2>1 DEF ReadApplied, Run
  <2>4. QED
        BY <2>2, <2>3 DEF LateDrift
<1>7. ASSUME NEW r \in Runners, CheckDrift(r)
      PROVE  LateDrift'
  <2>1. run[r] \in Run
        BY <1>1, <1>7, BusyRuns DEF Exclusion, CheckDrift
  <2>2. UNCHANGED <<file, recorded, touched>>
        BY <1>7 DEF CheckDrift
  <2>3. \A s \in Runners : s # r => run'[s] = run[s]
        BY <1>1, <1>7 DEF CheckDrift, Exit
  <2>4. run'[r].pc # "read"
    <3>1. CASE Sound(run[r].view)
      <4>1. run' = [run EXCEPT ![r] = [@ EXCEPT !.pc = "applying",
                                         !.todo = Listed(file) \ Listed(run[r].view)]]
            BY <1>7, <3>1 DEF CheckDrift
      <4>2. run \in [Runners -> Run \cup {Idle}]
            BY <1>1
      <4>3. QED
            BY <2>1, <4>1, <4>2 DEF Run
    <3>2. CASE ~Sound(run[r].view)
          BY <1>1, <1>7, <3>2 DEF CheckDrift, Exit, Idle
    <3>3. QED
          BY <3>1, <3>2
  <2>5. ASSUME run'[r].pc = "applying", NEW v \in Listed(recorded) \ touched
        PROVE  recorded[v] = file[v]
    <3>1. Sound(run[r].view)
          BY <1>1, <1>7, <2>1, <2>5 DEF CheckDrift, Exit, Idle
    <3>2. recorded[v] = run[r].view[v] /\ recorded[v] # None
          BY <1>1, <1>7, <2>5 DEF CheckDrift, LateDrift, Listed
    <3>3. QED
          BY <3>1, <3>2 DEF Sound, Drifted, Listed
  <2>6. QED
        BY <1>1, <2>2, <2>3, <2>4, <2>5 DEF LateDrift
<1>8. ASSUME NEW r \in Runners, NEW v \in Versions, Apply(r, v)
      PROVE  LateDrift'
  <2>1. run[r] \in Run
        BY <1>1, <1>8, BusyRuns DEF Exclusion, Apply
  <2>2. /\ recorded' = [recorded EXCEPT ![v] = file[v]]
        /\ run' = [run EXCEPT ![r].todo = @ \ {v}]
        /\ UNCHANGED <<file, touched>>
        BY <1>1, <1>8 DEF Apply, Exclusion, TodoIsNew
  <2>3. \A s \in Runners : /\ s # r => run'[s] = run[s] /\ run[s].pc # "read"
                           /\ run'[s].pc = run[s].pc /\ run[r].pc = "applying"
        BY <1>1, <1>8, <2>1, <2>2 DEF Apply, Run, Exclusion, LockIsHeld, Holding
  <2>4. QED
        BY <1>1, <1>2, <2>2, <2>3 DEF LateDrift, Listed, Hashes
<1>9. ASSUME NEW r \in Runners, Done(r) \/ Crash(r)
      PROVE  LateDrift'
      BY <1>1, <1>9 DEF Done, Crash, Exit, Idle, LateDrift, Listed
<1>10. ASSUME NEW r \in Runners, NEW v \in Versions, Down(r, v)
       PROVE  LateDrift'
       BY <1>1, <1>10 DEF Down, LateDrift, Listed
<1>11. ASSUME NEW r \in Runners, Undo(r)
       PROVE  LateDrift'
       BY <1>1, <1>2, <1>11 DEF Undo, Exit, Idle, LateDrift, Listed, Hashes
<1>12. ASSUME NEW r \in Runners, Reconcile(r)
       PROVE  LateDrift'
       BY <1>1, <1>12 DEF Reconcile, LateDrift, Listed
<1>13. ASSUME NEW r \in Runners, Rehash(r)
       PROVE  LateDrift'
  <2>1. \A v \in Listed(recorded') \ touched' : /\ v \in Listed(recorded) \ touched
                                               /\ recorded'[v] = recorded[v]
        BY <1>2, <1>13 DEF Rehash, Listed, Hashes
  <2>2. QED
        BY <1>1, <1>13, <2>1 DEF Rehash, Exit, Idle, LateDrift
<1>14. CASE UNCHANGED vars
       BY <1>1, <1>14 DEF vars, LateDrift, Listed
<1>15. QED
       BY <1>3, <1>4, <1>5, <1>6, <1>7, <1>8, <1>9, <1>10, <1>11, <1>12, <1>13, <1>14
       DEF Next, Proceed

(* An `up` builds on drift that came after it had read the rows and on no  *)
(* other, whatever the operator does; on none at all if he is orderly.     *)
THEOREM BuiltOnLateDriftOnly == Spec => OnlyLateDriftIsBuiltOn
<1> DEFINE Fine == Grows => \A v \in Listed(recorded) :
                             recorded[v] # file[v] => v \in touched /\ ~orderly
<1>1. Watched /\ Orderly /\ [Next]_vars => Fine
  <2> SUFFICES ASSUME Watched, Orderly, [Next]_vars, Grows,
                      NEW v \in Listed(recorded), recorded[v] # file[v]
               PROVE  v \in touched /\ ~orderly
      OBVIOUS
  <2>1. recorded \in Hashes
        BY DEF Orderly, Exclusion, TypeOK
  <2>2. PICK w \in Versions : recorded[w] = None /\ recorded'[w] # None
        BY DEF Grows, Listed
  <2>3. \E r \in Runners : \E m \in Versions : Apply(r, m)
        BY <2>1, <2>2
        DEF Next, Proceed, Edit, Up, Lock, ReadApplied, CheckDrift, Done, Down, Undo, Reconcile,
            Rehash, Crash, Hashes, vars
  <2>4. PICK r \in Runners : run[r].pc = "applying"
        BY <2>3 DEF Apply, At
  <2>5. v \in touched
        BY <2>4 DEF Watched, LateDrift
  <2>6. ~orderly
        BY <2>4 DEF Orderly, Tidy, Settled, AsChecked, Listed
  <2>7. QED
        BY <2>5, <2>6
<1> HIDE DEF Fine
<1>2. Spec => [][Fine]_vars
      BY InitWatched, NextWatched, InitOrderly, NextOrderly, <1>1, PTL DEF Spec
<1>3. QED
      BY <1>2 DEF OnlyLateDriftIsBuiltOn, Fine
=============================================================================
