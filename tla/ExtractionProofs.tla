-------------------------- MODULE ExtractionProofs --------------------------
(***************************************************************************)
(* Proofs about the extraction of a session, for any constants.            *)
(*                                                                         *)
(* TranscriptExtraction: nothing is passed over.  A run has extracted all  *)
(* it counts as done; a request whose client still waits is the only one   *)
(* of its run and about the batch the run has posted, so that its answer   *)
(* vouches for that very batch.                                            *)
(*                                                                         *)
(* CandidateMerge: what its loops make of any transcript and any           *)
(* candidates.  The loops are folds; a fold is unfolded into the sequence  *)
(* of what it holds after each element, and what holds at its end by       *)
(* induction along that sequence.                                          *)
(***************************************************************************)
EXTENDS TranscriptExtraction, CandidateMerge, SequenceTheorems, WellFoundedInduction, TLAPS

(* A run goes over a prefix of the transcript, and what it has done of it, *)
(* or got an answer for, is extracted.                                     *)
RunIsSound(r) ==
  run[r] # Idle =>
    LET s == run[r].session
    IN  /\ run[r].at <= run[r].n /\ run[r].n <= spans[s]
        /\ 1 .. run[r].at \subseteq extracted[s]
        /\ run[r].phase # "ready" => run[r].at <= run[r].hi /\ run[r].hi <= run[r].n
        /\ run[r].phase = "answered" => 1 .. run[r].hi \subseteq extracted[s]

(* A committed request has extracted its spans; one whose client waits is  *)
(* about the batch that client posted, *)
RequestIsSound(g) ==
  served[g] # Idle =>
    /\ served[g].stage = "committed" =>
         served[g].lo + 1 .. served[g].hi \subseteq extracted[served[g].session]
    /\ served[g].for # None =>
         LET r == served[g].for
         IN  /\ run[r] # Idle /\ run[r].phase = "posted"
             /\ run[r].session = served[g].session
             /\ run[r].at = served[g].lo /\ run[r].hi = served[g].hi

(* and there is no other. *)
ClientsWaitForOne ==
  \A g, h \in Workers :
    served[g] # Idle /\ served[h] # Idle /\ served[g].for # None /\ served[g].for = served[h].for
      => g = h

SpooledIsNotEmpty == \A s \in Sessions : spool[s] = "due" => spans[s] >= 1

IInv ==
  /\ TypeOK
  /\ NothingIsSkipped
  /\ SpooledIsNotEmpty
  /\ \A r \in Runners : RunIsSound(r)
  /\ \A g \in Workers : RequestIsSound(g)
  /\ ClientsWaitForOne

-----------------------------------------------------------------------------
LEMMA LeastOf ==
  ASSUME NEW m \in Nat, NEW n \in Nat
  PROVE  Least(m, n) \in Nat /\ Least(m, n) <= m /\ Least(m, n) <= n /\ Least(m, n) \in {m, n}
BY DEF Least

LEMMA InitIInv == Init => IInv
BY ExtractionAssumption
DEF Init, IInv, TypeOK, NothingIsSkipped, SpooledIsNotEmpty, RunIsSound, RequestIsSound,
    ClientsWaitForOne, Idle

(* The spool never forgets a transcript because a run fails. *)
LEMMA FailedRunSpools ==
  ASSUME TypeOK, NEW s \in Sessions, NEW b \in BOOLEAN, FailedRun(s, b)
  PROVE  /\ spool' \in [Sessions -> {"none", "due", "parked"}]
         /\ attempts' \in [Sessions -> 0 .. MaxAttempts]
         /\ \A t \in Sessions : spool'[t] = spool[t] \/ spool'[t] = "parked"
BY ExtractionAssumption DEF TypeOK, FailedRun

(* A run that fails leaves everything it has done, and whoever waited for  *)
(* its request waits no more.                                              *)
LEMMA RunFails ==
  ASSUME IInv, NEW r \in Runners, run[r] # Idle,
         run' = [run EXCEPT ![r] = AfterFailure(run[r])] \/ run' = [run EXCEPT ![r] = Idle],
         served' \in [Workers -> Request \cup {Idle}],
         \A g \in Workers : served'[g] # Idle =>
           /\ served[g] # Idle
           /\ served'[g].for # r
           /\ served'[g] = served[g] \/ served'[g] = [served[g] EXCEPT !.for = None],
         spool' \in [Sessions -> {"none", "due", "parked"}],
         attempts' \in [Sessions -> 0 .. MaxAttempts],
         \A t \in Sessions : spool'[t] = spool[t] \/ spool'[t] = "parked",
         UNCHANGED <<spans, ckpt, extracted>>
  PROVE  IInv'
<1> USE ExtractionAssumption
<1>1. run[r] \in Run
      BY DEF IInv, TypeOK
<1>2. \/ run'[r] = Idle
      \/ /\ run[r].tries + 1 < Tries
         /\ run'[r] = [run[r] EXCEPT !.phase = "ready", !.tries = @ + 1]
      BY DEF AfterFailure, IInv, TypeOK
<1>3. run'[r] \in Run \cup {Idle}
  <2>1. CASE run'[r] = Idle
        BY <2>1
  <2>2. CASE /\ run[r].tries + 1 < Tries
             /\ run'[r] = [run[r] EXCEPT !.phase = "ready", !.tries = @ + 1]
    <3>1. run[r].tries \in Nat /\ run[r].tries + 1 \in 0 .. Tries - 1
          BY <1>1, <2>2 DEF Run
    <3>2. QED
          BY <1>1, <2>2, <3>1 DEF Run
  <2>3. QED
        BY <1>2, <2>1, <2>2
<1>4. TypeOK'
      BY <1>3 DEF IInv, TypeOK
<1>5. \A q \in Runners : q # r => run'[q] = run[q]
      BY DEF IInv, TypeOK
<1>6. NothingIsSkipped' /\ SpooledIsNotEmpty'
      BY DEF IInv, NothingIsSkipped, SpooledIsNotEmpty
<1>7. ASSUME NEW q \in Runners
      PROVE  RunIsSound(q)'
  <2>1. CASE q = r
        BY <1>1, <1>2, <2>1 DEF IInv, RunIsSound, Run, Idle
  <2>2. CASE q # r
        BY <1>5, <2>2 DEF IInv, RunIsSound
  <2>3. QED
        BY <2>1, <2>2
<1>8. ASSUME NEW g \in Workers
      PROVE  RequestIsSound(g)'
  <2> SUFFICES ASSUME served'[g] # Idle
               PROVE  RequestIsSound(g)'
      BY DEF RequestIsSound
  <2>1. served[g] \in Request /\ RequestIsSound(g) /\ served'[g].for # r
        BY DEF IInv, TypeOK
  <2>2. CASE served'[g] = served[g]
        BY <1>5, <2>1, <2>2 DEF RequestIsSound, Request
  <2>3. CASE served'[g] = [served[g] EXCEPT !.for = None]
        BY <2>1, <2>3 DEF RequestIsSound, Request
  <2>4. QED
        BY <2>2, <2>3
<1>9. ClientsWaitForOne'
  <2> SUFFICES ASSUME NEW g \in Workers, NEW h \in Workers,
                      served'[g] # Idle, served'[h] # Idle,
                      served'[g].for # None, served'[g].for = served'[h].for
               PROVE  g = h
      BY DEF ClientsWaitForOne
  <2>1. served[g] \in Request /\ served[h] \in Request
        BY DEF IInv, TypeOK
  <2>2. served'[g] = served[g] /\ served'[h] = served[h]
        BY <2>1 DEF Request
  <2>3. QED
        BY <2>2 DEF IInv, ClientsWaitForOne
<1>10. QED
       BY <1>4, <1>6, <1>7, <1>8, <1>9 DEF IInv

LEMMA DesertedIsTyped ==
  ASSUME TypeOK, NEW r \in Runners
  PROVE  /\ Deserted(r) \in [Workers -> Request \cup {Idle}]
         /\ \A g \in Workers : Deserted(r)[g] # Idle =>
              /\ served[g] # Idle
              /\ Deserted(r)[g].for # r
              /\ Deserted(r)[g] = served[g] \/ Deserted(r)[g] = [served[g] EXCEPT !.for = None]
<1> USE ExtractionAssumption
<1>1. ASSUME NEW g \in Workers
      PROVE  /\ Deserted(r)[g] \in Request \cup {Idle}
             /\ Deserted(r)[g] # Idle =>
                  /\ served[g] # Idle
                  /\ Deserted(r)[g].for # r
                  /\ Deserted(r)[g] = served[g] \/ Deserted(r)[g] = [served[g] EXCEPT !.for = None]
  <2>1. served[g] \in Request \cup {Idle}
        BY DEF TypeOK
  <2>2. CASE served[g] = Idle
        BY <2>2 DEF Deserted
  <2>3. CASE served[g] # Idle /\ served[g].for = r
    <3>1. Deserted(r)[g] = [served[g] EXCEPT !.for = None]
          BY <2>3 DEF Deserted
    <3>2. [served[g] EXCEPT !.for = None] \in Request /\ [served[g] EXCEPT !.for = None].for # r
          BY <2>1, <2>3 DEF Request
    <3>3. QED
          BY <2>3, <3>1, <3>2
  <2>4. CASE served[g] # Idle /\ served[g].for # r
    <3>1. Deserted(r)[g] = served[g]
          BY <2>4 DEF Deserted
    <3>2. QED
          BY <2>1, <2>4, <3>1
  <2>5. QED
        BY <2>2, <2>3, <2>4
<1>2. Deserted(r) = [g \in Workers |-> Deserted(r)[g]]
      BY DEF Deserted
<1>3. QED
      BY <1>1, <1>2

(* What Failed does to the spool, when a run ends or goes on. *)
LEMMA FailedSpools ==
  ASSUME TypeOK, NEW r \in Runners, run[r] \in Run, NEW b \in BOOLEAN, Failed(r, b)
  PROVE  /\ run' = [run EXCEPT ![r] = AfterFailure(run[r])]
         /\ spool' \in [Sessions -> {"none", "due", "parked"}]
         /\ attempts' \in [Sessions -> 0 .. MaxAttempts]
         /\ \A t \in Sessions : spool'[t] = spool[t] \/ spool'[t] = "parked"
         /\ UNCHANGED <<spans, ckpt, extracted>>
<1>1. run[r].session \in Sessions
      BY DEF Run
<1>2. CASE AfterFailure(run[r]) = Idle
      BY <1>1, <1>2, FailedRunSpools DEF Failed
<1>3. CASE AfterFailure(run[r]) # Idle
      BY <1>3 DEF Failed, TypeOK
<1>4. QED
      BY <1>2, <1>3

(* Whoever a request is for waits for it. *)
LEMMA SomebodyWaits ==
  ASSUME IInv, NEW g \in Workers, served[g] # Idle, served[g].for # None
  PROVE  /\ served[g] \in Request /\ served[g].for \in Runners
         /\ run[served[g].for] # Idle /\ run[served[g].for] \in Run
         /\ \A h \in Workers : h # g /\ served[h] # Idle => served[h].for # served[g].for
<1>1. served[g] \in Request /\ served[g].for \in Runners
      BY DEF IInv, TypeOK, Request
<1>2. run[served[g].for] # Idle
      BY DEF IInv, RequestIsSound
<1>3. run[served[g].for] \in Run
      BY <1>1, <1>2 DEF IInv, TypeOK
<1>4. QED
      BY <1>1, <1>2, <1>3 DEF IInv, ClientsWaitForOne

-----------------------------------------------------------------------------
LEMMA StutterIInv == IInv /\ UNCHANGED vars => IInv'
BY DEF IInv, TypeOK, NothingIsSkipped, SpooledIsNotEmpty, RunIsSound, RequestIsSound,
       ClientsWaitForOne, vars

LEMMA SessionEndsIInv ==
  ASSUME IInv, NEW s \in Sessions, SessionEnds(s)
  PROVE  IInv'
<1> USE ExtractionAssumption
<1>1. spans[s] \in Nat /\ spans'[s] = spans[s] + 1 /\ spans'[s] \in 0 .. MaxSpans
      BY DEF SessionEnds, IInv, TypeOK
<1>2. \A t \in Sessions : spans'[t] \in Nat /\ spans[t] \in Nat /\ spans[t] <= spans'[t]
      BY <1>1 DEF SessionEnds, IInv, TypeOK
<1>3. TypeOK'
      BY <1>1 DEF SessionEnds, IInv, TypeOK
<1>4. NothingIsSkipped' /\ SpooledIsNotEmpty'
      BY <1>1 DEF SessionEnds, IInv, TypeOK, NothingIsSkipped, SpooledIsNotEmpty
<1>5. ASSUME NEW r \in Runners
      PROVE  RunIsSound(r)'
  <2> SUFFICES ASSUME run[r] # Idle
               PROVE  RunIsSound(r)'
      BY DEF SessionEnds, RunIsSound
  <2>1. run[r] \in Run /\ RunIsSound(r)
        BY DEF IInv, TypeOK
  <2>2. QED
        BY <1>2, <2>1 DEF SessionEnds, RunIsSound, Run
<1>6. (\A g \in Workers : RequestIsSound(g)') /\ ClientsWaitForOne'
      BY DEF SessionEnds, IInv, RequestIsSound, ClientsWaitForOne
<1>7. QED
      BY <1>3, <1>4, <1>5, <1>6 DEF IInv

(* A client that takes a step of its own leaves the others where they are, *)
(* and nobody serves it unless it has posted.                              *)
LEMMA RunMoves ==
  ASSUME IInv, NEW r \in Runners, NEW x, run' = [run EXCEPT ![r] = x],
         run[r] = Idle \/ run[r].phase # "posted",
         x \in Run \cup {Idle},
         UNCHANGED <<spans, served, extracted>>, RunIsSound(r)'
  PROVE  /\ run' \in [Runners -> Run \cup {Idle}]
         /\ \A q \in Runners : RunIsSound(q)'
         /\ \A g \in Workers : RequestIsSound(g)'
         /\ ClientsWaitForOne'
<1>1. \A q \in Runners : q # r => run'[q] = run[q]
      BY DEF IInv, TypeOK
<1>2. run' \in [Runners -> Run \cup {Idle}]
      BY DEF IInv, TypeOK
<1>3. ASSUME NEW q \in Runners
      PROVE  RunIsSound(q)'
      BY <1>1 DEF IInv, RunIsSound
<1>4. ASSUME NEW g \in Workers
      PROVE  RequestIsSound(g)'
  <2> SUFFICES ASSUME served[g] # Idle
               PROVE  RequestIsSound(g)'
      BY DEF RequestIsSound
  <2>1. served[g] \in Request /\ RequestIsSound(g)
        BY DEF IInv, TypeOK
  <2>2. CASE served[g].for = None
        BY <2>1, <2>2 DEF RequestIsSound
  <2>3. CASE served[g].for # None
    <3>1. served[g].for \in Runners /\ served[g].for # r
          BY <2>1, <2>3 DEF RequestIsSound, Request
    <3>2. QED
          BY <1>1, <2>1, <3>1 DEF RequestIsSound
  <2>4. QED
        BY <2>2, <2>3
<1>5. ClientsWaitForOne'
      BY DEF IInv, ClientsWaitForOne
<1>6. QED
      BY <1>2, <1>3, <1>4, <1>5

LEMMA RunBeginIInv ==
  ASSUME IInv, NEW r \in Runners, NEW s \in Sessions, RunBegin(r, s)
  PROVE  IInv'
<1> USE ExtractionAssumption
<1> DEFINE done == Resume(s, spans[s])
<1>1. PICK b \in BatchSizes :
        run' = [run EXCEPT ![r] = [session |-> s, n |-> spans[s], at |-> done, hi |-> 0,
                                   batch |-> b, tries |-> 0, phase |-> "ready"]]
      BY DEF RunBegin
<1>2. /\ spans[s] \in 1 .. MaxSpans /\ ckpt[s] \in 0 .. MaxSpans
      BY DEF RunBegin, IInv, TypeOK, SpooledIsNotEmpty
<1>3. done \in Nat /\ done <= spans[s] /\ done <= ckpt[s]
      BY <1>2 DEF Resume, Least
<1> DEFINE x == [session |-> s, n |-> spans[s], at |-> done, hi |-> 0,
                 batch |-> b, tries |-> 0, phase |-> "ready"]
<1> HIDE DEF done
<1>4. x \in Run
      BY <1>2, <1>3 DEF Run
<1>5. run'[r] = x
      BY <1>1 DEF IInv, TypeOK
<1>6. 1 .. done \subseteq extracted[s]
      BY <1>2, <1>3 DEF IInv, NothingIsSkipped
<1>7. RunIsSound(r)'
      BY <1>2, <1>3, <1>5, <1>6 DEF RunBegin, RunIsSound
<1>8. /\ run' \in [Runners -> Run \cup {Idle}]
      /\ \A q \in Runners : RunIsSound(q)'
      /\ \A g \in Workers : RequestIsSound(g)'
      /\ ClientsWaitForOne'
  <2> HIDE DEF x
  <2>1. run' = [run EXCEPT ![r] = x]
        BY <1>1 DEF x
  <2>2. QED
        BY <1>4, <1>7, <2>1, RunMoves DEF RunBegin
<1>9. TypeOK' /\ NothingIsSkipped' /\ SpooledIsNotEmpty'
      BY <1>8 DEF RunBegin, IInv, TypeOK, NothingIsSkipped, SpooledIsNotEmpty
<1>10. QED
       BY <1>8, <1>9 DEF IInv

(* A posted batch is a proper piece of what the run still has to do. *)
LEMMA PostIInv ==
  ASSUME IInv, NEW r \in Runners, NEW g \in Workers, Post(r, g)
  PROVE  IInv'
<1> USE ExtractionAssumption
<1> DEFINE hi == Least(run[r].at + run[r].batch, run[r].n)
           x  == [run[r] EXCEPT !.phase = "posted", !.hi = hi]
           y  == [session |-> run[r].session, lo |-> run[r].at, hi |-> hi,
                  stage |-> "received", for |-> r]
<1>1. run[r] # Idle /\ run[r] \in Run /\ RunIsSound(r)
  <2>1. run[r] # Idle
        BY DEF Post, Idle
  <2>2. QED
        BY <2>1 DEF IInv, TypeOK
<1>2. /\ run[r].at \in 0 .. MaxSpans /\ run[r].n \in 1 .. MaxSpans
      /\ run[r].batch \in Nat \ {0} /\ run[r].session \in Sessions
      BY <1>1 DEF Run
<1>3. hi \in 0 .. MaxSpans /\ run[r].at <= hi /\ hi <= run[r].n
      BY <1>2, LeastOf DEF Post, Least
<1>4. /\ run' = [run EXCEPT ![r].phase = "posted", ![r].hi = hi]
      /\ served' = [served EXCEPT ![g] = y]
      BY DEF Post
<1> HIDE DEF hi
<1>5. x \in Run /\ x # Idle
      BY <1>1, <1>3 DEF Run, Idle
<1>6. y \in Request /\ y # Idle
      BY <1>2, <1>3 DEF Request, Idle
<1>7. run'[r] = x /\ \A q \in Runners : q # r => run'[q] = run[q]
      BY <1>1, <1>4 DEF IInv, TypeOK, Run
<1>8. served'[g] = y /\ \A h \in Workers : h # g => served'[h] = served[h]
      BY <1>4 DEF IInv, TypeOK
<1>9. TypeOK'
  <2>1. run' \in [Runners -> Run \cup {Idle}]
        BY <1>4, <1>5, <1>7 DEF IInv, TypeOK
  <2>2. served' \in [Workers -> Request \cup {Idle}]
        BY <1>4, <1>6 DEF IInv, TypeOK
  <2>3. QED
        BY <2>1, <2>2 DEF Post, IInv, TypeOK
<1>10. NothingIsSkipped' /\ SpooledIsNotEmpty'
       BY DEF Post, IInv, NothingIsSkipped, SpooledIsNotEmpty
<1>11. /\ x.session = run[r].session /\ x.at = run[r].at /\ x.n = run[r].n
       /\ x.hi = hi /\ x.phase = "posted"
       BY <1>1 DEF Run
<1>12. ASSUME NEW q \in Runners
       PROVE  RunIsSound(q)'
  <2>1. CASE q = r
    <3> HIDE DEF x
    <3>1. QED
          BY <1>1, <1>3, <1>7, <1>11, <2>1 DEF Post, RunIsSound
  <2>2. CASE q # r
        BY <1>7, <2>2 DEF Post, IInv, RunIsSound
  <2>3. QED
        BY <2>1, <2>2
<1>13. ASSUME NEW h \in Workers, h # g, served[h] # Idle
       PROVE  served[h] \in Request /\ RequestIsSound(h) /\ served[h].for # r
  <2>1. served[h] \in Request /\ RequestIsSound(h)
        BY <1>13 DEF IInv, TypeOK
  <2>2. QED
        BY <1>13, <2>1 DEF Post, RequestIsSound
<1>14. ASSUME NEW h \in Workers
       PROVE  RequestIsSound(h)'
  <2>1. CASE h = g
    <3> HIDE DEF x
    <3>1. QED
          BY <1>5, <1>7, <1>8, <1>11, <2>1 DEF RequestIsSound
  <2>2. CASE h # g /\ served[h] # Idle
    <3>1. served'[h] = served[h] /\ extracted' = extracted
          BY <1>8, <2>2 DEF Post
    <3>2. served[h].for # None =>
            served[h].for \in Runners /\ run'[served[h].for] = run[served[h].for]
          BY <1>7, <1>13, <2>2 DEF Request
    <3>3. QED
          BY <1>13, <2>2, <3>1, <3>2 DEF RequestIsSound
  <2>3. CASE h # g /\ served[h] = Idle
        BY <1>8, <2>3 DEF RequestIsSound
  <2>4. QED
        BY <2>1, <2>2, <2>3
<1>15. ClientsWaitForOne'
  <2>1. y.for = r
        OBVIOUS
  <2> HIDE DEF y
  <2>2. QED
        BY <1>8, <1>13, <2>1 DEF IInv, ClientsWaitForOne
<1>16. QED
       BY <1>9, <1>10, <1>12, <1>14, <1>15 DEF IInv

LEMMA PostFailsIInv ==
  ASSUME IInv, NEW r \in Runners, PostFails(r)
  PROVE  IInv'
<1>1. run[r] # Idle /\ run[r] \in Run
  <2>1. run[r] # Idle
        BY DEF PostFails, Idle
  <2>2. QED
        BY <2>1 DEF IInv, TypeOK
<1>2. PICK b \in BOOLEAN : Failed(r, b)
      BY DEF PostFails
<1>3. /\ run' = [run EXCEPT ![r] = AfterFailure(run[r])]
      /\ spool' \in [Sessions -> {"none", "due", "parked"}]
      /\ attempts' \in [Sessions -> 0 .. MaxAttempts]
      /\ \A t \in Sessions : spool'[t] = spool[t] \/ spool'[t] = "parked"
      /\ UNCHANGED <<spans, ckpt, extracted>>
      BY <1>1, <1>2, FailedSpools DEF IInv
<1>4. \A g \in Workers : served[g] # Idle => served[g].for # r
  <2> SUFFICES ASSUME NEW g \in Workers, served[g] # Idle, served[g].for = r
               PROVE  FALSE
      OBVIOUS
  <2>1. run[r].phase = "posted"
        BY ExtractionAssumption DEF IInv, RequestIsSound
  <2>2. QED
        BY <2>1 DEF PostFails
<1>5. /\ served' \in [Workers -> Request \cup {Idle}]
      /\ \A g \in Workers : served'[g] = served[g]
      BY DEF PostFails, IInv, TypeOK
<1>6. QED
      BY <1>1, <1>3, <1>4, <1>5, RunFails

LEMMA TimeoutIInv ==
  ASSUME IInv, NEW r \in Runners, Timeout(r)
  PROVE  IInv'
<1>1. run[r] # Idle /\ run[r] \in Run
  <2>1. run[r] # Idle
        BY DEF Timeout, Waiting, Idle
  <2>2. QED
        BY <2>1 DEF IInv, TypeOK
<1>2. /\ run' = [run EXCEPT ![r] = AfterFailure(run[r])]
      /\ spool' \in [Sessions -> {"none", "due", "parked"}]
      /\ attempts' \in [Sessions -> 0 .. MaxAttempts]
      /\ \A t \in Sessions : spool'[t] = spool[t] \/ spool'[t] = "parked"
      /\ UNCHANGED <<spans, ckpt, extracted>>
  <2>1. Failed(r, TRUE)
        BY DEF Timeout
  <2>2. QED
        BY <1>1, <2>1, FailedSpools DEF IInv
<1>3. served' = Deserted(r)
      BY DEF Timeout
<1>4. TypeOK
      BY DEF IInv
<1>5. /\ served' \in [Workers -> Request \cup {Idle}]
      /\ \A g \in Workers : served'[g] # Idle =>
           /\ served[g] # Idle
           /\ served'[g].for # r
           /\ served'[g] = served[g] \/ served'[g] = [served[g] EXCEPT !.for = None]
      BY <1>4, <1>3, DesertedIsTyped
<1>6. QED
      BY <1>1, <1>2, <1>3, <1>4, <1>5, RunFails

LEMMA KilledIInv ==
  ASSUME IInv, NEW r \in Runners, Killed(r)
  PROVE  IInv'
<1>1. run[r] # Idle /\ run[r] \in Run /\ run[r].session \in Sessions
      BY DEF Killed, IInv, TypeOK, Run
<1>2. TypeOK /\ FailedRun(run[r].session, FALSE)
      BY DEF Killed, IInv
<1>3. /\ spool' \in [Sessions -> {"none", "due", "parked"}]
      /\ attempts' \in [Sessions -> 0 .. MaxAttempts]
      /\ \A t \in Sessions : spool'[t] = spool[t] \/ spool'[t] = "parked"
      BY <1>1, <1>2, FailedRunSpools
<1>4. /\ run' = [run EXCEPT ![r] = Idle] /\ served' = Deserted(r)
      /\ UNCHANGED <<spans, ckpt, extracted>>
      BY DEF Killed
<1>5. /\ served' \in [Workers -> Request \cup {Idle}]
      /\ \A g \in Workers : served'[g] # Idle =>
           /\ served[g] # Idle
           /\ served'[g].for # r
           /\ served'[g] = served[g] \/ served'[g] = [served[g] EXCEPT !.for = None]
      BY <1>2, <1>4, DesertedIsTyped
<1>6. QED
      BY <1>1, <1>2, <1>3, <1>4, <1>5, RunFails

(* An answered batch is counted as done. *)
LEMMA BatchDone ==
  ASSUME IInv, NEW r \in Runners, run[r].phase = "answered",
         run' = [run EXCEPT ![r].phase = "ready", ![r].at = run[r].hi, ![r].tries = 0],
         UNCHANGED <<spans, served, extracted>>
  PROVE  /\ run[r] \in Run /\ 1 .. run[r].hi \subseteq extracted[run[r].session]
         /\ run' \in [Runners -> Run \cup {Idle}]
         /\ \A q \in Runners : RunIsSound(q)'
         /\ \A g \in Workers : RequestIsSound(g)'
         /\ ClientsWaitForOne'
<1> USE ExtractionAssumption
<1> DEFINE x == [run[r] EXCEPT !.phase = "ready", !.at = run[r].hi, !.tries = 0]
<1>1. run[r] # Idle /\ run[r] \in Run /\ RunIsSound(r)
  <2>1. run[r] # Idle
        BY DEF Idle
  <2>2. QED
        BY <2>1 DEF IInv, TypeOK
<1>2. /\ run[r].hi \in 0 .. MaxSpans /\ run[r].hi <= run[r].n
      /\ 1 .. run[r].hi \subseteq extracted[run[r].session]
      BY <1>1 DEF RunIsSound, Run
<1>3. x \in Run
  <2>1. 0 \in 0 .. Tries - 1
        OBVIOUS
  <2>2. QED
        BY <1>1, <1>2, <2>1 DEF Run
<1>4. /\ x.session = run[r].session /\ x.at = run[r].hi /\ x.n = run[r].n
      /\ x.phase = "ready"
      BY <1>1 DEF Run
<1>5. run' = [run EXCEPT ![r] = x]
      BY <1>1 DEF IInv, TypeOK, Run
<1>6. run'[r] = x
      BY <1>5 DEF IInv, TypeOK
<1> HIDE DEF x
<1>7. RunIsSound(r)'
      BY <1>1, <1>2, <1>4, <1>6 DEF RunIsSound
<1>8. QED
      BY <1>1, <1>2, <1>3, <1>5, <1>7, RunMoves

LEMMA SaveIInv ==
  ASSUME IInv, NEW r \in Runners, Save(r) \/ SaveFails(r)
  PROVE  IInv'
<1> USE ExtractionAssumption
<1>1. /\ run[r] \in Run /\ 1 .. run[r].hi \subseteq extracted[run[r].session]
      /\ run' \in [Runners -> Run \cup {Idle}]
      /\ \A q \in Runners : RunIsSound(q)'
      /\ \A g \in Workers : RequestIsSound(g)'
      /\ ClientsWaitForOne'
  <2>1. /\ run[r].phase = "answered"
        /\ run' = [run EXCEPT ![r].phase = "ready", ![r].at = run[r].hi, ![r].tries = 0]
        /\ UNCHANGED <<spans, served, extracted>>
        BY DEF Save, SaveFails
  <2>2. QED
        BY <2>1, BatchDone
<1>2. run[r].hi \in 0 .. MaxSpans /\ run[r].session \in Sessions
      BY <1>1 DEF Run
<1>3. \/ ckpt' = [ckpt EXCEPT ![run[r].session] = run[r].hi]
      \/ ckpt' = ckpt
      BY DEF Save, SaveFails
<1>4. UNCHANGED <<spans, served, extracted, spool, attempts>>
      BY DEF Save, SaveFails
<1>5. TypeOK'
      BY <1>1, <1>2, <1>3, <1>4 DEF IInv, TypeOK
<1>6. NothingIsSkipped' /\ SpooledIsNotEmpty'
      BY <1>1, <1>2, <1>3, <1>4 DEF IInv, TypeOK, NothingIsSkipped, SpooledIsNotEmpty
<1>7. QED
      BY <1>1, <1>5, <1>6 DEF IInv

LEMMA RunEndIInv ==
  ASSUME IInv, NEW r \in Runners, RunEnd(r)
  PROVE  IInv'
<1> USE ExtractionAssumption
<1> DEFINE s == run[r].session
<1>1. run[r] # Idle /\ run[r] \in Run /\ RunIsSound(r)
  <2>1. run[r] # Idle
        BY DEF RunEnd, Idle
  <2>2. QED
        BY <2>1 DEF IInv, TypeOK
<1>2. /\ s \in Sessions /\ run[r].at \in 0 .. MaxSpans /\ run[r].n \in 1 .. MaxSpans
      /\ run[r].at = run[r].n /\ 1 .. run[r].n \subseteq extracted[s]
      BY <1>1 DEF RunEnd, RunIsSound, Run
<1>3. run[r].phase = "ready" /\ run' = [run EXCEPT ![r] = Idle]
      BY DEF RunEnd
<1>4. RunIsSound(r)'
      BY <1>3 DEF IInv, TypeOK, RunIsSound
<1>5. /\ run' \in [Runners -> Run \cup {Idle}]
      /\ \A q \in Runners : RunIsSound(q)'
      /\ \A g \in Workers : RequestIsSound(g)'
      /\ ClientsWaitForOne'
  <2>1. UNCHANGED <<spans, served, extracted>> /\ run[r].phase # "posted"
        BY <1>3 DEF RunEnd
  <2>2. QED
        BY <1>3, <1>4, <2>1, RunMoves
<1>6. /\ ckpt' = [ckpt EXCEPT ![s] = 0]
      /\ spool' = [spool EXCEPT ![s] = IF run[r].n = spans[s] THEN "none" ELSE @]
      /\ UNCHANGED <<spans, served, extracted, attempts>>
      BY DEF RunEnd
<1> HIDE DEF s
<1>7. TypeOK'
      BY <1>2, <1>5, <1>6 DEF IInv, TypeOK
<1>8. NothingIsSkipped' /\ SpooledIsNotEmpty'
      BY <1>2, <1>6 DEF IInv, TypeOK, NothingIsSkipped, SpooledIsNotEmpty
<1>9. QED
      BY <1>5, <1>7, <1>8 DEF IInv

(* A worker goes on with its request, which stays what it is. *)
LEMMA ServedMoves ==
  ASSUME IInv, NEW g \in Workers, NEW st \in {"extracting", "extracted"},
         served[g] # Idle,
         served' = [served EXCEPT ![g].stage = st],
         UNCHANGED <<spans, ckpt, run, extracted, spool, attempts>>
  PROVE  IInv'
<1> USE ExtractionAssumption
<1> DEFINE y == [served[g] EXCEPT !.stage = st]
<1>1. served[g] \in Request /\ RequestIsSound(g)
      BY DEF IInv, TypeOK
<1>2. /\ y \in Request /\ y # Idle /\ y.stage = st
      /\ y.session = served[g].session /\ y.lo = served[g].lo /\ y.hi = served[g].hi
      /\ y.for = served[g].for
      BY <1>1 DEF Request, Idle
<1>3. served'[g] = y /\ \A h \in Workers : h # g => served'[h] = served[h]
      BY <1>1 DEF IInv, TypeOK, Request
<1>4. served' \in [Workers -> Request \cup {Idle}]
      BY <1>2, <1>3 DEF IInv, TypeOK
<1> HIDE DEF y
<1>5. TypeOK' /\ NothingIsSkipped' /\ SpooledIsNotEmpty'
      BY <1>4 DEF IInv, TypeOK, NothingIsSkipped, SpooledIsNotEmpty
<1>6. \A r \in Runners : RunIsSound(r)'
      BY DEF IInv, RunIsSound
<1>7. ASSUME NEW h \in Workers
      PROVE  RequestIsSound(h)'
  <2>1. CASE h = g
        BY <1>1, <1>2, <1>3, <2>1 DEF RequestIsSound
  <2>2. CASE h # g
        BY <1>3, <2>2 DEF IInv, RequestIsSound
  <2>3. QED
        BY <2>1, <2>2
<1>8. ClientsWaitForOne'
      BY <1>2, <1>3 DEF IInv, ClientsWaitForOne
<1>9. QED
      BY <1>5, <1>6, <1>7, <1>8 DEF IInv

LEMMA LockIInv ==
  ASSUME IInv, NEW g \in Workers, Lock(g) \/ Extract(g)
  PROVE  IInv'
<1>1. PICK st \in {"extracting", "extracted"} : served' = [served EXCEPT ![g].stage = st]
      BY DEF Lock, Extract, Move
<1>2. served[g] # Idle
      BY DEF Lock, Extract, Move, Idle
<1>3. UNCHANGED <<spans, ckpt, run, extracted, spool, attempts>>
      BY DEF Lock, Extract, Move
<1>4. QED
      BY <1>1, <1>2, <1>3, ServedMoves

LEMMA CommitIInv ==
  ASSUME IInv, NEW g \in Workers, Commit(g)
  PROVE  IInv'
<1> USE ExtractionAssumption
<1> DEFINE y == [served[g] EXCEPT !.stage = "committed"]
           s == served[g].session
           new == served[g].lo + 1 .. served[g].hi
<1>1. served[g] # Idle
      BY DEF Commit, Move, Idle
<1>2. served[g] \in Request /\ RequestIsSound(g)
      BY <1>1 DEF IInv, TypeOK
<1>3. /\ y \in Request /\ y # Idle /\ y.stage = "committed"
      /\ y.session = s /\ y.lo = served[g].lo /\ y.hi = served[g].hi
      /\ y.for = served[g].for
      BY <1>2 DEF Request, Idle
<1>4. s \in Sessions /\ new \subseteq 1 .. MaxSpans
      BY <1>2 DEF Request
<1>5. served'[g] = y /\ \A h \in Workers : h # g => served'[h] = served[h]
      BY <1>2 DEF Commit, Move, IInv, TypeOK, Request
<1>6. served' \in [Workers -> Request \cup {Idle}]
      BY <1>3, <1>5 DEF Commit, Move, IInv, TypeOK
<1>7. extracted' = [extracted EXCEPT ![s] = @ \cup new]
      BY DEF Commit
<1>8. UNCHANGED <<spans, ckpt, run, spool, attempts>>
      BY DEF Commit, Move
<1> HIDE DEF y, new
<1>9. TypeOK'
      BY <1>4, <1>6, <1>7, <1>8 DEF IInv, TypeOK
<1>10. (\A t \in Sessions : extracted[t] \subseteq extracted'[t]) /\ new \subseteq extracted'[s]
       BY <1>4, <1>7 DEF IInv, TypeOK
<1>11. NothingIsSkipped' /\ SpooledIsNotEmpty'
       BY <1>8, <1>10 DEF IInv, NothingIsSkipped, SpooledIsNotEmpty
<1>12. ASSUME NEW r \in Runners
       PROVE  RunIsSound(r)'
  <2> SUFFICES ASSUME run[r] # Idle
               PROVE  RunIsSound(r)'
      BY <1>8 DEF RunIsSound
  <2>1. run[r].session \in Sessions /\ RunIsSound(r)
        BY DEF IInv, TypeOK, Run
  <2>2. QED
        BY <1>8, <1>10, <2>1 DEF RunIsSound
<1>13. ASSUME NEW h \in Workers
       PROVE  RequestIsSound(h)'
  <2>1. CASE h = g
    <3>1. y.lo + 1 .. y.hi \subseteq extracted'[y.session]
          BY <1>3, <1>10 DEF new
    <3>2. y.for # None =>
            /\ run'[y.for] # Idle /\ run'[y.for].phase = "posted"
            /\ run'[y.for].session = y.session
            /\ run'[y.for].at = y.lo /\ run'[y.for].hi = y.hi
          BY <1>1, <1>2, <1>3, <1>8 DEF RequestIsSound
    <3>3. QED
          BY <1>5, <2>1, <3>1, <3>2 DEF RequestIsSound
  <2>2. CASE h # g /\ served[h] # Idle
    <3>1. served[h].session \in Sessions /\ RequestIsSound(h)
          BY <2>2 DEF IInv, TypeOK, Request
    <3>2. QED
          BY <1>5, <1>8, <1>10, <2>2, <3>1 DEF RequestIsSound
  <2>3. CASE h # g /\ served[h] = Idle
        BY <1>5, <2>3 DEF RequestIsSound
  <2>4. QED
        BY <2>1, <2>2, <2>3
<1>14. ClientsWaitForOne'
       BY <1>1, <1>3, <1>5 DEF IInv, ClientsWaitForOne
<1>15. QED
       BY <1>9, <1>11, <1>12, <1>13, <1>14 DEF IInv

(* The answer reaches the client that waits for it, about the batch it     *)
(* posted.                                                                 *)
LEMMA AnswerIInv ==
  ASSUME IInv, NEW g \in Workers, Answer(g)
  PROVE  IInv'
<1> USE ExtractionAssumption
<1>1. served[g] # Idle
      BY DEF Answer, Idle
<1>2. /\ served[g] \in Request /\ RequestIsSound(g)
      /\ served[g].lo + 1 .. served[g].hi \subseteq extracted[served[g].session]
      BY <1>1 DEF Answer, IInv, TypeOK, RequestIsSound
<1>3. /\ served' = [served EXCEPT ![g] = Idle]
      /\ run' = [r \in Runners |-> IF r = served[g].for THEN [run[r] EXCEPT !.phase = "answered"]
                                                        ELSE run[r]]
      /\ UNCHANGED <<spans, ckpt, extracted, spool, attempts>>
      BY DEF Answer
<1>4. served'[g] = Idle /\ \A h \in Workers : h # g => served'[h] = served[h]
      BY <1>3 DEF IInv, TypeOK
<1>5. ASSUME NEW r \in Runners
      PROVE  run'[r] \in Run \cup {Idle} /\ RunIsSound(r)'
  <2>1. CASE r # served[g].for
        BY <1>3, <2>1 DEF IInv, TypeOK, RunIsSound
  <2>2. CASE r = served[g].for
    <3> DEFINE x == [run[r] EXCEPT !.phase = "answered"]
    <3>1. /\ run[r] # Idle /\ run[r].phase = "posted"
          /\ run[r].session = served[g].session
          /\ run[r].at = served[g].lo /\ run[r].hi = served[g].hi
          BY <1>1, <1>2, <2>2 DEF RequestIsSound
    <3>2. run[r] \in Run /\ RunIsSound(r)
          BY <3>1 DEF IInv, TypeOK
    <3>3. /\ x \in Run /\ x.session = run[r].session /\ x.at = run[r].at /\ x.hi = run[r].hi
          /\ x.n = run[r].n
          BY <3>2 DEF Run
    <3>4. /\ run[r].at \in Nat /\ run[r].hi \in Nat
          /\ 1 .. run[r].at \subseteq extracted[run[r].session]
          /\ run[r].at <= run[r].n /\ run[r].n <= spans[run[r].session]
          /\ run[r].at <= run[r].hi /\ run[r].hi <= run[r].n
          BY <3>1, <3>2 DEF RunIsSound, Run
    <3>5. 1 .. run[r].hi \subseteq extracted[run[r].session]
          BY <1>2, <3>1, <3>4
    <3>6. run'[r] = x
          BY <1>3, <2>2
    <3> HIDE DEF x
    <3>7. QED
          BY <1>3, <3>3, <3>4, <3>5, <3>6 DEF RunIsSound
  <2>3. QED
        BY <2>1, <2>2
<1>6. /\ run' \in [Runners -> Run \cup {Idle}]
      /\ served' \in [Workers -> Request \cup {Idle}]
      BY <1>3, <1>5 DEF IInv, TypeOK
<1>7. TypeOK' /\ NothingIsSkipped' /\ SpooledIsNotEmpty'
      BY <1>3, <1>6 DEF IInv, TypeOK, NothingIsSkipped, SpooledIsNotEmpty
<1>8. ASSUME NEW h \in Workers
      PROVE  RequestIsSound(h)'
  <2> SUFFICES ASSUME h # g, served[h] # Idle
               PROVE  RequestIsSound(h)'
      BY <1>4 DEF RequestIsSound
  <2>1. /\ served[h] \in Request /\ RequestIsSound(h)
        /\ served[h].for # None => served[h].for # served[g].for
        BY <1>1 DEF IInv, TypeOK, ClientsWaitForOne
  <2>2. served[h].for # None =>
          served[h].for \in Runners /\ run'[served[h].for] = run[served[h].for]
        BY <1>3, <2>1 DEF Request
  <2>3. QED
        BY <1>3, <1>4, <2>1, <2>2 DEF RequestIsSound
<1>9. ClientsWaitForOne'
      BY <1>4 DEF IInv, ClientsWaitForOne
<1>10. QED
       BY <1>5, <1>7, <1>8, <1>9 DEF IInv

LEMMA ServeFailsIInv ==
  ASSUME IInv, NEW g \in Workers, ServeFails(g)
  PROVE  IInv'
<1> USE ExtractionAssumption
<1>1. /\ served[g] # Idle /\ served' = [served EXCEPT ![g] = Idle]
      BY DEF ServeFails
<1>2. /\ served' \in [Workers -> Request \cup {Idle}]
      /\ served'[g] = Idle
      /\ \A h \in Workers : h # g => served'[h] = served[h]
      BY <1>1 DEF IInv, TypeOK
<1>3. CASE served[g].for = None
  <2>1. UNCHANGED <<spans, ckpt, run, extracted, spool, attempts>>
        BY <1>3 DEF ServeFails
  <2>2. TypeOK' /\ NothingIsSkipped' /\ SpooledIsNotEmpty'
        BY <1>2, <2>1 DEF IInv, TypeOK, NothingIsSkipped, SpooledIsNotEmpty
  <2>3. \A r \in Runners : RunIsSound(r)'
        BY <2>1 DEF IInv, RunIsSound
  <2>4. \A h \in Workers : RequestIsSound(h)'
        BY <1>2, <2>1 DEF IInv, RequestIsSound
  <2>5. ClientsWaitForOne'
        BY <1>2 DEF IInv, ClientsWaitForOne
  <2>6. QED
        BY <2>2, <2>3, <2>4, <2>5 DEF IInv
<1>4. CASE served[g].for # None
  <2> DEFINE r == served[g].for
  <2>1. /\ r \in Runners /\ run[r] # Idle /\ run[r] \in Run
        /\ \A h \in Workers : h # g /\ served[h] # Idle => served[h].for # r
        BY <1>1, <1>4, SomebodyWaits
  <2>2. PICK b \in BOOLEAN : Failed(r, b)
        BY <1>4 DEF ServeFails
  <2> HIDE DEF r
  <2>3. TypeOK
        BY DEF IInv
  <2>4. /\ run' = [run EXCEPT ![r] = AfterFailure(run[r])]
        /\ spool' \in [Sessions -> {"none", "due", "parked"}]
        /\ attempts' \in [Sessions -> 0 .. MaxAttempts]
        /\ \A t \in Sessions : spool'[t] = spool[t] \/ spool'[t] = "parked"
        /\ UNCHANGED <<spans, ckpt, extracted>>
        BY <2>1, <2>2, <2>3, FailedSpools
  <2>5. \A h \in Workers : served'[h] # Idle =>
          served[h] # Idle /\ served'[h].for # r /\ served'[h] = served[h]
        BY <1>2, <2>1
  <2>6. QED
        BY <1>2, <2>1, <2>4, <2>5, RunFails
<1>5. QED
      BY <1>3, <1>4

-----------------------------------------------------------------------------
LEMMA NextIInv == IInv /\ [Next]_vars => IInv'
<1> SUFFICES ASSUME IInv, [Next]_vars
             PROVE  IInv'
    OBVIOUS
<1>1. CASE \E s \in Sessions : SessionEnds(s)
      BY <1>1, SessionEndsIInv
<1>2. ASSUME NEW r \in Runners, \E s \in Sessions : RunBegin(r, s)
      PROVE  IInv'
      BY <1>2, RunBeginIInv
<1>3. ASSUME NEW r \in Runners, \E g \in Workers : Post(r, g)
      PROVE  IInv'
      BY <1>3, PostIInv
<1>4. ASSUME NEW r \in Runners,
             PostFails(r) \/ Timeout(r) \/ Save(r) \/ SaveFails(r) \/ RunEnd(r) \/ Killed(r)
      PROVE  IInv'
      BY <1>4, PostFailsIInv, TimeoutIInv, SaveIInv, RunEndIInv, KilledIInv
<1>5. ASSUME NEW g \in Workers, Serve(g)
      PROVE  IInv'
      BY <1>5, LockIInv, CommitIInv, AnswerIInv, ServeFailsIInv DEF Serve
<1>6. CASE UNCHANGED vars
      BY <1>6, StutterIInv
<1>7. QED
      BY <1>1, <1>2, <1>3, <1>4, <1>5, <1>6 DEF Next

LEMMA Invariance == Spec => []IInv
<1>1. Init => IInv
      BY InitIInv
<1>2. IInv /\ [Next]_vars => IInv'
      BY NextIInv
<1>3. QED
      BY <1>1, <1>2, PTL DEF Spec

(* Every variable of the extraction keeps its type: a run never counts     *)
(* past the transcript it read, nor past its last try.                     *)
THEOREM TypeCorrectness == Spec => []TypeOK
<1>1. IInv => TypeOK
      BY DEF IInv
<1>2. QED
      BY <1>1, Invariance, PTL

(* What a checkpoint counts was extracted and committed, and so was every  *)
(* span of a transcript the spool has forgotten, for any number of         *)
(* clients, workers, sessions and tries and any batch sizes.               *)
THEOREM NothingIsPassedOver == Spec => []NothingIsSkipped
<1>1. IInv => NothingIsSkipped
      BY DEF IInv
<1>2. QED
      BY <1>1, Invariance, PTL

-----------------------------------------------------------------------------
(* Induction and folds *)

(* Induction up to a bound, for a set instead of a predicate. *)
(* A set of numbers has a least one.                                       *)
LEMMA LeastElement ==
  ASSUME NEW T, T \subseteq Nat, T # {}
  PROVE  \E n \in T : \A m \in T : n <= m
<1>1. PICK n \in T : \A m \in T : <<m, n>> \notin OpToRel(<, Nat)
  BY NatLessThanWellFounded, WFMin, Zenon
<1>2. \A m \in T : ~(m < n)
  BY <1>1 DEF OpToRel
<1> QED
  BY <1>2

LEMMA Upto ==
  ASSUME NEW n \in Nat, NEW T, 0 \in T, \A k \in 1 .. n : k - 1 \in T => k \in T
  PROVE  \A k \in 0 .. n : k \in T
<1> DEFINE B == {k \in 0 .. n : k \notin T}
<1> SUFFICES ASSUME B # {} PROVE FALSE
  OBVIOUS
<1>1. B \subseteq Nat
  OBVIOUS
<1> HIDE DEF B
<1>2. PICK k \in B : \A m \in B : k <= m
  BY <1>1, LeastElement
<1> QED
  BY <1>2 DEF B

(* The same with every smaller number at hand. *)
LEMMA CourseOfValues ==
  ASSUME NEW n \in Nat, NEW T,
         \A k \in 1 .. n : (\A i \in 1 .. k - 1 : i \in T) => k \in T
  PROVE  \A k \in 1 .. n : k \in T
<1> DEFINE B == {k \in 1 .. n : k \notin T}
<1> SUFFICES ASSUME B # {} PROVE FALSE
  OBVIOUS
<1>1. B \subseteq Nat
  OBVIOUS
<1> HIDE DEF B
<1>2. PICK k \in B : \A m \in B : k <= m
  BY <1>1, LeastElement
<1> QED
  BY <1>2 DEF B

(* The greatest of some numbers up to k.                                   *)
LEMMA MaxOf ==
  ASSUME NEW k \in Nat, NEW s \in SUBSET (1 .. k), s # {}
  PROVE  Max(s) \in s /\ \A i \in s : i <= Max(s)
<1> DEFINE T == {k - i : i \in s}
<1>1. T \subseteq Nat /\ T # {}
  <2>1. \A i \in s : k - i \in Nat
    OBVIOUS
  <2> QED
    BY <2>1
<1> HIDE DEF T
<1>2. PICK n \in T : \A m \in T : n <= m
  BY <1>1, LeastElement
<1>3. PICK x \in s : n = k - x
  BY <1>2 DEF T
<1>4. \A i \in s : x >= i
  BY <1>2, <1>3 DEF T
<1> QED
  BY <1>4 DEF Max

(* A fold takes the greatest number off what is left.                      *)
LEMMA MaxUpto ==
  ASSUME NEW k \in Nat \ {0}
  PROVE  Max(1 .. k) = k /\ (1 .. k) \ {k} = 1 .. k - 1 /\ 1 .. k # {}
<1>1. 1 .. k \in SUBSET (1 .. k) /\ k \in 1 .. k /\ (1 .. k) \ {k} = 1 .. k - 1
  OBVIOUS
<1>2. Max(1 .. k) \in 1 .. k /\ \A i \in 1 .. k : i <= Max(1 .. k)
  BY <1>1, MaxOf
<1> QED
  BY <1>1, <1>2

(* A fold over the first k elements exists. *)
FoldsUpto(g, k, X, base, step) ==
  /\ g \in [SUBSET (1 .. k) -> X]
  /\ \A s \in SUBSET (1 .. k) :
       g[s] = IF s = {} THEN base ELSE step[<<g[s \ {Max(s)}], Max(s)>>]

LEMMA FoldExists ==
  ASSUME NEW n \in Nat, NEW X, NEW base \in X, NEW step \in [X \X (1 .. n) -> X]
  PROVE  \E g : FoldsUpto(g, n, X, base, step)
<1> DEFINE T == {k \in 0 .. n : \E g : FoldsUpto(g, k, X, base, step)}
<1>1. 0 \in T
  <2> DEFINE g == [s \in SUBSET (1 .. 0) |-> base]
  <2>1. FoldsUpto(g, 0, X, base, step)
    BY DEF FoldsUpto
  <2> QED
    BY <2>1
<1>2. ASSUME NEW k \in 1 .. n, k - 1 \in T PROVE k \in T
  <2>1. PICK g : FoldsUpto(g, k - 1, X, base, step)
    BY <1>2
  <2> DEFINE h == [s \in SUBSET (1 .. k) |->
                     IF k \in s THEN step[<<g[s \ {k}], k>>] ELSE g[s]]
  <2>2. \A s \in SUBSET (1 .. k) : k \notin s => s \in SUBSET (1 .. k - 1)
    OBVIOUS
  <2>3. ASSUME NEW s \in SUBSET (1 .. k), k \in s
        PROVE  /\ Max(s) = k /\ s \ {k} \in SUBSET (1 .. k - 1) /\ s \ {k} \in SUBSET (1 .. k)
               /\ k \notin s \ {k}
    <3>1. s # {} /\ k \in Nat
      BY <2>3
    <3>2. Max(s) \in s /\ \A i \in s : i <= Max(s)
      BY <3>1, MaxOf
    <3>3. Max(s) \in 1 .. k /\ k <= Max(s)
      BY <3>2, <2>3
    <3>4. Max(s) = k
      BY <3>3
    <3>5. \A i \in s \ {k} : i \in 1 .. k - 1
      OBVIOUS
    <3> QED
      BY <3>4, <3>5
  <2>4. h \in [SUBSET (1 .. k) -> X]
    BY <2>1, <2>2, <2>3 DEF FoldsUpto
  <2>5. ASSUME NEW s \in SUBSET (1 .. k)
        PROVE  h[s] = IF s = {} THEN base ELSE step[<<h[s \ {Max(s)}], Max(s)>>]
    <3>1. CASE k \in s
      BY <3>1, <2>3
    <3>2. CASE k \notin s
      <4>1. s \in SUBSET (1 .. k - 1) /\ k - 1 \in Nat
        BY <3>2
      <4>2. s # {} => Max(s) \in 1 .. k
        BY <4>1, MaxOf
      <4>3. h[s] = g[s] /\ \A x : h[s \ {x}] = g[s \ {x}]
        BY <3>2
      <4> QED
        BY <2>1, <4>1, <4>2, <4>3 DEF FoldsUpto
    <3> QED
      BY <3>1, <3>2
  <2> HIDE DEF h
  <2>6. FoldsUpto(h, k, X, base, step)
    BY <2>4, <2>5 DEF FoldsUpto
  <2> QED
    BY <2>6
<1> HIDE DEF T
<1>3. n \in T
  BY <1>1, <1>2, Upto
<1> QED
  BY <1>3 DEF T

(* What a fold has made of the first k elements, for each k. *)
IsFold(h, n, X, base, step) ==
  /\ h[{}] = base
  /\ \A s \in SUBSET (1 .. n) :
       s # {} /\ h[s \ {Max(s)}] \in X => h[s] = step[<<h[s \ {Max(s)}], Max(s)>>]

Trace(f, h, n, X, base, step) ==
  /\ f \in [0 .. n -> X]
  /\ f[0] = base /\ f[n] = h[1 .. n]
  /\ \A k \in 1 .. n : f[k] = step[<<f[k - 1], k>>]

(* The definition of a fold fixes each of its values.                      *)
LEMMA FoldSteps ==
  ASSUME NEW n \in Nat, NEW X, NEW base \in X, NEW step \in [X \X (1 .. n) -> X], NEW h,
         IsFold(h, n, X, base, step)
  PROVE  \E f : Trace(f, h, n, X, base, step)
<1> DEFINE T == {k \in 0 .. n : h[1 .. k] \in X}
           f == [k \in 0 .. n |-> h[1 .. k]]
<1> USE DEF IsFold
<1>1. 1 .. 0 = {}
  OBVIOUS
<1>2. ASSUME NEW k \in 1 .. n, h[1 .. k - 1] \in X
      PROVE  h[1 .. k] = step[<<h[1 .. k - 1], k>>] /\ h[1 .. k] \in X
  <2>1. Max(1 .. k) = k /\ (1 .. k) \ {k} = 1 .. k - 1 /\ 1 .. k # {}
    BY MaxUpto
  <2>2. 1 .. k \in SUBSET (1 .. n)
    OBVIOUS
  <2> QED
    BY <1>2, <2>1, <2>2
<1>3. \A k \in 0 .. n : k \in T
  <2>1. 0 \in T
    BY <1>1
  <2>2. \A k \in 1 .. n : h[1 .. k - 1] \in X => h[1 .. k] \in X
    BY <1>2
  <2>3. \A k \in 1 .. n : k - 1 \in T => k \in T
    BY <2>2
  <2> HIDE DEF T
  <2> QED
    BY <2>1, <2>3, Upto
<1>4. f \in [0 .. n -> X]
  BY <1>3
<1>5. ASSUME NEW k \in 1 .. n PROVE f[k] = step[<<f[k - 1], k>>]
  <2>1. k - 1 \in 0 .. n /\ k \in 0 .. n
    OBVIOUS
  <2> QED
    BY <1>2, <1>3, <2>1
<1>6. f[0] = base /\ f[n] = h[1 .. n]
  BY <1>1
<1> HIDE DEF f
<1>7. Trace(f, h, n, X, base, step)
  BY <1>4, <1>5, <1>6 DEF Trace
<1> QED
  BY <1>7

-----------------------------------------------------------------------------
(* chunk_spans *)

(* Size, span by span.                                                     *)
LEMMA SizeSteps ==
  ASSUME NEW w \in Seq(Span)
  PROVE  \E f \in [0 .. Len(w) -> Nat] :
           /\ f[0] = 0 /\ f[Len(w)] = Size(w)
           /\ \A k \in 1 .. Len(w) : f[k] = f[k - 1] + w[k].size
<1> DEFINE n == Len(w)
           X == Nat
           step == [p \in X \X (1 .. n) |-> p[1] + w[p[2]].size]
<1>1. n \in Nat /\ DOMAIN w = 1 .. n /\ 0 \in X
  OBVIOUS
<1>2. step \in [X \X (1 .. n) -> X]
  <2>1. \A i \in 1 .. n : w[i] \in Span
    OBVIOUS
  <2>2. \A i \in 1 .. n : w[i].size \in Nat
    BY <2>1 DEF Span
  <2>3. \A x \in X, i \in 1 .. n : x + w[i].size \in X
    BY <2>2
  <2> HIDE DEF X
  <2> QED
    BY <2>3
<1>3. PICK g : FoldsUpto(g, n, X, 0, step)
  BY <1>1, <1>2, FoldExists
<1>4. \A s \in SUBSET (1 .. n) : s # {} => Max(s) \in 1 .. n
  BY <1>1, MaxOf
<1>5. g = [s \in SUBSET (DOMAIN w) |->
            IF s = {} THEN 0 ELSE LET x == Max(s) IN g[s \ {x}] + w[x].size]
  BY <1>1, <1>3, <1>4 DEF FoldsUpto
<1>6. PICK h :
       /\ h = [s \in SUBSET (DOMAIN w) |->
                 IF s = {} THEN 0 ELSE LET x == Max(s) IN h[s \ {x}] + w[x].size]
       /\ Size(w) = h[DOMAIN w]
  BY <1>5 DEF Size, FoldLeft, MapThenFoldSet
<1>7. IsFold(h, n, X, 0, step) /\ Size(w) = h[1 .. n]
  BY <1>1, <1>4, <1>6 DEF IsFold
<1>8. PICK f : Trace(f, h, n, X, 0, step)
  <2> HIDE DEF n, X, step
  <2> QED
    BY <1>1, <1>2, <1>7, FoldSteps
<1>9. \A k \in 1 .. n : f[k - 1] \in X
  BY <1>8 DEF Trace
<1>10. \A k \in 1 .. n : f[k] = f[k - 1] + w[k].size
  BY <1>8, <1>9 DEF Trace
<1> QED
  BY <1>7, <1>8, <1>10 DEF Trace

(* Chunks, span by span.                                                   *)
LEMMA ChunksSteps ==
  ASSUME NEW ss \in Seq(Span)
  PROVE  \E f \in [0 .. Len(ss) -> Seq(Seq(Span))] :
           /\ f[0] = <<>> /\ f[Len(ss)] = Chunks(ss)
           /\ \A k \in 1 .. Len(ss) : f[k] = Packed(f[k - 1], ss[k])
<1> DEFINE n == Len(ss)
           X == Seq(Seq(Span))
           step == [p \in X \X (1 .. n) |-> Packed(p[1], ss[p[2]])]
<1>1. n \in Nat /\ DOMAIN ss = 1 .. n /\ <<>> \in X
  OBVIOUS
<1>2. step \in [X \X (1 .. n) -> X]
  <2>1. \A i \in 1 .. n : ss[i] \in Span
    OBVIOUS
  <2>2. ASSUME NEW c \in X, NEW s \in Span PROVE Packed(c, s) \in X
    <3>1. <<s>> \in Seq(Span)
      OBVIOUS
    <3>2. <<<<s>>>> \in X /\ Append(c, <<s>>) \in X
      BY <3>1
    <3>3. c # <<>> => /\ Front(c) \in X /\ Last(c) \in Seq(Span)
                      /\ Append(Front(c), Append(Last(c), s)) \in X
      BY DEF Front, Last
    <3> QED
      BY <3>2, <3>3 DEF Packed
  <2> HIDE DEF X
  <2> QED
    BY <2>1, <2>2
<1>3. PICK g : FoldsUpto(g, n, X, <<>>, step)
  BY <1>1, <1>2, FoldExists
<1>4. \A s \in SUBSET (1 .. n) : s # {} => Max(s) \in 1 .. n
  BY <1>1, MaxOf
<1>5. g = [s \in SUBSET (DOMAIN ss) |->
            IF s = {} THEN <<>> ELSE LET x == Max(s) IN Packed(g[s \ {x}], ss[x])]
  BY <1>1, <1>3, <1>4 DEF FoldsUpto
<1>6. PICK h :
       /\ h = [s \in SUBSET (DOMAIN ss) |->
                 IF s = {} THEN <<>> ELSE LET x == Max(s) IN Packed(h[s \ {x}], ss[x])]
       /\ Chunks(ss) = h[DOMAIN ss]
  BY <1>5 DEF Chunks, FoldLeft, MapThenFoldSet
<1>7. IsFold(h, n, X, <<>>, step) /\ Chunks(ss) = h[1 .. n]
  BY <1>1, <1>4, <1>6 DEF IsFold
<1>8. PICK f : Trace(f, h, n, X, <<>>, step)
  <2> HIDE DEF n, X, step
  <2> QED
    BY <1>1, <1>2, <1>7, FoldSteps
<1>9. \A k \in 1 .. n : f[k - 1] \in X
  BY <1>8 DEF Trace
<1>10. \A k \in 1 .. n : f[k] = Packed(f[k - 1], ss[k])
  BY <1>8, <1>9 DEF Trace
<1> QED
  BY <1>7, <1>8, <1>10 DEF Trace

SizeTrace(f, w) ==
  /\ f \in [0 .. Len(w) -> Nat]
  /\ f[0] = 0 /\ f[Len(w)] = Size(w)
  /\ \A k \in 1 .. Len(w) : f[k] = f[k - 1] + w[k].size

LEMMA SizeTraced == \A w \in Seq(Span) : \E f : SizeTrace(f, w)
BY SizeSteps DEF SizeTrace

(* A further span adds its size.                                           *)
LEMMA SizeOf ==
  ASSUME NEW w \in Seq(Span), NEW s \in Span
  PROVE  /\ Size(w) \in Nat /\ Size(<<>>) = 0
         /\ Size(Append(w, s)) = Size(w) + s.size
<1> DEFINE n == Len(w)
           v == Append(w, s)
<1>1. /\ n \in Nat /\ v \in Seq(Span) /\ Len(v) = n + 1
      /\ v[n + 1] = s /\ \A k \in 1 .. n : v[k] = w[k]
  OBVIOUS
<1>2. PICK f : SizeTrace(f, w)
  BY SizeTraced
<1>3. PICK g : SizeTrace(g, v)
  BY <1>1, SizeTraced
<1> HIDE DEF v
<1>a. /\ f[0] = 0 /\ f[n] = Size(w) /\ \A k \in 0 .. n : f[k] \in Nat
      /\ \A k \in 1 .. n : f[k] = f[k - 1] + w[k].size
  BY <1>1, <1>2 DEF SizeTrace
<1>b. /\ g[0] = 0 /\ g[n + 1] = Size(v)
      /\ \A k \in 1 .. n + 1 : g[k] = g[k - 1] + v[k].size
  BY <1>1, <1>3 DEF SizeTrace
<1> HIDE DEF n
<1> DEFINE T == {k \in 0 .. n : g[k] = f[k]}
<1>4. 0 \in T
  BY <1>1, <1>a, <1>b
<1>5. ASSUME NEW k \in 1 .. n, k - 1 \in T PROVE k \in T
  <2>1. k \in 1 .. n + 1 /\ k \in 0 .. n /\ v[k] = w[k] /\ g[k - 1] = f[k - 1]
    BY <1>1, <1>5
  <2>2. g[k] = g[k - 1] + w[k].size /\ f[k] = f[k - 1] + w[k].size
    BY <1>a, <1>b, <2>1
  <2> QED
    BY <2>1, <2>2
<1> HIDE DEF T
<1>6. n \in T
  <2>1. \A k \in 0 .. n : k \in T
    BY <1>1, <1>4, <1>5, Upto
  <2> QED
    BY <1>1, <2>1
<1>7. Size(v) = Size(w) + s.size
  <2>1. n + 1 \in 1 .. n + 1 /\ (n + 1) - 1 = n
    BY <1>1
  <2>2. g[n + 1] = g[(n + 1) - 1] + s.size
    BY <1>1, <1>b, <2>1
  <2> QED
    BY <1>a, <1>b, <1>6, <2>1, <2>2 DEF T
<1>8. Size(<<>>) = 0
  <2>1. <<>> \in Seq(Span) /\ Len(<<>>) = 0
    OBVIOUS
  <2>2. PICK e : SizeTrace(e, <<>>)
    BY <2>1, SizeTraced
  <2> QED
    BY <2>1, <2>2 DEF SizeTrace
<1>9. Size(w) \in Nat
  BY <1>1, <1>a
<1> QED
  BY <1>7, <1>8, <1>9 DEF v

(* FlattenSeq, a window at a time. *)
FlattenTrace(f, c) ==
  /\ f \in [0 .. Len(c) -> Seq(Span)]
  /\ f[0] = <<>> /\ f[Len(c)] = FlattenSeq(c)
  /\ \A k \in 1 .. Len(c) : f[k] = f[k - 1] \o c[k]

LEMMA FlattenTraced ==
  ASSUME NEW c \in Seq(Seq(Span))
  PROVE  \E f : FlattenTrace(f, c)
<1> DEFINE n == Len(c)
           X == Seq(Span)
           step == [p \in X \X (1 .. n) |-> p[1] \o c[p[2]]]
<1>1. n \in Nat /\ DOMAIN c = 1 .. n /\ <<>> \in X /\ \A i \in 1 .. n : c[i] \in X
  OBVIOUS
<1>2. step \in [X \X (1 .. n) -> X]
  <2>1. \A x \in X, y \in X : x \o y \in X
    OBVIOUS
  <2> HIDE DEF X
  <2> QED
    BY <1>1, <2>1
<1>3. PICK h : FoldsUpto(h, n, X, <<>>, step)
  <2> HIDE DEF n, X, step
  <2> QED
    BY <1>1, <1>2, FoldExists
<1>4. IsFold(h, n, X, <<>>, step)
  BY <1>3 DEF FoldsUpto, IsFold
<1>5. PICK f : Trace(f, h, n, X, <<>>, step)
  <2> HIDE DEF n, X, step
  <2> QED
    BY <1>1, <1>2, <1>4, FoldSteps
<1>6. f \in [0 .. n -> X] /\ f[0] = <<>>
  BY <1>5 DEF Trace
<1>7. \A k \in 1 .. n : f[k] = f[k - 1] \o c[k]
  <2>1. \A k \in 1 .. n : k - 1 \in 0 .. n
    BY <1>1
  <2>2. \A k \in 1 .. n : f[k - 1] \in X
    BY <1>6, <2>1
  <2> QED
    BY <1>5, <2>2 DEF Trace
<1>8. f[n] = FlattenSeq(c)
  <2>1. CASE n = 0
    BY <1>6, <2>1 DEF FlattenSeq
  <2>2. CASE n # 0
    <3> DEFINE a == [i \in 1 .. n |-> f[i]]
    <3>1. a = [i \in 1 .. n |-> IF i = 1 THEN c[i] ELSE a[i - 1] \o c[i]]
      <4>1. \A i \in 1 .. n : i # 1 => i - 1 \in 1 .. n
        BY <1>1
      <4>2. \A s \in X : <<>> \o s = s
        OBVIOUS
      <4>3. 1 \in 1 .. n => f[1] = c[1]
        <5>1. 1 - 1 = 0
          OBVIOUS
        <5> QED
          BY <1>1, <1>6, <1>7, <4>2, <5>1
      <4> HIDE DEF X, n
      <4> QED
        BY <1>7, <4>1, <4>3
    <3>2. PICK b : /\ b = [i \in 1 .. n |-> IF i = 1 THEN c[i] ELSE b[i - 1] \o c[i]]
                   /\ FlattenSeq(c) = b[n]
      BY <2>2, <3>1 DEF FlattenSeq
    <3> DEFINE T == {k \in 0 .. n : k # 0 => b[k] = f[k]}
    <3> HIDE DEF n
    <3>3. 0 \in T
      BY <1>1
    <3>4. ASSUME NEW k \in 1 .. n, k - 1 \in T PROVE k \in T
      <4>1. CASE k = 1
        <5>1. k - 1 = 0 /\ k \in 0 .. n
          BY <1>1, <4>1
        <5>2. f[k] = <<>> \o c[k] /\ c[k] \in X
          BY <1>1, <1>6, <1>7, <5>1
        <5>3. f[k] = c[k]
          BY <5>2
        <5>4. b[k] = c[k]
          BY <3>2, <4>1
        <5> QED
          BY <5>1, <5>3, <5>4
      <4>2. CASE k # 1
        <5>1. k - 1 # 0 /\ k \in 0 .. n
          BY <1>1, <4>2
        <5>2. b[k - 1] = f[k - 1]
          BY <3>4, <5>1
        <5>3. b[k] = b[k - 1] \o c[k]
          BY <3>2, <4>2
        <5> QED
          BY <1>7, <5>1, <5>2, <5>3
      <4> QED
        BY <4>1, <4>2
    <3> HIDE DEF T
    <3>5. \A k \in 0 .. n : k \in T
      BY <1>1, <3>3, <3>4, Upto
    <3>6. n \in T
      BY <1>1, <3>5
    <3> QED
      BY <2>2, <3>2, <3>6 DEF T
  <2> QED
    BY <2>1, <2>2
<1> QED
  BY <1>6, <1>7, <1>8 DEF FlattenTrace

LEMMA FlattenTracedAll == \A c \in Seq(Seq(Span)) : \E f : FlattenTrace(f, c)
BY FlattenTraced

(* A last window appends its spans. *)
LEMMA FlattenAppend ==
  ASSUME NEW c \in Seq(Seq(Span)), NEW w \in Seq(Span)
  PROVE  /\ FlattenSeq(c) \in Seq(Span)
         /\ FlattenSeq(Append(c, w)) = FlattenSeq(c) \o w
<1> DEFINE n == Len(c)
           v == Append(c, w)
<1>1. /\ n \in Nat /\ v \in Seq(Seq(Span)) /\ Len(v) = n + 1
      /\ v[n + 1] = w /\ \A k \in 1 .. n : v[k] = c[k]
  OBVIOUS
<1>2. PICK f : FlattenTrace(f, c)
  BY FlattenTracedAll
<1>3. PICK g : FlattenTrace(g, v)
  BY <1>1, FlattenTracedAll
<1> HIDE DEF v
<1>4. /\ f[0] = <<>> /\ f[n] = FlattenSeq(c) /\ \A k \in 0 .. n : f[k] \in Seq(Span)
      /\ \A k \in 1 .. n : f[k] = f[k - 1] \o c[k]
  BY <1>1, <1>2 DEF FlattenTrace
<1>5. /\ g[0] = <<>> /\ g[n + 1] = FlattenSeq(v)
      /\ \A k \in 1 .. n + 1 : g[k] = g[k - 1] \o v[k]
  BY <1>1, <1>3 DEF FlattenTrace
<1> HIDE DEF n
<1> DEFINE T == {k \in 0 .. n : g[k] = f[k]}
<1>6. 0 \in T
  BY <1>1, <1>4, <1>5
<1>7. ASSUME NEW k \in 1 .. n, k - 1 \in T PROVE k \in T
  <2>1. k \in 1 .. n + 1 /\ k \in 0 .. n /\ v[k] = c[k] /\ g[k - 1] = f[k - 1]
    BY <1>1, <1>7
  <2>2. g[k] = g[k - 1] \o c[k] /\ f[k] = f[k - 1] \o c[k]
    BY <1>4, <1>5, <2>1
  <2> QED
    BY <2>1, <2>2
<1> HIDE DEF T
<1>8. n \in T
  <2>1. \A k \in 0 .. n : k \in T
    BY <1>1, <1>6, <1>7, Upto
  <2> QED
    BY <1>1, <2>1
<1>9. n + 1 \in 1 .. n + 1 /\ (n + 1) - 1 = n /\ n \in 0 .. n
  BY <1>1
<1>10. g[n + 1] = g[(n + 1) - 1] \o w
  BY <1>1, <1>5, <1>9
<1> QED
  BY <1>4, <1>5, <1>8, <1>9, <1>10 DEF T, v

(* No windows hold no spans.                                               *)
LEMMA FlattenEmpty == FlattenSeq(<<>>) = <<>>
BY DEF FlattenSeq

(* Windows that hold a span each, in order, and no more than the prompt    *)
(* allows unless there is only one.                                        *)
Fits(w) == w # <<>> /\ (Size(w) <= MaxChars \/ Len(w) = 1)

Cut(c, ss) ==
  /\ c \in Seq(Seq(Span))
  /\ FlattenSeq(c) = ss
  /\ \A n \in DOMAIN c : Fits(c[n])
  /\ \A n \in DOMAIN c : Range(c[n]) \subseteq Range(ss)

(* A span is added without breaking what the windows hold.                 *)
LEMMA PackedCut ==
  ASSUME NEW c, NEW ss \in Seq(Span), NEW s \in Span, Cut(c, ss)
  PROVE  Cut(Packed(c, s), Append(ss, s))
<1>1. /\ c \in Seq(Seq(Span)) /\ FlattenSeq(c) = ss
      /\ \A n \in DOMAIN c : Fits(c[n]) /\ Range(c[n]) \subseteq Range(ss)
  BY DEF Cut
<1>2. MaxChars \in Nat
  BY MergeAssumption
<1>3. Range(ss) \subseteq Range(Append(ss, s)) /\ s \in Range(Append(ss, s))
  <2>1. /\ Len(Append(ss, s)) = Len(ss) + 1 /\ Append(ss, s)[Len(ss) + 1] = s
        /\ \A k \in 1 .. Len(ss) : Append(ss, s)[k] = ss[k]
        /\ DOMAIN ss = 1 .. Len(ss) /\ DOMAIN Append(ss, s) = 1 .. Len(ss) + 1 /\ Len(ss) \in Nat
    OBVIOUS
  <2> QED
    BY <2>1 DEF Range
<1>4. /\ <<s>> \in Seq(Span) /\ <<s>> # <<>> /\ Len(<<s>>) = 1 /\ Range(<<s>>) = {s}
      /\ ss \o <<s>> = Append(ss, s)
  BY DEF Range
<1>5. Fits(<<s>>) /\ Range(<<s>>) \subseteq Range(Append(ss, s))
  BY <1>3, <1>4 DEF Fits
(* A window of its own. *)
<1>6. Cut(Append(c, <<s>>), Append(ss, s))
  <2>1. FlattenSeq(Append(c, <<s>>)) = Append(ss, s)
    BY <1>1, <1>4, FlattenAppend
  <2>2. /\ Append(c, <<s>>) \in Seq(Seq(Span))
        /\ \A n \in DOMAIN Append(c, <<s>>) :
             Append(c, <<s>>)[n] = <<s>> \/ (n \in DOMAIN c /\ Append(c, <<s>>)[n] = c[n])
    <3>1. /\ Append(c, <<s>>) \in Seq(Seq(Span)) /\ Len(Append(c, <<s>>)) = Len(c) + 1 /\ Len(c) \in Nat
          /\ Append(c, <<s>>)[Len(c) + 1] = <<s>>
          /\ \A n \in 1 .. Len(c) : Append(c, <<s>>)[n] = c[n]
          /\ DOMAIN c = 1 .. Len(c) /\ DOMAIN Append(c, <<s>>) = 1 .. Len(Append(c, <<s>>))
      BY <1>1, <1>4
    <3> QED
      BY <3>1
  <2> QED
    BY <1>1, <1>3, <1>5, <2>1, <2>2 DEF Cut
<1>7. CASE c = <<>>
  BY <1>6, <1>7 DEF Packed
<1>8. CASE c # <<>> /\ Size(Last(c)) + s.size > MaxChars
  BY <1>6, <1>8 DEF Packed
<1>9. CASE c # <<>> /\ ~(Size(Last(c)) + s.size > MaxChars)
  <2> DEFINE w == Last(c)
             v == Append(w, s)
             d == Front(c)
  <2>1. /\ d \in Seq(Seq(Span)) /\ w \in Seq(Span) /\ c = Append(d, w)
        /\ w = c[Len(c)] /\ Len(c) \in DOMAIN c
        /\ \A n \in DOMAIN d : n \in DOMAIN c /\ d[n] = c[n]
    BY <1>1, <1>9 DEF Front, Last
  <2>2. v \in Seq(Span) /\ v # <<>> /\ Size(v) = Size(w) + s.size /\ Size(w) \in Nat /\ s.size \in Nat
    <3>1. s.size \in Nat
      BY DEF Span
    <3>2. v \in Seq(Span) /\ v # <<>>
      <4>1. v \in Seq(Span) /\ Len(v) = Len(w) + 1 /\ Len(w) \in Nat
        BY <2>1
      <4> QED
        BY <4>1
    <3>3. Size(v) = Size(w) + s.size /\ Size(w) \in Nat
      BY <2>1, SizeOf
    <3> QED
      BY <3>1, <3>2, <3>3
  <2>3. Fits(v)
    BY <1>2, <1>9, <2>2 DEF Fits
  <2>4. Range(v) \subseteq Range(Append(ss, s))
    <3>1. \A n \in DOMAIN v : v[n] = s \/ (n \in DOMAIN w /\ v[n] = w[n])
      <4>1. /\ v \in Seq(Span) /\ Len(v) = Len(w) + 1 /\ Len(w) \in Nat
            /\ v[Len(w) + 1] = s
            /\ \A n \in 1 .. Len(w) : v[n] = w[n]
            /\ DOMAIN w = 1 .. Len(w) /\ DOMAIN v = 1 .. Len(v)
        BY <2>1
      <4> QED
        BY <4>1
    <3>2. Range(v) \subseteq Range(w) \cup {s}
      BY <3>1 DEF Range
    <3> QED
      BY <1>1, <1>3, <2>1, <3>2
  <2>5. FlattenSeq(Append(d, v)) = Append(ss, s)
    <3>1. FlattenSeq(Append(d, v)) = FlattenSeq(d) \o v /\ FlattenSeq(d) \in Seq(Span)
      BY <2>1, <2>2, FlattenAppend
    <3>2. FlattenSeq(c) = FlattenSeq(d) \o w
      BY <2>1, FlattenAppend
    <3>3. \A x \in Seq(Span) : x \o v = Append(x \o w, s)
      BY <2>1
    <3> QED
      BY <1>1, <3>1, <3>2, <3>3
  <2> HIDE DEF v, d, w
  <2>6. /\ Append(d, v) \in Seq(Seq(Span))
        /\ \A n \in DOMAIN Append(d, v) : Append(d, v)[n] = v \/ (n \in DOMAIN d /\ Append(d, v)[n] = d[n])
    <3>1. /\ Append(d, v) \in Seq(Seq(Span)) /\ Len(Append(d, v)) = Len(d) + 1 /\ Len(d) \in Nat
          /\ Append(d, v)[Len(d) + 1] = v
          /\ \A n \in 1 .. Len(d) : Append(d, v)[n] = d[n]
          /\ DOMAIN d = 1 .. Len(d) /\ DOMAIN Append(d, v) = 1 .. Len(Append(d, v))
      BY <2>1, <2>2
    <3> QED
      BY <3>1
  <2>7. Cut(Append(d, v), Append(ss, s))
    BY <1>1, <1>3, <2>1, <2>3, <2>4, <2>5, <2>6 DEF Cut
  <2> QED
    BY <1>9, <2>7 DEF Packed, v, d, w
<1> QED
  BY <1>7, <1>8, <1>9

(* The windows of a transcript hold it.                                    *)
LEMMA ChunksTraced ==
  ASSUME NEW ss \in Seq(Span)
  PROVE  Cut(Chunks(ss), ss)
<1> DEFINE n == Len(ss)
<1>1. n \in Nat
  OBVIOUS
<1>2. PICK f \in [0 .. n -> Seq(Seq(Span))] :
        /\ f[0] = <<>> /\ f[n] = Chunks(ss)
        /\ \A k \in 1 .. n : f[k] = Packed(f[k - 1], ss[k])
  BY ChunksSteps
<1> DEFINE T == {k \in 0 .. n : Cut(f[k], SubSeq(ss, 1, k))}
<1>3. 0 \in T
  <2>1. SubSeq(ss, 1, 0) = <<>>
    OBVIOUS
  <2>2. Cut(<<>>, <<>>)
    BY FlattenEmpty DEF Cut
  <2> QED
    BY <1>1, <1>2, <2>1, <2>2
<1>4. ASSUME NEW k \in 1 .. n, k - 1 \in T PROVE k \in T
  <2>1. /\ SubSeq(ss, 1, k - 1) \in Seq(Span) /\ ss[k] \in Span
        /\ SubSeq(ss, 1, k) = Append(SubSeq(ss, 1, k - 1), ss[k]) /\ k \in 0 .. n
    <3>1. k - 1 \in 0 .. Len(ss) /\ k \in 1 .. Len(ss) /\ k \in Nat
      BY <1>1
    <3>2. Len(SubSeq(ss, 1, k - 1)) = k - 1 /\ SubSeq(ss, 1, k - 1) \in Seq(Span)
      BY <3>1
    <3>3. SubSeq(ss, 1, k) \in Seq(Span) /\ Len(SubSeq(ss, 1, k)) = k
      BY <3>1
    <3>4. \A i \in 1 .. k : SubSeq(ss, 1, k)[i] = Append(SubSeq(ss, 1, k - 1), ss[k])[i]
      BY <3>1, <3>2, <3>3
    <3>5. Append(SubSeq(ss, 1, k - 1), ss[k]) \in Seq(Span) /\ Len(Append(SubSeq(ss, 1, k - 1), ss[k])) = k
      BY <3>1, <3>2
    <3> QED
      BY <3>1, <3>2, <3>3, <3>4, <3>5, SeqEqual
  <2>2. Cut(f[k - 1], SubSeq(ss, 1, k - 1))
    BY <1>4
  <2> QED
    BY <1>2, <2>1, <2>2, PackedCut
<1>5. n \in T
  <2> HIDE DEF T
  <2>1. \A k \in 0 .. n : k \in T
    BY <1>1, <1>3, <1>4, Upto
  <2> QED
    BY <1>1, <2>1
<1> QED
  <2>1. SubSeq(ss, 1, n) = ss
    OBVIOUS
  <2> QED
    BY <1>2, <1>5, <2>1

-----------------------------------------------------------------------------
(* merge_siblings *)

(* The forests of merge_siblings: no parent is behind its child. *)
Parents(n) == {p \in [1 .. n -> 1 .. n] : \A i \in 1 .. n : p[i] <= i}

(* Root is a function: a walk to the parents ends.                         *)
LEMMA RootExists ==
  ASSUME NEW n \in Nat, NEW p \in Parents(n)
  PROVE  \E g \in [1 .. n -> 1 .. n] : \A i \in 1 .. n : g[i] = IF p[i] = i
                                                                THEN i
                                                                ELSE g[p[i]]
<1> DEFINE Ok(g, k) == /\ g \in [1 .. k -> 1 .. n]
                       /\ \A i \in 1 .. k : g[i] = IF p[i] = i THEN i ELSE g[p[i]]
           T == {k \in 0 .. n : \E g : Ok(g, k)}
<1>1. 0 \in T
  <2>1. Ok([i \in 1 .. 0 |-> i], 0)
    OBVIOUS
  <2> HIDE DEF Ok
  <2> QED
    BY <2>1
<1>2. ASSUME NEW k \in 1 .. n, k - 1 \in T PROVE k \in T
  <2>1. PICK g : Ok(g, k - 1)
    BY <1>2
  <2> DEFINE h == [i \in 1 .. k |-> IF i < k THEN g[i] ELSE IF p[k] = k THEN k ELSE g[p[k]]]
  <2>2. \A i \in 1 .. k : p[i] \in 1 .. k /\ p[i] <= i
    BY DEF Parents
  <2>3. \A i \in 1 .. k : i # k => i \in 1 .. k - 1
    OBVIOUS
  <2>4. h \in [1 .. k -> 1 .. n]
    BY <2>1, <2>2, <2>3
  <2>5. \A i \in 1 .. k : h[i] = IF p[i] = i THEN i ELSE h[p[i]]
    BY <2>1, <2>2, <2>3
  <2> HIDE DEF h
  <2>6. Ok(h, k)
    BY <2>4, <2>5
  <2> HIDE DEF Ok
  <2> QED
    BY <2>6
<1> HIDE DEF T
<1>3. n \in T
  BY <1>1, <1>2, Upto
<1> QED
  BY <1>3 DEF T

(* The root is its own parent, and not behind.                             *)
LEMMA RootOf ==
  ASSUME NEW n \in Nat, NEW p \in Parents(n)
  PROVE  /\ Root(p) \in [1 .. n -> 1 .. n]
         /\ \A i \in 1 .. n :
              /\ Root(p)[i] = IF p[i] = i THEN i ELSE Root(p)[p[i]]
              /\ Root(p)[i] <= i /\ p[Root(p)[i]] = Root(p)[i]
<1>1. DOMAIN p = 1 .. n /\ \A i \in 1 .. n : p[i] \in 1 .. n /\ p[i] <= i
  BY DEF Parents
<1>2. PICK g \in [1 .. n -> 1 .. n] : \A i \in 1 .. n : g[i] = IF p[i] = i
                                                               THEN i
                                                               ELSE g[p[i]]
  BY RootExists
<1>3. g = [i \in DOMAIN p |-> IF p[i] = i THEN i ELSE g[p[i]]]
  BY <1>1, <1>2
<1>4. Root(p) = [i \in DOMAIN p |-> IF p[i] = i THEN i ELSE Root(p)[p[i]]]
  BY <1>3 DEF Root
<1>5. \A i \in 1 .. n : Root(p)[i] = IF p[i] = i THEN i ELSE Root(p)[p[i]]
  BY <1>1, <1>4
<1> DEFINE T == {i \in 1 .. n : /\ Root(p)[i] \in 1 .. n /\ Root(p)[i] <= i
                                /\ p[Root(p)[i]] = Root(p)[i]}
<1>6. ASSUME NEW k \in 1 .. n, \A i \in 1 .. k - 1 : i \in T PROVE k \in T
  <2>1. CASE p[k] = k
    BY <2>1, <1>5
  <2>2. CASE p[k] # k
    <3>1. p[k] \in 1 .. k - 1
      BY <2>2, <1>1
    <3>2. p[k] \in T
      BY <1>6, <3>1
    <3>3. /\ Root(p)[k] = Root(p)[p[k]] /\ Root(p)[p[k]] \in 1 .. n
          /\ Root(p)[p[k]] <= p[k] /\ p[Root(p)[p[k]]] = Root(p)[p[k]]
      BY <2>2, <3>2, <1>5
    <3>4. \A a \in 1 .. n, q \in 1 .. k - 1 : a <= q => a <= k
      OBVIOUS
    <3> QED
      BY <3>1, <3>3, <3>4
  <2> QED
    BY <2>1, <2>2
<1> HIDE DEF T
<1>7. \A k \in 1 .. n : k \in T
  BY <1>6, CourseOfValues
<1>8. \A k \in 1 .. n : Root(p)[k] \in 1 .. n /\ Root(p)[k] <= k /\ p[Root(p)[k]] = Root(p)[k]
  BY <1>7 DEF T
<1>9. Root(p) \in [1 .. n -> 1 .. n]
  BY <1>1, <1>4, <1>8
<1> QED
  BY <1>5, <1>8, <1>9

(* In q the tree of b hangs under a, and every other root is as in p. *)
Hung(p, q, n, a, b) ==
  /\ q \in Parents(n)
  /\ \A k \in 1 .. n : Root(q)[k] = IF Root(p)[k] = b THEN a ELSE Root(p)[k]

(* Linking a root to another one moves its tree and nothing else.          *)
LEMMA LinkedRoots ==
  ASSUME NEW n \in Nat, NEW p \in Parents(n), NEW a \in 1 .. n, NEW b \in 1 .. n,
         a <= b, p[a] = a, p[b] = b,
         NEW q \in Parents(n), \A k \in 1 .. n : q[k] = IF k = b THEN a ELSE p[k]
  PROVE  Hung(p, q, n, a, b)
<1>2. \A k \in 1 .. n : p[k] \in 1 .. n /\ p[k] <= k
  BY DEF Parents
<1>3. \A k \in 1 .. n : Root(p)[k] = IF p[k] = k THEN k ELSE Root(p)[p[k]]
  BY RootOf
<1>4. \A k \in 1 .. n : Root(q)[k] = IF q[k] = k THEN k ELSE Root(q)[q[k]]
  BY RootOf
<1> DEFINE T == {k \in 1 .. n : Root(q)[k] = IF Root(p)[k] = b THEN a ELSE Root(p)[k]}
<1>5. ASSUME NEW k \in 1 .. n, \A i \in 1 .. k - 1 : i \in T PROVE k \in T
  <2>1. CASE k = b
    BY <2>1, <1>3, <1>4
  <2>2. CASE k # b /\ p[k] = k
    BY <2>2, <1>3, <1>4
  <2>3. CASE k # b /\ p[k] # k
    <3>1. p[k] \in 1 .. k - 1
      BY <2>3, <1>2
    <3>2. p[k] \in T
      BY <3>1, <1>5
    <3> QED
      BY <2>3, <3>2, <1>3, <1>4
  <2> QED
    BY <2>1, <2>2, <2>3
<1> HIDE DEF T
<1>6. \A k \in 1 .. n : k \in T
  BY <1>5, CourseOfValues
<1> QED
  BY <1>6 DEF T, Hung

(* A union hangs the tree of the one under the root of the other. *)
LEMMA JoinedRoots ==
  ASSUME NEW n \in Nat, NEW p \in Parents(n), NEW i \in 1 .. n, NEW j \in 1 .. n
  PROVE  \/ Hung(p, Joined(p, i, j), n, Root(p)[i], Root(p)[j])
         \/ Hung(p, Joined(p, i, j), n, Root(p)[j], Root(p)[i])
<1>1. \A k \in 1 .. n : Root(p)[k] \in 1 .. n /\ p[Root(p)[k]] = Root(p)[k]
  BY RootOf
<1>2. PICK ri \in 1 .. n, rj \in 1 .. n : /\ ri = Root(p)[i] /\ rj = Root(p)[j]
                                          /\ p[ri] = ri /\ p[rj] = rj
  BY <1>1
<1>3. CASE ri <= rj
  <2>1. Joined(p, i, j) = [p EXCEPT ![rj] = ri]
    BY <1>2, <1>3 DEF Joined
  <2>2. /\ Joined(p, i, j) \in Parents(n)
        /\ \A k \in 1 .. n : Joined(p, i, j)[k] = IF k = rj THEN ri ELSE p[k]
    BY <2>1, <1>3 DEF Parents
  <2>3. Hung(p, Joined(p, i, j), n, ri, rj)
    BY <1>2, <1>3, <2>2, LinkedRoots
  <2> QED
    BY <1>2, <2>3
<1>4. CASE rj <= ri /\ ~(ri <= rj)
  <2>1. Joined(p, i, j) = [p EXCEPT ![ri] = rj]
    BY <1>2, <1>4 DEF Joined
  <2>2. /\ Joined(p, i, j) \in Parents(n)
        /\ \A k \in 1 .. n : Joined(p, i, j)[k] = IF k = ri THEN rj ELSE p[k]
    BY <2>1, <1>4 DEF Parents
  <2>3. Hung(p, Joined(p, i, j), n, rj, ri)
    BY <1>2, <1>4, <2>2, LinkedRoots
  <2> QED
    BY <1>2, <2>3
<1> QED
  BY <1>3, <1>4

(* The pairs of i, one by one.                                             *)
LEMMA JoinedWithLaterSteps ==
  ASSUME NEW ps \in Seq(Proposal), NEW parent \in Parents(Len(ps)), NEW i0 \in 1 .. Len(ps)
  PROVE  \E f \in [0 .. Len(ps) -> Parents(Len(ps))] :
           /\ f[0] = parent /\ f[Len(ps)] = JoinedWithLater(ps, parent, i0)
           /\ \A k \in 1 .. Len(ps) :
                f[k] = IF i0 < k /\ Siblings(ps[i0], ps[k])
                       THEN Joined(f[k - 1], i0, k)
                       ELSE f[k - 1]
<1> DEFINE n == Len(ps)
           id == [i \in DOMAIN ps |-> i]
           X == Parents(Len(ps))
           step == [p \in X \X (1 .. n) |->
                      IF i0 < p[2] /\ Siblings(ps[i0], ps[p[2]])
                      THEN Joined(p[1], i0, p[2])
                      ELSE p[1]]
<1>1. n \in Nat /\ DOMAIN ps = 1 .. n /\ parent \in X
  OBVIOUS
<1>2. step \in [X \X (1 .. n) -> X]
  <2>1. \A q \in X, j \in 1 .. n : Joined(q, i0, j) \in X
    BY <1>1, JoinedRoots DEF Hung
  <2> HIDE DEF X
  <2> QED
    BY <2>1
<1>3. PICK g : FoldsUpto(g, n, X, parent, step)
  BY <1>1, <1>2, FoldExists
<1>4. \A s \in SUBSET (1 .. n) : s # {} => Max(s) \in 1 .. n
  BY <1>1, MaxOf
<1>5. /\ DOMAIN [i \in DOMAIN ps |-> i] = 1 .. n
      /\ \A s \in SUBSET (1 .. n) : s # {} => [i \in DOMAIN ps |-> i][Max(s)] = Max(s)
  BY <1>1, <1>4
<1>6. g = [s \in SUBSET (DOMAIN [i \in DOMAIN ps |-> i]) |->
            IF s = {} THEN parent
            ELSE LET x == Max(s)
                 IN  IF i0 < id[x] /\ Siblings(ps[i0], ps[id[x]])
                     THEN Joined(g[s \ {x}], i0, id[x])
                     ELSE g[s \ {x}]]
  BY <1>3, <1>4, <1>5 DEF FoldsUpto
<1>7. PICK h :
       /\ h = [s \in SUBSET (DOMAIN [i \in DOMAIN ps |-> i]) |->
                 IF s = {} THEN parent
                 ELSE LET x == Max(s)
                      IN  IF i0 < id[x] /\ Siblings(ps[i0], ps[id[x]])
                          THEN Joined(h[s \ {x}], i0, id[x])
                          ELSE h[s \ {x}]]
       /\ JoinedWithLater(ps, parent, i0) = h[DOMAIN [i \in DOMAIN ps |-> i]]
  BY <1>6 DEF JoinedWithLater, FoldLeftDomain, FoldLeft, MapThenFoldSet
<1>8. IsFold(h, n, X, parent, step) /\ JoinedWithLater(ps, parent, i0) = h[1 .. n]
  BY <1>4, <1>5, <1>7 DEF IsFold
<1>9. PICK f : Trace(f, h, n, X, parent, step)
  <2> HIDE DEF n, X, step
  <2> QED
    BY <1>1, <1>2, <1>8, FoldSteps
<1>10. \A k \in 1 .. n : f[k - 1] \in X
  BY <1>9 DEF Trace
<1>11. \A k \in 1 .. n :
         f[k] = IF i0 < k /\ Siblings(ps[i0], ps[k])
                THEN Joined(f[k - 1], i0, k)
                ELSE f[k - 1]
  BY <1>9, <1>10 DEF Trace
<1> QED
  BY <1>8, <1>9, <1>11 DEF Trace

(* The sets of candidates without a sibling outside. *)
ClosedSets(ps) ==
  {S \in SUBSET (1 .. Len(ps)) :
     \A k \in S, l \in 1 .. Len(ps) : Siblings(ps[k], ps[l]) => l \in S}

(* No tree is partly in S.                                                 *)
Respects(p, n, S) == \A k \in 1 .. n : k \in S <=> Root(p)[k] \in S

(* q joins what p joins, and no more than siblings. *)
Grown(ps, p, q) ==
  /\ q \in Parents(Len(ps))
  /\ \A x, y \in 1 .. Len(ps) : Root(p)[x] = Root(p)[y] => Root(q)[x] = Root(q)[y]
  /\ \A S \in ClosedSets(ps) : Respects(p, Len(ps), S) => Respects(q, Len(ps), S)

(* The code asks for one order of each pair only.                          *)
LEMMA SiblingsSymmetric == \A p, q : Siblings(p, q) <=> Siblings(q, p)
BY DEF Siblings

(* A union of two siblings joins them, and nobody else but their siblings. *)
LEMMA JoinGrows ==
  ASSUME NEW ps \in Seq(Proposal), NEW p \in Parents(Len(ps)),
         NEW i \in 1 .. Len(ps), NEW j \in 1 .. Len(ps), Siblings(ps[i], ps[j])
  PROVE  /\ Grown(ps, p, Joined(p, i, j))
         /\ Root(Joined(p, i, j))[i] = Root(Joined(p, i, j))[j]
<1> DEFINE n == Len(ps)
           q == Joined(p, i, j)
<1>1. n \in Nat
  OBVIOUS
<1> HIDE DEF n, q
<1>2. i \in 1 .. n /\ j \in 1 .. n /\ p \in Parents(n)
  BY DEF n
<1>3. PICK a, b : Hung(p, q, n, a, b) /\ {a, b} = {Root(p)[i], Root(p)[j]}
  BY <1>1, <1>2, JoinedRoots DEF q
<1>4. q \in Parents(n) /\ \A k \in 1 .. n : Root(q)[k] = IF Root(p)[k] = b
                                                         THEN a
                                                         ELSE Root(p)[k]
  BY <1>3 DEF Hung
<1>5. Root(q)[i] = Root(q)[j]
  BY <1>2, <1>3, <1>4
<1>6. ASSUME NEW S \in ClosedSets(ps), Respects(p, n, S) PROVE Respects(q, n, S)
  <2>1. i \in S <=> j \in S
    BY <1>2, SiblingsSymmetric DEF ClosedSets, n
  <2>2. a \in S <=> b \in S
    <3>1. Root(p)[i] \in S <=> Root(p)[j] \in S
      BY <1>2, <1>6, <2>1 DEF Respects
    <3> QED
      BY <1>3, <3>1
  <2> QED
    BY <1>4, <1>6, <2>2 DEF Respects
<1> QED
  BY <1>4, <1>5, <1>6 DEF Grown, n, q

LEMMA GrownTransitive ==
  ASSUME NEW ps, NEW p, NEW q, NEW r, Grown(ps, p, q), Grown(ps, q, r)
  PROVE  Grown(ps, p, r)
BY DEF Grown

LEMMA GrownReflexive ==
  ASSUME NEW ps, NEW p \in Parents(Len(ps))
  PROVE  Grown(ps, p, p)
BY DEF Grown

(* A row of the pairs. *)
LEMMA RowJoins ==
  ASSUME NEW ps \in Seq(Proposal), NEW p \in Parents(Len(ps)), NEW i \in 1 .. Len(ps)
  PROVE  LET q == JoinedWithLater(ps, p, i)
         IN  /\ Grown(ps, p, q)
             /\ \A j \in 1 .. Len(ps) : i < j /\ Siblings(ps[i], ps[j]) => Root(q)[i] = Root(q)[j]
<1> DEFINE n == Len(ps)
<1>1. n \in Nat
  OBVIOUS
<1>2. PICK f \in [0 .. n -> Parents(n)] :
        /\ f[0] = p /\ f[n] = JoinedWithLater(ps, p, i)
        /\ \A k \in 1 .. n : f[k] = IF i < k /\ Siblings(ps[i], ps[k])
                                   THEN Joined(f[k - 1], i, k) ELSE f[k - 1]
  BY JoinedWithLaterSteps
<1> DEFINE Row(k) == \A j \in 1 .. k : i < j /\ Siblings(ps[i], ps[j]) => Root(f[k])[i] = Root(f[k])[j]
           T == {k \in 0 .. n : Grown(ps, p, f[k]) /\ Row(k)}
<1>3. 0 \in T
  BY <1>1, <1>2, GrownReflexive
<1>4. ASSUME NEW k \in 1 .. n, k - 1 \in T PROVE k \in T
  <2>1. f[k - 1] \in Parents(n)
    BY <1>2
  <2>2. /\ Grown(ps, f[k - 1], f[k])
        /\ i < k /\ Siblings(ps[i], ps[k]) => Root(f[k])[i] = Root(f[k])[k]
    <3>1. CASE i < k /\ Siblings(ps[i], ps[k])
      <4>1. f[k] = Joined(f[k - 1], i, k)
        BY <3>1, <1>2
      <4> QED
        BY <3>1, <4>1, <2>1, JoinGrows
    <3>2. CASE ~(i < k /\ Siblings(ps[i], ps[k]))
      <4>1. f[k] = f[k - 1]
        BY <3>2, <1>2
      <4> QED
        BY <3>2, <4>1, <2>1, GrownReflexive
    <3> QED
      BY <3>1, <3>2
  <2>3. Grown(ps, p, f[k])
    BY <1>4, <2>2, GrownTransitive
  <2>4. ASSUME NEW j \in 1 .. k, i < j, Siblings(ps[i], ps[j]) PROVE Root(f[k])[i] = Root(f[k])[j]
    <3>1. CASE j = k
      BY <3>1, <2>2, <2>4
    <3>2. CASE j # k
      <4>1. j \in 1 .. k - 1 /\ j \in 1 .. n
        BY <3>2
      <4>2. Root(f[k - 1])[i] = Root(f[k - 1])[j]
        BY <4>1, <1>4, <2>4
      <4> QED
        BY <4>1, <4>2, <2>2 DEF Grown
    <3> QED
      BY <3>1, <3>2
  <2> QED
    BY <2>3, <2>4
<1>5. n \in T
  <2> HIDE DEF T, n
  <2>1. \A k \in 0 .. n : k \in T
    BY <1>1, <1>3, <1>4, Upto
  <2> QED
    BY <1>1, <2>1
<1> QED
  BY <1>5, <1>2

(* The rows of the pairs, one by one.                                      *)
LEMMA ForestSteps ==
  ASSUME NEW ps \in Seq(Proposal)
  PROVE  \E f \in [0 .. Len(ps) -> Parents(Len(ps))] :
           /\ f[0] = [i \in DOMAIN ps |-> i] /\ f[Len(ps)] = Forest(ps)
           /\ \A k \in 1 .. Len(ps) :
                f[k] = JoinedWithLater(ps, f[k - 1], k)
<1> DEFINE n == Len(ps)
           id == [i \in DOMAIN ps |-> i]
           X == Parents(Len(ps))
           step == [p \in X \X (1 .. n) |->
                      JoinedWithLater(ps, p[1], p[2])]
<1>1. n \in Nat /\ DOMAIN ps = 1 .. n /\ [i \in DOMAIN ps |-> i] \in X
  <2>1. DOMAIN ps = 1 .. Len(ps) /\ Len(ps) \in Nat
    OBVIOUS
  <2> QED
    BY <2>1 DEF Parents
<1>2. step \in [X \X (1 .. n) -> X]
  <2>1. \A q \in X, j \in 1 .. n : JoinedWithLater(ps, q, j) \in X
    BY <1>1, RowJoins DEF Grown
  <2> HIDE DEF X
  <2> QED
    BY <2>1
<1>3. PICK g : FoldsUpto(g, n, X, [i \in DOMAIN ps |-> i], step)
  BY <1>1, <1>2, FoldExists
<1>4. \A s \in SUBSET (1 .. n) : s # {} => Max(s) \in 1 .. n
  BY <1>1, MaxOf
<1>5. /\ DOMAIN [i \in DOMAIN ps |-> i] = 1 .. n
      /\ \A s \in SUBSET (1 .. n) : s # {} => [i \in DOMAIN ps |-> i][Max(s)] = Max(s)
  BY <1>1, <1>4
<1>6. g = [s \in SUBSET (DOMAIN [i \in DOMAIN ps |-> i]) |->
            IF s = {} THEN [i \in DOMAIN ps |-> i]
            ELSE LET x == Max(s)
                 IN  JoinedWithLater(ps, g[s \ {x}], id[x])]
  BY <1>3, <1>4, <1>5 DEF FoldsUpto
<1>7. PICK h :
       /\ h = [s \in SUBSET (DOMAIN [i \in DOMAIN ps |-> i]) |->
                 IF s = {} THEN [i \in DOMAIN ps |-> i]
                 ELSE LET x == Max(s)
                      IN  JoinedWithLater(ps, h[s \ {x}], id[x])]
       /\ Forest(ps) = h[DOMAIN [i \in DOMAIN ps |-> i]]
  BY <1>6 DEF Forest, FoldLeftDomain, FoldLeft, MapThenFoldSet
<1>8. IsFold(h, n, X, [i \in DOMAIN ps |-> i], step) /\ Forest(ps) = h[1 .. n]
  BY <1>4, <1>5, <1>7 DEF IsFold
<1>9. PICK f : Trace(f, h, n, X, [i \in DOMAIN ps |-> i], step)
  <2> HIDE DEF n, X, step
  <2> QED
    BY <1>1, <1>2, <1>8, FoldSteps
<1>10. \A k \in 1 .. n : f[k - 1] \in X
  BY <1>9 DEF Trace
<1>11. \A k \in 1 .. n :
         f[k] = JoinedWithLater(ps, f[k - 1], k)
  BY <1>9, <1>10 DEF Trace
<1> QED
  BY <1>8, <1>9, <1>11 DEF Trace

(* The forest joins siblings, and no two trees without a chain of          *)
(* siblings.                                                               *)
LEMMA ForestJoins ==
  ASSUME NEW ps \in Seq(Proposal)
  PROVE  /\ Forest(ps) \in Parents(Len(ps))
         /\ \A i, j \in 1 .. Len(ps) :
              Siblings(ps[i], ps[j]) => Root(Forest(ps))[i] = Root(Forest(ps))[j]
         /\ \A S \in ClosedSets(ps) : Respects(Forest(ps), Len(ps), S)
<1> DEFINE n == Len(ps)
           id == [i \in DOMAIN ps |-> i]
<1>1. n \in Nat /\ DOMAIN ps = 1 .. n
  OBVIOUS
<1>2. id \in Parents(n) /\ \A i \in 1 .. n : id[i] = i
  BY <1>1 DEF Parents
<1>3. PICK f \in [0 .. n -> Parents(n)] :
        /\ f[0] = id /\ f[n] = Forest(ps)
        /\ \A k \in 1 .. n : f[k] = JoinedWithLater(ps, f[k - 1], k)
  BY ForestSteps
<1> HIDE DEF id
<1> DEFINE Rows(k) == \A i \in 1 .. k, j \in 1 .. n :
                        i < j /\ Siblings(ps[i], ps[j]) => Root(f[k])[i] = Root(f[k])[j]
           T == {k \in 0 .. n : Grown(ps, id, f[k]) /\ Rows(k)}
<1>4. 0 \in T
  BY <1>1, <1>2, <1>3, GrownReflexive
<1>5. ASSUME NEW k \in 1 .. n, k - 1 \in T PROVE k \in T
  <2>1. f[k - 1] \in Parents(n)
    BY <1>3
  <2>2. /\ Grown(ps, f[k - 1], f[k])
        /\ \A j \in 1 .. n : k < j /\ Siblings(ps[k], ps[j]) => Root(f[k])[k] = Root(f[k])[j]
    BY <1>3, <2>1, RowJoins
  <2>3. Grown(ps, id, f[k])
    BY <1>5, <2>2, GrownTransitive
  <2>4. ASSUME NEW i \in 1 .. k, NEW j \in 1 .. n, i < j, Siblings(ps[i], ps[j])
        PROVE  Root(f[k])[i] = Root(f[k])[j]
    <3>1. CASE i = k
      BY <3>1, <2>2, <2>4
    <3>2. CASE i # k
      <4>1. i \in 1 .. k - 1 /\ i \in 1 .. n
        BY <3>2
      <4>2. Root(f[k - 1])[i] = Root(f[k - 1])[j]
        BY <4>1, <1>5, <2>4
      <4> QED
        BY <4>1, <4>2, <2>2 DEF Grown
    <3> QED
      BY <3>1, <3>2
  <2> QED
    BY <2>3, <2>4
<1>6. n \in T
  <2> HIDE DEF T, n
  <2>1. \A k \in 0 .. n : k \in T
    BY <1>1, <1>4, <1>5, Upto
  <2> QED
    BY <1>1, <2>1
<1>7. /\ Grown(ps, id, Forest(ps))
      /\ \A i, j \in 1 .. n : i < j /\ Siblings(ps[i], ps[j]) => Root(Forest(ps))[i] = Root(Forest(ps))[j]
  BY <1>3, <1>6
<1>8. ASSUME NEW i \in 1 .. n, NEW j \in 1 .. n, Siblings(ps[i], ps[j])
      PROVE  Root(Forest(ps))[i] = Root(Forest(ps))[j]
  <2>1. i < j \/ j < i \/ i = j
    OBVIOUS
  <2> QED
    BY <1>7, <1>8, <2>1, SiblingsSymmetric
<1>9. \A S \in ClosedSets(ps) : Respects(id, n, S)
  BY <1>1, <1>2, RootOf DEF Respects
<1> QED
  BY <1>7, <1>8, <1>9 DEF Grown

(* The clusters, candidate by candidate.                                   *)
LEMMA ClustersSteps ==
  ASSUME NEW ps \in Seq(Proposal)
  PROVE  \E f \in [0 .. Len(ps) -> Seq(SUBSET (1 .. Len(ps)))] :
           /\ f[0] = <<>> /\ f[Len(ps)] = Clusters(ps)
           /\ \A k \in 1 .. Len(ps) :
                f[k] = WithCluster(f[k - 1], Forest(ps), k)
<1> DEFINE n == Len(ps)
           id == [i \in DOMAIN ps |-> i]
           X == Seq(SUBSET (1 .. Len(ps)))
           step == [p \in X \X (1 .. n) |->
                      WithCluster(p[1], Forest(ps), p[2])]
<1>1. n \in Nat /\ DOMAIN ps = 1 .. n /\ <<>> \in X
  OBVIOUS
<1>2. step \in [X \X (1 .. n) -> X]
  <2>1. DOMAIN Forest(ps) = 1 .. n
    BY ForestJoins DEF Parents
  <2>2. \A i \in 1 .. n : Cluster(Forest(ps), i) \in SUBSET (1 .. n)
    BY <2>1 DEF Cluster
  <2>3. \A c \in X, i \in 1 .. n : Append(c, Cluster(Forest(ps), i)) \in X
    BY <2>2
  <2>4. \A c \in X, i \in 1 .. n : WithCluster(c, Forest(ps), i) \in X
    BY <2>3 DEF WithCluster
  <2> HIDE DEF X
  <2> QED
    BY <2>4
<1>3. PICK g : FoldsUpto(g, n, X, <<>>, step)
  BY <1>1, <1>2, FoldExists
<1>4. \A s \in SUBSET (1 .. n) : s # {} => Max(s) \in 1 .. n
  BY <1>1, MaxOf
<1>5. /\ DOMAIN [i \in DOMAIN ps |-> i] = 1 .. n
      /\ \A s \in SUBSET (1 .. n) : s # {} => [i \in DOMAIN ps |-> i][Max(s)] = Max(s)
  BY <1>1, <1>4
<1>6. g = [s \in SUBSET (DOMAIN [i \in DOMAIN ps |-> i]) |->
            IF s = {} THEN <<>>
            ELSE LET x == Max(s)
                 IN  WithCluster(g[s \ {x}], Forest(ps), id[x])]
  BY <1>3, <1>4, <1>5 DEF FoldsUpto
<1>7. PICK h :
       /\ h = [s \in SUBSET (DOMAIN [i \in DOMAIN ps |-> i]) |->
                 IF s = {} THEN <<>>
                 ELSE LET x == Max(s)
                      IN  WithCluster(h[s \ {x}], Forest(ps), id[x])]
       /\ Clusters(ps) = h[DOMAIN [i \in DOMAIN ps |-> i]]
  BY <1>6 DEF Clusters, FoldLeftDomain, FoldLeft, MapThenFoldSet
<1>8. IsFold(h, n, X, <<>>, step) /\ Clusters(ps) = h[1 .. n]
  BY <1>4, <1>5, <1>7 DEF IsFold
<1>9. PICK f : Trace(f, h, n, X, <<>>, step)
  <2> HIDE DEF n, X, step
  <2> QED
    BY <1>1, <1>2, <1>8, FoldSteps
<1>10. \A k \in 1 .. n : f[k - 1] \in X
  BY <1>9 DEF Trace
<1>11. \A k \in 1 .. n :
         f[k] = WithCluster(f[k - 1], Forest(ps), k)
  BY <1>9, <1>10 DEF Trace
<1> QED
  BY <1>8, <1>9, <1>11 DEF Trace

(* Each candidate is in a cluster, the clusters are the classes of the     *)
(* forest, and they come in the order of their first members.              *)
Partition(groups, ps, m) ==
  /\ groups \in Seq(SUBSET (1 .. Len(ps)))
  /\ \A i \in 1 .. m : \E k \in DOMAIN groups : i \in groups[k]
  /\ \A k \in DOMAIN groups : \E i \in 1 .. m : groups[k] = Cluster(Forest(ps), i)
  /\ \A k, l \in DOMAIN groups : k < l => \E i \in groups[k] : \A j \in groups[l] : i < j

(* The clusters are classes.                                               *)
LEMMA ClusterSame ==
  ASSUME NEW ps \in Seq(Proposal), NEW i \in 1 .. Len(ps)
  PROVE  /\ i \in Cluster(Forest(ps), i) /\ Cluster(Forest(ps), i) \in SUBSET (1 .. Len(ps))
         /\ \A j \in Cluster(Forest(ps), i) : i \in Cluster(Forest(ps), j)
         /\ \A j, k \in Cluster(Forest(ps), i) : j \in Cluster(Forest(ps), k)
<1>1. DOMAIN Forest(ps) = 1 .. Len(ps)
  BY ForestJoins DEF Parents
<1> QED
  BY <1>1 DEF Cluster

(* One more candidate: in a cluster that is there, or the first of its     *)
(* own.                                                                    *)
LEMMA PartitionGrows ==
  ASSUME NEW ps \in Seq(Proposal), NEW m \in 1 .. Len(ps), NEW groups, Partition(groups, ps, m - 1)
  PROVE  Partition(WithCluster(groups, Forest(ps), m), ps, m)
<1>1. /\ groups \in Seq(SUBSET (1 .. Len(ps))) /\ DOMAIN groups = 1 .. Len(groups)
      /\ \A i \in 1 .. m - 1 : \E k \in DOMAIN groups : i \in groups[k]
      /\ \A k \in DOMAIN groups : \E i \in 1 .. m - 1 : groups[k] = Cluster(Forest(ps), i)
      /\ \A k, l \in DOMAIN groups : k < l => \E i \in groups[k] : \A j \in groups[l] : i < j
  BY DEF Partition
<1>2. \A i \in 1 .. m : i = m \/ i \in 1 .. m - 1
  OBVIOUS
<1>3. CASE \E k \in DOMAIN groups : m \in groups[k]
  <2>1. WithCluster(groups, Forest(ps), m) = groups
    BY <1>3 DEF WithCluster
  <2>2. \A i \in 1 .. m : \E k \in DOMAIN groups : i \in groups[k]
    BY <1>1, <1>2, <1>3
  <2>3. \A k \in DOMAIN groups : \E i \in 1 .. m : groups[k] = Cluster(Forest(ps), i)
    BY <1>1
  <2> QED
    BY <1>1, <2>1, <2>2, <2>3 DEF Partition
<1>4. CASE ~\E k \in DOMAIN groups : m \in groups[k]
  <2> DEFINE C == Cluster(Forest(ps), m)
             new == Append(groups, C)
  <2>1. WithCluster(groups, Forest(ps), m) = new
    BY <1>4 DEF WithCluster
  <2>2. m \in C /\ C \in SUBSET (1 .. Len(ps))
    BY ClusterSame
  <2>3. \A j \in C : m <= j
    <3> SUFFICES ASSUME NEW j \in C, ~(m <= j) PROVE FALSE
      OBVIOUS
    <3>1. j \in 1 .. m - 1
      BY <2>2
    <3>2. PICK k \in DOMAIN groups : j \in groups[k]
      BY <3>1, <1>1
    <3>3. PICK i \in 1 .. m - 1 : groups[k] = Cluster(Forest(ps), i)
      BY <1>1
    <3>4. m \in Cluster(Forest(ps), i)
      <4>1. i \in 1 .. Len(ps) /\ DOMAIN Forest(ps) = 1 .. Len(ps)
        BY ForestJoins DEF Parents
      <4> QED
        BY <3>2, <3>3, <4>1 DEF Cluster
    <3> QED
      BY <1>4, <3>3, <3>4
  <2> HIDE DEF C
  <2>4. /\ new \in Seq(SUBSET (1 .. Len(ps))) /\ DOMAIN new = 1 .. Len(groups) + 1
        /\ \A k \in DOMAIN groups : new[k] = groups[k]
        /\ new[Len(groups) + 1] = C
    BY <1>1, <2>2
  <2> HIDE DEF new
  <2>5. \A k \in DOMAIN new : k \in DOMAIN groups \/ k = Len(groups) + 1
    BY <1>1, <2>4
  <2>6. \A k \in DOMAIN groups : k \in DOMAIN new
    BY <1>1, <2>4
  <2>7. \A i \in 1 .. m : \E k \in DOMAIN new : i \in new[k]
    <3>1. Len(groups) + 1 \in DOMAIN new
      BY <1>1, <2>4
    <3> QED
      BY <1>1, <1>2, <2>2, <2>4, <2>6, <3>1
  <2>8. \A k \in DOMAIN new : \E i \in 1 .. m : new[k] = Cluster(Forest(ps), i)
    <3>1. m \in 1 .. m /\ 1 .. m - 1 \subseteq 1 .. m
      OBVIOUS
    <3> QED
      BY <1>1, <2>4, <2>5, <3>1 DEF C
  <2>9. ASSUME NEW k \in DOMAIN new, NEW l \in DOMAIN new, k < l
        PROVE  \E i \in new[k] : \A j \in new[l] : i < j
    <3>1. k \in DOMAIN groups
      BY <2>4, <2>5, <2>9, <1>1
    <3>2. CASE l \in DOMAIN groups
      BY <3>1, <3>2, <2>4, <2>9, <1>1
    <3>3. CASE l = Len(groups) + 1
      <4>1. PICK i \in 1 .. m - 1 : groups[k] = Cluster(Forest(ps), i)
        BY <1>1, <3>1
      <4>2. i \in 1 .. Len(ps)
        OBVIOUS
      <4>3. i \in new[k]
        BY <4>1, <4>2, <2>4, <3>1, ClusterSame
      <4>4. \A j \in C : i < j
        BY <2>2, <2>3
      <4> QED
        BY <4>3, <4>4, <3>3, <2>4
    <3> QED
      BY <2>5, <3>2, <3>3
  <2> QED
    BY <2>1, <2>4, <2>7, <2>8, <2>9 DEF Partition
<1> QED
  BY <1>3, <1>4

(* The clusters of the candidates partition them.                          *)
LEMMA ClustersPartition ==
  ASSUME NEW ps \in Seq(Proposal)
  PROVE  Partition(Clusters(ps), ps, Len(ps))
<1> DEFINE n == Len(ps)
<1>1. n \in Nat
  OBVIOUS
<1>2. PICK f \in [0 .. n -> Seq(SUBSET (1 .. n))] :
        /\ f[0] = <<>> /\ f[n] = Clusters(ps)
        /\ \A k \in 1 .. n : f[k] = WithCluster(f[k - 1], Forest(ps), k)
  BY ClustersSteps
<1> DEFINE T == {k \in 0 .. n : Partition(f[k], ps, k)}
<1>3. 0 \in T
  BY <1>1, <1>2 DEF Partition
<1>4. \A k \in 1 .. n : k - 1 \in T => k \in T
  BY <1>2, PartitionGrows
<1>5. n \in T
  <2> HIDE DEF T, n
  <2>1. \A k \in 0 .. n : k \in T
    BY <1>1, <1>3, <1>4, Upto
  <2> QED
    BY <1>1, <2>1
<1> QED
  BY <1>2, <1>5

-----------------------------------------------------------------------------
(* _merge_cluster, cited_spans_for *)

(* The body of a note, member by member.                                   *)
LEMMA ParagraphsSteps ==
  ASSUME NEW ps \in Seq(Proposal), NEW cluster
  PROVE  \E f \in [0 .. Len(ps) -> Seq(Facts)] :
           /\ f[0] = <<>> /\ f[Len(ps)] = Paragraphs(ps, cluster)
           /\ \A k \in 1 .. Len(ps) :
                f[k] = IF k \in cluster /\ ~Contains(f[k - 1], ps[k].body)
                       THEN Append(f[k - 1], ps[k].body)
                       ELSE f[k - 1]
<1> DEFINE n == Len(ps)
           id == [i \in DOMAIN ps |-> i]
           X == Seq(Facts)
           step == [p \in X \X (1 .. n) |->
                      IF p[2] \in cluster /\ ~Contains(p[1], ps[p[2]].body)
                      THEN Append(p[1], ps[p[2]].body)
                      ELSE p[1]]
<1>1. n \in Nat /\ DOMAIN ps = 1 .. n /\ <<>> \in X
  OBVIOUS
<1>2. step \in [X \X (1 .. n) -> X]
  <2>1. \A i \in 1 .. n : ps[i] \in Proposal
    OBVIOUS
  <2>2. \A i \in 1 .. n : ps[i].body \in Facts
    BY <2>1 DEF Proposal
  <2>3. \A b \in X, i \in 1 .. n : Append(b, ps[i].body) \in X
    BY <2>2
  <2> HIDE DEF X
  <2> QED
    BY <2>3
<1>3. PICK g : FoldsUpto(g, n, X, <<>>, step)
  BY <1>1, <1>2, FoldExists
<1>4. \A s \in SUBSET (1 .. n) : s # {} => Max(s) \in 1 .. n
  BY <1>1, MaxOf
<1>5. /\ DOMAIN [i \in DOMAIN ps |-> i] = 1 .. n
      /\ \A s \in SUBSET (1 .. n) : s # {} => [i \in DOMAIN ps |-> i][Max(s)] = Max(s)
  BY <1>1, <1>4
<1>6. g = [s \in SUBSET (DOMAIN [i \in DOMAIN ps |-> i]) |->
            IF s = {} THEN <<>>
            ELSE LET x == Max(s)
                 IN  IF id[x] \in cluster /\ ~Contains(g[s \ {x}], ps[id[x]].body)
                     THEN Append(g[s \ {x}], ps[id[x]].body)
                     ELSE g[s \ {x}]]
  BY <1>3, <1>4, <1>5 DEF FoldsUpto
<1>7. PICK h :
       /\ h = [s \in SUBSET (DOMAIN [i \in DOMAIN ps |-> i]) |->
                 IF s = {} THEN <<>>
                 ELSE LET x == Max(s)
                      IN  IF id[x] \in cluster /\ ~Contains(h[s \ {x}], ps[id[x]].body)
                          THEN Append(h[s \ {x}], ps[id[x]].body)
                          ELSE h[s \ {x}]]
       /\ Paragraphs(ps, cluster) = h[DOMAIN [i \in DOMAIN ps |-> i]]
  BY <1>6 DEF Paragraphs, FoldLeftDomain, FoldLeft, MapThenFoldSet
<1>8. IsFold(h, n, X, <<>>, step) /\ Paragraphs(ps, cluster) = h[1 .. n]
  BY <1>4, <1>5, <1>7 DEF IsFold
<1>9. PICK f : Trace(f, h, n, X, <<>>, step)
  <2> HIDE DEF n, X, step
  <2> QED
    BY <1>1, <1>2, <1>8, FoldSteps
<1>10. \A k \in 1 .. n : f[k - 1] \in X
  BY <1>9 DEF Trace
<1>11. \A k \in 1 .. n :
         f[k] = IF k \in cluster /\ ~Contains(f[k - 1], ps[k].body)
                THEN Append(f[k - 1], ps[k].body)
                ELSE f[k - 1]
  BY <1>9, <1>10 DEF Trace
<1> QED
  BY <1>8, <1>9, <1>11 DEF Trace

(* The body of each member is in the body of the note. *)
LEMMA ParagraphsOf ==
  ASSUME NEW ps \in Seq(Proposal), NEW cluster \in SUBSET (1 .. Len(ps))
  PROVE  /\ Paragraphs(ps, cluster) \in Seq(Facts)
         /\ \A i \in cluster : Contains(Paragraphs(ps, cluster), ps[i].body)
<1> DEFINE n == Len(ps)
<1>1. n \in Nat
  OBVIOUS
<1>2. PICK f \in [0 .. n -> Seq(Facts)] :
        /\ f[0] = <<>> /\ f[n] = Paragraphs(ps, cluster)
        /\ \A k \in 1 .. n : f[k] = IF k \in cluster /\ ~Contains(f[k - 1], ps[k].body)
                                   THEN Append(f[k - 1], ps[k].body) ELSE f[k - 1]
  BY ParagraphsSteps
<1> DEFINE Said(k) == \A i \in 1 .. k : i \in cluster => Contains(f[k], ps[i].body)
           T == {k \in 0 .. n : Said(k)}
<1>3. 0 \in T
  BY <1>1
<1>4. ASSUME NEW k \in 1 .. n, k - 1 \in T PROVE k \in T
  <2>1. f[k - 1] \in Seq(Facts)
    BY <1>2
  <2>2. \A x : Contains(f[k - 1], x) => Contains(f[k], x)
    <3>1. CASE f[k] = f[k - 1]
      BY <3>1
    <3>2. CASE f[k] = Append(f[k - 1], ps[k].body)
      BY <3>2, <2>1 DEF Contains
    <3> QED
      BY <1>2, <3>1, <3>2
  <2>3. k \in cluster => Contains(f[k], ps[k].body)
    <3>1. CASE k \in cluster /\ ~Contains(f[k - 1], ps[k].body)
      <4>1. f[k] = Append(f[k - 1], ps[k].body)
        BY <3>1, <1>2
      <4>2. Len(f[k]) = Len(f[k - 1]) + 1 /\ f[k][Len(f[k - 1]) + 1] = ps[k].body
        BY <4>1, <2>1
      <4>3. Len(f[k - 1]) + 1 \in 1 .. Len(f[k])
        BY <4>2, <2>1
      <4> QED
        BY <4>2, <4>3 DEF Contains
    <3> QED
      BY <3>1, <2>2
  <2>4. \A i \in 1 .. k : i = k \/ i \in 1 .. k - 1
    OBVIOUS
  <2>5. Said(k - 1)
    BY <1>4
  <2> QED
    BY <2>2, <2>3, <2>4, <2>5
<1>5. n \in T
  <2> HIDE DEF T, n
  <2>1. \A k \in 0 .. n : k \in T
    BY <1>1, <1>3, <1>4, Upto
  <2> QED
    BY <1>1, <2>1
<1>6. Said(n) /\ f[n] \in Seq(Facts)
  BY <1>1, <1>2, <1>5
<1> QED
  BY <1>2, <1>6

(* The lines there is evidence of,                                         *)
Lines(E) == {s.idx : s \in E}

(* and the key of memory_provenance.                                       *)
OnePerLine(E) == \A s, t \in E : s.idx = t.idx => s = t

(* A member adds evidence of the lines that have none.                     *)
LEMMA WithEvidenceOf ==
  ASSUME NEW E, NEW F, OnePerLine(E), OnePerLine(F)
  PROVE  /\ OnePerLine(WithEvidence(E, F)) /\ WithEvidence(E, F) \subseteq E \cup F
         /\ Lines(WithEvidence(E, F)) = Lines(E) \cup Lines(F)
<1>1. OnePerLine(WithEvidence(E, F))
  BY DEF OnePerLine, WithEvidence
<1>2. WithEvidence(E, F) \subseteq E \cup F /\ E \subseteq WithEvidence(E, F)
  BY DEF WithEvidence
<1>3. \A s \in F : s.idx \in Lines(WithEvidence(E, F))
  <2> TAKE s \in F
  <2>1. CASE \A t \in E : t.idx # s.idx
    BY <2>1 DEF WithEvidence, Lines
  <2>2. CASE \E t \in E : t.idx = s.idx
    BY <2>2, <1>2 DEF Lines
  <2> QED
    BY <2>1, <2>2
<1> QED
  BY <1>1, <1>2, <1>3 DEF Lines

(* The evidence of a note, member by member.                               *)
LEMMA UnitedSteps ==
  ASSUME NEW ps \in Seq(Proposal), NEW cluster
  PROVE  \E f \in [0 .. Len(ps) -> SUBSET Span] :
           /\ f[0] = {} /\ f[Len(ps)] = United(ps, cluster)
           /\ \A k \in 1 .. Len(ps) :
                f[k] = IF k \in cluster
                       THEN WithEvidence(f[k - 1], ps[k].evidence)
                       ELSE f[k - 1]
<1> DEFINE n == Len(ps)
           id == [i \in DOMAIN ps |-> i]
           X == SUBSET Span
           step == [p \in X \X (1 .. n) |->
                      IF p[2] \in cluster
                      THEN WithEvidence(p[1], ps[p[2]].evidence)
                      ELSE p[1]]
<1>1. n \in Nat /\ DOMAIN ps = 1 .. n
  OBVIOUS
<1>2. step \in [X \X (1 .. n) -> X]
  <2>1. \A i \in 1 .. n : ps[i].evidence \in X
    <3>1. \A i \in 1 .. n : ps[i] \in Proposal
      OBVIOUS
    <3> QED
      BY <3>1 DEF Proposal
  <2>2. \A E \in X, F \in X : WithEvidence(E, F) \in X
    BY DEF WithEvidence
  <2> HIDE DEF X
  <2> QED
    BY <2>1, <2>2
<1>3. PICK g : FoldsUpto(g, n, X, {}, step)
  BY <1>1, <1>2, FoldExists
<1>4. \A s \in SUBSET (1 .. n) : s # {} => Max(s) \in 1 .. n
  BY <1>1, MaxOf
<1>5. g = [s \in SUBSET (DOMAIN [i \in DOMAIN ps |-> i]) |->
            IF s = {} THEN {}
            ELSE LET x == Max(s)
                 IN  IF id[x] \in cluster
                     THEN WithEvidence(g[s \ {x}], ps[id[x]].evidence)
                     ELSE g[s \ {x}]]
  <2>1. DOMAIN [i \in DOMAIN ps |-> i] = 1 .. n
    BY <1>1
  <2>2. \A s \in SUBSET (1 .. n) : s # {} => [i \in DOMAIN ps |-> i][Max(s)] = Max(s)
    BY <1>1, <1>4
  <2> QED
    BY <1>3, <1>4, <2>1, <2>2 DEF FoldsUpto
<1>6. PICK h :
       /\ h = [s \in SUBSET (DOMAIN [i \in DOMAIN ps |-> i]) |->
                 IF s = {} THEN {}
                 ELSE LET x == Max(s)
                      IN  IF id[x] \in cluster
                          THEN WithEvidence(h[s \ {x}], ps[id[x]].evidence)
                          ELSE h[s \ {x}]]
       /\ United(ps, cluster) = h[DOMAIN [i \in DOMAIN ps |-> i]]
  BY <1>5 DEF United, FoldLeftDomain, FoldLeft, MapThenFoldSet
<1>7. IsFold(h, n, X, {}, step) /\ United(ps, cluster) = h[1 .. n]
  <2>1. DOMAIN [i \in DOMAIN ps |-> i] = 1 .. n
    BY <1>1
  <2>2. \A s \in SUBSET (1 .. n) : s # {} => [i \in DOMAIN ps |-> i][Max(s)] = Max(s)
    BY <1>1, <1>4
  <2> QED
    BY <1>6, <1>4, <2>1, <2>2 DEF IsFold
<1>8. PICK f : Trace(f, h, n, X, {}, step)
  <2>1. {} \in X
    OBVIOUS
  <2> HIDE DEF n, X, step
  <2>2. IsFold(h, n, X, {}, step)
    BY <1>7
  <2>3. n \in Nat
    BY <1>1
  <2> QED
    BY <1>2, <2>1, <2>2, <2>3, FoldSteps
<1>9. \A k \in 1 .. n : f[k - 1] \in X
  BY <1>8 DEF Trace
<1>10. \A k \in 1 .. n :
         f[k] = IF k \in cluster
                THEN WithEvidence(f[k - 1], ps[k].evidence)
                ELSE f[k - 1]
  BY <1>8, <1>9 DEF Trace
<1> QED
  BY <1>7, <1>8, <1>10 DEF Trace

(* The evidence of a note: a piece for each line a member has evidence of. *)
LEMMA UnitedOf ==
  ASSUME NEW ps \in Seq(Proposal), NEW cluster \in SUBSET (1 .. Len(ps)),
         \A i \in 1 .. Len(ps) : OnePerLine(ps[i].evidence)
  PROVE  LET E == United(ps, cluster)
         IN  /\ OnePerLine(E)
             /\ E \subseteq UNION {ps[i].evidence : i \in cluster}
             /\ Lines(E) = UNION {Lines(ps[i].evidence) : i \in cluster}
<1> DEFINE n == Len(ps)
<1>1. n \in Nat
  OBVIOUS
<1>2. PICK f \in [0 .. n -> SUBSET Span] :
        /\ f[0] = {} /\ f[n] = United(ps, cluster)
        /\ \A k \in 1 .. n :
             f[k] = IF k \in cluster
                    THEN WithEvidence(f[k - 1], ps[k].evidence)
                    ELSE f[k - 1]
  BY UnitedSteps
<1> DEFINE Before(k) == {i \in 1 .. k : i \in cluster}
           Good(k) == /\ OnePerLine(f[k])
                      /\ f[k] \subseteq UNION {ps[i].evidence : i \in Before(k)}
                      /\ Lines(f[k]) = UNION {Lines(ps[i].evidence) : i \in Before(k)}
           T == {k \in 0 .. n : Good(k)}
<1>3. 0 \in T
  <2>1. Before(0) = {}
    OBVIOUS
  <2> QED
    BY <1>1, <1>2, <2>1 DEF OnePerLine, Lines
<1>4. ASSUME NEW k \in 1 .. n, k - 1 \in T PROVE k \in T
  <2>1. Good(k - 1)
    BY <1>4
  <2>2. CASE k \in cluster
    <3>1. f[k] = WithEvidence(f[k - 1], ps[k].evidence)
      BY <2>2, <1>2
    <3>2. Before(k) = Before(k - 1) \cup {k}
      BY <2>2
    <3>3. /\ OnePerLine(f[k]) /\ f[k] \subseteq f[k - 1] \cup ps[k].evidence
          /\ Lines(f[k]) = Lines(f[k - 1]) \cup Lines(ps[k].evidence)
      BY <2>1, <3>1, WithEvidenceOf
    <3> HIDE DEF Before
    <3> QED
      BY <2>1, <3>2, <3>3
  <2>3. CASE k \notin cluster
    <3>1. f[k] = f[k - 1]
      BY <2>3, <1>2
    <3>2. Before(k) = Before(k - 1)
      BY <2>3
    <3> HIDE DEF Before
    <3> QED
      BY <2>1, <3>1, <3>2
  <2> QED
    BY <2>2, <2>3
<1>5. n \in T
  <2> HIDE DEF T, n
  <2>1. \A k \in 0 .. n : k \in T
    BY <1>1, <1>3, <1>4, Upto
  <2> QED
    BY <1>1, <2>1
<1>6. Before(n) = cluster
  OBVIOUS
<1>7. Good(n)
  BY <1>5
<1> QED
  BY <1>2, <1>6, <1>7

(* The evidence of a candidate: a piece for each line it cites. *)
LEMMA EvidenceOf ==
  ASSUME NEW c, NEW window \in Seq(Span)
  PROVE  LET E == Evidence(c, window)
         IN  /\ OnePerLine(E) /\ E \subseteq Range(window)
             /\ Lines(E) = {window[i].idx : i \in Cited(c, window)}
<1>1. Cited(c, window) \subseteq 1 .. Len(window) /\ DOMAIN window = 1 .. Len(window)
  BY DEF Cited
<1> DEFINE First(j) == \A k \in Cited(c, window) : k < j => window[k].idx # window[j].idx
           E == Evidence(c, window)
<1>2. \A s : s \in E <=> \E j \in Cited(c, window) : First(j) /\ s = window[j]
  BY DEF Evidence
<1>3. OnePerLine(E)
  <2> SUFFICES ASSUME NEW j \in Cited(c, window), NEW k \in Cited(c, window),
                      First(j), First(k), window[j].idx = window[k].idx
               PROVE  j = k
    BY <1>2 DEF OnePerLine
  <2>1. j \in Nat /\ k \in Nat
    BY <1>1
  <2> QED
    BY <2>1
<1>4. E \subseteq Range(window)
  BY <1>1, <1>2 DEF Range
<1>5. ASSUME NEW i \in Cited(c, window) PROVE window[i].idx \in Lines(E)
  <2> DEFINE T == {k \in Cited(c, window) : window[k].idx = window[i].idx}
  <2>1. T \subseteq Nat /\ T # {}
    BY <1>1
  <2> HIDE DEF T
  <2>2. PICK j \in T : \A k \in T : j <= k
    BY <2>1, LeastElement
  <2>3. j \in Cited(c, window) /\ window[j].idx = window[i].idx
    BY <2>2 DEF T
  <2>4. First(j)
    BY <2>1, <2>2, <2>3 DEF T
  <2>5. window[j] \in E
    BY <1>2, <2>3, <2>4
  <2> QED
    BY <2>3, <2>5 DEF Lines
<1>6. \A s \in E : \E j \in Cited(c, window) : s.idx = window[j].idx
  BY <1>2
<1> QED
  BY <1>3, <1>4, <1>5, <1>6 DEF Lines

-----------------------------------------------------------------------------
(* extract_session *)

(* A proposal rests on its window. *)
Rests(p, ws) ==
  LET w == ws[p.window]
  IN  /\ p.window \in DOMAIN ws /\ p.cites \subseteq DOMAIN w
      /\ p.evidence \subseteq Range(w)
      /\ OnePerLine(p.evidence)
      /\ Lines(p.evidence) = {w[c].idx : c \in p.cites}
      /\ p.trust = "trusted" =>
           /\ p.cites # {} /\ \A c \in p.cites : w[c].channel \in FirstParty
           /\ \A s \in Foreign(w) : s.text # p.body

(* A candidate is kept, or repeats one that is. *)
KeptIn(p, ps, several) ==
  \E i \in DOMAIN ps : ps[i] = p \/ (several /\ ps[i].name = p.name /\ ps[i].body = p.body)

(* What holds between the steps of a call.                                 *)
MergeIInv ==
  /\ transcript \in Transcripts /\ windows = Chunks(transcript)
  /\ at \in 0 .. Len(windows)
  /\ proposals \in Seq(Proposal)
  /\ \A i \in DOMAIN proposals : Rests(proposals[i], windows)
  /\ heard \subseteq Proposal
  /\ \A p \in heard : KeptIn(p, proposals, Len(windows) > 1)
  /\ notes # <<>> => notes = MergedSiblings(proposals)

(* The first member of a cluster is a member.                              *)
LEMMA MinOf ==
  ASSUME NEW n \in Nat, NEW s \in SUBSET (1 .. n), s # {}
  PROVE  Min(s) \in s
<1>1. s \subseteq Nat
  OBVIOUS
<1>2. \E x \in s : \A y \in s : x <= y
  BY <1>1, LeastElement
<1> QED
  BY <1>2 DEF Min

(* The windows of the call hold its transcript.                            *)
LEMMA WindowsOf ==
  ASSUME transcript \in Transcripts, windows = Chunks(transcript)
  PROVE  /\ transcript \in Seq(Span) /\ windows \in Seq(Seq(Span))
         /\ Cut(windows, transcript)
BY MergeAssumption, ChunksTraced DEF Cut

(* What the model proposes rests on the window it was shown. *)
LEMMA ProposedRests ==
  ASSUME windows \in Seq(Seq(Span)), NEW n \in DOMAIN windows, NEW c \in Candidate(windows[n])
  PROVE  Proposed(c, n) \in Proposal /\ Rests(Proposed(c, n), windows)
<1> DEFINE w == windows[n]
           p == Proposed(c, n)
<1>1. w \in Seq(Span) /\ n \in Nat /\ Range(w) \subseteq Span
  BY DEF Range
<1>2. c.name \in Names /\ c.body \in Facts
  BY DEF Candidate
<1>3. Cited(c, w) \subseteq DOMAIN w /\ Cited(c, w) \subseteq Nat
  BY <1>1 DEF Cited
<1>4. /\ OnePerLine(Evidence(c, w)) /\ Evidence(c, w) \subseteq Range(w)
      /\ Lines(Evidence(c, w)) = {w[i].idx : i \in Cited(c, w)}
  BY <1>1, EvidenceOf
<1>5. /\ Assessed(c, w) \in Verdicts
      /\ Assessed(c, w) = "trusted" =>
           /\ Cited(c, w) # {} /\ \A i \in Cited(c, w) : w[i].channel \in FirstParty
           /\ \A s \in Foreign(w) : s.text # c.body
  BY DEF Assessed, Verdicts
<1>6. /\ p.name = c.name /\ p.body = c.body /\ p.trust = Assessed(c, w)
      /\ p.evidence = Evidence(c, w) /\ p.window = n /\ p.cites = Cited(c, w)
  BY DEF Proposed
<1>7. p \in Proposal
  BY <1>1, <1>2, <1>3, <1>4, <1>5 DEF Proposed, Proposal
<1>8. Rests(p, windows)
  <2> HIDE DEF p
  <2> QED
    BY <1>3, <1>4, <1>5, <1>6 DEF Rests
<1> QED
  BY <1>2, <1>7, <1>8

LEMMA InitMergeIInv == MergeInit => MergeIInv
<1> SUFFICES ASSUME MergeInit PROVE MergeIInv
  OBVIOUS
<1>1. windows \in Seq(Seq(Span))
  BY WindowsOf DEF MergeInit
<1>2. 0 \in 0 .. Len(windows)
  BY <1>1
<1> QED
  BY <1>2 DEF MergeInit, MergeIInv

(* A candidate is kept unless it repeats a fact that is kept already. *)
LEMMA ProposeMergeIInv ==
  ASSUME MergeIInv, NEW c \in Candidate(windows[at + 1]), Propose(c)
  PROVE  MergeIInv'
<1> DEFINE p == Proposed(c, at + 1)
<1>1. /\ at < Len(windows) /\ notes = <<>> /\ heard' = heard \cup {p}
      /\ proposals' = Kept(proposals, p)
      /\ transcript' = transcript /\ windows' = windows /\ at' = at /\ notes' = notes
  BY DEF Propose
<1>2. /\ transcript \in Transcripts /\ windows = Chunks(transcript)
      /\ at \in 0 .. Len(windows) /\ proposals \in Seq(Proposal)
      /\ \A i \in DOMAIN proposals : Rests(proposals[i], windows)
      /\ heard \subseteq Proposal
      /\ \A q \in heard : KeptIn(q, proposals, Len(windows) > 1)
  BY DEF MergeIInv
<1>3. windows \in Seq(Seq(Span))
  BY <1>2, WindowsOf
<1>4. at + 1 \in DOMAIN windows
  BY <1>1, <1>2, <1>3
<1>5. p \in Proposal /\ Rests(p, windows)
  BY <1>3, <1>4, ProposedRests
<1> HIDE DEF p
<1>7. /\ proposals' \in Seq(Proposal)
      /\ \A i \in DOMAIN proposals' : Rests(proposals'[i], windows)
      /\ \A q \in heard \cup {p} : KeptIn(q, proposals', Len(windows) > 1)
  <2>1. CASE /\ proposals' = proposals /\ Len(windows) > 1
             /\ \E i \in DOMAIN proposals : Same(proposals[i], p)
    <3>1. KeptIn(p, proposals, Len(windows) > 1)
      BY <2>1 DEF Same, KeptIn
    <3> QED
      BY <1>2, <2>1, <3>1
  <2>2. CASE proposals' = Append(proposals, p)
    <3> DEFINE v == Append(proposals, p)
               n == Len(proposals)
    <3>1. /\ v \in Seq(Proposal) /\ n \in Nat /\ DOMAIN proposals = 1 .. n
          /\ DOMAIN v = 1 .. n + 1 /\ v[n + 1] = p /\ \A i \in 1 .. n : v[i] = proposals[i]
      BY <1>2, <1>5
    <3> HIDE DEF v, n
    <3>2. \A i \in 1 .. n + 1 : i \in 1 .. n \/ i = n + 1
      BY <3>1
    <3>3. n + 1 \in 1 .. n + 1 /\ \A i \in 1 .. n : i \in 1 .. n + 1
      BY <3>1
    <3>4. \A i \in DOMAIN v : Rests(v[i], windows)
      BY <1>2, <1>5, <3>1, <3>2
    <3>5. \A q \in heard : KeptIn(q, v, Len(windows) > 1)
      BY <1>2, <3>1, <3>3 DEF KeptIn
    <3>6. KeptIn(p, v, Len(windows) > 1)
      BY <3>1, <3>3 DEF KeptIn
    <3> QED
      BY <2>2, <3>1, <3>4, <3>5, <3>6 DEF v
  <2> QED
    BY <1>1, <2>1, <2>2 DEF Kept
<1> QED
  BY <1>1, <1>2, <1>5, <1>7 DEF MergeIInv

LEMMA NextMergeIInv == MergeIInv /\ [MergeNext]_mergeVars => MergeIInv'
<1> SUFFICES ASSUME MergeIInv, [MergeNext]_mergeVars PROVE MergeIInv'
  OBVIOUS
<1>1. ASSUME NEW c \in Candidate(windows[at + 1]), Propose(c) PROVE MergeIInv'
  BY <1>1, ProposeMergeIInv
<1>2. CASE NextWindow
  <2>1. windows \in Seq(Seq(Span))
    BY WindowsOf DEF MergeIInv
  <2>2. at + 1 \in 0 .. Len(windows)
    BY <1>2, <2>1 DEF NextWindow, MergeIInv
  <2> QED
    BY <1>2, <2>2 DEF NextWindow, MergeIInv
<1>3. CASE Merge
  BY <1>3 DEF Merge, MergeIInv
<1>4. CASE UNCHANGED mergeVars
  BY <1>4 DEF mergeVars, MergeIInv
<1> QED
  BY <1>1, <1>2, <1>3, <1>4 DEF MergeNext

LEMMA MergeInvariance == MergeSpec => []MergeIInv
BY InitMergeIInv, NextMergeIInv, PTL DEF MergeSpec

(* What the notes are. *)
MergedNotes ==
  /\ DOMAIN notes = DOMAIN Clusters(proposals)
  /\ \A k \in DOMAIN notes :
       /\ notes[k] = Merged(proposals, Clusters(proposals)[k])
       /\ notes[k].of = Clusters(proposals)[k]
       /\ notes[k].of \in SUBSET DOMAIN proposals /\ notes[k].of # {}

LEMMA NotesMerged ==
  ASSUME MergeIInv, notes # <<>>
  PROVE  MergedNotes
<1> DEFINE C == Clusters(proposals)
<1>1. proposals \in Seq(Proposal) /\ notes = MergedSiblings(proposals)
  BY DEF MergeIInv
<1>2. Partition(C, proposals, Len(proposals))
  BY <1>1, ClustersPartition
<1>3. \A k \in DOMAIN C : C[k] \in SUBSET DOMAIN proposals /\ C[k] # {}
  <2>1. \A i \in 1 .. Len(proposals) :
          i \in Cluster(Forest(proposals), i) /\ Cluster(Forest(proposals), i) \in SUBSET (1 .. Len(proposals))
    BY <1>1, ClusterSame
  <2> QED
    BY <1>1, <1>2, <2>1 DEF Partition
<1> HIDE DEF C
<1>4. notes = [k \in DOMAIN C |-> Merged(proposals, C[k])]
  BY <1>1 DEF MergedSiblings, C
<1>5. \A k \in DOMAIN C : Merged(proposals, C[k]).of = C[k]
  BY DEF Merged
<1> QED
  BY <1>3, <1>4, <1>5 DEF MergedNotes, C

-----------------------------------------------------------------------------

(* Every variable of extract_session keeps its type: a verdict has         *)
(* evidence of the window it was given for only, a note a name that one of *)
(* its members has or a prefix long enough, and evidence of this           *)
(* transcript.                                                             *)
THEOREM MergeTypeCorrectness == MergeSpec => []MergeTypeOK
<1>1. MergeIInv => MergeTypeOK
  <2> SUFFICES ASSUME MergeIInv PROVE MergeTypeOK
    OBVIOUS
  <2>1. /\ transcript \in Transcripts /\ windows = Chunks(transcript)
        /\ at \in 0 .. Len(windows) /\ heard \subseteq Proposal
        /\ proposals \in Seq(Proposal)
        /\ \A i \in DOMAIN proposals : Rests(proposals[i], windows)
    BY DEF MergeIInv
  <2>2. /\ transcript \in Seq(Span) /\ windows \in Seq(Seq(Span))
        /\ \A n \in DOMAIN windows : Range(windows[n]) \subseteq Range(transcript)
    BY <2>1, WindowsOf DEF Cut
  <2>3. \A p \in Range(proposals) :
          /\ p.window \in DOMAIN windows /\ p.cites \subseteq DOMAIN windows[p.window]
          /\ p.evidence \subseteq Range(windows[p.window])
    BY <2>1 DEF Rests, Range
  <2>4. ASSUME NEW k \in DOMAIN notes
        PROVE  /\ notes[k].name \in Names \/ Len(notes[k].name) >= MinPrefix
               /\ notes[k].body \in Seq(Facts) /\ notes[k].trust \in Verdicts
               /\ notes[k].evidence \subseteq Range(transcript)
               /\ notes[k].of \subseteq DOMAIN proposals
    <3> DEFINE c == notes[k].of
    <3>1. /\ notes[k] = Merged(proposals, c)
          /\ c \in SUBSET (1 .. Len(proposals)) /\ c # {} /\ Len(proposals) \in Nat
      BY <2>1, <2>4, NotesMerged DEF MergedNotes
    <3> HIDE DEF c
    <3>2. /\ notes[k].name = NameOf(proposals, c) /\ notes[k].body = Paragraphs(proposals, c)
          /\ notes[k].trust = LeastTrust({proposals[i] : i \in c})
          /\ notes[k].evidence = United(proposals, c) /\ notes[k].of = c
      BY <3>1 DEF Merged
    <3>3. notes[k].name \in Names \/ Len(notes[k].name) >= MinPrefix
      <4>1. Min(c) \in c
        BY <3>1, MinOf
      <4>2. proposals[Min(c)].name \in Names
        <5>1. ASSUME NEW i \in c PROVE proposals[i].name \in Names
          <6>1. proposals[i] \in Proposal
            BY <2>1, <3>1
          <6> QED
            BY <6>1 DEF Proposal
        <5> QED
          BY <4>1, <5>1, Zenon
      <4> QED
        BY <3>2, <4>2 DEF NameOf
    <3>4. notes[k].body \in Seq(Facts)
      BY <2>1, <3>1, <3>2, ParagraphsOf
    <3>5. notes[k].trust \in Verdicts
      BY <3>2 DEF LeastTrust, Verdicts
    <3>6. notes[k].evidence \subseteq Range(transcript)
      <4>1. \A i \in 1 .. Len(proposals) : OnePerLine(proposals[i].evidence)
        BY <2>1 DEF Rests
      <4>2. United(proposals, c) \subseteq UNION {proposals[i].evidence : i \in c}
        BY <2>1, <3>1, <4>1, UnitedOf
      <4>3. ASSUME NEW i \in c PROVE proposals[i].evidence \subseteq Range(transcript)
        <5>1. Rests(proposals[i], windows)
          BY <2>1, <3>1
        <5>2. /\ proposals[i].window \in DOMAIN windows
              /\ proposals[i].evidence \subseteq Range(windows[proposals[i].window])
          BY <5>1 DEF Rests
        <5> QED
          BY <2>2, <5>2
      <4> QED
        BY <3>2, <4>2, <4>3
    <3> QED
      BY <2>1, <3>1, <3>2, <3>3, <3>4, <3>5, <3>6
  <2> QED
    BY <2>1, <2>2, <2>3, <2>4 DEF MergeTypeOK, Range
<1> QED
  BY <1>1, MergeInvariance, PTL

(* chunk_spans shows the model every span of any transcript once and in    *)
(* order, and a window that is larger than EXTRACT_MAX_PROMPT_CHARS is a   *)
(* single span, whatever the sizes of the spans.                           *)
THEOREM WindowsCover == MergeSpec => []WindowsCoverTheTranscript
<1>1. MergeIInv => WindowsCoverTheTranscript
  <2> SUFFICES ASSUME MergeIInv PROVE WindowsCoverTheTranscript
    OBVIOUS
  <2>1. Cut(windows, transcript)
    BY WindowsOf DEF MergeIInv
  <2> QED
    BY <2>1 DEF Cut, Fits, WindowsCoverTheTranscript
<1> QED
  BY <1>1, MergeInvariance, PTL

(* merge_siblings makes of any candidates, however many and in whatever    *)
(* order the loop meets their pairs, one note per connected component of   *)
(* the sibling relation, in the order of their first members.              *)
THEOREM NotesComponents == MergeSpec => []NotesAreTheComponents
<1>1. MergeIInv => NotesAreTheComponents
  <2> SUFFICES ASSUME MergeIInv, notes # <<>> PROVE NotesAreTheComponents
    BY DEF NotesAreTheComponents, Merges
  <2> DEFINE F == Forest(proposals)
             n == Len(proposals)
             C == Clusters(proposals)
  <2>1. proposals \in Seq(Proposal) /\ DOMAIN proposals = 1 .. n /\ n \in Nat
    BY DEF MergeIInv
  <2>2. /\ \A i \in 1 .. n : \E k \in DOMAIN C : i \in C[k]
        /\ \A k \in DOMAIN C : \E i \in 1 .. n : C[k] = Cluster(F, i)
        /\ \A k, l \in DOMAIN C : k < l => \E i \in C[k] : \A j \in C[l] : i < j
    BY <2>1, ClustersPartition DEF Partition
  <2>3. DOMAIN notes = DOMAIN C /\ \A k \in DOMAIN notes : notes[k].of = C[k] /\ C[k] \in SUBSET (1 .. n)
    BY <2>1, NotesMerged DEF MergedNotes
  <2>4. /\ F \in Parents(n) /\ DOMAIN F = 1 .. n
        /\ \A i, j \in 1 .. n : Siblings(proposals[i], proposals[j]) => Root(F)[i] = Root(F)[j]
        /\ \A S \in ClosedSets(proposals) : Respects(F, n, S)
    BY <2>1, ForestJoins DEF Parents
  <2> HIDE DEF n, F, C
  <2>5. ASSUME NEW k \in DOMAIN notes, NEW i \in notes[k].of, NEW j \in DOMAIN proposals
        PROVE  j \in notes[k].of <=> Connected(i, j)
    <3>1. PICK i0 \in 1 .. n : notes[k].of = Cluster(F, i0)
      BY <2>2, <2>3
    <3>2. i \in 1 .. n /\ j \in 1 .. n /\ Root(F)[i] = Root(F)[i0]
      BY <2>1, <2>3, <3>1, <2>4 DEF Cluster
    <3>3. j \in notes[k].of <=> Root(F)[j] = Root(F)[i]
      BY <2>4, <3>1, <3>2 DEF Cluster
    <3>4. ASSUME Root(F)[j] = Root(F)[i] PROVE Connected(i, j)
      <4>1. ASSUME NEW S \in SUBSET DOMAIN proposals, i \in S,
                   \A x \in S, y \in DOMAIN proposals : Siblings(proposals[x], proposals[y]) => y \in S
            PROVE  j \in S
        <5>1. S \in ClosedSets(proposals)
          BY <2>1, <4>1 DEF ClosedSets, n
        <5>2. Respects(F, n, S)
          BY <2>4, <5>1
        <5> QED
          BY <3>2, <3>4, <4>1, <5>2 DEF Respects
      <4> QED
        BY <4>1 DEF Connected
    <3>5. ASSUME Connected(i, j) PROVE Root(F)[j] = Root(F)[i]
      <4> DEFINE S == {y \in 1 .. n : Root(F)[y] = Root(F)[i]}
      <4>1. S \in SUBSET DOMAIN proposals /\ i \in S
        BY <2>1, <3>2
      <4>2. \A x \in S, y \in DOMAIN proposals : Siblings(proposals[x], proposals[y]) => y \in S
        BY <2>1, <2>4
      <4>3. j \in S
        <5> HIDE DEF S
        <5> QED
          BY <3>5, <4>1, <4>2 DEF Connected
      <4> QED
        BY <4>3
    <3> QED
      BY <3>3, <3>4, <3>5
  <2>6. \A i \in DOMAIN proposals : \E k \in DOMAIN notes : i \in notes[k].of
    BY <2>1, <2>2, <2>3
  <2>7. \A k, l \in DOMAIN notes : k < l => \E i \in notes[k].of : \A j \in notes[l].of : i < j
    BY <2>2, <2>3
  <2> QED
    BY <2>5, <2>6, <2>7 DEF NotesAreTheComponents
<1> QED
  BY <1>1, MergeInvariance, PTL

(* No fact is lost to the windows, the duplicates and the merges of a      *)
(* call, for any number of candidates: each is in the body of a note, with *)
(* the lines cited for it, or, where there are several windows, with those *)
(* of an earlier candidate that has its name and states the same; and no   *)
(* line is evidence twice, as the key of memory_provenance demands.        *)
THEOREM RepeatedLinesAreLostOnly == MergeSpec => []OnlyRepeatedLinesAreLost
<1>1. MergeIInv => OnlyRepeatedLinesAreLost
  <2> SUFFICES ASSUME MergeIInv, notes # <<>> PROVE OnlyRepeatedLinesAreLost
    BY DEF OnlyRepeatedLinesAreLost, Merges
  <2> DEFINE n == Len(proposals)
  <2>1. /\ proposals \in Seq(Proposal) /\ DOMAIN proposals = 1 .. n /\ n \in Nat
        /\ \A i \in DOMAIN proposals : Rests(proposals[i], windows)
        /\ \A p \in heard : KeptIn(p, proposals, Len(windows) > 1)
    BY DEF MergeIInv
  <2>2. \A k \in DOMAIN notes : /\ notes[k] = Merged(proposals, notes[k].of)
                                /\ notes[k].of \in SUBSET (1 .. n)
    BY <2>1, NotesMerged DEF MergedNotes
  <2>3. \A k \in DOMAIN notes : /\ notes[k].body = Paragraphs(proposals, notes[k].of)
                                /\ notes[k].evidence = United(proposals, notes[k].of)
    <3>1. \A c : /\ Merged(proposals, c).body = Paragraphs(proposals, c)
                 /\ Merged(proposals, c).evidence = United(proposals, c)
      BY DEF Merged
    <3> QED
      BY <2>2, <3>1, Zenon
  <2>4. \A i \in 1 .. n : /\ OnePerLine(proposals[i].evidence)
                          /\ Lines(proposals[i].evidence) = {windows[proposals[i].window][c].idx : c \in proposals[i].cites}
    BY <2>1 DEF Rests
  <2>5. \A i \in DOMAIN proposals : \E k \in DOMAIN notes : i \in notes[k].of
    <3>1. \A i \in 1 .. n : \E k \in DOMAIN Clusters(proposals) : i \in Clusters(proposals)[k]
      BY <2>1, ClustersPartition DEF Partition
    <3> QED
      BY <2>1, <3>1, NotesMerged DEF MergedNotes
  <2>6. ASSUME NEW k \in DOMAIN notes
        PROVE  /\ {s.idx : s \in notes[k].evidence} = UNION {CitedLines(proposals[i]) : i \in notes[k].of}
               /\ \A s, t \in notes[k].evidence : s.idx = t.idx => s = t
    <3>1. /\ OnePerLine(notes[k].evidence)
          /\ Lines(notes[k].evidence) = UNION {Lines(proposals[i].evidence) : i \in notes[k].of}
      BY <2>1, <2>2, <2>3, <2>4, UnitedOf
    <3>2. \A i \in notes[k].of : Lines(proposals[i].evidence) = CitedLines(proposals[i])
      BY <2>2, <2>4 DEF CitedLines
    <3>3. UNION {Lines(proposals[i].evidence) : i \in notes[k].of} =
            UNION {CitedLines(proposals[i]) : i \in notes[k].of}
      BY <3>2
    <3> QED
      BY <3>1, <3>3 DEF OnePerLine, Lines
  <2>7. ASSUME NEW k \in DOMAIN notes, NEW i \in notes[k].of
        PROVE  Grounds(notes[k], proposals[i])
    <3>1. Contains(notes[k].body, proposals[i].body)
      BY <2>1, <2>2, <2>3, ParagraphsOf
    <3>2. CitedLines(proposals[i]) \subseteq {s.idx : s \in notes[k].evidence}
      BY <2>6, Zenon
    <3> QED
      BY <3>1, <3>2 DEF Grounds
  <2>8. ASSUME NEW p \in heard
        PROVE  \E k \in DOMAIN notes :
                 \/ Grounds(notes[k], p)
                 \/ /\ Len(windows) > 1
                    /\ \E i \in notes[k].of : /\ proposals[i].name = p.name /\ proposals[i].body = p.body
                                             /\ Grounds(notes[k], proposals[i])
    <3>1. PICK i \in DOMAIN proposals :
            \/ proposals[i] = p
            \/ Len(windows) > 1 /\ proposals[i].name = p.name /\ proposals[i].body = p.body
      BY <2>1 DEF KeptIn
    <3>2. PICK k \in DOMAIN notes : i \in notes[k].of
      BY <2>5
    <3>3. Grounds(notes[k], proposals[i])
      BY <2>7, <3>2
    <3> QED
      BY <3>1, <3>2, <3>3
  <2> QED
    BY <2>6, <2>8 DEF OnlyRepeatedLinesAreLost
<1> QED
  BY <1>1, MergeInvariance, PTL

(* A note is trusted only if each of the candidates merged into it cites   *)
(* first-party spans and nothing else, and repeats nothing foreign that    *)
(* its window shows, for any number of candidates and any clusters.        *)
THEOREM TrustSurvives == MergeSpec => []TrustSurvivesOnlyIfEarnedByAll
<1>1. MergeIInv => TrustSurvivesOnlyIfEarnedByAll
  <2> SUFFICES ASSUME MergeIInv, NEW k \in DOMAIN notes, notes[k].trust = "trusted", NEW i \in notes[k].of
               PROVE  LET p == proposals[i]
                          w == windows[p.window]
                      IN  /\ p.cites # {}
                          /\ \A c \in p.cites : w[c].channel \in FirstParty
                          /\ \A s \in Foreign(w) : s.text # p.body
    BY DEF TrustSurvivesOnlyIfEarnedByAll
  <2>1. notes # <<>>
    OBVIOUS
  <2>2. notes[k] = Merged(proposals, notes[k].of) /\ notes[k].of \in SUBSET DOMAIN proposals
    BY <2>1, NotesMerged DEF MergedNotes
  <2>3. LeastTrust({proposals[j] : j \in notes[k].of}) = "trusted"
    BY <2>2 DEF Merged
  <2>4. proposals[i].trust = "trusted"
    BY <2>3 DEF LeastTrust
  <2>5. Rests(proposals[i], windows)
    BY <2>2 DEF MergeIInv
  <2> QED
    BY <2>4, <2>5 DEF Rests
<1> QED
  BY <1>1, MergeInvariance, PTL
=============================================================================
