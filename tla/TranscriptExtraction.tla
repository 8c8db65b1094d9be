------------------------ MODULE TranscriptExtraction ------------------------
(***************************************************************************)
(* How a session's transcript is fed to the extractor: the client that     *)
(* posts its spans batch by batch, retries and leaves a checkpoint, the    *)
(* server that extracts under an advisory lock and commits, and the spool  *)
(* that runs the client again.                                             *)
(*                                                                         *)
(* A span is its index in the transcript.  The checkpoint file holds a     *)
(* count of spans; there being none is the same as 0.  The spool is not    *)
(* part of the repository: it is what the client's exit codes and comments *)
(* say of it.                                                              *)
(***************************************************************************)
EXTENDS Integers

CONSTANTS
  Sessions,
  MaxSpans,     \* bound: the length of a transcript
  BatchSizes,   \* AUTOLEARN_SPAN_BATCH, which the spool shrinks
  Tries,        \* how often a batch is posted in one run: 3
  MaxAttempts,  \* failed runs after which the spool parks a transcript
  Runners,      \* client processes
  Workers,      \* gunicorn workers
  None          \* nobody waits for the answer

ASSUME ExtractionAssumption ==
  /\ MaxSpans \in Nat
  /\ BatchSizes \subseteq Nat \ {0}
  /\ Tries \in Nat \ {0} /\ MaxAttempts \in Nat \ {0}
  /\ None \notin Runners

VARIABLES
  spans,      \* the number of usable spans in a session's transcript
  ckpt,       \* <session>.extract.ckpt
  run,        \* what each client process is doing
  served,     \* the request each worker is serving
  extracted,  \* the spans whose extraction was committed
  spool,      \* what the spool does about a session's transcript
  attempts    \* its failed runs so far

vars == <<spans, ckpt, run, served, extracted, spool, attempts>>

(* at: the spans done in this run; hi: the end of the batch it posted. *)
Run == [session : Sessions, n : 1 .. MaxSpans, at : 0 .. MaxSpans, hi : 0 .. MaxSpans,
        batch : BatchSizes, tries : 0 .. Tries - 1,
        phase : {"ready", "posted", "answered"}]
Request == [session : Sessions, lo : 0 .. MaxSpans, hi : 0 .. MaxSpans,
            stage : {"received", "extracting", "extracted", "committed"},
            for : Runners \cup {None}]
Idle == [phase |-> "idle", stage |-> "idle"]

TypeOK ==
  /\ spans \in [Sessions -> 0 .. MaxSpans]
  /\ ckpt \in [Sessions -> 0 .. MaxSpans]
  /\ run \in [Runners -> Run \cup {Idle}]
  /\ served \in [Workers -> Request \cup {Idle}]
  /\ extracted \in [Sessions -> SUBSET (1 .. MaxSpans)]
  /\ spool \in [Sessions -> {"none", "due", "parked"}]
  /\ attempts \in [Sessions -> 0 .. MaxAttempts]

Init ==
  /\ spans = [s \in Sessions |-> 0]
  /\ ckpt = [s \in Sessions |-> 0]
  /\ run = [r \in Runners |-> Idle]
  /\ served = [g \in Workers |-> Idle]
  /\ extracted = [s \in Sessions |-> {}]
  /\ spool = [s \in Sessions |-> "none"]
  /\ attempts = [s \in Sessions |-> 0]

-----------------------------------------------------------------------------
Least(m, n) == IF m <= n THEN m ELSE n

Waiting(r) == run[r].phase = "posted"

(* Whoever served a request for r goes on, for nobody. *)
Deserted(r) ==
  [g \in Workers |-> IF served[g] # Idle
                     THEN IF served[g].for = r THEN [served[g] EXCEPT !.for = None]
                                               ELSE served[g]
                     ELSE Idle]

(* A session was resumed and has ended again: its transcript is spooled. *)
SessionEnds(s) ==
  /\ spans[s] < MaxSpans
  /\ spans' = [spans EXCEPT ![s] = @ + 1]
  /\ spool' = [spool EXCEPT ![s] = "due"]
  /\ attempts' = [attempts EXCEPT ![s] = 0]
  /\ UNCHANGED <<ckpt, run, served, extracted>>

-----------------------------------------------------------------------------
(* The client (autolearn/run_session.py). *)

(* Mutant: a checkpoint is not read. *)
ResumeAtStart(s, n) == 0

Resume(s, n) == Least(ckpt[s], n)

RunBegin(r, s) ==
  /\ run[r] = Idle
  /\ spool[s] = "due"
  /\ \E b \in BatchSizes :
       run' = [run EXCEPT ![r] =
                 [session |-> s, n |-> spans[s], at |-> Resume(s, spans[s]), hi |-> 0,
                  batch |-> b, tries |-> 0, phase |-> "ready"]]
  /\ UNCHANGED <<spans, ckpt, served, extracted, spool, attempts>>

Post(r, g) ==
  /\ run[r].phase = "ready"
  /\ run[r].at < run[r].n
  /\ served[g] = Idle
  /\ LET hi == Least(run[r].at + run[r].batch, run[r].n)
     IN  /\ run' = [run EXCEPT ![r].phase = "posted", ![r].hi = hi]
         /\ served' = [served EXCEPT ![g] =
                         [session |-> run[r].session, lo |-> run[r].at, hi |-> hi,
                          stage |-> "received", for |-> r]]
  /\ UNCHANGED <<spans, ckpt, extracted, spool, attempts>>

(* A failed run: exit code 4 costs no attempt, 3 and death by a signal do. *)
FailedRun(s, saturated) ==
  /\ attempts' = [attempts EXCEPT ![s] = IF saturated \/ @ = MaxAttempts THEN @ ELSE @ + 1]
  /\ spool' = [spool EXCEPT ![s] =
                 IF @ = "due" /\ attempts'[s] = MaxAttempts THEN "parked" ELSE @]

(* Mutant: the batch is given up, not the run. *)
AfterFailureNext(x) ==
  IF x.tries + 1 < Tries THEN [x EXCEPT !.phase = "ready", !.tries = @ + 1]
                         ELSE [x EXCEPT !.phase = "ready", !.tries = 0, !.at = x.hi]

(* The same batch again, or the end of the run. *)
AfterFailure(x) ==
  IF x.tries + 1 < Tries THEN [x EXCEPT !.phase = "ready", !.tries = @ + 1] ELSE Idle

Failed(r, saturated) ==
  /\ run' = [run EXCEPT ![r] = AfterFailure(run[r])]
  /\ IF AfterFailure(run[r]) = Idle THEN FailedRun(run[r].session, saturated)
                                    ELSE UNCHANGED <<spool, attempts>>
  /\ UNCHANGED <<spans, ckpt, extracted>>

(* The server is not reached, or refuses: the rate limit, a token. *)
PostFails(r) ==
  /\ run[r].phase = "ready"
  /\ run[r].at < run[r].n
  /\ \E saturated \in BOOLEAN : Failed(r, saturated)
  /\ UNCHANGED served

(* _post gives up after 300 s; the server does not. *)
Timeout(r) ==
  /\ Waiting(r)
  /\ Failed(r, TRUE)
  /\ served' = Deserted(r)

(* The checkpoint is written after each clean batch, if it can be. *)
Save(r) ==
  /\ run[r].phase = "answered"
  /\ ckpt' = [ckpt EXCEPT ![run[r].session] = run[r].hi]
  /\ run' = [run EXCEPT ![r].phase = "ready", ![r].at = run[r].hi, ![r].tries = 0]
  /\ UNCHANGED <<spans, served, extracted, spool, attempts>>

SaveFails(r) ==
  /\ run[r].phase = "answered"
  /\ run' = [run EXCEPT ![r].phase = "ready", ![r].at = run[r].hi, ![r].tries = 0]
  /\ UNCHANGED <<spans, ckpt, served, extracted, spool, attempts>>

(* A clean pass removes the checkpoint and exits with 0; the spool forgets *)
(* the transcript unless the session has ended again since.                *)
RunEnd(r) ==
  /\ run[r].phase = "ready"
  /\ run[r].at >= run[r].n
  /\ LET s == run[r].session
     IN  /\ ckpt' = [ckpt EXCEPT ![s] = 0]
         /\ spool' = [spool EXCEPT ![s] = IF run[r].n = spans[s] THEN "none" ELSE @]
         /\ run' = [run EXCEPT ![r] = Idle]
  /\ UNCHANGED <<spans, served, extracted, attempts>>

Killed(r) ==
  /\ run[r] # Idle
  /\ run' = [run EXCEPT ![r] = Idle]
  /\ served' = Deserted(r)
  /\ FailedRun(run[r].session, FALSE)
  /\ UNCHANGED <<spans, ckpt, extracted>>

-----------------------------------------------------------------------------
(* The server (autolearn_extract). *)

(* pg_advisory_lock(823042), held while the model runs. *)
LockFree == \A q \in Workers : served[q].stage # "extracting"

Move(g, from, to) ==
  /\ served[g].stage = from
  /\ served' = [served EXCEPT ![g].stage = to]
  /\ UNCHANGED <<spans, ckpt, run, spool, attempts>>

Lock(g)    == LockFree /\ Move(g, "received", "extracting") /\ UNCHANGED extracted
Extract(g) == Move(g, "extracting", "extracted") /\ UNCHANGED extracted

(* The gate's writes: proposals, notes, lessons (ProposalQueue). *)
Commit(g) ==
  /\ Move(g, "extracted", "committed")
  /\ extracted' = [extracted EXCEPT ![served[g].session] =
                     @ \cup (served[g].lo + 1 .. served[g].hi)]

Answer(g) ==
  /\ served[g].stage = "committed"
  /\ run' = [r \in Runners |-> IF r = served[g].for THEN [run[r] EXCEPT !.phase = "answered"]
                                                    ELSE run[r]]
  /\ served' = [served EXCEPT ![g] = Idle]
  /\ UNCHANGED <<spans, ckpt, extracted, spool, attempts>>

(* The model fails or its answer is late (502), the ingest fails (500),    *)
(* or the worker is killed.                                                *)
ServeFails(g) ==
  /\ served[g] # Idle
  /\ IF served[g].for = None
     THEN UNCHANGED <<spans, ckpt, run, extracted, spool, attempts>>
     ELSE \E saturated \in BOOLEAN :
            (served[g].stage = "extracting" => saturated) /\ Failed(served[g].for, saturated)
  /\ served' = [served EXCEPT ![g] = Idle]

-----------------------------------------------------------------------------
Serve(g) == Lock(g) \/ Extract(g) \/ Commit(g) \/ Answer(g) \/ ServeFails(g)

Next ==
  \/ \E s \in Sessions : SessionEnds(s)
  \/ \E r \in Runners :
       \/ \E s \in Sessions : RunBegin(r, s)
       \/ \E g \in Workers : Post(r, g)
       \/ PostFails(r) \/ Timeout(r)
       \/ Save(r) \/ SaveFails(r)
       \/ RunEnd(r) \/ Killed(r)
  \/ \E g \in Workers : Serve(g)

Spec == Init /\ [][Next]_vars

RunOf(r, s) == run[r] # Idle /\ run[r].session = s
AnswersRun(g, s) == served[g] # Idle /\ served[g].session = s /\ served[g].for # None

(* The spool runs what is due, a process goes on, the server ends what it  *)
(* began.  Posts are accepted, batches extracted, committed and answered,  *)
(* and checkpoints written, again and again if they are tried again and    *)
(* again: EXTRACT_TIMEOUT bounds the model, the client's 300 s exceed it.  *)
Fairness ==
  /\ \A g \in Workers : WF_vars(Serve(g))
  /\ \A r \in Runners : WF_vars(Save(r) \/ SaveFails(r)) /\ WF_vars(RunEnd(r))
  /\ \A s \in Sessions :
       /\ WF_vars(\E r \in Runners : RunBegin(r, s))
       /\ SF_vars(\E r \in Runners, g \in Workers : RunOf(r, s) /\ Post(r, g))
       /\ SF_vars(\E g \in Workers : AnswersRun(g, s) /\ Lock(g))
       /\ SF_vars(\E g \in Workers : AnswersRun(g, s) /\ Extract(g))
       /\ SF_vars(\E g \in Workers : AnswersRun(g, s) /\ Commit(g))
       /\ SF_vars(\E g \in Workers : AnswersRun(g, s) /\ Answer(g))
       /\ SF_vars(\E r \in Runners : RunOf(r, s) /\ Save(r))

(* Requests of clients that gave up may hold the lock for ever in turn; it *)
(* is assumed that now and then a client outwaits the one before it.       *)
Received(s) == \E g \in Workers : AnswersRun(g, s) /\ served[g].stage = "received"

ClientsArePatient == \A s \in Sessions : []<>Received(s) => []<>(Received(s) /\ LockFree)

FairSpec == Spec /\ Fairness /\ ClientsArePatient

-----------------------------------------------------------------------------
(* Nothing is skipped: what a checkpoint counts was extracted and          *)
(* committed, however batches fail, answers are lost and runs overlap, and *)
(* so was everything in a transcript the spool has forgotten.              *)
NothingIsSkipped ==
  \A s \in Sessions :
    /\ 1 .. ckpt[s] \subseteq extracted[s]
    /\ spool[s] = "none" => 1 .. spans[s] \subseteq extracted[s]

(* A transcript is extracted to its end or parked, even if every single    *)
(* run fails somewhere: each leaves its progress behind.                   *)
TranscriptsAreExtracted ==
  \A s \in Sessions :
    spool[s] = "due" ~> (spool[s] = "parked" \/ 1 .. spans[s] \subseteq extracted[s])
=============================================================================
