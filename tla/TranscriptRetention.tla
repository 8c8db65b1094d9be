------------------------ MODULE TranscriptRetention ------------------------
(***************************************************************************)
(* The store of transcripts and the notes that name one as their source:   *)
(* intake, the rebuild of a session's notes, the daily prune of old        *)
(* transcripts and the daily sweep of notes whose source is gone.          *)
(*                                                                         *)
(* A row of the table session is identified by its id and, towards the     *)
(* clients, by its source_session; a note's source is either.  The prune   *)
(* decides on the snapshot of its DELETE and acts at its commit, the sweep *)
(* reads the notes before it retires them; the rest of a note's life is    *)
(* NoteLifecycle's.                                                        *)
(***************************************************************************)
EXTENDS FiniteSets

CONSTANTS
  Sessions,
  Notes,
  Jobs,   \* gunicorn workers, command lines and timers
  None    \* a note without a source

VARIABLES
  session,  \* the row of the table session and whether it has turns
  old,      \* sessions past SESSION_TURN_RETENTION_DAYS
  note,     \* the table memory
  swept,    \* the notes of the action_log's memory_source_gone_delete rows
  job       \* what each process is in the middle of

vars == <<session, old, note, swept, job>>

Key(s) == <<"source_session", s>>
Id(s)  == <<"id", s>>
Sources == {Key(s) : s \in Sessions} \cup {Id(s) : s \in Sessions} \cup {None}

(* intime: history; its source was not pruned, nor being pruned, when the  *)
(* note landed.                                                            *)
Note == [live : BOOLEAN, trusted : BOOLEAN, source : Sources, intime : BOOLEAN]
NoNote == [live |-> FALSE, source |-> None]

Idle == [op |-> "idle"]
Job == [op : {"ingest", "rebuild"}, session : Sessions]
         \cup [op : {"prune"}, gone : SUBSET Sessions]
         \cup [op : {"sweep"}, gone : SUBSET Notes]

TypeOK ==
  /\ session \in [Sessions -> {"absent", "stored", "pruned"}]
  /\ old \subseteq Sessions
  /\ note \in [Notes -> Note \cup {NoNote}]
  /\ swept \subseteq Notes
  /\ job \in [Jobs -> Job \cup {Idle}]

Init ==
  /\ session = [s \in Sessions |-> "absent"]
  /\ old = {}
  /\ note = [n \in Notes |-> NoNote]
  /\ swept = {}
  /\ job = [j \in Jobs |-> Idle]

-----------------------------------------------------------------------------
Start(j, work) ==
  /\ job[j] = Idle
  /\ job' = [job EXCEPT ![j] = work]
  /\ UNCHANGED <<session, old, note, swept>>

Finish(j) == job' = [job EXCEPT ![j] = Idle]

Abort(j) == job[j] # Idle /\ Finish(j) /\ UNCHANGED <<session, old, note, swept>>

Live(n) == note[n].live

-----------------------------------------------------------------------------
(* session_ingest and ingest_file: skipped if the row is there, refused by *)
(* its unique index if it has appeared since.                              *)
IngestBegin(j, s) == session[s] = "absent" /\ Start(j, [op |-> "ingest", session |-> s])

IngestEnd(j) ==
  /\ job[j].op = "ingest"
  /\ session[job[j].session] = "absent"
  /\ session' = [session EXCEPT ![job[j].session] = "stored"]
  /\ Finish(j)
  /\ UNCHANGED <<old, note, swept>>

Age(s) == s \notin old /\ old' = old \cup {s} /\ UNCHANGED <<session, note, swept, job>>

-----------------------------------------------------------------------------
(* Notes. *)

Pruning(s) == \E j \in Jobs : IF job[j].op = "prune" THEN s \in job[j].gone ELSE FALSE

InTime(source) ==
  \A s \in Sessions : source \in {Key(s), Id(s)} => session[s] # "pruned" /\ ~Pruning(s)

(* Captured from a session, or remembered in one; or without a source. *)
Land(n, source) ==
  /\ note[n] = NoNote
  /\ \E trusted \in BOOLEAN :
       note' = [note EXCEPT ![n] = [live |-> TRUE, trusted |-> trusted, source |-> source,
                                    intime |-> InTime(source)]]
  /\ UNCHANGED <<session, old, swept, job>>

(* A verdict, a review. *)
Confirm(n) ==
  /\ Live(n)
  /\ ~note[n].trusted
  /\ note' = [note EXCEPT ![n].trusted = TRUE]
  /\ UNCHANGED <<session, old, swept, job>>

(* Mutant: not committed. *)
RetiredNever(gone) == note

Retired(gone) ==
  [n \in Notes |-> IF n \in gone /\ Live(n) THEN [note[n] EXCEPT !.live = FALSE] ELSE note[n]]

Retire(n) ==
  /\ Live(n)
  /\ note' = Retired({n})
  /\ UNCHANGED <<session, old, swept, job>>

(* rebuild_session.py --apply <session_id>: it reads the turns of that id  *)
(* and writes the id into the notes it lands.                              *)
RebuildBegin(j, s) == session[s] = "stored" /\ Start(j, [op |-> "rebuild", session |-> s])

RebuildEnd(j) ==
  /\ job[j].op = "rebuild"
  /\ \E n \in Notes :
       LET source == Id(job[j].session)
       IN  /\ note[n] = NoNote
           /\ note' = [note EXCEPT ![n] = [live |-> TRUE, trusted |-> FALSE, source |-> source,
                                           intime |-> InTime(source)]]
  /\ Finish(j)
  /\ UNCHANGED <<session, old, swept>>

-----------------------------------------------------------------------------
(* Timers. *)

(* Mutant: only trusted notes protect their source. *)
ProtectedByTrusted(s) ==
  \E n \in Notes : IF Live(n) THEN note[n].trusted /\ note[n].source = Key(s) ELSE FALSE

Protected(s) == \E n \in Notes : Live(n) /\ note[n].source = Key(s)

Prunable == {s \in old : session[s] = "stored" /\ ~Protected(s)}

PruneBegin(j) == Prunable # {} /\ Start(j, [op |-> "prune", gone |-> Prunable])

(* The turns go, the row stays as a tombstone. *)
WithoutTurns(gone) == [s \in Sessions |-> IF s \in gone THEN "pruned" ELSE session[s]]

PruneEnd(j) ==
  /\ job[j].op = "prune"
  /\ session' = WithoutTurns(job[j].gone)
  /\ Finish(j)
  /\ UNCHANGED <<old, note, swept>>

(* Mutant: a source that is not there is gone. *)
SourceMissing(n) ==
  \E s \in Sessions : note[n].source = Key(s) /\ session[s] # "stored"

(* The bucket session_row_zero_turns. *)
SourceGone(n) ==
  \E s \in Sessions : note[n].source = Key(s) /\ session[s] = "pruned"

Orphan(n) == Live(n) /\ ~note[n].trusted /\ SourceGone(n)
Orphans == {n \in Notes : IF Live(n) THEN Orphan(n) ELSE FALSE}

SweepBegin(j) == Orphans # {} /\ Start(j, [op |-> "sweep", gone |-> Orphans])

SweepEnd(j) ==
  /\ job[j].op = "sweep"
  /\ note' = Retired(job[j].gone)
  /\ swept' = swept \cup job[j].gone
  /\ Finish(j)
  /\ UNCHANGED <<session, old>>

-----------------------------------------------------------------------------
Next ==
  \/ \E s \in Sessions : Age(s)
  \/ \E n \in Notes :
       \/ \E source \in {Key(s) : s \in Sessions} \cup {None} : Land(n, source)
       \/ Confirm(n) \/ Retire(n)
  \/ \E j \in Jobs :
       \/ \E s \in Sessions : IngestBegin(j, s) \/ RebuildBegin(j, s)
       \/ IngestEnd(j) \/ RebuildEnd(j)
       \/ PruneBegin(j) \/ PruneEnd(j)
       \/ SweepBegin(j) \/ SweepEnd(j)
       \/ Abort(j)

Spec == Init /\ [][Next]_vars

(* The timer starts the sweep every day, if nothing else fills the jobs,   *)
(* and not every sweep of a note fails.                                    *)
Fairness ==
  /\ \A j \in Jobs : WF_vars(IngestEnd(j) \/ RebuildEnd(j) \/ PruneEnd(j) \/ SweepEnd(j) \/ Abort(j))
  /\ SF_vars(\E j \in Jobs : SweepBegin(j))
  /\ \A n \in Notes :
       SF_vars(\E j \in Jobs : SweepEnd(j) /\ n \in job[j].gone)

FairSpec == Spec /\ Fairness

-----------------------------------------------------------------------------
(* A note that landed in time keeps its transcript for as long as it lives, *)
(* trusted or not, however captures, rebuilds, prunes and sweeps overlap;   *)
(* this needs that the note names the session as the prune looks for it.    *)
SourcesOutliveNotes ==
  \A n \in Notes, s \in Sessions :
    Live(n) /\ note[n].source = Key(s) /\ note[n].intime => session[s] # "pruned"

(* The sweep retires only notes whose transcript was stored and is gone,   *)
(* and only such as came too late for the prune to see them.               *)
SweptNotesCameTooLate ==
  \A n \in swept : SourceGone(n) /\ ~note[n].intime

(* A transcript is taken in once: its row outlives its turns, and they do  *)
(* not come back, although two intakes may both have found no row.         *)
TombstonesAreKept ==
  [][\A s \in Sessions : session'[s] # session[s] =>
       <<session[s], session'[s]>> \in {<<"absent", "stored">>, <<"stored", "pruned">>}]_vars

(* An untrusted note that names a transcript of which nothing is left is    *)
(* swept, or somebody vouches for it or retires it first.  One that never  *)
(* named a transcript is not meant: only its age retires it.               *)
OrphansAreSwept ==
  \A n \in Notes : n \in Orphans ~> n \notin Orphans

(* What comments of the code claim, and TLC refutes: the notes a rebuild   *)
(* writes keep their transcript as well.                                   *)
RebuiltNotesKeepTheirSource ==
  \A n \in Notes, s \in Sessions :
    Live(n) /\ note[n].source = Id(s) /\ note[n].intime => session[s] # "pruned"
=============================================================================
