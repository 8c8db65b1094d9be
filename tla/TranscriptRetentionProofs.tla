---------------------- MODULE TranscriptRetentionProofs ----------------------
(***************************************************************************)
(* Proofs about TranscriptRetention, for any sessions, notes and jobs.     *)
(* They rest on what the two timers have decided but not yet done: no live *)
(* note that came in time hangs on a transcript about to be pruned, and a  *)
(* note about to be swept came too late and its transcript is gone.        *)
(***************************************************************************)
EXTENDS TranscriptRetention, TLAPS

PruneIsSound(j) ==
  job[j] # Idle /\ job[j].op = "prune" =>
    \A s \in job[j].gone :
      /\ session[s] # "absent"
      /\ \A n \in Notes : Live(n) /\ note[n].source = Key(s) => ~note[n].intime

CameTooLate(n) == note[n] \in Note /\ SourceGone(n) /\ ~note[n].intime

SweepIsSound(j) ==
  job[j] # Idle /\ job[j].op = "sweep" => \A n \in job[j].gone : CameTooLate(n)

IInv ==
  /\ TypeOK
  /\ SourcesOutliveNotes
  /\ \A n \in swept : CameTooLate(n)
  /\ \A j \in Jobs : PruneIsSound(j) /\ SweepIsSound(j)

-----------------------------------------------------------------------------
LEMMA JobFields ==
  ASSUME TypeOK, NEW j \in Jobs, job[j] # Idle
  PROVE  /\ job[j] \in Job
         /\ job[j].op \in {"ingest", "rebuild"} => job[j].session \in Sessions
         /\ job[j].op = "prune" => job[j].gone \subseteq Sessions
         /\ job[j].op = "sweep" => job[j].gone \subseteq Notes
BY DEF TypeOK, Job

LEMMA NotesDiffer == NoNote \notin Note /\ ~NoNote.live
BY DEF Note, NoNote

LEMMA InitIInv == Init => IInv
BY DEF Init, IInv, TypeOK, SourcesOutliveNotes, PruneIsSound, SweepIsSound, Live, NoNote, Idle

(* A job begins or ends, the tables stay. *)
LEMMA JobMoves ==
  ASSUME IInv, NEW j \in Jobs, NEW x \in Job \cup {Idle}, job' = [job EXCEPT ![j] = x],
         UNCHANGED <<session, old, note, swept>>,
         x # Idle /\ x.op = "prune" =>
           \A s \in x.gone : session[s] # "absent" /\ ~Protected(s),
         x # Idle /\ x.op = "sweep" => \A n \in x.gone : CameTooLate(n)
  PROVE  IInv'
<1>1. job'[j] = x /\ \A i \in Jobs : i # j => job'[i] = job[i]
      BY DEF IInv, TypeOK
<1>2. TypeOK' /\ SourcesOutliveNotes' /\ \A n \in swept' : CameTooLate(n)'
      BY DEF IInv, TypeOK, SourcesOutliveNotes, Live, CameTooLate, SourceGone
<1>3. ASSUME NEW i \in Jobs
      PROVE  PruneIsSound(i)'
  <2>1. CASE i = j
        BY <1>1, <2>1 DEF PruneIsSound, Protected, Live
  <2>2. CASE i # j
        BY <1>1, <2>2 DEF IInv, PruneIsSound, Live
  <2>3. QED
        BY <2>1, <2>2
<1>4. ASSUME NEW i \in Jobs
      PROVE  SweepIsSound(i)'
  <2>1. CASE i = j
        BY <1>1, <2>1 DEF SweepIsSound, CameTooLate, SourceGone
  <2>2. CASE i # j
        BY <1>1, <2>2 DEF IInv, SweepIsSound, CameTooLate, SourceGone
  <2>3. QED
        BY <2>1, <2>2
<1>5. QED
      BY <1>2, <1>3, <1>4 DEF IInv

(* Idle is no job, so a job that ends leaves nothing to be kept. *)
LEMMA JobEnds ==
  ASSUME IInv, NEW j \in Jobs, Finish(j), UNCHANGED <<session, old, note, swept>>
  PROVE  IInv'
BY JobMoves DEF Finish

LEMMA BeginsIInv ==
  ASSUME IInv, NEW j \in Jobs,
         \/ \E s \in Sessions : IngestBegin(j, s) \/ RebuildBegin(j, s)
         \/ PruneBegin(j) \/ SweepBegin(j) \/ Abort(j)
  PROVE  IInv'
<1>1. CASE \E s \in Sessions : IngestBegin(j, s) \/ RebuildBegin(j, s)
  <2>1. PICK s \in Sessions, op \in {"ingest", "rebuild"} : Start(j, [op |-> op, session |-> s])
        BY <1>1 DEF IngestBegin, RebuildBegin
  <2> DEFINE x == [op |-> op, session |-> s]
  <2>2. x \in Job /\ x.op # "prune" /\ x.op # "sweep"
        BY DEF Job
  <2>3. job' = [job EXCEPT ![j] = x] /\ UNCHANGED <<session, old, note, swept>>
        BY <2>1 DEF Start
  <2> HIDE DEF x
  <2>4. QED
        BY <2>2, <2>3, JobMoves
<1>2. CASE PruneBegin(j)
  <2> DEFINE x == [op |-> "prune", gone |-> Prunable]
  <2>1. x \in Job /\ x.op = "prune" /\ x.gone = Prunable
        BY DEF Job, Prunable, IInv, TypeOK
  <2>2. job' = [job EXCEPT ![j] = x] /\ UNCHANGED <<session, old, note, swept>>
        BY <1>2 DEF PruneBegin, Start
  <2>3. \A s \in Prunable : session[s] # "absent" /\ ~Protected(s)
        BY DEF Prunable
  <2> HIDE DEF x
  <2>4. QED
        BY <2>1, <2>2, <2>3, JobMoves
<1>3. CASE SweepBegin(j)
  <2> DEFINE x == [op |-> "sweep", gone |-> Orphans]
  <2>1. x \in Job /\ x.op = "sweep" /\ x.gone = Orphans
        BY DEF Job, Orphans
  <2>2. job' = [job EXCEPT ![j] = x] /\ UNCHANGED <<session, old, note, swept>>
        BY <1>3 DEF SweepBegin, Start
  <2>3. ASSUME NEW n \in Orphans
        PROVE  CameTooLate(n)
    <3>1. n \in Notes /\ Live(n) /\ SourceGone(n)
          BY DEF Orphans, Orphan
    <3>2. note[n] \in Note
          BY <3>1, NotesDiffer DEF IInv, TypeOK, Live
    <3>3. ~note[n].intime
          BY <3>1 DEF IInv, SourcesOutliveNotes, SourceGone
    <3>4. QED
          BY <3>1, <3>2, <3>3 DEF CameTooLate
  <2> HIDE DEF x
  <2>4. QED
        BY <2>1, <2>2, <2>3, JobMoves
<1>4. CASE Abort(j)
      BY <1>4, JobEnds DEF Abort
<1>5. QED
      BY <1>1, <1>2, <1>3, <1>4

-----------------------------------------------------------------------------
(* Sessions move on only: from the intake to the prune. *)

LEMMA IngestEndIInv ==
  ASSUME IInv, NEW j \in Jobs, IngestEnd(j)
  PROVE  IInv'
<1> DEFINE s == job[j].session
<1>1. job[j] # Idle /\ s \in Sessions
      BY JobFields DEF IngestEnd, IInv, Idle
<1>2. /\ session[s] = "absent" /\ session' = [session EXCEPT ![s] = "stored"]
      /\ job' = [job EXCEPT ![j] = Idle] /\ UNCHANGED <<old, note, swept>>
      BY DEF IngestEnd, Finish
<1> HIDE DEF s
<1>3. \A t \in Sessions : /\ session'[t] = "pruned" <=> session[t] = "pruned"
                          /\ session[t] # "absent" => session'[t] # "absent"
      BY <1>1, <1>2 DEF IInv, TypeOK
<1>4. job'[j] = Idle /\ \A i \in Jobs : i # j => job'[i] = job[i]
      BY <1>2 DEF IInv, TypeOK
<1>5. TypeOK' /\ SourcesOutliveNotes'
      BY <1>1, <1>2, <1>3 DEF IInv, TypeOK, SourcesOutliveNotes, Live
<1>6. \A n \in Notes : CameTooLate(n) => CameTooLate(n)'
      BY <1>2, <1>3 DEF CameTooLate, SourceGone
<1>7. \A n \in swept' : CameTooLate(n)'
      BY <1>2, <1>6 DEF IInv, TypeOK
<1>8. ASSUME NEW i \in Jobs
      PROVE  PruneIsSound(i)' /\ SweepIsSound(i)'
  <2> SUFFICES ASSUME i # j, job[i] # Idle
               PROVE  PruneIsSound(i)' /\ SweepIsSound(i)'
      BY <1>4 DEF PruneIsSound, SweepIsSound
  <2>1. PruneIsSound(i)'
        BY <1>2, <1>3, <1>4, JobFields DEF IInv, PruneIsSound, Live
  <2>2. SweepIsSound(i)'
        BY <1>4, <1>6, JobFields DEF IInv, SweepIsSound
  <2>3. QED
        BY <2>1, <2>2
<1>9. QED
      BY <1>5, <1>7, <1>8 DEF IInv

LEMMA PruneEndIInv ==
  ASSUME IInv, NEW j \in Jobs, PruneEnd(j)
  PROVE  IInv'
<1> DEFINE gone == job[j].gone
<1>1. job[j] # Idle /\ gone \subseteq Sessions /\ PruneIsSound(j)
      BY JobFields DEF PruneEnd, IInv, Idle
<1>2. /\ session' = [s \in Sessions |-> IF s \in gone THEN "pruned" ELSE session[s]]
      /\ job' = [job EXCEPT ![j] = Idle] /\ UNCHANGED <<old, note, swept>>
      /\ job[j].op = "prune"
      BY DEF PruneEnd, WithoutTurns, Finish
<1>3. \A s \in gone, n \in Notes : Live(n) /\ note[n].source = Key(s) => ~note[n].intime
      BY <1>1, <1>2 DEF PruneIsSound
<1> HIDE DEF gone
<1>4. \A t \in Sessions : /\ session[t] = "pruned" => session'[t] = "pruned"
                          /\ session[t] # "absent" => session'[t] # "absent"
      BY <1>2
<1>5. job'[j] = Idle /\ \A i \in Jobs : i # j => job'[i] = job[i]
      BY <1>2 DEF IInv, TypeOK
<1>6. TypeOK'
      BY <1>2 DEF IInv, TypeOK
<1>7. SourcesOutliveNotes'
      BY <1>2, <1>3 DEF IInv, SourcesOutliveNotes, Live
<1>8. \A n \in Notes : CameTooLate(n) => CameTooLate(n)'
      BY <1>2, <1>4 DEF CameTooLate, SourceGone
<1>9. \A n \in swept' : CameTooLate(n)'
      BY <1>2, <1>8 DEF IInv, TypeOK
<1>10. ASSUME NEW i \in Jobs
       PROVE  PruneIsSound(i)' /\ SweepIsSound(i)'
  <2> SUFFICES ASSUME i # j, job[i] # Idle
               PROVE  PruneIsSound(i)' /\ SweepIsSound(i)'
      BY <1>5 DEF PruneIsSound, SweepIsSound
  <2>1. PruneIsSound(i)'
        BY <1>2, <1>4, <1>5, JobFields DEF IInv, PruneIsSound, Live
  <2>2. SweepIsSound(i)'
        BY <1>5, <1>8, JobFields DEF IInv, SweepIsSound
  <2>3. QED
        BY <2>1, <2>2
<1>11. QED
       BY <1>6, <1>7, <1>9, <1>10 DEF IInv

-----------------------------------------------------------------------------
(* A note lands, at the latest moment it may count as in time. *)
LEMMA LandsIInv ==
  ASSUME IInv, NEW n \in Notes, NEW source \in Sources, NEW trusted \in BOOLEAN,
         note[n] = NoNote,
         note' = [note EXCEPT ![n] = [live |-> TRUE, trusted |-> trusted, source |-> source,
                                      intime |-> InTime(source)]],
         UNCHANGED <<session, old, swept>>,
         \/ UNCHANGED job
         \/ \E j \in Jobs : Finish(j)
  PROVE  IInv'
<1> DEFINE x == [live |-> TRUE, trusted |-> trusted, source |-> source, intime |-> InTime(source)]
<1>1. x \in Note /\ x.source = source /\ x.intime = InTime(source)
  <2>1. InTime(source) \in BOOLEAN
        BY DEF InTime
  <2>2. QED
        BY <2>1 DEF Note
<1>2. note'[n] = x /\ \A m \in Notes : m # n => note'[m] = note[m]
      BY DEF IInv, TypeOK
<1>3. \A i \in Jobs : job'[i] = job[i] \/ job'[i] = Idle
      BY DEF Finish, IInv, TypeOK
<1> HIDE DEF x
<1>4. TypeOK'
  <2>1. note' \in [Notes -> Note \cup {NoNote}]
        BY <1>1, <1>2 DEF IInv, TypeOK
  <2>2. job' \in [Jobs -> Job \cup {Idle}]
        BY DEF Finish, IInv, TypeOK
  <2>3. QED
        BY <2>1, <2>2 DEF IInv, TypeOK
<1>5. ASSUME NEW s \in Sessions, note'[n].source = Key(s), note'[n].intime
      PROVE  session[s] # "pruned" /\ ~Pruning(s)
      BY <1>1, <1>2, <1>5 DEF InTime
<1>6. SourcesOutliveNotes'
  <2> SUFFICES ASSUME NEW m \in Notes, NEW s \in Sessions,
                      note'[m].live, note'[m].source = Key(s), note'[m].intime
               PROVE  session[s] # "pruned"
      BY DEF SourcesOutliveNotes, Live
  <2>1. CASE m = n
        BY <1>5, <2>1
  <2>2. CASE m # n
        BY <1>2, <2>2 DEF IInv, SourcesOutliveNotes, Live
  <2>3. QED
        BY <2>1, <2>2
<1>7. ASSUME NEW m \in Notes, CameTooLate(m)
      PROVE  CameTooLate(m)'
  <2>1. m # n
        BY <1>7, NotesDiffer DEF CameTooLate
  <2>2. QED
        BY <1>2, <1>7, <2>1 DEF CameTooLate, SourceGone
<1>8. \A m \in swept' : CameTooLate(m)'
      BY <1>7 DEF IInv, TypeOK
<1>9. ASSUME NEW i \in Jobs
      PROVE  PruneIsSound(i)' /\ SweepIsSound(i)'
  <2> SUFFICES ASSUME job[i] # Idle, job'[i] = job[i]
               PROVE  PruneIsSound(i)' /\ SweepIsSound(i)'
      BY <1>3 DEF PruneIsSound, SweepIsSound
  <2>1. ASSUME job[i].op = "prune", NEW s \in job[i].gone,
               NEW m \in Notes, note'[m].live, note'[m].source = Key(s)
        PROVE  ~note'[m].intime
    <3>1. CASE m = n
      <4>1. s \in Sessions
            BY <2>1, JobFields DEF IInv
      <4>2. Pruning(s)
            BY <2>1 DEF Pruning
      <4>3. QED
            BY <1>5, <2>1, <3>1, <4>1, <4>2
    <3>2. CASE m # n
          BY <1>2, <2>1, <3>2 DEF IInv, PruneIsSound, Live
    <3>3. QED
          BY <3>1, <3>2
  <2>2. PruneIsSound(i)'
        BY <2>1 DEF IInv, PruneIsSound, Live
  <2>3. SweepIsSound(i)'
        BY <1>7, JobFields DEF IInv, SweepIsSound
  <2>4. QED
        BY <2>2, <2>3
<1>10. QED
       BY <1>4, <1>6, <1>8, <1>9 DEF IInv

(* What a note says of its source does not change, and what is retired     *)
(* stays so.                                                               *)
LEMMA NotesKeep ==
  ASSUME IInv, note' \in [Notes -> Note \cup {NoNote}],
         \A m \in Notes : \/ note'[m] = note[m]
                          \/ /\ note[m] \in Note /\ note'[m] \in Note
                             /\ note'[m].source = note[m].source
                             /\ note'[m].intime = note[m].intime
                             /\ note[m].live,
         UNCHANGED <<session, old>>,
         \A i \in Jobs : job'[i] = job[i] \/ job'[i] = Idle,
         job' \in [Jobs -> Job \cup {Idle}],
         swept' \subseteq Notes,
         \A m \in swept' : CameTooLate(m)
  PROVE  IInv'
<1>1. \A m \in Notes : CameTooLate(m) => CameTooLate(m)'
      BY DEF CameTooLate, SourceGone
<1>2. \A m \in Notes : note'[m].live => /\ note[m].live
                                        /\ note'[m].source = note[m].source
                                        /\ note'[m].intime = note[m].intime
      OBVIOUS
<1>3. TypeOK'
      BY DEF IInv, TypeOK
<1>4. SourcesOutliveNotes'
      BY <1>2 DEF IInv, SourcesOutliveNotes, Live
<1>5. \A m \in swept' : CameTooLate(m)'
      BY <1>1
<1>6. ASSUME NEW i \in Jobs
      PROVE  PruneIsSound(i)' /\ SweepIsSound(i)'
  <2> SUFFICES ASSUME job[i] # Idle, job'[i] = job[i]
               PROVE  PruneIsSound(i)' /\ SweepIsSound(i)'
      BY DEF PruneIsSound, SweepIsSound
  <2>1. PruneIsSound(i)'
        BY <1>2 DEF IInv, PruneIsSound, Live
  <2>2. SweepIsSound(i)'
        BY <1>1, JobFields DEF IInv, SweepIsSound
  <2>3. QED
        BY <2>1, <2>2
<1>7. QED
      BY <1>3, <1>4, <1>5, <1>6 DEF IInv

LEMMA RetiredKeeps ==
  ASSUME TypeOK, NEW gone
  PROVE  /\ Retired(gone) \in [Notes -> Note \cup {NoNote}]
         /\ \A m \in Notes : \/ Retired(gone)[m] = note[m]
                             \/ /\ note[m] \in Note /\ Retired(gone)[m] \in Note
                                /\ Retired(gone)[m].source = note[m].source
                                /\ Retired(gone)[m].intime = note[m].intime
                                /\ note[m].live
<1>1. ASSUME NEW m \in Notes
      PROVE  /\ Retired(gone)[m] \in Note \cup {NoNote}
             /\ \/ Retired(gone)[m] = note[m]
                \/ /\ note[m] \in Note /\ Retired(gone)[m] \in Note
                   /\ Retired(gone)[m].source = note[m].source
                   /\ Retired(gone)[m].intime = note[m].intime
                   /\ note[m].live
  <2>1. CASE m \in gone /\ note[m].live
    <3>1. Retired(gone)[m] = [note[m] EXCEPT !.live = FALSE]
          BY <2>1 DEF Retired, Live
    <3>2. note[m] \in Note
          BY <2>1, NotesDiffer DEF TypeOK
    <3>3. QED
          BY <2>1, <3>1, <3>2 DEF Note
  <2>2. CASE ~(m \in gone /\ note[m].live)
    <3>1. Retired(gone)[m] = note[m]
          BY <2>2 DEF Retired, Live
    <3>2. QED
          BY <3>1 DEF TypeOK
  <2>3. QED
        BY <2>1, <2>2
<1>2. Retired(gone) = [m \in Notes |-> Retired(gone)[m]]
      BY DEF Retired
<1>3. QED
      BY <1>1, <1>2

-----------------------------------------------------------------------------
LEMMA NoteStepsIInv ==
  ASSUME IInv, NEW n \in Notes,
         \/ \E source \in {Key(s) : s \in Sessions} \cup {None} : Land(n, source)
         \/ Confirm(n) \/ Retire(n)
  PROVE  IInv'
<1>1. CASE \E source \in {Key(s) : s \in Sessions} \cup {None} : Land(n, source)
  <2>1. PICK source \in Sources : Land(n, source)
        BY <1>1 DEF Sources
  <2>2. PICK trusted \in BOOLEAN :
          note' = [note EXCEPT ![n] = [live |-> TRUE, trusted |-> trusted, source |-> source,
                                       intime |-> InTime(source)]]
        BY <2>1 DEF Land
  <2>3. note[n] = NoNote /\ UNCHANGED <<session, old, swept, job>>
        BY <2>1 DEF Land
  <2>4. QED
        BY <2>2, <2>3, LandsIInv
<1>2. CASE Confirm(n)
  <2>1. note[n].live /\ note[n] \in Note
        BY <1>2, NotesDiffer DEF Confirm, Live, IInv, TypeOK
  <2>2. /\ note' = [note EXCEPT ![n].trusted = TRUE]
        /\ UNCHANGED <<session, old, swept, job>>
        BY <1>2 DEF Confirm
  <2>3. /\ note'[n] \in Note /\ note'[n].source = note[n].source
        /\ note'[n].intime = note[n].intime
        BY <2>1, <2>2 DEF IInv, TypeOK, Note
  <2>4. \A m \in Notes : m # n => note'[m] = note[m]
        BY <2>2 DEF IInv, TypeOK
  <2>5. note' \in [Notes -> Note \cup {NoNote}]
        BY <2>2, <2>3, <2>4 DEF IInv, TypeOK
  <2>6. /\ job' \in [Jobs -> Job \cup {Idle}] /\ swept' \subseteq Notes
        /\ \A m \in swept' : CameTooLate(m)
        BY <2>2 DEF IInv, TypeOK
  <2>7. QED
        BY <2>1, <2>2, <2>3, <2>4, <2>5, <2>6, NotesKeep
<1>3. CASE Retire(n)
  <2>1. note' = Retired({n}) /\ UNCHANGED <<session, old, swept, job>>
        BY <1>3 DEF Retire
  <2>2. /\ job' \in [Jobs -> Job \cup {Idle}] /\ swept' \subseteq Notes
        /\ \A m \in swept' : CameTooLate(m)
        BY <2>1 DEF IInv, TypeOK
  <2>3. TypeOK
        BY DEF IInv
  <2>4. QED
        BY <2>1, <2>2, <2>3, RetiredKeeps, NotesKeep
<1>4. QED
      BY <1>1, <1>2, <1>3

LEMMA RebuildEndIInv ==
  ASSUME IInv, NEW j \in Jobs, RebuildEnd(j)
  PROVE  IInv'
<1> DEFINE source == Id(job[j].session)
<1>1. source \in Sources
  <2>1. job[j] # Idle
        BY DEF RebuildEnd, Idle
  <2>2. job[j].session \in Sessions
        BY <2>1, JobFields DEF RebuildEnd, IInv
  <2>3. QED
        BY <2>2 DEF Sources
<1>2. PICK n \in Notes :
        /\ note[n] = NoNote
        /\ note' = [note EXCEPT ![n] = [live |-> TRUE, trusted |-> FALSE, source |-> source,
                                        intime |-> InTime(source)]]
      BY DEF RebuildEnd
<1>3. Finish(j) /\ UNCHANGED <<session, old, swept>>
      BY DEF RebuildEnd
<1> HIDE DEF source
<1>4. QED
      BY <1>1, <1>2, <1>3, LandsIInv

LEMMA SweepEndIInv ==
  ASSUME IInv, NEW j \in Jobs, SweepEnd(j)
  PROVE  IInv'
<1>1. job[j] # Idle /\ job[j].gone \subseteq Notes /\ \A n \in job[j].gone : CameTooLate(n)
      BY JobFields DEF SweepEnd, IInv, SweepIsSound, Idle
<1>2. /\ note' = Retired(job[j].gone) /\ swept' = swept \cup job[j].gone
      /\ job' = [job EXCEPT ![j] = Idle] /\ UNCHANGED <<session, old>>
      BY DEF SweepEnd, Finish
<1>3. /\ job' \in [Jobs -> Job \cup {Idle}]
      /\ \A i \in Jobs : job'[i] = job[i] \/ job'[i] = Idle
      BY <1>2 DEF IInv, TypeOK
<1>4. swept' \subseteq Notes /\ \A m \in swept' : CameTooLate(m)
      BY <1>1, <1>2 DEF IInv, TypeOK
<1>5. TypeOK
      BY DEF IInv
<1>6. QED
      BY <1>2, <1>3, <1>4, <1>5, RetiredKeeps, NotesKeep

LEMMA StutterIInv == IInv /\ UNCHANGED <<session, note, swept, job>> /\ old' \subseteq Sessions => IInv'
BY DEF IInv, TypeOK, SourcesOutliveNotes, PruneIsSound, SweepIsSound, CameTooLate, SourceGone, Live

LEMMA NextIInv == IInv /\ [Next]_vars => IInv'
<1> SUFFICES ASSUME IInv, [Next]_vars
             PROVE  IInv'
    OBVIOUS
<1>1. CASE \E s \in Sessions : Age(s)
      BY <1>1, StutterIInv DEF Age, IInv, TypeOK
<1>2. ASSUME NEW n \in Notes,
             \/ \E source \in {Key(s) : s \in Sessions} \cup {None} : Land(n, source)
             \/ Confirm(n) \/ Retire(n)
      PROVE  IInv'
      BY <1>2, NoteStepsIInv
<1>3. ASSUME NEW j \in Jobs,
             \/ \E s \in Sessions : IngestBegin(j, s) \/ RebuildBegin(j, s)
             \/ PruneBegin(j) \/ SweepBegin(j) \/ Abort(j)
      PROVE  IInv'
      BY <1>3, BeginsIInv
<1>4. ASSUME NEW j \in Jobs,
             IngestEnd(j) \/ RebuildEnd(j) \/ PruneEnd(j) \/ SweepEnd(j)
      PROVE  IInv'
      BY <1>4, IngestEndIInv, RebuildEndIInv, PruneEndIInv, SweepEndIInv
<1>5. CASE UNCHANGED vars
      BY <1>5, StutterIInv DEF vars, IInv, TypeOK
<1>6. QED
      BY <1>1, <1>2, <1>3, <1>4, <1>5 DEF Next

LEMMA Invariance == Spec => []IInv
<1>1. Init => IInv
      BY InitIInv
<1>2. IInv /\ [Next]_vars => IInv'
      BY NextIInv
<1>3. QED
      BY <1>1, <1>2, PTL DEF Spec

(* Every variable of the retention keeps its type. *)
THEOREM TypeCorrectness == Spec => []TypeOK
<1>1. IInv => TypeOK
      BY DEF IInv
<1>2. QED
      BY <1>1, Invariance, PTL

(* A note that landed in time and names its session as the prune looks for *)
(* it keeps its transcript, for any number of notes and overlapping jobs.  *)
THEOREM NotesKeepTheirSources == Spec => []SourcesOutliveNotes
<1>1. IInv => SourcesOutliveNotes
      BY DEF IInv
<1>2. QED
      BY <1>1, Invariance, PTL

(* What the sweep retires had lost its transcript, and had come too late   *)
(* for the prune to see it.                                                *)
THEOREM SweepsAreJustified == Spec => []SweptNotesCameTooLate
<1>1. IInv => SweptNotesCameTooLate
      BY DEF IInv, SweptNotesCameTooLate, CameTooLate
<1>2. QED
      BY <1>1, Invariance, PTL

(* The row of a session outlives its turns, and they do not come back. *)
THEOREM TombstonesKept == Spec => TombstonesAreKept
<1>1. ASSUME IInv, [Next]_vars, NEW s \in Sessions, session'[s] # session[s]
      PROVE  <<session[s], session'[s]>> \in {<<"absent", "stored">>, <<"stored", "pruned">>}
  <2>1. PICK j \in Jobs : IngestEnd(j) \/ PruneEnd(j)
        BY <1>1 DEF Next, vars, Age, Land, Confirm, Retire, IngestBegin, RebuildBegin, RebuildEnd,
                    PruneBegin, SweepBegin, SweepEnd, Abort, Start
  <2>2. CASE IngestEnd(j)
        BY <1>1, <2>2 DEF IngestEnd, IInv, TypeOK
  <2>3. CASE PruneEnd(j)
    <3>1. s \in job[j].gone /\ session'[s] = "pruned"
          BY <1>1, <2>3 DEF PruneEnd, WithoutTurns
    <3>2. session[s] # "absent"
          BY <1>1, <2>3, <3>1 DEF PruneEnd, IInv, PruneIsSound, Idle
    <3>3. QED
          BY <1>1, <3>1, <3>2 DEF IInv, TypeOK
  <2>4. QED
        BY <2>1, <2>2, <2>3
<1>2. IInv /\ [Next]_vars =>
        [\A s \in Sessions : session'[s] # session[s] =>
           <<session[s], session'[s]>> \in {<<"absent", "stored">>, <<"stored", "pruned">>}]_vars
      BY <1>1
<1>3. QED
      BY <1>2, Invariance, PTL DEF Spec, TombstonesAreKept

=============================================================================
