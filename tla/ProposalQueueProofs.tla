------------------------- MODULE ProposalQueueProofs -------------------------
(***************************************************************************)
(* Proofs about ProposalQueue, for any agents, captures, notes, proposals  *)
(* and workers: shared notes were decided, landed notes pass the gate and  *)
(* replace what it saw, and the queue implements ReviewQueue.              *)
(***************************************************************************)
EXTENDS ProposalQueue, TLAPS

FirstPartySpans(spans) == spans # {} /\ spans \subseteq {"typed", "assistant"}

Undecided(row) == row.status = "pending" /\ row.by = None /\ row.target = None

Deciding(x) == x.op \in {"approve", "reject"}

Owned(versions, author) == \A v \in versions : OwnPersonal(v, author)

(* What a request under way has made sure of. *)
RequestIsSound(x, table) ==
  /\ x.op = "propose" => Undecided(x.row)
  /\ x.op = "queue" =>
       x.row.status \in {"pending", "rejected"} /\ x.row.by = None /\ x.row.target = None
  /\ x.op = "land" =>
       /\ x.by \in Reviewers /\ Undecided(x.row)
       /\ LandSensitive \/ ~Private(x.row.sens)
       /\ x.trust = "trusted" => FirstPartySpans(x.spans)
       /\ x.row.name # None => Owned(x.seen, x.row.author)
  /\ Deciding(x) => x.by \in Reviewers /\ table[x.id].status = "pending"

(* One request decides a proposal, and one undecided is untouched. *)
QueueInv(requests, table) ==
  /\ \A p \in Workers : RequestIsSound(requests[p], table)
  /\ \A p, q \in Workers :
       Deciding(requests[p]) /\ Deciding(requests[q]) /\ requests[p].id = requests[q].id => p = q
  /\ \A i \in Proposals : table[i].status = "pending" => Undecided(table[i])

LandedRowPasses(n, row) ==
  /\ row # NoRow
  /\ row.live =>
       /\ LandSensitive \/ Curated(n) \/ ~Private(row.sens)
       /\ row.trust = "trusted" => Validated(n) \/ Graduated(n) \/ FirstPartySpans(row.spans)

LandedNotesPass == \A n \in Notes : Landed(n) => LandedRowPasses(n, memory[n])

(* The proposal behind a shared note. *)
Backs(x, n, row) ==
  /\ x.status = "approved" /\ x.target = n
  /\ x.by \in Reviewers
  /\ \/ Curated(n)
     \/ row.name = StoredName(x) /\ row.body = x.body

SharedRowsWereDecided ==
  \A n \in Notes : Shared(n) /\ ~Graduated(n) =>
    \E i \in Proposals : Backs(proposal[i], n, memory[n])

IInv ==
  /\ TypeOK
  /\ QueueInv(req, proposal)
  /\ SharedRowsWereDecided
  /\ LandedNotesPass

-----------------------------------------------------------------------------
(* The gate. *)

LEMMA GateSparesPrivate ==
  ASSUME NEW c, NEW verdict, NEW lesson_, NEW same, NEW allow,
         Lands(c, verdict, lesson_, same, allow)
  PROVE  LandSensitive \/ ~Private(SensitivityOf(c))
<1> SUFFICES ASSUME ~LandSensitive, Private(SensitivityOf(c))
             PROVE  FALSE
    OBVIOUS
<1>1. "sensitive" \in Reasons(c, verdict, lesson_)
      BY DEF Reasons
<1>2. CASE LandQuarantined
  <2>1. "sensitive" \in Blocking(allow)
        BY DEF Blocking
  <2>2. QED
        BY <1>1, <1>2, <2>1 DEF Lands, LandsPersonal
<1>3. CASE ~LandQuarantined
  <2>1. DecideOne(c, verdict, lesson_) = "auto_keep"
        BY <1>3 DEF Lands
  <2>2. QED
        BY <1>1, <2>1 DEF DecideOne
<1>4. QED
      BY <1>2, <1>3

(* What lands with a name is new, or corrects its author's own notes. *)
LEMMA GateSparesOthers ==
  ASSUME NEW a, NEW author, NEW name, NEW c, NEW verdict, NEW lesson_, name # None,
         Lands(c, verdict, lesson_, SameName(a, name), AutoSupersede(a, author, name))
  PROVE  Owned(VersionsOf(a, name), author)
<1>1. SameName(a, name) => AutoSupersede(a, author, name)
      BY DEF Lands, LandsPersonal
<1>2. CASE SameName(a, name)
      BY <1>1, <1>2 DEF AutoSupersede, Owned
<1>3. CASE ~SameName(a, name)
      BY <1>3 DEF SameName, VersionsOf, Owned
<1>4. QED
      BY <1>2, <1>3

LEMMA TrustIsFirstParty ==
  ASSUME NEW c, c.spans \subseteq SpanKinds, EffectiveTrust(c) = "trusted"
  PROVE  FirstPartySpans(c.spans)
<1>1. Cited(c) # {} /\ Cited(c) \subseteq FirstParty
      BY DEF EffectiveTrust, TrustForChannels
<1>2. c.spans # {}
      BY <1>1 DEF Cited
<1>3. ASSUME NEW s \in c.spans
      PROVE  s \in {"typed", "assistant"}
  <2>1. ChannelOf(s) \in FirstParty
        BY <1>1 DEF Cited
  <2>2. QED
        BY <2>1 DEF ChannelOf, FirstParty
<1>4. QED
      BY <1>2, <1>3 DEF FirstPartySpans

LEMMA SensitivityIsTyped ==
  ASSUME NEW c \in Captures
  PROVE  SensitivityOf(c) \in Sensitivities
BY QueueAssumption DEF SensitivityOf, OrNone, Sensitivities

-----------------------------------------------------------------------------
(* Rows. *)

LEMMA BuiltRow ==
  ASSUME NEW row, NEW share \in {"personal", "trusted"}, NEW trust \in {"quarantined", "trusted"},
         NEW spans \in SUBSET SpanKinds,
         row.name \in OrNone(Names), row.body \in Bodies, row.author \in Agents,
         row.sens \in Sensitivities
  PROVE  LET x == Built(row, share, trust, spans)
         IN  /\ x \in Row /\ x.live /\ x.name = StoredName(row) /\ x.body = row.body
             /\ x.share = share /\ x.trust = trust /\ x.sens = row.sens /\ x.spans = spans
<1>1. StoredName(row) \in Names
      BY QueueAssumption DEF StoredName, OrNone
<1>2. DefaultReaders(row.sens, share) \in SUBSET ReaderTokens
      BY DEF DefaultReaders, ReaderTokens, GroupTokens
<1>3. QED
      BY <1>1, <1>2 DEF Built, Row, OrNone

LEMMA ProposalFields ==
  ASSUME NEW row \in Proposal
  PROVE  /\ row.name \in OrNone(Names) /\ row.body \in Bodies /\ row.author \in Agents
         /\ row.sens \in Sensitivities
BY DEF Proposal

LEMMA PendingRow ==
  ASSUME NEW name \in NamesGiven, NEW body \in Bodies, NEW author \in Agents,
         NEW sens \in Sensitivities
  PROVE  /\ Pending(name, body, author, sens) \in Proposal
         /\ Undecided(Pending(name, body, author, sens))
         /\ Pending(name, body, author, sens).sens = sens
BY QueueAssumption DEF Pending, Proposal, Undecided, OrNone

LEMMA RowsDiffer ==
  /\ NoRow # Retired /\ NoRow \notin Row /\ Retired \notin Row
  /\ ~NoRow.live /\ ~Retired.live
BY DEF NoRow, Retired, Row

LEMMA RequestFields ==
  ASSUME TypeOK, NEW p \in Workers
  PROVE  /\ req[p].op = "propose" => req[p] \in ProposeRequest
         /\ req[p].op = "queue" => req[p] \in QueueRequest
         /\ req[p].op = "land" => req[p] \in LandRequest
         /\ Deciding(req[p]) => req[p] \in DecideRequest
         /\ req[p].op = "idle" => req[p] = Idle
BY DEF TypeOK, Requests, ProposeRequest, QueueRequest, LandRequest, DecideRequest, Idle,
       Deciding

LEMMA ProposalCases ==
  ASSUME NEW x \in Proposal \cup {NoProposal}
  PROVE  /\ x.status # "absent" => x \in Proposal
         /\ x.status = "absent" => x = NoProposal
         /\ NoProposal.status = "absent"
BY DEF Proposal, NoProposal

(* A note replaces its prior version: what becomes of each row. *)
LEMMA ReplacedTable ==
  ASSUME TypeOK, NEW a \in Reviewers, NEW n \in Notes, Fresh(n), NEW row \in Row, NEW x,
         NEW prior, prior = Prior(a, x), NEW table, table = Replaced(a, prior, n, row)
  PROVE  /\ prior \subseteq Notes /\ n \notin prior
         /\ table \in [Notes -> Row \cup {NoRow, Retired}]
         /\ table[n] = row
         /\ \A m \in prior : table[m] = Retired
         /\ \A m \in Notes \ {n} : table[m] = memory[m] \/ table[m] = Retired
         /\ \A m \in Notes : memory[m] = Retired => table[m] = Retired
<1>1. /\ prior \subseteq Notes
      /\ \A m \in prior : memory[m].live /\ Selectable(a, memory[m])
      BY DEF Prior, Named, Seen
<1>2. ~memory[n].live
      BY RowsDiffer DEF Fresh
<1>3. \A m \in prior : Updatable(a, memory[m])
      BY <1>1 DEF Updatable, Selectable, MemUpd
<1>4. /\ memory[n] # Retired
      /\ memory \in [Notes -> Row \cup {NoRow, Retired}]
      BY RowsDiffer DEF Fresh, TypeOK
<1>5. table = [m \in Notes |-> CASE m = n -> row
                                 [] m \in prior /\ Updatable(a, memory[m]) -> Retired
                                 [] OTHER -> memory[m]]
      BY DEF Replaced
<1>6. table[n] = row
      BY <1>1, <1>2, <1>5
<1>7. \A m \in Notes \ {n} : table[m] = memory[m] \/ table[m] = Retired
      BY <1>5
<1>8. \A m \in prior : table[m] = Retired
      BY <1>1, <1>2, <1>3, <1>5
<1>9. table \in [Notes -> Row \cup {NoRow, Retired}]
      BY <1>4, <1>5
<1>10. \A m \in Notes : memory[m] = Retired => table[m] = Retired
      BY <1>4, <1>7
<1>11. QED
      BY <1>1, <1>2, <1>6, <1>7, <1>8, <1>9, <1>10

(* A request ends: proposals change only where nobody else decides. *)
LEMMA FinishKeepsQueue ==
  ASSUME TypeOK, QueueInv(req, proposal), NEW p \in Workers, Finish(p), NEW table,
         \A i \in Proposals :
           \/ table[i] = proposal[i]
           \/ /\ table[i].status = "pending" => Undecided(table[i])
              /\ \A q \in Workers \ {p} : Deciding(req[q]) => req[q].id # i
  PROVE  /\ QueueInv(req', table)
         /\ req' \in [Workers -> Requests \cup {Idle}]
<1>1. req' = [req EXCEPT ![p] = Idle]
      BY DEF Finish
<1>2. /\ req \in [Workers -> Requests \cup {Idle}]
      /\ req'[p] = Idle /\ \A q \in Workers \ {p} : req'[q] = req[q]
      BY <1>1 DEF TypeOK
<1>3. /\ ~Deciding(Idle) /\ RequestIsSound(Idle, table)
      BY DEF Deciding, Idle, RequestIsSound
<1>4. ASSUME NEW q \in Workers
      PROVE  RequestIsSound(req'[q], table)
  <2>1. CASE q = p
        BY <2>1, <1>2, <1>3
  <2>2. CASE q # p
    <3>1. RequestIsSound(req[q], proposal)
          BY DEF QueueInv
    <3>2. Deciding(req[q]) => req[q].id \in Proposals
          BY RequestFields DEF DecideRequest
    <3>3. Deciding(req[q]) => table[req[q].id] = proposal[req[q].id]
          BY <2>2, <3>2
    <3>4. QED
          BY <1>2, <2>2, <3>1, <3>3 DEF RequestIsSound
  <2>3. QED
        BY <2>1, <2>2
<1>5. \A i \in Proposals : table[i].status = "pending" => Undecided(table[i])
      BY DEF QueueInv
<1>6. \A q, s \in Workers :
        Deciding(req'[q]) /\ Deciding(req'[s]) /\ req'[q].id = req'[s].id => q = s
      BY <1>2, <1>3 DEF QueueInv
<1>7. QED
      BY <1>1, <1>2, <1>4, <1>5, <1>6 DEF QueueInv

(* A request begins. *)
LEMMA StartKeepsIInv ==
  ASSUME IInv, NEW p \in Workers,
         NEW x \in Requests,
         Start(p, x), RequestIsSound(x, proposal),
         Deciding(x) => \A q \in Workers : Deciding(req[q]) => req[q].id # x.id
  PROVE  IInv'
<1>1. /\ req \in [Workers -> Requests \cup {Idle}]
      /\ req' = [req EXCEPT ![p] = x]
      /\ UNCHANGED <<memory, proposal, lesson, superseded, log>>
      BY DEF Start, IInv, TypeOK
<1>2. TypeOK'
      BY <1>1 DEF IInv, TypeOK
<1>3. /\ req'[p] = x /\ \A q \in Workers \ {p} : req'[q] = req[q]
      BY <1>1
<1>4. QueueInv(req', proposal)
      BY <1>3 DEF QueueInv, IInv
<1>5. SharedRowsWereDecided' /\ LandedNotesPass'
      BY <1>1 DEF IInv, SharedRowsWereDecided, LandedNotesPass, Backs, LandedRowPasses, Shared,
                  Graduated, Landed, Validated, Curated, Logged
<1>6. QED
      BY <1>1, <1>2, <1>4, <1>5 DEF IInv

-----------------------------------------------------------------------------
(* The actions. *)

LEMMA InitIInv ==
  ASSUME Init
  PROVE  IInv
<1>1. TypeOK
      BY DEF Init, TypeOK
<1>2. QueueInv(req, proposal)
      BY DEF Init, QueueInv, RequestIsSound, Idle, Deciding, NoProposal
<1>3. SharedRowsWereDecided /\ LandedNotesPass
      BY DEF Init, SharedRowsWereDecided, LandedNotesPass, Shared, Landed, Logged, NoRow
<1>4. QED
      BY <1>1, <1>2, <1>3 DEF IInv

LEMMA ProposeBeginKeeps ==
  ASSUME IInv, NEW p \in Workers, NEW a \in Agents, ProposeBegin(p, a)
  PROVE  IInv'
<1>1. PICK name \in NamesGiven, body \in Bodies, c \in Captures :
        Start(p, [op |-> "propose", by |-> a,
                  row |-> Pending(name, body, a, SensitivityOf(c))])
      BY DEF ProposeBegin
<1>2. DEFINE row == Pending(name, body, a, SensitivityOf(c))
             x == [op |-> "propose", by |-> a, row |-> row]
<1>3. row \in Proposal /\ Undecided(row)
      BY SensitivityIsTyped, PendingRow
<1> HIDE DEF row
<1>4. x \in Requests /\ ~Deciding(x) /\ RequestIsSound(x, proposal)
      BY <1>3 DEF Requests, ProposeRequest, Deciding, RequestIsSound
<1>5. QED
      BY <1>1, <1>4, StartKeepsIInv DEF row

LEMMA VersionsAreTyped ==
  ASSUME TypeOK, NEW a, NEW name
  PROVE  VersionsOf(a, name) \subseteq Version
<1>1. ASSUME NEW n \in Named(a, name)
      PROVE  [note |-> n, author |-> memory[n].author, share |-> memory[n].share] \in Version
  <2>1. n \in Notes /\ memory[n].live
        BY DEF Named, Seen
  <2>2. memory[n] \in Row
        BY <2>1, RowsDiffer DEF TypeOK
  <2>3. memory[n].author \in Agents /\ memory[n].share \in {"personal", "trusted"}
        BY <2>2 DEF Row
  <2>4. QED
        BY <2>1, <2>3 DEF Version
<1>2. QED
      BY <1>1 DEF VersionsOf

LEMMA IngestBeginKeeps ==
  ASSUME IInv, NEW p \in Workers, NEW a \in Agents, IngestBegin(p, a)
  PROVE  IInv'
<1>1. PICK author \in Agents, name \in NamesGiven, body \in Bodies, c \in Captures :
      \E lz \in LessonsFor(name, body) :
        LET verdict == Verdict(a, name, body)
            lands   == Lands(c, verdict, lz, SameName(a, name), AutoSupersede(a, author, name))
            row     == Pending(name, body, author, SensitivityOf(c))
        IN  /\ verdict # "skip_dup"
            /\ \/ /\ lands
                  /\ Start(p, [op |-> "land", by |-> a, trust |-> EffectiveTrust(c),
                               spans |-> c.spans, seen |-> VersionsOf(a, name), row |-> row])
               \/ /\ ~lands
                  /\ Start(p, [op |-> "queue", by |-> a, row |->
                        IF DecideOne(c, verdict, lz) = "drop"
                        THEN [row EXCEPT !.status = "rejected"] ELSE row])
      BY DEF IngestBegin
<1> DEFINE row == Pending(name, body, author, SensitivityOf(c))
           dropped == [row EXCEPT !.status = "rejected"]
           land == [op |-> "land", by |-> a, trust |-> EffectiveTrust(c), spans |-> c.spans,
                    seen |-> VersionsOf(a, name), row |-> row]
           queued(r) == [op |-> "queue", by |-> a, row |-> r]
           verdict == Verdict(a, name, body)
<1>2. PICK lz \in LessonsFor(name, body) :
        \/ /\ Lands(c, verdict, lz, SameName(a, name), AutoSupersede(a, author, name))
           /\ Start(p, land)
        \/ Start(p, queued(row)) \/ Start(p, queued(dropped))
      BY <1>1
<1>3. /\ row \in Proposal /\ Undecided(row) /\ row.sens = SensitivityOf(c)
      /\ row.name = name /\ row.author = author
      BY SensitivityIsTyped, PendingRow DEF Pending
<1>4. a \in Reviewers
      BY DEF IngestBegin, Managers, Reviewers
<1> HIDE DEF row, verdict
<1>5. CASE /\ Lands(c, verdict, lz, SameName(a, name), AutoSupersede(a, author, name))
           /\ Start(p, land)
  <2>1. LandSensitive \/ ~Private(SensitivityOf(c))
        BY <1>5, GateSparesPrivate
  <2>2. name # None => Owned(VersionsOf(a, name), author)
        BY <1>5, GateSparesOthers
  <2>3. c.spans \subseteq SpanKinds
        BY QueueAssumption
  <2>4. EffectiveTrust(c) = "trusted" => FirstPartySpans(c.spans)
        BY <2>3, TrustIsFirstParty
  <2>5. EffectiveTrust(c) \in {"quarantined", "trusted"}
        BY DEF EffectiveTrust
  <2>6. VersionsOf(a, name) \in SUBSET Version
        BY VersionsAreTyped DEF IInv
  <2>7. land \in Requests
        BY <1>3, <2>3, <2>5, <2>6 DEF Requests, LandRequest
  <2>8. ~Deciding(land) /\ RequestIsSound(land, proposal)
        BY <1>3, <1>4, <2>1, <2>2, <2>4 DEF Deciding, RequestIsSound
  <2>9. QED
        BY <1>5, <2>7, <2>8, StartKeepsIInv
<1>6. ASSUME NEW r \in Proposal, r.status \in {"pending", "rejected"}, r.by = None,
             r.target = None, Start(p, queued(r))
      PROVE  IInv'
  <2>1. queued(r) \in Requests
        BY DEF Requests, QueueRequest
  <2>2. ~Deciding(queued(r)) /\ RequestIsSound(queued(r), proposal)
        BY <1>6 DEF Deciding, RequestIsSound
  <2>3. QED
        BY <1>6, <2>1, <2>2, StartKeepsIInv
<1>7. row.status \in {"pending", "rejected"} /\ row.by = None /\ row.target = None
      BY <1>3 DEF Undecided
<1>8. /\ dropped \in Proposal /\ dropped.status \in {"pending", "rejected"}
      /\ dropped.by = None /\ dropped.target = None
      BY <1>3, <1>7 DEF Proposal
<1> HIDE DEF dropped
<1>9. CASE Start(p, queued(row))
      BY <1>3, <1>6, <1>7, <1>9
<1>10. CASE Start(p, queued(dropped))
      BY <1>6, <1>8, <1>10
<1>11. QED
      BY <1>2, <1>5, <1>9, <1>10

LEMMA TaughtIsTyped ==
  ASSUME TypeOK, NEW i \in Proposals, proposal[i].status = "pending", NEW asked,
         NEW given \in PatternsGiven, NEW severity \in Severities
  PROVE  Taught(i, asked, given, severity) \in SUBSET Lesson
<1> DEFINE pattern == IF given # None THEN given ELSE proposal[i].name
           l == [title |-> proposal[i].name, pattern |-> pattern, severity |-> severity]
<1>1. proposal[i] \in Proposal
      BY ProposalCases DEF TypeOK
<1>2. proposal[i].name \in OrNone(Names)
      BY <1>1 DEF Proposal
<1>3. pattern # None => pattern \in Names \cup Bodies
      BY <1>2, QueueAssumption DEF OrNone
<1>4. pattern # None => l \in Lesson
      BY <1>2, <1>3 DEF Lesson
<1> HIDE DEF l, pattern
<1>5. Taught(i, asked, given, severity) \subseteq {l} /\ (Taught(i, asked, given, severity) # {} => pattern # None)
      BY DEF Taught, l, pattern
<1>6. QED
      BY <1>4, <1>5

LEMMA DecideBeginKeeps ==
  ASSUME IInv, NEW p \in Workers, NEW a \in Agents, NEW i \in Proposals, DecideBegin(p, a, i)
  PROVE  IInv'
<1>1. /\ a \in Reviewers /\ proposal[i].status = "pending"
      /\ \A q \in Workers : Deciding(req[q]) => req[q].id # i
      BY DEF DecideBegin, Decidable, Locked, Deciding
<1>2. PICK op \in {"approve", "reject"}, teach \in SUBSET Lesson :
        Start(p, [op |-> op, by |-> a, id |-> i, teach |-> teach])
  <2>1. CASE Start(p, [op |-> "approve", by |-> a, id |-> i, teach |-> {}])
        BY <2>1
  <2>2. CASE \E asked \in BOOLEAN, given \in PatternsGiven, severity \in Severities :
               Start(p, [op |-> "reject", by |-> a, id |-> i,
                         teach |-> Taught(i, asked, given, severity)])
    <3>1. PICK asked \in BOOLEAN, given \in PatternsGiven, severity \in Severities :
               Start(p, [op |-> "reject", by |-> a, id |-> i,
                         teach |-> Taught(i, asked, given, severity)])
          BY <2>2
    <3>2. Taught(i, asked, given, severity) \in SUBSET Lesson
          BY <1>1, TaughtIsTyped DEF IInv
    <3>3. QED
          BY <3>1, <3>2
  <2>3. QED
        BY <2>1, <2>2 DEF DecideBegin
<1> DEFINE x == [op |-> op, by |-> a, id |-> i, teach |-> teach]
<1>3. x \in Requests /\ x.id = i /\ Deciding(x)
      BY DEF Requests, DecideRequest, Deciding
<1>4. RequestIsSound(x, proposal)
      BY <1>1, <1>2 DEF RequestIsSound, Deciding
<1>5. QED
      BY <1>1, <1>2, <1>3, <1>4, StartKeepsIInv

LEMMA AbortKeeps ==
  ASSUME IInv, NEW p \in Workers, Abort(p)
  PROVE  IInv'
<1>1. Finish(p) /\ UNCHANGED <<memory, proposal, lesson, superseded, log>>
      BY DEF Abort
<1>2. /\ QueueInv(req', proposal)
      /\ req' \in [Workers -> Requests \cup {Idle}]
      BY <1>1, FinishKeepsQueue DEF IInv
<1>3. TypeOK'
      BY <1>1, <1>2 DEF IInv, TypeOK
<1>4. SharedRowsWereDecided' /\ LandedNotesPass'
      BY <1>1 DEF IInv, SharedRowsWereDecided, LandedNotesPass, Backs, LandedRowPasses, Shared,
                  Graduated, Landed, Validated, Curated, Logged
<1>5. QED
      BY <1>1, <1>2, <1>3, <1>4 DEF IInv

(* A proposal is inserted, as a request that ends has it. *)
LEMMA ArrivalKeeps ==
  ASSUME IInv, NEW p \in Workers, NEW i \in Proposals, FreshProposal(i), NEW row \in Proposal,
         row.status = "pending" => Undecided(row),
         proposal' = [proposal EXCEPT ![i] = row], Finish(p),
         UNCHANGED <<memory, lesson, superseded, log>>
  PROVE  IInv'
<1>1. /\ proposal \in [Proposals -> Proposal \cup {NoProposal}]
      /\ proposal[i].status = "absent"
      BY DEF IInv, TypeOK, FreshProposal, NoProposal
<1>2. /\ proposal'[i] = row
      /\ \A j \in Proposals \ {i} : proposal'[j] = proposal[j]
      BY <1>1
<1>3. \A q \in Workers : Deciding(req[q]) => req[q].id # i
      BY <1>1 DEF IInv, QueueInv, RequestIsSound
<1>4. /\ QueueInv(req', proposal')
      /\ req' \in [Workers -> Requests \cup {Idle}]
      BY <1>2, <1>3, FinishKeepsQueue DEF IInv
<1>5. TypeOK'
      BY <1>1, <1>4 DEF IInv, TypeOK
<1>6. SharedRowsWereDecided'
  <2>1. \A j \in Proposals, n \in Notes :
          Backs(proposal[j], n, memory[n]) => proposal'[j] = proposal[j]
        BY <1>1, <1>2 DEF Backs
  <2>2. QED
        BY <2>1 DEF IInv, SharedRowsWereDecided, Shared, Graduated, Backs, Curated, Logged
<1>7. LandedNotesPass'
      BY DEF IInv, LandedNotesPass, LandedRowPasses, Graduated, Landed, Validated, Curated,
             Logged
<1>8. QED
      BY <1>4, <1>5, <1>6, <1>7 DEF IInv

LEMMA ProposeEndKeeps ==
  ASSUME IInv, NEW p \in Workers, ProposeEnd(p)
  PROVE  IInv'
<1>1. req[p] \in ProposeRequest /\ RequestIsSound(req[p], proposal)
      BY RequestFields DEF ProposeEnd, IInv, QueueInv
<1>2. req[p].row \in Proposal /\ Undecided(req[p].row)
      BY <1>1 DEF ProposeRequest, RequestIsSound, ProposeEnd
<1>3. QED
      BY <1>2, ArrivalKeeps DEF ProposeEnd

(* What a queued capture becomes. *)
LEMMA QueuedRow ==
  ASSUME IInv, NEW p \in Workers, req[p].op \in {"queue", "land"}
  PROVE  /\ req[p].row \in Proposal /\ req[p].row.status \in {"pending", "rejected"}
         /\ req[p].row.by = None /\ req[p].row.target = None
<1>1. /\ req[p] \in QueueRequest \cup LandRequest /\ RequestIsSound(req[p], proposal)
      BY RequestFields DEF IInv, QueueInv
<1>2. req[p].row \in Proposal
      BY <1>1 DEF QueueRequest, LandRequest
<1>3. QED
      BY <1>1, <1>2 DEF RequestIsSound, Undecided

LEMMA IngestQueueKeeps ==
  ASSUME IInv, NEW p \in Workers, IngestQueue(p)
  PROVE  IInv'
<1>1. req[p].row \in Proposal /\ (req[p].row.status = "pending" => Undecided(req[p].row))
      BY QueuedRow DEF IngestQueue, Undecided
<1>2. QED
      BY <1>1, ArrivalKeeps DEF IngestQueue

LEMMA RejectEndKeeps ==
  ASSUME IInv, NEW p \in Workers, RejectEnd(p)
  PROVE  IInv'
<1> DEFINE i == req[p].id
<1>1. /\ req[p] \in DecideRequest /\ Deciding(req[p]) /\ RequestIsSound(req[p], proposal)
      BY RequestFields DEF RejectEnd, Deciding, IInv, QueueInv
<1>2. /\ i \in Proposals /\ req[p].by \in Agents /\ req[p].teach \subseteq Lesson
      /\ proposal[i].status = "pending"
      BY <1>1 DEF DecideRequest, RequestIsSound
<1>3. /\ proposal \in [Proposals -> Proposal \cup {NoProposal}]
      /\ proposal[i] \in Proposal
      BY <1>2, ProposalCases DEF IInv, TypeOK
<1>4. /\ proposal' = [proposal EXCEPT ![i].status = "rejected", ![i].by = req[p].by]
      /\ lesson' = lesson \cup req[p].teach
      /\ Finish(p) /\ UNCHANGED <<memory, superseded, log>>
      BY DEF RejectEnd
<1>5. /\ proposal'[i] = [proposal[i] EXCEPT !.status = "rejected", !.by = req[p].by]
      /\ \A j \in Proposals \ {i} : proposal'[j] = proposal[j]
      BY <1>2, <1>3, <1>4
<1>6. /\ proposal'[i] \in Proposal /\ proposal'[i].status = "rejected"
      BY <1>2, <1>3, <1>5 DEF Proposal, OrNone
<1>7. \A q \in Workers \ {p} : Deciding(req[q]) => req[q].id # i
      BY <1>1 DEF IInv, QueueInv
<1>8. /\ QueueInv(req', proposal')
      /\ req' \in [Workers -> Requests \cup {Idle}]
  <2>1. \A j \in Proposals :
          \/ proposal'[j] = proposal[j]
          \/ /\ proposal'[j].status = "pending" => Undecided(proposal'[j])
             /\ \A q \in Workers \ {p} : Deciding(req[q]) => req[q].id # j
        BY <1>5, <1>6, <1>7
  <2>2. QED
        BY <1>4, <2>1, FinishKeepsQueue DEF IInv
<1>9. lesson' \subseteq Lesson
      BY <1>2, <1>4 DEF IInv, TypeOK
<1>10. proposal' \in [Proposals -> Proposal \cup {NoProposal}]
      BY <1>2, <1>3, <1>4, <1>6
<1>11. TypeOK'
      BY <1>4, <1>8, <1>9, <1>10 DEF IInv, TypeOK
<1>12. SharedRowsWereDecided'
  <2>1. \A j \in Proposals, n \in Notes :
          Backs(proposal[j], n, memory[n]) => proposal'[j] = proposal[j]
    <3>1. \A j \in Proposals, n \in Notes :
            Backs(proposal[j], n, memory[n]) => proposal[j].status = "approved"
          BY DEF Backs
    <3>2. \A j \in Proposals : proposal[j].status = "approved" => j # i
          BY <1>2
    <3>3. QED
          BY <1>5, <3>1, <3>2
  <2>2. ASSUME NEW n \in Notes, Shared(n)', ~Graduated(n)'
        PROVE  \E j \in Proposals : Backs(proposal[j], n, memory[n])'
    <3>1. Shared(n) /\ ~Graduated(n)
          BY <1>4, <2>2 DEF Shared, Graduated, Logged
    <3>2. PICK j \in Proposals : Backs(proposal[j], n, memory[n])
          BY <3>1 DEF IInv, SharedRowsWereDecided
    <3>3. Backs(proposal[j], n, memory[n])'
          BY <1>4, <2>1, <3>2 DEF Backs, Curated, Logged
    <3>4. QED
          BY <3>3
  <2>3. QED
        BY <2>2 DEF SharedRowsWereDecided
<1>13. LandedNotesPass'
      BY <1>4 DEF IInv, LandedNotesPass, LandedRowPasses, Graduated, Landed, Validated, Curated,
                  Logged
<1>14. QED
      BY <1>8, <1>11, <1>12, <1>13 DEF IInv

(* Two facts that no step but a verdict changes: what the log says of      *)
(* verdicts, and the rows of the notes it does not replace.                *)
LEMMA OldNotesStayDecided ==
  ASSUME IInv, NEW n \in Notes,
         \A m \in Notes \ {n} : memory'[m] = memory[m] \/ memory'[m] = Retired,
         \A m \in Notes : /\ Graduated(m)' <=> Graduated(m)
                          /\ Curated(m)' <=> Curated(m)
                          /\ Validated(m)' <=> Validated(m),
         \A m \in Notes \ {n} : Landed(m)' <=> Landed(m),
         \A j \in Proposals : proposal[j].status = "approved" => proposal'[j] = proposal[j],
         Shared(n)' /\ ~Graduated(n) => \E i \in Proposals : Backs(proposal[i], n, memory[n])',
         Landed(n)' => LandedRowPasses(n, memory[n])'
  PROVE  SharedRowsWereDecided' /\ LandedNotesPass'
<1>1. ASSUME NEW m \in Notes, Shared(m)', ~Graduated(m)'
      PROVE  \E i \in Proposals : Backs(proposal[i], m, memory[m])'
  <2>1. CASE m = n
        BY <1>1, <2>1
  <2>2. CASE m # n
    <3>1. memory'[m] = memory[m]
          BY <1>1, <2>2, RowsDiffer DEF Shared
    <3>2. Shared(m) /\ ~Graduated(m)
          BY <1>1, <3>1 DEF Shared
    <3>3. PICK i \in Proposals : Backs(proposal[i], m, memory[m])
          BY <3>2 DEF IInv, SharedRowsWereDecided
    <3>4. proposal'[i] = proposal[i]
          BY <3>3 DEF Backs
    <3>5. Backs(proposal[i], m, memory[m])'
          BY <3>1, <3>3, <3>4 DEF Backs
    <3>6. QED
          BY <3>5
  <2>3. QED
        BY <2>1, <2>2
<1>2. ASSUME NEW m \in Notes, Landed(m)'
      PROVE  LandedRowPasses(m, memory[m])'
  <2>1. CASE m = n
        BY <1>2, <2>1
  <2>2. CASE m # n
    <3>1. LandedRowPasses(m, memory[m])
          BY <1>2, <2>2 DEF IInv, LandedNotesPass
    <3>2. memory'[m] = memory[m] \/ memory'[m] = Retired
          BY <2>2
    <3>3. QED
          BY <3>1, <3>2, RowsDiffer DEF LandedRowPasses
  <2>3. QED
        BY <2>1, <2>2
<1>3. QED
      BY <1>1, <1>2 DEF SharedRowsWereDecided, LandedNotesPass

LEMMA IngestLandKeeps ==
  ASSUME IInv, NEW p \in Workers, IngestLand(p)
  PROVE  IInv'
<1> DEFINE r == req[p]
           row == Built(r.row, "personal", r.trust, r.spans)
           prior == Prior(r.by, r.row)
<1>1. r.op = "land"
      BY DEF IngestLand
<1>2. r \in LandRequest /\ RequestIsSound(r, proposal)
      BY <1>1, RequestFields DEF IInv, QueueInv
<1>3. /\ r.by \in Reviewers /\ r.row \in Proposal
      /\ r.trust \in {"quarantined", "trusted"} /\ r.spans \in SUBSET SpanKinds
      /\ LandSensitive \/ ~Private(r.row.sens)
      /\ r.trust = "trusted" => FirstPartySpans(r.spans)
      BY <1>1, <1>2 DEF LandRequest, RequestIsSound
<1>4. /\ row \in Row /\ row.live /\ row.share = "personal" /\ row.trust = r.trust
      /\ row.sens = r.row.sens /\ row.spans = r.spans
      BY <1>3, BuiltRow, ProposalFields
<1>5. PICK n \in Notes :
        /\ Fresh(n) /\ memory' = Replaced(r.by, prior, n, row)
        /\ superseded' = superseded \cup Edges(n, prior)
        /\ log' = log \cup {[action |-> "autolearn_personal", note |-> n]}
      BY DEF IngestLand
<1>6. Finish(p) /\ UNCHANGED <<proposal, lesson>>
      BY DEF IngestLand
<1> HIDE DEF row
<1>7. /\ prior \subseteq Notes
      /\ memory' \in [Notes -> Row \cup {NoRow, Retired}]
      /\ memory'[n] = row
      /\ \A m \in Notes \ {n} : memory'[m] = memory[m] \/ memory'[m] = Retired
      BY <1>3, <1>4, <1>5, ReplacedTable DEF IInv
<1>8. superseded' \subseteq Notes \X Notes
      BY <1>5, <1>7 DEF IInv, TypeOK, Edges
<1>9. /\ QueueInv(req', proposal')
      /\ req' \in [Workers -> Requests \cup {Idle}]
      BY <1>6, FinishKeepsQueue DEF IInv
<1>10. log' \subseteq Entry
      BY <1>5 DEF IInv, TypeOK, Entry
<1>11. TypeOK'
      BY <1>6, <1>7, <1>8, <1>9, <1>10 DEF IInv, TypeOK
<1>12. /\ \A m \in Notes : /\ Graduated(m)' <=> Graduated(m)
                           /\ Curated(m)' <=> Curated(m)
                           /\ Validated(m)' <=> Validated(m)
       /\ \A m \in Notes \ {n} : Landed(m)' <=> Landed(m)
      BY <1>5 DEF Graduated, Landed, Validated, Curated, Logged
<1>13. ~Shared(n)'
      BY <1>4, <1>7 DEF Shared
<1>14. LandedRowPasses(n, memory[n])'
      BY <1>3, <1>4, <1>7, RowsDiffer DEF LandedRowPasses
<1>15. SharedRowsWereDecided' /\ LandedNotesPass'
      BY <1>6, <1>7, <1>12, <1>13, <1>14, OldNotesStayDecided
<1>16. QED
      BY <1>9, <1>11, <1>15 DEF IInv

LEMMA ApproveEndKeeps ==
  ASSUME IInv, NEW p \in Workers, ApproveEnd(p)
  PROVE  IInv'
<1> DEFINE r == req[p]
           i == r.id
           row == Built(proposal[i], "trusted", "trusted", {})
           prior == Prior(r.by, proposal[i])
<1>1. /\ r \in DecideRequest /\ Deciding(r) /\ RequestIsSound(r, proposal)
      BY RequestFields DEF ApproveEnd, Deciding, IInv, QueueInv
<1>2. i \in Proposals /\ r.by \in Agents /\ r.by \in Reviewers /\ proposal[i].status = "pending"
      BY <1>1 DEF DecideRequest, RequestIsSound
<1>3. /\ proposal \in [Proposals -> Proposal \cup {NoProposal}]
      /\ proposal[i] \in Proposal
      BY <1>2, ProposalCases DEF IInv, TypeOK
<1>4. /\ row \in Row /\ row.live
      /\ row.name = StoredName(proposal[i]) /\ row.body = proposal[i].body
      BY <1>3, BuiltRow, ProposalFields
<1>5. PICK n \in Notes :
        /\ Fresh(n) /\ memory' = Replaced(r.by, prior, n, row)
        /\ proposal' = [proposal EXCEPT ![i].status = "approved", ![i].by = r.by,
                                        ![i].target = n]
        /\ superseded' = superseded \cup Edges(n, prior)
      BY DEF ApproveEnd, Accepted
<1>6. Finish(p) /\ UNCHANGED <<lesson, log>>
      BY DEF ApproveEnd
<1> HIDE DEF row
<1>7. /\ prior \subseteq Notes
      /\ memory' \in [Notes -> Row \cup {NoRow, Retired}]
      /\ memory'[n] = row
      /\ \A m \in Notes \ {n} : memory'[m] = memory[m] \/ memory'[m] = Retired
      BY <1>2, <1>4, <1>5, ReplacedTable DEF IInv
<1>8. superseded' \subseteq Notes \X Notes
      BY <1>5, <1>7 DEF IInv, TypeOK, Edges
<1>9. /\ proposal'[i] = [proposal[i] EXCEPT !.status = "approved", !.by = r.by, !.target = n]
      /\ \A j \in Proposals \ {i} : proposal'[j] = proposal[j]
      BY <1>2, <1>3, <1>5
<1>10. /\ proposal'[i] \in Proposal /\ proposal'[i].status = "approved"
       /\ proposal'[i].by = r.by /\ proposal'[i].target = n
       /\ StoredName(proposal'[i]) = StoredName(proposal[i])
       /\ proposal'[i].body = proposal[i].body
      BY <1>2, <1>3, <1>9 DEF Proposal, OrNone, StoredName
<1>11. /\ QueueInv(req', proposal')
       /\ req' \in [Workers -> Requests \cup {Idle}]
  <2>1. \A q \in Workers \ {p} : Deciding(req[q]) => req[q].id # i
        BY <1>1 DEF IInv, QueueInv
  <2>2. \A j \in Proposals :
          \/ proposal'[j] = proposal[j]
          \/ /\ proposal'[j].status = "pending" => Undecided(proposal'[j])
             /\ \A q \in Workers \ {p} : Deciding(req[q]) => req[q].id # j
        BY <1>9, <1>10, <2>1
  <2>3. QED
        BY <1>6, <2>2, FinishKeepsQueue DEF IInv
<1>12. proposal' \in [Proposals -> Proposal \cup {NoProposal}]
      BY <1>2, <1>3, <1>5, <1>10
<1>13. TypeOK'
      BY <1>6, <1>7, <1>8, <1>11, <1>12 DEF IInv, TypeOK
<1>14. \A m \in Notes :
         /\ Graduated(m)' <=> Graduated(m)
         /\ Curated(m)' <=> Curated(m)
         /\ Validated(m)' <=> Validated(m)
         /\ Landed(m)' <=> Landed(m)
      BY <1>6 DEF Graduated, Landed, Validated, Curated, Logged
<1>15. \E j \in Proposals : Backs(proposal[j], n, memory[n])'
  <2>1. PICK j \in Proposals : j = i
        BY <1>2
  <2>2. Backs(proposal[j], n, memory[n])'
        BY <1>2, <1>4, <1>7, <1>10, <2>1 DEF Backs
  <2>3. QED
        BY <2>2
<1>16. ~Landed(n)'
      BY <1>5, <1>14 DEF IInv, LandedNotesPass, LandedRowPasses, Fresh
<1>17. \A j \in Proposals : proposal[j].status = "approved" => proposal'[j] = proposal[j]
  <2>1. \A j \in Proposals : proposal[j].status = "approved" => j # i
        BY <1>2
  <2>2. QED
        BY <1>9, <2>1
<1>18. SharedRowsWereDecided' /\ LandedNotesPass'
      BY <1>7, <1>14, <1>15, <1>16, <1>17, OldNotesStayDecided
<1>19. QED
      BY <1>11, <1>13, <1>18 DEF IInv

LEMMA RememberKeeps ==
  ASSUME IInv, NEW a \in Agents, NEW n \in Notes, Remember(a, n)
  PROVE  IInv'
<1>1. PICK name \in Names, body \in Bodies :
      LET row == [Built([name |-> name, body |-> body, author |-> a, sens |-> "normal"],
                        "personal", "quarantined", {}) EXCEPT !.readers = {a}]
          table == [memory EXCEPT ![n] = row]
      IN  memory' = table
      BY DEF Remember
<1> DEFINE given == [name |-> name, body |-> body, author |-> a, sens |-> "normal"]
           row == [Built(given, "personal", "quarantined", {}) EXCEPT !.readers = {a}]
<1>2. memory' = [memory EXCEPT ![n] = row]
      BY <1>1
<1>3. Fresh(n) /\ UNCHANGED <<proposal, lesson, superseded, log, req>>
      BY DEF Remember
<1>4. row \in Row /\ row.share = "personal"
  <2>1. Built(given, "personal", "quarantined", {}) \in Row
        BY BuiltRow DEF OrNone, Sensitivities
  <2>2. Built(given, "personal", "quarantined", {}).share = "personal"
        BY DEF Built
  <2>3. {a} \in SUBSET ReaderTokens
        BY DEF ReaderTokens
  <2>4. QED
        BY <2>1, <2>2, <2>3 DEF Row
<1> HIDE DEF row
<1>5. memory \in [Notes -> Row \cup {NoRow, Retired}] /\ memory[n] = NoRow
      BY <1>3 DEF IInv, TypeOK, Fresh
<1>6. memory'[n] = row /\ \A m \in Notes \ {n} : memory'[m] = memory[m]
      BY <1>2, <1>5
<1>7. TypeOK'
      BY <1>2, <1>3, <1>4, <1>5 DEF IInv, TypeOK
<1>8. QueueInv(req, proposal)'
      BY <1>3 DEF IInv, QueueInv, RequestIsSound, Deciding
<1>9. SharedRowsWereDecided'
      BY <1>3, <1>4, <1>6 DEF IInv, SharedRowsWereDecided, Shared, Graduated, Backs, Curated,
                              Logged
<1>10. ~Landed(n)'
      BY <1>3, <1>5 DEF IInv, LandedNotesPass, LandedRowPasses, Landed, Logged
<1>11. LandedNotesPass'
      BY <1>3, <1>6, <1>10 DEF IInv, LandedNotesPass, LandedRowPasses, Landed, Graduated, Validated,
                               Curated, Logged
<1>12. QED
      BY <1>7, <1>8, <1>9, <1>11 DEF IInv

(* What a verdict of each kind may do to a row. *)
VerdictFits(action, old, row) ==
  /\ row.live /\ row.spans = old.spans
  /\ row.sens = old.sens \/ action = "curate_edit"
  /\ row.trust = old.trust \/ action \in {"memory_self_validate", "provisional_graduate"}
  /\ row.share = old.share \/ action = "provisional_graduate"
  /\ \/ row.name = old.name /\ row.body = old.body
     \/ action \in {"curate_edit", "provisional_graduate"}

LEMMA VerdictKeeps ==
  ASSUME IInv, NEW n \in Notes, memory[n].live, NEW row \in Row,
         NEW action \in {"memory_self_validate", "provisional_graduate", "curate_edit"},
         VerdictFits(action, memory[n], row),
         memory' = [memory EXCEPT ![n] = row], Log(action, n),
         UNCHANGED <<proposal, lesson, superseded, req>>
  PROVE  IInv'
<1>1. memory \in [Notes -> Row \cup {NoRow, Retired}]
      BY DEF IInv, TypeOK
<1>2. memory'[n] = row /\ \A m \in Notes \ {n} : memory'[m] = memory[m]
      BY <1>1
<1>3. log' = log \cup {[action |-> action, note |-> n]}
      BY DEF Log
<1>4. /\ Graduated(n)' <=> Graduated(n) \/ action = "provisional_graduate"
      /\ Validated(n)' <=> Validated(n) \/ action = "memory_self_validate"
      /\ Curated(n)' <=> Curated(n) \/ action = "curate_edit"
      /\ Landed(n)' <=> Landed(n)
      BY <1>3 DEF Graduated, Validated, Curated, Landed, Logged
<1>5. \A m \in Notes \ {n} :
        /\ Graduated(m)' <=> Graduated(m)
        /\ Validated(m)' <=> Validated(m)
        /\ Curated(m)' <=> Curated(m)
        /\ Landed(m)' <=> Landed(m)
      BY <1>3 DEF Graduated, Validated, Curated, Landed, Logged
<1>6. TypeOK'
  <2>1. log' \subseteq Entry
        BY <1>3 DEF IInv, TypeOK, Entry
  <2>2. memory' \in [Notes -> Row \cup {NoRow, Retired}]
        BY <1>1
  <2>3. QED
        BY <2>1, <2>2 DEF IInv, TypeOK
<1>7. QueueInv(req, proposal)'
      BY DEF IInv, QueueInv, RequestIsSound, Deciding
<1>8. SharedRowsWereDecided'
  <2>1. ASSUME NEW m \in Notes, Shared(m)', ~Graduated(m)'
        PROVE  \E j \in Proposals : Backs(proposal[j], m, memory[m])'
    <3>1. Shared(m) /\ ~Graduated(m)
          BY <1>2, <1>4, <1>5, <2>1 DEF Shared, VerdictFits
    <3>2. PICK j \in Proposals : Backs(proposal[j], m, memory[m])
          BY <3>1 DEF IInv, SharedRowsWereDecided
    <3>3. Backs(proposal[j], m, memory[m])'
      <4>1. CASE m = n
            BY <1>2, <1>4, <2>1, <3>2, <4>1 DEF Backs, VerdictFits
      <4>2. CASE m # n
            BY <1>2, <1>5, <3>2, <4>2 DEF Backs
      <4>3. QED
            BY <4>1, <4>2
    <3>4. QED
          BY <3>3
  <2>2. QED
        BY <2>1 DEF SharedRowsWereDecided
<1>9. LandedNotesPass'
  <2>1. ASSUME NEW m \in Notes, Landed(m)'
        PROVE  LandedRowPasses(m, memory[m])'
    <3>1. LandedRowPasses(m, memory[m])
          BY <1>4, <1>5, <2>1 DEF IInv, LandedNotesPass
    <3>2. CASE m = n
          BY <1>2, <1>4, <3>1, <3>2, RowsDiffer DEF LandedRowPasses, VerdictFits
    <3>3. CASE m # n
          BY <1>2, <1>5, <3>1, <3>3 DEF LandedRowPasses
    <3>4. QED
          BY <3>2, <3>3
  <2>2. QED
        BY <2>1 DEF LandedNotesPass
<1>10. QED
      BY <1>6, <1>7, <1>8, <1>9 DEF IInv

LEMMA LiveRow ==
  ASSUME TypeOK, NEW n \in Notes, memory[n].live
  PROVE  memory[n] \in Row
BY RowsDiffer DEF TypeOK

LEMMA ValidateKeeps ==
  ASSUME IInv, NEW a \in Agents, NEW n \in Notes, Validate(a, n)
  PROVE  IInv'
<1> DEFINE old == memory[n]
           row == [old EXCEPT !.trust = "trusted"]
<1>1. /\ old.live /\ memory' = [memory EXCEPT ![n].trust = "trusted"]
      /\ Log("memory_self_validate", n)
      /\ UNCHANGED <<proposal, lesson, superseded, req>>
      BY DEF Validate
<1>2. old \in Row /\ memory' = [memory EXCEPT ![n] = row]
      BY <1>1, LiveRow DEF IInv
<1> HIDE DEF old
<1>3. row \in Row /\ VerdictFits("memory_self_validate", old, row)
      BY <1>2 DEF Row, VerdictFits
<1> HIDE DEF row
<1>4. QED
      BY <1>1, <1>2, <1>3, VerdictKeeps DEF old

LEMMA AmendedRow ==
  ASSUME NEW old \in Row, NEW name \in OrNone(Names), NEW body \in Bodies
  PROVE  LET row == Amended(old, name, body)
         IN  /\ row \in Row /\ row.live /\ row.spans = old.spans /\ row.sens = old.sens
             /\ row.trust = old.trust /\ row.share = old.share
BY DEF Amended, Row

LEMMA GraduateKeeps ==
  ASSUME IInv, NEW a \in Agents, NEW n \in Notes, Graduate(a, n)
  PROVE  IInv'
<1> DEFINE old == memory[n]
<1>1. PICK name \in (NamesGiven \ {None}) \cup {old.name}, body \in Bodies,
           readers \in (ReadersGiven \ {{}}) \cup {GraduationReaders(old)} :
        memory' = [memory EXCEPT ![n] = [Amended(old, name, body) EXCEPT
                     !.share = "trusted", !.trust = "trusted", !.readers = readers]]
      BY DEF Graduate
<1>2. /\ old.live /\ Log("provisional_graduate", n)
      /\ UNCHANGED <<proposal, lesson, superseded, req>>
      BY DEF Graduate
<1>3. old \in Row
      BY <1>2, LiveRow DEF IInv
<1> DEFINE new == Amended(old, name, body)
           row == [new EXCEPT !.share = "trusted", !.trust = "trusted", !.readers = readers]
<1> HIDE DEF old
<1>4. name \in OrNone(Names)
      BY <1>3, QueueAssumption DEF Row
<1>5. new \in Row /\ new.live /\ new.spans = old.spans /\ new.sens = old.sens
      BY <1>3, <1>4, AmendedRow
<1>6. readers \in SUBSET ReaderTokens
  <2>1. GraduationReaders(old) \in SUBSET ReaderTokens
        BY <1>3 DEF GraduationReaders, DefaultReaders, ReaderTokens, GroupTokens, Row
  <2>2. QED
        BY <2>1, QueueAssumption
<1> HIDE DEF new
<1>7. row \in Row /\ VerdictFits("provisional_graduate", old, row)
      BY <1>5, <1>6 DEF Row, VerdictFits
<1>8. memory' = [memory EXCEPT ![n] = row]
      BY <1>1 DEF new, old
<1> HIDE DEF row
<1>9. QED
      BY <1>2, <1>7, <1>8, VerdictKeeps DEF old

LEMMA CurateEditKeeps ==
  ASSUME IInv, NEW a \in Agents, NEW n \in Notes, CurateEdit(a, n)
  PROVE  IInv'
<1> DEFINE old == memory[n]
<1>1. PICK name \in NamesGiven \cup {old.name}, body \in Bodies :
        \E sens \in SensGiven \cup {old.sens}, readers \in ReadersGiven \cup {old.readers} :
          memory' = [memory EXCEPT ![n] = [Amended(old, name, body) EXCEPT
                       !.sens = sens, !.readers = readers]]
  <2>1. \E name \in NamesGiven \cup {memory[n].name}, body \in Bodies :
        \E sens \in SensGiven \cup {memory[n].sens}, readers \in ReadersGiven \cup {memory[n].readers} :
          LET row   == [Amended(memory[n], name, body) EXCEPT !.sens = sens, !.readers = readers]
              table == [memory EXCEPT ![n] = row]
          IN  NamesUnique(table) /\ memory' = table
        BY DEF CurateEdit
  <2>2. PICK name \in NamesGiven \cup {memory[n].name}, body \in Bodies :
        \E sens \in SensGiven \cup {memory[n].sens}, readers \in ReadersGiven \cup {memory[n].readers} :
          LET row   == [Amended(memory[n], name, body) EXCEPT !.sens = sens, !.readers = readers]
              table == [memory EXCEPT ![n] = row]
          IN  NamesUnique(table) /\ memory' = table
        BY <2>1
  <2>3. \E sens \in SensGiven \cup {old.sens}, readers \in ReadersGiven \cup {old.readers} :
          memory' = [memory EXCEPT ![n] = [Amended(old, name, body) EXCEPT
                       !.sens = sens, !.readers = readers]]
        BY <2>2
  <2>4. QED
        BY <2>2, <2>3
<1> PICK sens \in SensGiven \cup {old.sens}, readers \in ReadersGiven \cup {old.readers} :
        memory' = [memory EXCEPT ![n] = [Amended(old, name, body) EXCEPT
                     !.sens = sens, !.readers = readers]]
      BY <1>1
<1>2. /\ old.live /\ Log("curate_edit", n)
      /\ UNCHANGED <<proposal, lesson, superseded, req>>
      BY DEF CurateEdit
<1>3. old \in Row
      BY <1>2, LiveRow DEF IInv
<1> DEFINE new == Amended(old, name, body)
           row == [new EXCEPT !.sens = sens, !.readers = readers]
<1> HIDE DEF old
<1>4. name \in OrNone(Names) /\ sens \in Sensitivities /\ readers \in SUBSET ReaderTokens
      BY <1>3, QueueAssumption DEF Row
<1>5. /\ new \in Row /\ new.live /\ new.spans = old.spans
      /\ new.trust = old.trust /\ new.share = old.share
      BY <1>3, <1>4, AmendedRow
<1> HIDE DEF new
<1>6. row \in Row /\ VerdictFits("curate_edit", old, row)
      BY <1>4, <1>5 DEF Row, VerdictFits
<1>7. memory' = [memory EXCEPT ![n] = row]
      BY DEF new, old
<1> HIDE DEF row
<1>8. QED
      BY <1>2, <1>6, <1>7, VerdictKeeps DEF old

LEMMA RetireKeeps ==
  ASSUME IInv, NEW n \in Notes, Retire(n)
  PROVE  IInv'
<1>1. /\ memory' = [memory EXCEPT ![n] = Retired]
      /\ UNCHANGED <<proposal, lesson, superseded, log, req>>
      BY DEF Retire
<1>2. memory \in [Notes -> Row \cup {NoRow, Retired}]
      BY DEF IInv, TypeOK
<1>3. memory'[n] = Retired /\ \A m \in Notes \ {n} : memory'[m] = memory[m]
      BY <1>1, <1>2
<1>4. TypeOK'
      BY <1>1, <1>2 DEF IInv, TypeOK
<1>5. QueueInv(req, proposal)'
      BY <1>1 DEF IInv, QueueInv, RequestIsSound, Deciding
<1>6. SharedRowsWereDecided'
      BY <1>1, <1>3, RowsDiffer DEF IInv, SharedRowsWereDecided, Shared, Graduated, Backs,
                                    Curated, Logged
<1>7. LandedNotesPass'
      BY <1>1, <1>3, RowsDiffer DEF IInv, LandedNotesPass, LandedRowPasses, Landed, Graduated,
                                    Validated, Curated, Logged
<1>8. QED
      BY <1>4, <1>5, <1>6, <1>7 DEF IInv

LEMMA StutterKeeps ==
  ASSUME IInv, UNCHANGED vars
  PROVE  IInv'
BY DEF vars, IInv, TypeOK, QueueInv, RequestIsSound, Deciding, SharedRowsWereDecided, Backs,
       Shared, LandedNotesPass, LandedRowPasses, Landed, Graduated, Validated, Curated, Logged

-----------------------------------------------------------------------------
LEMMA NextIInv ==
  ASSUME IInv, [Next]_vars
  PROVE  IInv'
<1>1. CASE UNCHANGED vars
      BY <1>1, StutterKeeps
<1>2. ASSUME NEW p \in Workers, NEW a \in Agents, ProposeBegin(p, a) \/ IngestBegin(p, a)
      PROVE  IInv'
      BY <1>2, ProposeBeginKeeps, IngestBeginKeeps
<1>3. ASSUME NEW p \in Workers, NEW a \in Agents, NEW i \in Proposals, DecideBegin(p, a, i)
      PROVE  IInv'
      BY <1>3, DecideBeginKeeps
<1>4. ASSUME NEW p \in Workers,
             \/ ProposeEnd(p) \/ IngestQueue(p) \/ IngestLand(p)
             \/ ApproveEnd(p) \/ RejectEnd(p) \/ Abort(p)
      PROVE  IInv'
      BY <1>4, ProposeEndKeeps, IngestQueueKeeps, IngestLandKeeps, ApproveEndKeeps,
         RejectEndKeeps, AbortKeeps
<1>5. ASSUME NEW a \in Agents, NEW n \in Notes,
             Remember(a, n) \/ Validate(a, n) \/ Graduate(a, n) \/ CurateEdit(a, n)
      PROVE  IInv'
      BY <1>5, RememberKeeps, ValidateKeeps, GraduateKeeps, CurateEditKeeps
<1>6. ASSUME NEW n \in Notes, Retire(n)
      PROVE  IInv'
      BY <1>6, RetireKeeps
<1>7. QED
      BY <1>1, <1>2, <1>3, <1>4, <1>5, <1>6 DEF Next

LEMMA Invariance == Spec => []IInv
<1>1. Init => IInv
      BY InitIInv
<1>2. IInv /\ [Next]_vars => IInv'
      BY NextIInv
<1>3. QED
      BY <1>1, <1>2, PTL DEF Spec

(* Every row, every request and every log entry keeps its type. *)
THEOREM TypeCorrectness == Spec => []TypeOK
<1>1. IInv => TypeOK
      BY DEF IInv
<1>2. QED
      BY <1>1, Invariance, PTL

(* Nothing is shared but by a review, or by a decision on a proposal that  *)
(* says what the note says until a reviewer edits it.                      *)
THEOREM SharingIsDecided == Spec => []SharedNotesWereDecided
<1>1. IInv => SharedNotesWereDecided
      BY DEF IInv, SharedNotesWereDecided, SharedRowsWereDecided, Backs
<1>2. QED
      BY <1>1, Invariance, PTL

(* What landed and no human has judged is not private and, if trusted,     *)
(* first-party.                                                            *)
THEOREM LandingPassesTheGate == Spec => []LandedNotesPassTheGate
<1>1. IInv => LandedNotesPassTheGate
      BY DEF IInv, LandedNotesPass, LandedRowPasses, LandedNotesPassTheGate, FirstPartySpans
<1>2. QED
      BY <1>1, Invariance, PTL

(* What the gate saw of another's notes, or of shared ones, is not what a  *)
(* landing with a name replaces.                                           *)
THEOREM LandingsReplaceOwnNotes == Spec => OnlyOvertakenLandingsReplaceOthers
<1> DEFINE Fine(p) ==
       req[p].op = "land" /\ req'[p] = Idle =>
         \A e \in superseded' \ superseded :
           LET version == [note |-> e[2], author |-> memory[e[2]].author,
                           share |-> memory[e[2]].share] IN
           \/ OwnPersonal(version, req[p].row.author)
           \/ version \notin req[p].seen
           \/ req[p].row.name = None
<1>1. ASSUME IInv, [Next]_vars, NEW p \in Workers
      PROVE  Fine(p)
  <2>1. req[p].op = "land" /\ req[p].row.name # None => Owned(req[p].seen, req[p].row.author)
        BY <1>1 DEF IInv, QueueInv, RequestIsSound
  <2>2. QED
        BY <2>1 DEF Owned
<1>2. IInv /\ [Next]_vars => \A p \in Workers : Fine(p)
      BY <1>1
<1>3. QED
      BY <1>2, Invariance, PTL DEF Spec, OnlyOvertakenLandingsReplaceOthers

-----------------------------------------------------------------------------
(* The queue implements ReviewQueue. *)

LEMMA ReviewInit ==
  ASSUME Init
  PROVE  Review!Init
BY DEF Init, Review!Init, NoProposal

LEMMA ReviewStutter ==
  ASSUME proposal' = proposal
  PROVE  UNCHANGED Review!vars
BY DEF Review!vars

LEMMA OneEntryChanges ==
  ASSUME NEW S, NEW F, NEW G, F = [j \in S |-> F[j]], G = [j \in S |-> G[j]], NEW i \in S,
         \A j \in S \ {i} : G[j] = F[j]
  PROVE  G = [F EXCEPT ![i] = G[i]]
<1>1. [F EXCEPT ![i] = G[i]] = [j \in S |-> IF j = i THEN G[i] ELSE F[j]]
      OBVIOUS
<1>2. QED
      BY <1>1

LEMMA ReviewArrive ==
  ASSUME IInv, NEW i \in Proposals, FreshProposal(i), NEW row \in Proposal,
         row.status \in {"pending", "rejected"}, row.by = None, row.target = None,
         proposal' = [proposal EXCEPT ![i] = row]
  PROVE  Review!Next
<1>1. /\ proposal \in [Proposals -> Proposal \cup {NoProposal}]
      /\ proposal[i].status = "absent" /\ proposal[i].by = None /\ proposal[i].target = None
      BY DEF IInv, TypeOK, FreshProposal, NoProposal
<1>2. proposal'[i] = row /\ \A j \in Proposals \ {i} : proposal'[j] = proposal[j]
      BY <1>1
<1>3. [j \in Proposals |-> proposal'[j].status]
        = [[j \in Proposals |-> proposal[j].status] EXCEPT ![i] = row.status]
  <2> DEFINE F == [j \in Proposals |-> proposal[j].status]
             G == [j \in Proposals |-> proposal'[j].status]
  <2>1. /\ F = [j \in Proposals |-> F[j]] /\ G = [j \in Proposals |-> G[j]]
        /\ G[i] = row.status /\ \A j \in Proposals \ {i} : G[j] = F[j]
        BY <1>2
  <2> HIDE DEF F, G
  <2>2. G = [F EXCEPT ![i] = row.status]
        BY <2>1, OneEntryChanges
  <2>3. QED
        BY <2>2 DEF F, G
<1>4. [j \in Proposals |-> proposal'[j].by] = [j \in Proposals |-> proposal[j].by]
      BY <1>1, <1>2
<1>5. {j \in Proposals : proposal'[j].target # None} = {j \in Proposals : proposal[j].target # None}
      BY <1>1, <1>2
<1>6. Review!Arrive(i)
      BY <1>1, <1>3, <1>4, <1>5 DEF Review!Arrive
<1>7. QED
      BY <1>6 DEF Review!Next

(* A decision of a pending proposal publishes it if it approves it. *)
LEMMA ReviewDecide ==
  ASSUME IInv, NEW i \in Proposals, proposal[i].status = "pending", NEW a \in Reviewers,
         NEW row, row.by = a, proposal' = [proposal EXCEPT ![i] = row],
         \/ row.status = "approved" /\ row.target # None
         \/ row.status = "rejected" /\ row.target = None
  PROVE  Review!Next
<1>1. /\ proposal \in [Proposals -> Proposal \cup {NoProposal}]
      /\ proposal[i].target = None
      BY DEF IInv, TypeOK, QueueInv, Undecided
<1>2. proposal'[i] = row /\ \A j \in Proposals \ {i} : proposal'[j] = proposal[j]
      BY <1>1
<1>3. [j \in Proposals |-> proposal'[j].status]
        = [[j \in Proposals |-> proposal[j].status] EXCEPT ![i] = row.status]
  <2> DEFINE F == [j \in Proposals |-> proposal[j].status]
             G == [j \in Proposals |-> proposal'[j].status]
  <2>1. /\ F = [j \in Proposals |-> F[j]] /\ G = [j \in Proposals |-> G[j]]
        /\ G[i] = row.status /\ \A j \in Proposals \ {i} : G[j] = F[j]
        BY <1>2
  <2> HIDE DEF F, G
  <2>2. G = [F EXCEPT ![i] = row.status]
        BY <2>1, OneEntryChanges
  <2>3. QED
        BY <2>2 DEF F, G
<1>4. [j \in Proposals |-> proposal'[j].by]
        = [[j \in Proposals |-> proposal[j].by] EXCEPT ![i] = a]
  <2> DEFINE F == [j \in Proposals |-> proposal[j].by]
             G == [j \in Proposals |-> proposal'[j].by]
  <2>1. /\ F = [j \in Proposals |-> F[j]] /\ G = [j \in Proposals |-> G[j]]
        /\ G[i] = a /\ \A j \in Proposals \ {i} : G[j] = F[j]
        BY <1>2
  <2> HIDE DEF F, G
  <2>2. G = [F EXCEPT ![i] = a]
        BY <2>1, OneEntryChanges
  <2>3. QED
        BY <2>2 DEF F, G
<1>5. {j \in Proposals : proposal'[j].target # None}
        = IF row.status = "approved" THEN {j \in Proposals : proposal[j].target # None} \cup {i}
          ELSE {j \in Proposals : proposal[j].target # None}
      BY <1>1, <1>2
<1>6. Review!Decide(i, a, row.status)
      BY <1>3, <1>4, <1>5 DEF Review!Decide
<1>7. row.status \in {"approved", "rejected"}
      OBVIOUS
<1>8. QED
      BY <1>6, <1>7 DEF Review!Next

LEMMA ApproveIsDecide ==
  ASSUME IInv, NEW p \in Workers, ApproveEnd(p)
  PROVE  Review!Next
<1> DEFINE r == req[p]
<1>1. r \in DecideRequest /\ Deciding(r) /\ RequestIsSound(r, proposal)
      BY RequestFields DEF ApproveEnd, Deciding, IInv, QueueInv
<1>2. r.id \in Proposals /\ r.by \in Reviewers /\ proposal[r.id].status = "pending"
      BY <1>1 DEF DecideRequest, RequestIsSound
<1>3. PICK n \in Notes :
        proposal' = [proposal EXCEPT ![r.id].status = "approved", ![r.id].by = r.by,
                                     ![r.id].target = n]
      BY DEF ApproveEnd
<1> DEFINE row == [proposal[r.id] EXCEPT !.status = "approved", !.by = r.by, !.target = n]
<1>4. /\ proposal \in [Proposals -> Proposal \cup {NoProposal}]
      /\ proposal[r.id] \in Proposal
      BY <1>2, ProposalCases DEF IInv, TypeOK
<1>5. proposal' = [proposal EXCEPT ![r.id] = row]
      BY <1>2, <1>3, <1>4
<1>6. row.by = r.by /\ row.status = "approved" /\ row.target # None
      BY <1>4, QueueAssumption DEF Proposal
<1> HIDE DEF row
<1>7. QED
      BY <1>2, <1>5, <1>6, ReviewDecide

LEMMA RejectIsDecide ==
  ASSUME IInv, NEW p \in Workers, RejectEnd(p)
  PROVE  Review!Next
<1> DEFINE r == req[p]
           row == [proposal[r.id] EXCEPT !.status = "rejected", !.by = r.by]
<1>1. r \in DecideRequest /\ Deciding(r) /\ RequestIsSound(r, proposal)
      BY RequestFields DEF RejectEnd, Deciding, IInv, QueueInv
<1>2. r.id \in Proposals /\ r.by \in Reviewers /\ proposal[r.id].status = "pending"
      BY <1>1 DEF DecideRequest, RequestIsSound
<1>3. /\ proposal \in [Proposals -> Proposal \cup {NoProposal}]
      /\ proposal[r.id] \in Proposal /\ Undecided(proposal[r.id])
      BY <1>2, ProposalCases DEF IInv, TypeOK, QueueInv
<1>4. proposal' = [proposal EXCEPT ![r.id] = row]
      BY <1>2, <1>3 DEF RejectEnd
<1>5. row.by = r.by /\ row.status = "rejected" /\ row.target = None
      BY <1>3 DEF Proposal, Undecided
<1> HIDE DEF row
<1>6. QED
      BY <1>2, <1>4, <1>5, ReviewDecide

LEMMA QueueIsArrive ==
  ASSUME IInv, NEW p \in Workers, ProposeEnd(p) \/ IngestQueue(p)
  PROVE  Review!Next
<1>1. CASE ProposeEnd(p)
  <2>1. req[p] \in ProposeRequest /\ RequestIsSound(req[p], proposal)
        BY <1>1, RequestFields DEF ProposeEnd, IInv, QueueInv
  <2>2. req[p].row \in Proposal /\ Undecided(req[p].row)
        BY <1>1, <2>1 DEF ProposeRequest, RequestIsSound, ProposeEnd
  <2>3. QED
        BY <1>1, <2>2, ReviewArrive DEF ProposeEnd, Undecided
<1>2. CASE IngestQueue(p)
      BY <1>2, QueuedRow, ReviewArrive DEF IngestQueue
<1>3. QED
      BY <1>1, <1>2

LEMMA ReviewStep ==
  ASSUME IInv, [Next]_vars
  PROVE  [Review!Next]_(Review!vars)
<1>1. CASE proposal' = proposal
      BY <1>1, ReviewStutter
<1>2. ASSUME NEW p \in Workers, NEW a \in Agents, ProposeBegin(p, a) \/ IngestBegin(p, a)
      PROVE  proposal' = proposal
      BY <1>2 DEF ProposeBegin, IngestBegin, Start
<1>3. ASSUME NEW p \in Workers, NEW a \in Agents, NEW i \in Proposals, DecideBegin(p, a, i)
      PROVE  proposal' = proposal
      BY <1>3 DEF DecideBegin, Start
<1>4. ASSUME NEW p \in Workers, IngestLand(p) \/ Abort(p)
      PROVE  proposal' = proposal
      BY <1>4 DEF IngestLand, Abort
<1>5. /\ \A n \in Notes : Retire(n) => proposal' = proposal
      /\ \A a \in Agents, n \in Notes :
           Remember(a, n) \/ Validate(a, n) \/ Graduate(a, n) \/ CurateEdit(a, n)
             => proposal' = proposal
      BY DEF Remember, Validate, Graduate, CurateEdit, Retire
<1>6. CASE UNCHANGED vars
      BY <1>1, <1>6 DEF vars
<1>7. ASSUME NEW p \in Workers, ProposeEnd(p) \/ IngestQueue(p)
      PROVE  Review!Next
      BY <1>7, QueueIsArrive
<1>8. ASSUME NEW p \in Workers, ApproveEnd(p) \/ RejectEnd(p)
      PROVE  Review!Next
      BY <1>8, ApproveIsDecide, RejectIsDecide
<1>9. QED
      BY <1>1, <1>2, <1>3, <1>4, <1>5, <1>6, <1>7, <1>8 DEF Next

(* Proposals are decided once, by those who may decide, and a fact is      *)
(* published by the approval of its proposal.                              *)
THEOREM QueueImplementsReview == Spec => ReviewSpec
<1>1. Init => Review!Init
      BY ReviewInit
<1>2. IInv /\ [Next]_vars => [Review!Next]_(Review!vars)
      BY ReviewStep
<1>3. QED
      BY <1>1, <1>2, Invariance, PTL DEF Spec, ReviewSpec, Review!Spec

=============================================================================
