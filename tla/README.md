# fleetmem: TLA+ models, checks and proofs

fleetmem is a shared memory for a fleet of AI agents: a Flask API (`src/api.py`)
run by several gunicorn workers over one PostgreSQL database, and a handful of
scheduled jobs and operator scripts on the same tables. This directory holds
TLA+ modules of its logic, TLC configurations that check them on small
instances, and TLAPS proofs of what holds for every instance.

`PROJECT.json` maps every definition to the lines it stands for, lists the runs,
the properties with a mutant that breaks each, the hazards and the theorems. To run something:

    tlc -workers 2 -config notes_race.cfg MCNoteLifecycle
    tlapm NoteLifecycleProofs.tla

## 1. Inventory

| Component | State | Operations | Hard part | Correct when |
|---|---|---|---|---|
| Access model: row-level security of the database, read gate of the API | none of its own: roles, groups, scopes of agents | `mem_sel`, `mem_upd`, `mem_read_where`, `_trusted_scope_gate` | one rule written twice, in SQL policies and in Python | both layers agree about who reads and who writes what |
| Note lifecycle | table `memory` | capture, share, validate, decide, edit, delete, sweep, fast-kill, re-embed | SELECT then UPDATE by id, overlapped by other requests and jobs | notes are shared only after an offer and a review; trust is earned; signature and embedding match the content unless a request was overtaken; missing embeddings are repaired |
| Sandbox tables | table `provisional_artifact`, schemas `sandbox` and `governed` | create, cascade at graduation, deletion and sweep | the anchor is decided while the table is made | a table shares the fate of its anchor note |
| Enrollment and roster | tables `enrollment`, `enrollment_approval`, `agent` | submit, vote, poll, revoke, update | votes are counted before they commit; provisioning in a poll | agents were approved; a quorum is missed, or the last manager lost, only by a request that was overtaken |
| Proposal queue | tables `proposal`, `lesson`, `memory` | propose, ingest, decide, apply, supersede | check-then-insert; a third writer of notes, which retires by name | what is shared was decided; a landing replaces its author's own note |
| Ingest gate (autolearn) | none | `effective_trust`, `sensitivity_of`, `decide_one`, `lands_personal` | a decision table of many flags | nothing risky is written without a human |
| Extraction client | checkpoint file, spool, advisory lock | extract, post, retry, merge of siblings | an LLM, lost answers, kills between commit and checkpoint | no span is passed over; a merge loses nothing and launders nothing |
| Recall and ranking | none | hybrid search, rank fusion, fast-kill | thresholds, ties | a recalled note is readable and current |
| Tasks, projects, ideas | `task`, `project`, `project_doc`, `idea`, `task_dep` | add, update, link, share, decide, delete | handles are max + 1; reviews keyed by handle | one handle per task; a decision is carried out |
| Messages and needs-you | `agent_message` | send, read, dismiss, queue | dismissal by subject, fan-out to managers | no request to a human is lost |
| Edges, edge review, infrastructure | `memory_relation`, infrastructure tables | link, resync, resolve, derive, classify, decide, prune | ten writers; retyping merges rows | no linked pair loses its edge; the classifier applies no gated type and repeats no rejected one |
| Sessions and retention | `session`, `session_turn` | ingest, rebuild, prune | two ingests of one session; prune against notes | a transcript lives while a note rests on it |
| Authentication, configuration, rate limit | per-worker caches, `config` | authenticate, PATCH config | caches of several workers | a change reaches every worker in a bounded time |
| Migration runner | `schema_migrations`, advisory lock, the files | up, down, reconcile | two runners, kills, edited files | the schema is the one recorded; drift is built on only if it came after the check |
| Note signatures | `memory.sig`, a key file | sign, verify | re-signing from a stale row | an alarm means tampering |
| Attachments | files, `memory_attachment` | upload, download, delete | files beside rows | no row without its file |
| MCP server, hooks, scripts; dashboard; LLM and embedding back ends; evaluation tools | — | — | external or presentation | not modelled |

How they meet: every endpoint authenticates (agent row, read once per request),
opens a connection on which `db()` stamps name, role, groups and `see_all`, and
works in one transaction at READ COMMITTED. Nothing is passed between requests
except through the tables. The timers (`validate_sweep.py`, `reembed_null.py`,
`prune_retention.py`) connect as the owner of the tables and bypass row-level
security. Recall feeds back into notes (the fast-kill), a decision on a note
cascades to sandbox tables, enrollment creates the agents whose roles decide
everything else.

## 2. Modules and their order

The most important behaviour first; each module stands alone except where a line
says what it uses.

1. **AccessModel, NoteLifecycle, NoteGovernance**: the life of a note with all
   the handlers and jobs that change it, its refinement of an abstract
   specification; NoteLifecycleProofs.
2. **Enrollment**: who is in the fleet; EnrollmentProofs.
3. **ProposalQueue** (uses AccessModel, AutolearnGate; refines **ReviewQueue**):
   the other way a note comes to be shared, and the third writer of notes;
   ProposalQueueProofs.
4. **AutolearnGate**: the deterministic rules in front of it, pure operators.
5. **TaskBoard** (uses AccessModel): handles, reviews and the policies of the board;
   TaskBoardProofs.
6. **TranscriptExtraction, CandidateMerge**: the client that feeds transcripts to
   the model, and what is made of the answers; ExtractionProofs, about both.
7. **TranscriptRetention, GraphEdges**: the stores that several jobs and handlers
   change behind each other's back; TranscriptRetentionProofs and
   GraphEdgesProofs.
8. **MigrationRunner**; MigrationRunnerProofs.

`MC*` modules hold the constants of the instances. Modules that are proved about
declare no RECURSIVE operator, take their parameters as CONSTANTS with named
assumptions, and have one action per handler, or one per transaction part where
a handler is split (see 3).

## 3. How handlers become actions

PostgreSQL at READ COMMITTED gives each statement its own snapshot, and an
UPDATE locks the rows it changes until the commit. A handler of this code is
typically SELECT, checks in Python, UPDATE, commit. Two steps are enough for it:

- `...Begin` stands for authentication, the SELECTs and every check and early
  return; what the handler keeps in variables goes into `req[p]`.
- `...End` stands for the UPDATEs and the commit. They can be one step because
  the first UPDATE takes the row's lock, so nobody else writes the row before
  the commit and nobody reads it changed. An UPDATE waits for the lock, then
  evaluates its WHERE clause on the committed row: the guards of `...End` are
  those of the WHERE clause and no others.

Other requests and jobs may commit between the two. A handler that is a single
guarded UPDATE is one action. SELECTs that come later in a handler (the name
collision check before an amendment) are merged into `...Begin`: both happen
before the UPDATE and neither is re-checked by it. A row-level security policy
or unique index that rejects the new row raises, and the request is rolled back
(`Commit`). `Abort` covers a killed worker, a client that went away, a failed
call of the embedder where the code lets it raise, and every 409 or 500 that
rolls back after the first SELECT. `Workers` are gunicorn workers: each serves
one request at a time, so their number is the number of requests that overlap.

Enrollment splits a vote in three, because what matters happens between two
statements of one transaction: `VoteBegin` reads the application, `VoteCast`
writes the vote and counts the votes it can see (its own and the committed
ones), `VoteEnd` writes the outcome and makes vote and outcome visible.

## 4. Modules

### AccessModel

Predicates over an agent and a row of `memory`. `MemSel` and `MemUpd` are the
policies `mem_sel` and `mem_upd` as migrations 0020, 0025 and 0035 leave them,
`Selectable` and `Updatable` what an agent's SELECT can return and its UPDATE
can match, with `RLS` false where the API connects as the owner of the tables.
`MemReadWhere` is the clause of `mem_read_where`. The role "organizer", which the
policies name and the CHECK of `agent.role` does not admit, is kept in them.

### NoteLifecycle

State: `memory` (one record per note: name, body, author, session, the columns
`share_status`, `trust`, `mem_tier`, `sensitivity`, `readers`, the tag
`needs-human-vouch`, the signature and the embedding, both represented by the
content they were computed from); `artifact` (sandbox tables); `log` (the rows
of `action_log` about sharing and trust); `req`.

| Action | Code |
|---|---|
| `CreateNote` | `provisional_memory` |
| `ShareNote` | `memory_share` |
| `ValidateBegin`, `ValidateEnd` | `memory_validate`, its five verdicts |
| `GraduateBegin/End`, `DecideDeleteBegin/End` | `provisional_decide` |
| `Sweep` | `provisional_sweep` (no timer calls it: a manager does) |
| `CurateEditBegin/End`, `CurateDelete` | `curate_memory_edit`, `curate_memory_delete` |
| `FastkillBegin/End` | `_recall_fastkill`, at the end of a recall |
| `AnchorBegin/End`, `CreateTable` | `provisional_table_create`, with a given and with a new anchor |
| `ValidateSweepBegin/End` | `validate_sweep.py` |
| `ReembedBegin/End` | `reembed_null.py` |
| `TtlLapses` | the clock |

The re-embedding job takes at most `Batch` notes a run, any ones of those whose
body is neither NULL nor empty (`LIMIT` without `ORDER BY`); a body in
`Unembeddable` makes `embed()` raise every time, any other one may do so at times
(`search.py` halves a text that is too long, so that no size is hopeless).

Choices left open: which notes the fast-kill and the validation sweep find old
enough (ages, recall counts, pruned transcripts), whether the embedder answers,
what name is derived from a body. Abstracted: `invalid_at` goes with
`deleted_at`; names are never NULL or empty; the rule that pinned names cannot be
taken is left out, as it looks at the supplied name only and a name may be
derived. Left out: `content_hash`, `description`, relations and entities,
attachments, messages (the decision 'escalate' only sends some), rows inserted in
sandbox tables, retention of the log; the signing key is assumed present.
Agents and their roles are constants here; Enrollment is where they change.

### NoteGovernance

What the fleet is promised: a note is its author's until the author offers it; a
reviewer, not its author unless that is a manager, shares it out of review; who
offered and who decided stays on record; a retired note never returns. Who
retires notes, and why, is left open, because a stale sweep or verdict may retire
a shared one. `NoteLifecycle!Governance` instantiates it with the stage computed
from `deleted_at` and `share_status` and the record taken from the log.

### Enrollment

State: `agent`, `application` (table `enrollment`), `vote` (table
`enrollment_approval`), `trail` (the `enroll_approve` rows of the log), `req`.

| Action | Code |
|---|---|
| `Submit` | `enroll_submit`, one step: its check looks at agents, its INSERT at nothing |
| `VoteBegin`, `VoteCast`, `VoteEnd` | `enroll_approve` |
| `PullBegin`, `PullEnd` | `enroll_status` for an approved application |
| `RosterBegin`, `RosterEnd` | `agent_revoke` and the role in `agent_update` |

A second vote of the same manager on the same application waits in the upsert
for the first to commit (`SameBallot`). The role that is assigned is any
approver's, as the SELECT of the votes has no ORDER BY. Left out: groups, the
other columns `agent_update` writes, a change of `ENROLL_APPROVALS` at run time,
the payload and its limits, certificates.

### ReviewQueue, ProposalQueue

`ReviewQueue` is what the queue promises: an item is decided once, by one of the
deciders, and each approved item publishes at most one thing.
`ProposalQueue!Review` instantiates it. State: `memory`, `proposal`, `lesson`,
`superseded` (the edges `record_supersedes` writes), `log`, `req`.

| Action | Code |
|---|---|
| `ProposeBegin/End` | `propose` |
| `IngestBegin`, `IngestLand`, `IngestQueue` | `_ingest_candidates`: what it reads, the note that lands, the proposal that is queued |
| `DecideBegin`, `ApproveEnd`, `RejectEnd` | `proposal_decide`; its first statement locks the proposal (`Locked`) |
| `Remember` | `provisional_memory` |
| `Validate` | `memory_validate`, the verdicts that trust |
| `Graduate` | the offer and `provisional_decide`, with the name and body a reviewer may amend |
| `CurateEdit` | `curate_memory_edit`: name, body, sensitivity and readers of any live note |
| `Retire` | deletions, rejections and sweeps |

The last five are one step each here: their own overlaps are NoteLifecycle's. A
request that lands (`LandRequest`) keeps what it read of the notes that bear the
capture's name; one that queues (`QueueRequest`) does not need it.

Each candidate of a batch is a transaction of its own in the model: the
candidates of a call share a transaction in the code, and a batch that fails
half-way is an `Abort` of each. Candidates that are dropped as near-duplicates or
not worth keeping change nothing and are requests that do not start. Left out:
`share_request` messages, reinforcement edges, links of a landed note (GraphEdges
has them).

### AutolearnGate

Operators over a capture: `ChannelOf`, `TrustForChannels`, `EffectiveTrust`,
`SensitivityOf`, `DecideOne`, `LandsPersonal`, `Lands`. ProposalQueue's ingest
actions use them. Whether a text repeats a foreign span is part of the capture,
for the window it was extracted from and for the others separately.

### TaskBoard

State: `row` (tables `task`, `project`, `idea`, which policies and review treat
alike), `dep`, `decided` (the log, with the row each entry is about) and `req`.

| Action | Code |
|---|---|
| `TaskAddBegin/End` | `task_add`: resolves its project, allocates the handle under the advisory lock; inserts |
| `TaskUpdate`, `IdeaAdd`, `IdeaUpdate`, `ProjectAdd` | the handlers of these names |
| `SectionSet`, `SectionDel` | `project_doc_set`, `project_doc_del` |
| `StructureShare`, `DecideBegin`, `TrustEnd`, `DeleteEnd` | `structure_share`, `structure_decide` |

The policies of migrations 0032 and 0036 are `Seen`, `Insertable`, `Deletable`
and `WriteCheck`. `Frontier` is the read of what can be taken up.

### TranscriptExtraction

State: `spans`, `ckpt`, `run`, `served`, `extracted`, `spool`, `attempts`. The
client's actions are `RunBegin`, `Post`, `PostFails`, `Timeout`, `Save`,
`SaveFails`, `RunEnd`, `Killed` (`run_session.py`); the server's `Lock`, `Extract`,
`Commit`, `Answer`, `ServeFails` (`autolearn_extract`). A client that times out
leaves its request behind (`Deserted`), which goes on and may hold the lock. The
spool (`SessionEnds`, `FailedRun`) is not part of the repository: it is modelled
from what the client's exit codes and comments say of it.

### CandidateMerge

State: `transcript`, `windows`, `at`, `proposals`, `notes`, and the history variable
`heard`, all candidates of the model, those that were dropped included. `extract_session`: `Chunks` cuts windows, `Propose` takes a
candidate and gives it trust (`Assessed`) and evidence, `Kept` drops what was seen
before, `Merge` joins siblings by a union-find (`Forest`) and makes a note of each
cluster (`Merged`). The loops of the code are folds, over spans or over the
candidates in their order. Names begin with Merge where ExtractionProofs would
otherwise see two of them.
Two texts share enough tokens, for a spoof or as siblings, if they state the same
fact; names are sequences of tokens.

### TranscriptRetention

State: `session` (whether there is a row and whether it has turns), `old`,
`note`, `swept`, `job`. `IngestBegin/End` are `session_ingest` and
`ingest_transcripts.py`, `RebuildBegin/End` `rebuild_session.py`, `PruneBegin/End`
`prune_retention.py`, `SweepBegin/End` `validate_sweep.py`; `Land`, `Confirm` and
`Retire` stand for what NoteLifecycle and ProposalQueue do to notes. The field
`intime` is history: the source of a note was neither pruned nor being pruned when
the note landed.

### GraphEdges

State: `edges` (each with its pair, type, who created it, the pending proposal,
whether it was examined, whether the classifier is busy with it, and which
proposals managers' requests have read of it), `note`, `cited` (the links of the
present body), `model` (facts of the infrastructure tables), and what the
classifier, the resolver and the deriver hold.

| Action | Code |
|---|---|
| `Remember`, `Land`, `Amend`, `Retire` | links of new, landed, edited notes (`link_explicit_refs`, `resync_explicit_refs`); a note goes |
| `LinkUsage` | `link_usage`, when a capture repeats a note that is there |
| `RebuildSession` | `rebuild_session.py`: notes and relations an LLM read out of a transcript, of any type |
| `RebuildLinks` | `rebuild_links.py`: every edge goes, generic ones come back |
| `ResolveBegin/End`, `RepairBegin` | `resolve_mentions.py`, `repair_orphans.py` |
| `EditModel`, `DeriveBegin/End` | the infrastructure endpoints, `derive_infra_edges.py` |
| `ClassifyBegin`, `ClassifyEnd`, `ClassifyFail` | `classify_edges.py`, one note of its backlog |
| `DecideBegin`, `DecideEnd` | `edge_proposals`, `edge_proposal_decide` |
| `PruneEdges` | `prune_retention.py` |

A decision of a manager may always be under way for a proposal that was read, so
any number of them overlap. `RebuildLinks` forgets every decision: it is the second
step of an import, and the model runs it only while no edge has been examined.

### MigrationRunner

State: `file`, `recorded` (`schema_migrations`), `standing` (which migration's
definition of an object is in force), `lock`, `run`. What an `up()` does is to
define objects, a `down()` puts the previous definition back. `Up`, `Lock`,
`ReadApplied`, `CheckDrift`, `Apply` (one migration, one transaction) and `Done`
are `migrate.py up`; `Down`, `Undo`; `Reconcile`, `Rehash`; `Crash` anywhere;
`Edit` is the operator. `touched` is history: whose file was edited, or row
re-hashed, since the last `up` read the rows. `orderly` is chosen at the start: an orderly operator rolls
back the newest migration first and lets nothing overlap with that or with an edit.
Creating the table and the refusal of another encoding are left out.

## 5. Runs

The instances have as many rows as a property speaks of and as many requests in
flight as it needs. Where handlers touch one note, one note suffices; notes
interact through the unique index on names, for which there are two. An overlap
of two handlers needs two workers; a timer job is a process of its own beside
them. Workers, and ids that are only compared, are interchangeable, hence the
symmetry, which is not used with liveness. In `proposals_race` a VIEW leaves out what
no action reads: the log entries of retired notes and what superseded what. Every bound is a constant: the rows,
`MaxHandle`, `MaxSpans`, `Tries`, `MaxAttempts`, `MaxCandidates`, `Latest`, `Batch`,
`MaxVerdicts`; ids are used once.

| Run | Instance | Shows |
|---|---|---|
| `notes_race` | 1 note, 1 table, 2 workers; a worker, an approver, two managers (one without `see_all`) | types; offer and review precede sharing and reading; trust has a reason; a governed table has a shared anchor; workers never alter a shared note; NoteLifecycle implements NoteGovernance |
| `edits_race` | 1 note, 2 names, 2 bodies of which one is empty, a manager, 2 workers and the job | signatures and embeddings are those of the content unless a request, or the job, was overtaken |
| `reembedding` | 2 notes, 2 names, 3 bodies of which one is empty and one cannot be embedded, batches of 1, FairSpec | what fits a batch is repaired; a longer backlog is worked off |
| `one_name` | 2 applications for one name, quorum 1, 2 workers, FairSpec | one token per name; approved applicants are answered |
| `enrollment_race` | 1 application, 2 managers, quorum 2, roles reassigned, 2 workers | types; agents were approved by two; a quorum is missed, and the last manager lost, only by a request that was overtaken |
| `proposals_race` | 2 notes of one name, 1 proposal, 2 bodies, a worker confined to its own notes and a manager, captures that are clean, cite a tool, or are private, 2 workers, one verdict on live notes | what is shared was decided; what landed is private or trusted only by the gate or a human; a landing replaces its author's own note unless it was overtaken; ProposalQueue implements ReviewQueue |
| `board` | 3 rows, handles up to 2, a worker and a manager, 2 workers | what is shared was reviewed, but for a key that was reused; one handle per creation |
| `extraction` | 1 transcript of up to 2 spans that grows, batches of 1 and 2, 2 tries, 2 failed runs, 2 workers, FairSpec | nothing is passed over; a transcript is extracted to its end or parked |
| `transcripts` | 1 session, 2 notes, 3 jobs, FairSpec | sources outlive the notes that came in time; only late notes are swept; orphans are |
| `edges` | 1 pair of notes, the generic type, one the classifier may apply and one that is reviewed and derived, FairSpec | links keep an edge; the classifier applies no gated type; a rejection outlives the first examination; every edge is examined |
| `migrations` | 2 migrations that define one object in turn, 2 contents of a file, 2 processes, FairSpec | no collision, the recorded schema, late drift only, every `up` ends |
| `merge` | 5 transcripts of up to 3 spans in one or more windows, one of them with a span larger than a window, 3 names of which 2 share a prefix, up to 3 candidates | windows, components, no fact and no line but a repeated one is lost, trust earned by all |

`extraction`, `transcripts`, `edges`, `merge`, `reembedding` and `enrollment_race`
have CHECK_DEADLOCK FALSE: once the transcripts are extracted, the ids used up, the
notes merged or retired there is nothing left to do, and a fleet without managers
and with an open application stops. In `edits_race` a manager may do everything the
approver may. In `proposals_race` one verdict, edit or graduation of a live note at a
time is enough to make its text, share or trust differ from what its origin says. In `migrations` two versions are enough for a skipped, a
repeated and a wrongly ordered one; three pass as well, in four minutes.
One pair of notes is enough for `edges`, because only the rows of one pair can be
merged into each other; two sessions add nothing to `transcripts` and
`extraction`, whose sessions meet in the lock alone.

### What the models show to go wrong

The modules also state some claims of comments, docstrings and answers that the
code does not keep. No run is kept for them; named alone as INVARIANT or PROPERTY in
a copy of a cfg (without its SYMMETRY), each gives its trace within minutes: for
NoteLifecycle in `edits_race.cfg` (signatures, embeddings) or `notes_race.cfg` (with
`Handlers <- AllHandlers` and one worker for the flag, with three workers for the
tables, since two never meet this way), for Enrollment in `enrollment_race.cfg`, for
the others in the module's own cfg.

| Claim | In | What TLC finds |
|---|---|---|
| `SignatureCoversContent` | NoteLifecycle | two edits of one note, of name and of body, leave a signature over neither, which `GET /memory/verify` reports as tampering (`api.py:4550`, against 4572, "so signature VERIFIES on the NEW content") |
| `EmbeddingMatchesBody` | NoteLifecycle | the re-embedding job writes the vector of a body that was edited while embed() ran (`reembed_null.py:32`, against `api.py:4567`, "Do NOT keep the STALE vector") |
| `VerdictsJudgeUntrustedNotesOnly` | NoteLifecycle | a verdict on a personal note lands on one that was shared meanwhile (`api.py:4210`) |
| `FlaggedNotesAwaitAVerdict` | NoteLifecycle | a note validated against its source keeps the flag that asks for a human, and no verdict is accepted any more (`api.py:4239`) |
| `TablesOfApprovedNotesAreKept`, with three workers | NoteLifecycle | a deletion that came too late drops the tables of an approved note (`api.py:4414`) |
| `QuorumIsRecognised` | Enrollment | two approvals at once count one each; the application stays pending (`api.py:2418`) |
| `SettledStaySettled` | Enrollment | an approval in flight turns a rejected application into an approved one (`api.py:2425`, against 2427) |
| `RejectsBlockProvisioning` | Enrollment | a reject after the approval is answered "rejected" and changes nothing (`api.py:2429`) |
| `HandlesNeverCollide` | TaskBoard | a caller that row-level security hides a task from is given its handle, and its INSERT fails (`api.py:2872`, against 2869-2870) |
| `FrontierIsTakeable` | TaskBoard | a task is offered although a blocker the caller cannot see is open (`api.py:2713`) |
| `TrustedRowsWereOffered` | TaskBoard | a handle given out again takes the decision meant for the row before it (`api.py:3365`) |
| `RebuiltNotesKeepTheirSource` | TranscriptRetention | a rebuild names its source by the session's id, which the prune does not look for (`prune_retention.py:56`) |
| `ProposalsKeepTheGenericType` | GraphEdges | the classifier types an edge whose proposal came with a landed capture and is still pending (`api.py:1775`, against migration 0023, lines 13-14) |
| `RejectedEdgesLeaveTheBacklog` | GraphEdges | a rejected proposal that came with a landed capture is on an edge the classifier has not seen, which stays in its backlog (`api.py:5215`, against 5159) |
| `EveryCitedSpanIsEvidence` | CandidateMerge | spans of one line share its number: the second one cited is dropped from the evidence (`extract.py:330`) |

More of the kind, which the modules contain and state no property about:

- a manager may graduate its own note (`api.py:4348`, against the docstring at
  4315), approve its own proposal (`api.py:3724`, against the comment at 3740) and
  trust its own row of the board;
- a note offered and graduated without naming readers is born with its author as
  the only reader and stays so (`api.py:4367`, against `autolearn/apply.py:103`);
- an agent named in `readers` passes `MemSel` and not `MemReadWhere` (`api.py:310`,
  against 300-302); a reviewer without `access_scope.see_all` does not see other
  agents' notes in review (migration 0035, lines 15-16 and 26);
- a sandbox table survives an anchor deleted by anything but `provisional_decide`
  and the sweep (`api.py:4623`, against migration 0007, lines 8-10), and one made
  while its anchor is graduated is never promoted (`api.py:4721`);
- two managers demoting or revoking each other at once leave none (`api.py:2367`;
  `ManagersRemain` of Enrollment); an approved application whose name was taken
  stays approved for ever (`api.py:2472`);
- `sensitivity_of` answers 'sensitive' for a caller's 'secret' when a term matches
  (`orchestrate.py:46`, against 43); text laundered from another window of the same
  session passes the anti-spoof check (`extract.py:315`), and of two equal
  candidates of different windows the first one's trust and evidence stay: the lines
  the second one cites are dropped with it (`extract.py:566`);
- a landing capture retires, by name, another agent's note or a shared one that got
  the name after the gate had looked it up, and one without a name whatever note
  has the name that is derived from its text (`apply.py:190`, against
  `api.py:1734-1739`);
- the sweep and a manager's verdict write by id: a note that was shared meanwhile is
  retired (`validate_sweep.py:91`) or judged (`api.py:4210`) all the same;
- a note whose body embed() never answers for is taken by the job again and again,
  and as many as fill a batch may keep it from all others (`reembed_null.py:23`);
- `rebuild_session.py` gives edges the types the LLM names, those that need a review
  included (`rebuild_session.py:184`); `rebuild_links.py` would forget all decisions
  if it were run again;
- two rejections at once do not see each other when lessons are counted, and two
  identical proposals may be pending (`api.py:1446`);
- on the board a worker's `project_add`, and a `task_add` with the default share,
  are refused by the policies; an approver's "delete" matches no row and is answered
  ok, as is one that lost its race (`api.py:3373`); sections of a plan have no
  readers, so that no worker sees one;
- a batch answered 502 for ever is retried for ever and never parked
  (`run_session.py:226`), while 429 counts as a failed run; requests nobody waits
  for may hold the extraction lock in turn; a window the parser gives up counts as
  extracted (`extract.py:562`);
- turns that a resumed session adds after it was taken in are never stored
  (`api.py:1966`);
- approving an edge applies the type proposed now, not the one that was listed;
  overlapping decisions are both answered ok; a rejected type is proposed anew once
  the link was taken out of the body and put back; derived edges outlive
  their fact (`derive_infra_edges.py:88`);
- `down` takes no lock, does not look whether the version is applied, and undoes
  in any order: what it puts back may be older or newer than what is recorded
  (`migrate.py:173`); a re-hash writes what was read before the human looked; a file
  that is edited, or a row re-hashed, after the check (`migrate.py:150`) is built upon,
  and a file edited between its import and its INSERT is recorded with the checksum
  of a text that never ran (`migrate.py:156`; there the model records the file of the
  moment, too).

### Fairness

`NoteLifecycle!FairSpec`: weak fairness of starting the re-embedding job, which
`systemd/` runs daily with Persistent=true; strong fairness of a run in which the
embedder answers for every note of the batch that can be embedded: the job is not
killed for ever, nor does the embedder fail on such a text in every run. Nothing is
assumed of clients, nor of which notes a batch takes.
`Enrollment!FairSpec`: weak fairness of the request a gunicorn worker is in (it
ends, or is killed), strong fairness of the poll of each application and of its
completion: the applicant is told to keep polling (`enroll_submit`'s answer) and
is served infinitely often. Nothing is assumed of managers.
`TranscriptExtraction!FairSpec`: the spool runs what is due, processes go on, and a
step that is tried again and again succeeds again and again. Besides,
`ClientsArePatient`: requests of clients that gave up do not hold the lock every
time somebody waits. The code does not guarantee this by itself; it rests on
EXTRACT_TIMEOUT being shorter than the 300 seconds a client waits. It speaks of
requests and the lock only, so that nothing about progress is assumed.
`TranscriptRetention!FairSpec` and `GraphEdges!FairSpec`: the timers start sweep and
classifier again and again, and these do not fail on the same note for ever.
`MigrationRunner!FairSpec`: a process goes on or is killed, and PostgreSQL serves
those who wait for an advisory lock in turn.

## 6. Proofs

No module bounds anything: the theorems hold for every value of the constants.

**NoteLifecycleProofs.** `IInv` has four parts: the types; `RequestInv`, what a
request in progress may rely on when it writes, although the row may have
changed since (a manager's verdict is by a manager, a graduation by somebody who
may graduate this note, a note once seen exists); the trail, which says of every
row that its share status and trust have their entries in the log; and
`TableInv`, which says of each sandbox table that its anchor is a note, offered
where the table was promoted. It is inductive because rows never move back:
`Advance` (author and session are kept, share status only goes forward, trust is
not lost) is what every handler guarantees, and what makes an old observation
stay true enough. From it:

- `TypeCorrectness`, `SharingIsReviewed`, `ReadingIsReviewed`, `TrustHasAReason` and
  `PromotionIsApproved` for `TypeOK`, `SharedNotesWereReviewed`,
  `OthersReadReviewedNotes`, `TrustIsEarned` and `GovernedTablesWereApproved`;
- `SharedNotesAreSafeFromWorkers`: with row-level security on, no worker's stale
  UPDATE changes a shared note. The policy, not the handler, is what protects it;
- `LifecycleImplementsGovernance`: the refinement.

Two action properties follow besides. What a request has read of a note's text is
either still so or it was overtaken; a signature is made of what was read, and the
UPDATE of a request writes a body together with its vector or NULL. Hence
`SignaturesFailByOverlapOnly` and `VectorsGoStaleByTheJobOnly`, for any overlap: they
say which commits can leave a wrong signature or vector. That such commits exist is
shown by the counterexamples of section 5.

**EnrollmentProofs.** `IInv` ties everything that is stored, counted or in flight
to the log, which only grows: a stored or counted approval is logged (or is the
voter's own), an application that is approved, or was when it was polled, has
`ENROLL_APPROVALS` logged approvers, no applicant voted for itself, an
application keeps its name. From it `TypeCorrectness`, `AgentsAreApproved`,
`TokensAreUnique`, for any overlap of requests. Two action
properties say which commits the code's guards miss. `LockOutGuards`: the step that
takes the last manager away is of a caller who is none any more, because a caller
that still is one keeps its own role and access (`CallersStayManagers`).
`QuorumsAreMissedByOverlapOnly`: a vote that commits and leaves a quorum
unrecognised had counted before another vote committed. Both hold for any number of
workers; section 5 has the traces in which these commits happen.

**MigrationRunnerProofs.** `Exclusion` says that whoever is past the lock holds it
and that what it found absent still is, since nobody else adds rows: from it
`TypeCorrectness` and `NoCollisions`, for any operator. `Orderly` adds what an
orderly operator keeps: files and recorded migrations have no gap, what a process
read stays true but for what is re-hashed, a rollback meets no `up`. The next
migration applied is then above all recorded ones and the one rolled back has all
older ones below it, which gives `SchemaMatches`. `Watched` says, for any operator,
that what an `up` has read of a version is still so unless the version is in
`touched`; with it `BuiltOnLateDriftOnly`. That a set of
versions has a greatest element is proved from the well-foundedness of < on Nat.

**ExtractionProofs**, on TranscriptExtraction. `RunIsSound` says that a run goes over a prefix of
the transcript and that all it counts as done is extracted; `RequestIsSound` that a
request whose client still waits is about the very batch this client has posted,
and `ClientsWaitForOne` that it is the only one. Without the last two a late
answer to an earlier post could vouch for a later batch; `Deserted`, which takes
the client off the request, is what keeps them through timeouts and kills. They
give `NothingIsPassedOver` for any batch sizes, overlapping runs included.

**ExtractionProofs**, on CandidateMerge. The actions do little; the theorems are
about what the loops compute, for transcripts and candidates of any number. A fold
of the community modules is a CHOOSE of a recursive function, so `FoldExists`
shows that there is one and `FoldSteps` that its values are a sequence: what the
loop holds before the first element, and after each. What holds at its end follows
by `Upto`, induction for a set of numbers instead of a predicate, which the provers
can instantiate; the set is `{k \in 0 .. n : ...}`. Along such sequences:

- `PackedCut`: the windows so far, put together, are the spans so far, and none
  but a single span is too large. It gives `WindowsCover`;
- `JoinedRoots`: a union hangs one tree under the root of another and moves nobody
  else. Hence `ForestJoins`: two siblings have one root, whatever is joined later,
  and no tree is partly in a set that is closed under siblings. The first makes a
  component part of a class and the second a class part of a component;
  `ClustersPartition` adds that the list of clusters is a partition into classes
  in the order of first members. They give `NotesComponents`;
- `ParagraphsOf`, `UnitedOf`, `EvidenceOf`: a note has every member's fact, and one
  piece of evidence for each line any of them cites.

`MergeIInv` then says that each proposal rests on its window (`Rests`: evidence,
trust), that each candidate heard is among the proposals or (`KeptIn`) an earlier one
of its name and fact is, where there are several windows, and that the notes are what
`MergedSiblings` makes of the proposals; `RepeatedLinesAreLostOnly`, `TrustSurvives` and
`MergeTypeCorrectness` follow. A transcript has a span (`MergeAssumption`), as the
endpoint demands (`api.py:1890`).

**TranscriptRetentionProofs.** The invariant is about what the timers have decided
and not yet done: no live note that came in time hangs on a transcript a prune is
about to delete, and each note a sweep is about to retire has lost its transcript
and came too late. The former is why a note that lands during a prune cannot count
as in time; `NotesKeepTheirSources`, `SweepsAreJustified` and the action property
`TombstonesKept` (which no run checks) follow.

**GraphEdgesProofs.** Rows are kept unique by their key; the classifier has read at
most one row of a pair, and a generic row it has read is one nobody has examined; a
proposal is never the generic type; a pair that is linked, or is about to be, has
notes that were written. With these each action keeps the row of every linked pair, also when the
classifier retypes a row and drops the one it collides with
(`LinkedPairsKeepAnEdge`); the lemma of each action proves the two action
properties, `RejectionsOutlast` and `TypesWereReviewed`, along with the invariant.

**ProposalQueueProofs.** `RequestIsSound` is what a request under way has made sure
of before it writes: a capture that lands has passed the gate (`GateSparesPrivate`
and `TrustIsFirstParty` are about the pure operators of AutolearnGate, for every
capture), and a proposal being decided is pending, which the row lock keeps true
(`QueueInv`: one request per proposal). Whoever decides or takes captures in may
update every note it can find, so that a prior version is always retired
(`ReplacedTable`). `QueueImplementsReview` maps proposals to ReviewQueue: arrivals
to `Arrive`, decisions to `Decide`, and all else to a stutter. What a landing has seen of
its name is part of `RequestIsSound`, which gives `LandingsReplaceOwnNotes`; edits,
verdicts and graduations by others leave their entry in the log, which is how
`SharingIsDecided` and `LandingPassesTheGate` know of them.

**TaskBoardProofs.** `Keyed` is what the unique indexes keep, `Allocating` that one
request at a time holds the advisory lock and the handle it computed is unused,
which gives `HandlesAreFree`: callers that see every task compute a maximum over all
of them, the gap `HandlesNeverCollide` shows is for the others. `Accepted` says of
each shared row of a worker that a decision by a reviewer stands in the log for a row
of its key which was offered and is this one or gone; the row a
deciding request has read was offered and keeps its key until it is gone. With the WITH CHECK of the policies, RLS being
on, it gives `ReviewsAreSkippedByReuseOnly`, whatever overlaps.

Each module that keeps state of the code has a TypeOK (`MergeTypeOK`), proved as
`TypeCorrectness` (`MergeTypeCorrectness`); two runs check theirs as well.

Assumptions: those named in the modules (`AccessAssumption`,
`LifecycleAssumption`, `EnrollmentAssumption`, `MigrationAssumption` and so on: NULL
is no id, name or role, arguments are of the right kind, a roster is finite), which
TLC evaluates on every run, and `RLS` where a theorem or a property says so.

Only model-checked: liveness, which the prover cannot do under fairness
(`NullEmbeddingsAreRepaired`, `BacklogIsWorkedOff`, `ApprovalsAreAnswered`, `TranscriptsAreExtracted`,
`OrphansAreSwept`, `EdgesAreExamined`, `EveryUpEnds`). Every other property the runs
check is a theorem.

## 7. Not modelled

See "components" in `PROJECT.json` for the reason of each. Messages, attachments
and the configuration cache are single statements that nothing else depends on;
recall and ranking have no right answer to state. Out of a model checker's reach
and left out for good: prompts and answers of the language model, presentation,
TLS, installation scripts, the MCP proxy, evaluation tools run by hand.
