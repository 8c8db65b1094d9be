----------------------------- MODULE Enrollment -----------------------------
(***************************************************************************)
(* How an agent joins the fleet, and how managers change who is in it.     *)
(*                                                                         *)
(* An applicant submits an application; managers vote on it; once enough   *)
(* of them approved, the applicant's next poll creates the agent.  As in   *)
(* NoteLifecycle a handler is split where it acts on what it read before:  *)
(* the caller is authenticated and the application read in ...Begin, the   *)
(* vote is written and the votes counted in VoteCast (seen by nobody else  *)
(* before the commit), the outcome is committed in ...End.                 *)
(***************************************************************************)
EXTENDS Naturals, FiniteSets

CONSTANTS
  Names,         \* names an agent can have
  Founders,      \* the managers a fleet starts with (bootstrap, seed script)
  Applications,  \* ids of rows of the table enrollment
  Workers,       \* gunicorn workers: one request each at a time
  Quorum,        \* ENROLL_APPROVALS
  Asked,         \* roles applicants ask for and voters assign
  Reassigned,    \* roles managers give with PATCH /agent
  None           \* SQL NULL, and a field a request leaves out

EnrollRoles == {"manager", "worker", "readonly"}
AgentRoles  == {"manager", "approver", "viewer", "worker", "readonly"}

ASSUME EnrollmentAssumption ==
  /\ IsFiniteSet(Names)
  /\ Founders \subseteq Names
  /\ Quorum \in Nat
  /\ Asked \subseteq EnrollRoles
  /\ Reassigned \subseteq AgentRoles
  /\ None \notin Applications /\ None \notin EnrollRoles /\ None \notin Names

VARIABLES
  agent,        \* the table agent
  application,  \* the table enrollment
  vote,         \* the table enrollment_approval
  trail,        \* the enroll_approve rows of action_log
  req           \* the request each worker is in the middle of

vars == <<agent, application, vote, trail, req>>

OrNone(S) == S \cup {None}

(* source: the application the agent was provisioned from. *)
AgentRow == [role : AgentRoles, revoked : BOOLEAN, source : OrNone(Applications)]
NoAgent  == [role |-> "none"]

Application == [status : {"none", "pending", "approved", "rejected", "provisioned"},
                name : OrNone(Names), asked : OrNone(EnrollRoles),
                assigned : OrNone(EnrollRoles)]
Unsubmitted == [status |-> "none", name |-> None, asked |-> None, assigned |-> None]

Vote   == [decision : {"none", "approve", "reject"}, role : OrNone(EnrollRoles)]
NoVote == [decision |-> "none", role |-> None]

Entry == [by : Names, app : Applications, decision : {"approve", "reject"}]

(* onFile: the role the application was read with; seen: the votes as they *)
(* were counted; name, role: what a poll read in the application.          *)
VoteRequest ==
  [op : {"vote"}, by : Names, app : Applications, ballot : Vote, onFile : EnrollRoles,
   cast : BOOLEAN, seen : [Names -> Vote]]
PullRequest   == [op : {"pull"}, app : Applications, name : Names, role : EnrollRoles]
RosterRequest == [op : {"revoke", "unrevoke", "set_role"}, by : Names, name : Names,
                  role : OrNone(AgentRoles)]
Idle == [op |-> "idle"]

TypeOK ==
  /\ agent \in [Names -> AgentRow \cup {NoAgent}]
  /\ application \in [Applications -> Application]
  /\ vote \in [Applications -> [Names -> Vote]]
  /\ trail \subseteq Entry
  /\ req \in [Workers -> VoteRequest \cup PullRequest \cup RosterRequest \cup {Idle}]

Init ==
  /\ agent = [n \in Names |-> IF n \in Founders
                              THEN [role |-> "manager", revoked |-> FALSE, source |-> None]
                              ELSE NoAgent]
  /\ application = [e \in Applications |-> Unsubmitted]
  /\ vote = [e \in Applications |-> [n \in Names |-> NoVote]]
  /\ trail = {}
  /\ req = [p \in Workers |-> Idle]

-----------------------------------------------------------------------------
Live(n) == agent[n] # NoAgent /\ ~agent[n].revoked

(* authenticate(), and the role test every handler here starts with. *)
IsManager(n) == Live(n) /\ agent[n].role = "manager"

Start(p, request) ==
  /\ req[p] = Idle
  /\ req' = [req EXCEPT ![p] = request]
  /\ UNCHANGED <<agent, application, vote, trail>>

Finish(p) == req' = [req EXCEPT ![p] = Idle]

(* The worker is killed or a statement raises: nothing is committed. *)
Abort(p) ==
  /\ req[p] # Idle
  /\ Finish(p)
  /\ UNCHANGED <<agent, application, vote, trail>>

-----------------------------------------------------------------------------
(* enroll_submit: no credentials; the name must not be a live agent's. *)
Submit(e, n) ==
  /\ application[e] = Unsubmitted
  /\ ~Live(n)
  /\ \E role \in Asked :
       application' = [application EXCEPT ![e] =
         [status |-> "pending", name |-> n, asked |-> role, assigned |-> None]]
  /\ UNCHANGED <<agent, vote, trail, req>>

Open(e) == application[e].status \in {"pending", "approved"}

(* Mutant: only an assigned role is on file. *)
AssignedOnly(row) == row.assigned

RoleOnFile(row) == IF row.assigned # None THEN row.assigned ELSE row.asked

(* enroll_approve: check the application, ... *)
VoteBegin(p, a, e) ==
  /\ IsManager(a)
  /\ Open(e)
  /\ a # application[e].name
  /\ \E decision \in {"approve", "reject"}, role \in OrNone(Asked) :
       Start(p, [op |-> "vote", by |-> a, app |-> e,
                 ballot |-> [decision |-> decision, role |-> role],
                 onFile |-> RoleOnFile(application[e]), cast |-> FALSE,
                 seen |-> [n \in Names |-> NoVote]])

(* ... write the vote and count the votes there are.  A second vote of the *)
(* same manager waits for the first to commit (INSERT ... ON CONFLICT).    *)
SameBallot(p, q) ==
  /\ req[q] # Idle /\ req[q].op = "vote" /\ req[q].cast
  /\ req[q].by = req[p].by /\ req[q].app = req[p].app

VoteCast(p) ==
  /\ req[p] # Idle /\ req[p].op = "vote" /\ ~req[p].cast
  /\ ~\E q \in Workers : SameBallot(p, q)
  /\ req' = [req EXCEPT ![p].cast = TRUE,
                        ![p].seen = [vote[req[p].app] EXCEPT ![req[p].by] = req[p].ballot]]
  /\ UNCHANGED <<agent, application, vote, trail>>

Approvers(votes) == {n \in Names : votes[n].decision = "approve"}
Rejected(votes)  == \E n \in Names : votes[n].decision = "reject"

(* Mutants: rejects count as votes; the quorum has to be exceeded. *)
CarriedByAnyVotes(votes) == Cardinality({n \in Names : votes[n] # NoVote}) >= Quorum
CarriedByMore(votes) == Cardinality(Approvers(votes)) > Quorum /\ ~Rejected(votes)

Carried(votes) == Cardinality(Approvers(votes)) >= Quorum /\ ~Rejected(votes)

(* The role the vote assigns: one of the approvers', or the one on file.   *)
(* The SELECT has no ORDER BY, so any approver's may come first.           *)
AssignedRoles(votes, onFile) ==
  LET named == {votes[n].role : n \in Approvers(votes)} \ {None}
  IN  IF named # {} THEN named ELSE {onFile}

VoteEnd(p) ==
  /\ req[p] # Idle /\ req[p].op = "vote" /\ req[p].cast
  /\ LET r == req[p]
         e == r.app
     IN  /\ IF Carried(r.seen)
            THEN \E role \in AssignedRoles(r.seen, r.onFile) :
                   application' = [application EXCEPT ![e].status = "approved",
                                                      ![e].assigned = role]
            ELSE application' =
                   IF Rejected(r.seen) /\ application[e].status = "pending"
                   THEN [application EXCEPT ![e].status = "rejected"]
                   ELSE application
         /\ vote' = [vote EXCEPT ![e][r.by] = r.ballot]
         /\ trail' = trail \cup {[by |-> r.by, app |-> e, decision |-> r.ballot.decision]}
  /\ Finish(p)
  /\ UNCHANGED agent

-----------------------------------------------------------------------------
(* enroll_status: the first poll after the approval creates the agent. *)
PullBegin(p, e) ==
  /\ application[e].status = "approved"
  /\ Start(p, [op |-> "pull", app |-> e, name |-> application[e].name,
               role |-> application[e].assigned])

(* Mutant: the INSERT's outcome is not looked at. *)
ProvisionedAnyway(e, n, role) ==
  /\ agent' = IF agent[n] = NoAgent
              THEN [agent EXCEPT ![n] =
                     [role |-> role, revoked |-> FALSE, source |-> e]]
              ELSE agent
  /\ application' = [application EXCEPT ![e].status = "provisioned"]

(* Mutant: an application whose name is wanted by another one has to wait. *)
ProvisionedAlone(e, n, role) ==
  IF agent[n] = NoAgent /\ \A f \in Applications \ {e} : application[f].name # n
  THEN /\ agent' = [agent EXCEPT ![n] = [role |-> role, revoked |-> FALSE, source |-> e]]
       /\ application' = [application EXCEPT ![e].status = "provisioned"]
  ELSE UNCHANGED <<agent, application>>

(* INSERT ... ON CONFLICT (name) DO NOTHING; a taken name rolls back. *)
Provisioned(e, n, role) ==
  IF agent[n] = NoAgent
  THEN /\ agent' = [agent EXCEPT ![n] =
                     [role |-> role, revoked |-> FALSE, source |-> e]]
       /\ application' = [application EXCEPT ![e].status = "provisioned"]
  ELSE UNCHANGED <<agent, application>>

PullEnd(p) ==
  /\ req[p] # Idle /\ req[p].op = "pull"
  /\ Provisioned(req[p].app, req[p].name, req[p].role)
  /\ Finish(p)
  /\ UNCHANGED <<vote, trail>>

-----------------------------------------------------------------------------
(* Mutant: a manager may act on itself. *)
SelfLockout(a, n, op, role) == TRUE

(* agent_revoke refuses the caller's own name, agent_update a change of    *)
(* the caller's own role away from manager.                                *)
Permitted(a, n, op, role) ==
  n = a => op = "set_role" /\ role = "manager"

RosterBegin(p, a, n) ==
  /\ IsManager(a)
  /\ \E op \in {"revoke", "unrevoke", "set_role"}, role \in OrNone(Reassigned) :
       /\ role = None <=> op # "set_role"
       /\ Permitted(a, n, op, role)
       /\ Start(p, [op |-> op, by |-> a, name |-> n, role |-> role])

RosterEnd(p) ==
  /\ req[p] # Idle /\ req[p].op \in {"revoke", "unrevoke", "set_role"}
  /\ LET r == req[p]
     IN  agent' = IF agent[r.name] = NoAgent
                  THEN agent
                  ELSE CASE r.op = "revoke"   -> [agent EXCEPT ![r.name].revoked = TRUE]
                         [] r.op = "unrevoke" -> [agent EXCEPT ![r.name].revoked = FALSE]
                         [] OTHER             -> [agent EXCEPT ![r.name].role = r.role]
  /\ Finish(p)
  /\ UNCHANGED <<application, vote, trail>>

-----------------------------------------------------------------------------
Next ==
  \/ \E e \in Applications, n \in Names : Submit(e, n)
  \/ \E p \in Workers :
       \/ \E a \in Names, e \in Applications : VoteBegin(p, a, e)
       \/ VoteCast(p)
       \/ VoteEnd(p)
       \/ \E e \in Applications : PullBegin(p, e)
       \/ PullEnd(p)
       \/ \E a \in Names, n \in Names : RosterBegin(p, a, n)
       \/ RosterEnd(p)
       \/ Abort(p)

Spec == Init /\ [][Next]_vars

(* An applicant polls until it is answered; requests are not killed for    *)
(* ever and every worker gets to the end of what it started.               *)
Serving(p) == VoteCast(p) \/ VoteEnd(p) \/ PullEnd(p) \/ RosterEnd(p)

FairSpec ==
  /\ Spec
  /\ \A p \in Workers : WF_vars(Serving(p))
  /\ \A e \in Applications :
       /\ SF_vars(\E p \in Workers : PullBegin(p, e))
       /\ SF_vars(\E p \in Workers : req[p] # Idle /\ req[p].op = "pull" /\ req[p].app = e /\ PullEnd(p))

-----------------------------------------------------------------------------
ApprovedBy(e) == {n \in Names : [by |-> n, app |-> e, decision |-> "approve"] \in trail}

(* Every agent that is no founder was provisioned from an application for  *)
(* its name that at least ENROLL_APPROVALS distinct managers, the          *)
(* applicant not among them, had voted to approve, and the log says who.   *)
AgentsWereApproved ==
  \A n \in Names \ Founders : agent[n] # NoAgent =>
    \E e \in Applications :
      /\ agent[n].source = e
      /\ application[e].name = n
      /\ n \notin ApprovedBy(e)
      /\ Cardinality(ApprovedBy(e)) >= Quorum

(* A provisioned application has its own agent: of two applications for    *)
(* one name, or two polls at once, a single one is answered with a token.  *)
ProvisionedHaveTheirAgent ==
  \A e \in Applications : application[e].status = "provisioned" =>
    /\ agent[application[e].name] # NoAgent
    /\ agent[application[e].name].source = e

ManagersRemain == \E n \in Names : IsManager(n)

Committing(p) == req[p] # Idle /\ req'[p] = Idle

(* The lock-out guards of agent_revoke and agent_update look at the caller *)
(* as it was when it logged in.  They keep a manager in the fleet, however *)
(* requests overlap, except where the caller lost the role or the access   *)
(* of a manager while its request was under way: only such a request takes *)
(* away the last manager.                                                  *)
OnlyFormerManagersTakeTheLast ==
  [][ManagersRemain /\ ~ManagersRemain' =>
       \E p \in Workers : Committing(p) /\ ~IsManager(req[p].by)]_vars

Recognised(e) ==
  Cardinality(Approvers(vote[e])) >= Quorum /\ ~Rejected(vote[e]) =>
    application[e].status \in {"approved", "provisioned"}

(* enroll_approve counts the votes it sees.  However votes overlap with    *)
(* each other, with polls and with changes of the roster, an application   *)
(* that has its quorum and no reject stays undecided only after a vote     *)
(* that another vote overtook between its count and its commit.            *)
OnlyOvertakenVotesMissTheQuorum ==
  [][\A e \in Applications :
       Recognised(e) /\ ~Recognised(e)' =>
         \E p \in Workers :
           /\ Committing(p) /\ req[p].op = "vote" /\ req[p].app = e
           /\ req[p].seen # [vote[e] EXCEPT ![req[p].by] = req[p].ballot]]_vars

(* An approved application is provisioned, unless its name was taken. *)
ApprovalsAreAnswered ==
  \A e \in Applications :
    application[e].status = "approved"
      ~> application[e].status # "approved" \/ agent[application[e].name] # NoAgent

-----------------------------------------------------------------------------
(* What comments and documents of the code claim, and TLC refutes.   *)

(* Approved is "distinct manager 'approve' votes >= K AND no 'reject'      *)
(* votes" (migration 0015), once the last of the votes is in.              *)
QuorumIsRecognised ==
  \A e \in Applications :
    (\A p \in Workers : req[p] # Idle /\ req[p].op = "vote" => req[p].app # e)
      => Recognised(e)

(* "a blocking reject is terminal" (enroll_approve), as is a provisioning. *)
SettledStaySettled ==
  [][\A e \in Applications :
       application[e].status \in {"rejected", "provisioned"} =>
         application'[e].status = application[e].status]_vars

(* Approved means enough approvals and no reject: an application with a    *)
(* reject among its votes is not provisioned.                              *)
RejectsBlockProvisioning ==
  [][\A e \in Applications :
       Rejected(vote[e]) /\ application'[e].status = "provisioned" =>
         application[e].status = "provisioned"]_vars
=============================================================================
