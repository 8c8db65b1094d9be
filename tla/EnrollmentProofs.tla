-------------------------- MODULE EnrollmentProofs --------------------------
(***************************************************************************)
(* Proofs about Enrollment, for any roster, any set of applications, any   *)
(* number of gunicorn workers and any quorum.  The inductive invariant     *)
(* says of every vote that is written or counted that the log has it, and  *)
(* of every application that was approved, or is being polled as approved, *)
(* that the log has enough approvals of it: entries are never removed.     *)
(* The last part is about what overlapping requests can break: who takes   *)
(* away the last manager, and which votes miss the quorum.                 *)
(***************************************************************************)
EXTENDS Enrollment, FiniteSetTheorems, TLAPS

Requests == VoteRequest \cup PullRequest \cup RosterRequest \cup {Idle}

Approval(n, e) == [by |-> n, app |-> e, decision |-> "approve"]
Voters(e, entries) == {n \in Names : Approval(n, e) \in entries}
Backed(e, entries) == Cardinality(Voters(e, entries)) >= Quorum

(* What is true of an application. *)
FileInv(row, e, entries) ==
  /\ row.status = "none" => row = Unsubmitted
  /\ row.status # "none" => row.name \in Names /\ row.asked \in EnrollRoles
  /\ row.status = "approved" => row.assigned \in EnrollRoles
  /\ row.status \in {"approved", "provisioned"} => Backed(e, entries)

(* Nobody voted on an application that does not exist, or on its own. *)
TrailInv(files, entries) ==
  \A t \in entries : files[t.app].status # "none" /\ t.by # files[t.app].name

VoteInv(votes, entries) ==
  \A e \in Applications, n \in Names :
    votes[e][n].decision = "approve" => Approval(n, e) \in entries

(* What a request in progress may rely on when it writes. *)
RequestInv(r, files, entries) ==
  /\ r.op = "vote" =>
       /\ files[r.app].status # "none" /\ r.by # files[r.app].name
       /\ r.ballot.decision # "none"
       /\ r.cast => \A n \in Names : r.seen[n].decision = "approve" =>
                       \/ n = r.by /\ r.ballot.decision = "approve"
                       \/ Approval(n, r.app) \in entries
  /\ r.op = "pull" =>
       /\ files[r.app].status # "none" /\ files[r.app].name = r.name
       /\ Backed(r.app, entries)
  /\ r.op = "set_role" => r.role \in AgentRoles
  /\ r.op \in {"revoke", "unrevoke", "set_role"} => Permitted(r.by, r.name, r.op, r.role)

AgentInv(n, row, files, entries) ==
  row # NoAgent /\ n \notin Founders =>
    /\ row.source \in Applications
    /\ files[row.source].status # "none" /\ files[row.source].name = n
    /\ Backed(row.source, entries)

TokenInv(agents, files) ==
  \A e \in Applications : files[e].status = "provisioned" =>
    agents[files[e].name] # NoAgent /\ agents[files[e].name].source = e

IInv ==
  /\ TypeOK
  /\ \A e \in Applications : FileInv(application[e], e, trail)
  /\ TrailInv(application, trail)
  /\ VoteInv(vote, trail)
  /\ \A p \in Workers : RequestInv(req[p], application, trail)
  /\ \A n \in Names : AgentInv(n, agent[n], application, trail)
  /\ TokenInv(agent, application)

(* Once submitted, an application keeps its name. *)
Kept(old, new) ==
  \A e \in Applications : old[e].status # "none" =>
    new[e].status # "none" /\ new[e].name = old[e].name

-----------------------------------------------------------------------------
LEMMA NoAgentIsNoAgent == NoAgent \notin AgentRow
  BY SMT DEF NoAgent, AgentRow

LEMMA RequestsApart ==
  ASSUME NEW r \in Requests
  PROVE  /\ r.op = "vote" => r \in VoteRequest
         /\ r.op = "pull" => r \in PullRequest
         /\ r.op \in {"revoke", "unrevoke", "set_role"} => r \in RosterRequest
  BY SMT DEF Requests, VoteRequest, PullRequest, RosterRequest, Idle

(* The log only grows, so an application keeps the approvals it had. *)
LEMMA BackedMonotone ==
  ASSUME NEW S, NEW T, S \subseteq T, NEW e, Backed(e, S)
  PROVE  Backed(e, T)
<1>1. Voters(e, S) \subseteq Voters(e, T) /\ Voters(e, T) \subseteq Names
  BY DEF Voters
<1>2. IsFiniteSet(Voters(e, T)) /\ IsFiniteSet(Voters(e, S))
  BY <1>1, FS_Subset, EnrollmentAssumption
<1>3. Cardinality(Voters(e, S)) <= Cardinality(Voters(e, T))
  BY <1>1, <1>2, FS_Subset
<1>4. Cardinality(Voters(e, S)) \in Nat /\ Cardinality(Voters(e, T)) \in Nat
  BY <1>2, FS_CardinalityType
<1> QED
  BY <1>3, <1>4, EnrollmentAssumption DEF Backed

LEMMA RequestStable ==
  ASSUME NEW r \in Requests, NEW old, NEW new, Kept(old, new),
         NEW S, NEW T, S \subseteq T, RequestInv(r, old, S)
  PROVE  RequestInv(r, new, T)
<1>1. CASE r.op = "vote"
  BY <1>1, RequestsApart DEF RequestInv, Kept, VoteRequest
<1>2. CASE r.op = "pull"
  BY <1>2, RequestsApart, BackedMonotone DEF RequestInv, Kept, PullRequest
<1> QED
  BY <1>1, <1>2 DEF RequestInv

LEMMA AgentStable ==
  ASSUME NEW n, NEW row, NEW old, NEW new, Kept(old, new),
         NEW S, NEW T, S \subseteq T, AgentInv(n, row, old, S)
  PROVE  AgentInv(n, row, new, T)
  BY BackedMonotone DEF AgentInv, Kept

LEMMA TrailStable ==
  ASSUME NEW S \in SUBSET Entry, NEW old, NEW new, Kept(old, new), TrailInv(old, S)
  PROVE  TrailInv(new, S)
  BY DEF TrailInv, Kept, Entry

(* A step preserves the invariant if applications keep their names, the    *)
(* log only grows, and what it writes is sound.                            *)
LEMMA Keeps ==
  ASSUME IInv, TypeOK',
         Kept(application, application'), trail \subseteq trail',
         \A e \in Applications : FileInv(application'[e], e, trail'),
         TrailInv(application', trail'), VoteInv(vote', trail'),
         \A p \in Workers : \/ req'[p] \in {req[p], Idle}
                            \/ RequestInv(req'[p], application', trail'),
         \A n \in Names : \/ agent'[n] = agent[n]
                          \/ AgentInv(n, agent'[n], application', trail'),
         TokenInv(agent', application')
  PROVE  IInv'
<1>1. ASSUME NEW p \in Workers
      PROVE  RequestInv(req'[p], application', trail')
  <2>1. CASE req'[p] = req[p]
    <3>1. req[p] \in Requests /\ RequestInv(req[p], application, trail)
      BY DEF IInv, TypeOK, Requests
    <3> QED
      BY <2>1, <3>1, RequestStable
  <2>2. CASE req'[p] = Idle
    BY <2>2 DEF RequestInv, Idle
  <2> QED
    BY <2>1, <2>2
<1>2. ASSUME NEW n \in Names
      PROVE  AgentInv(n, agent'[n], application', trail')
  <2>1. CASE agent'[n] = agent[n]
    <3>1. AgentInv(n, agent[n], application, trail)
      BY DEF IInv
    <3> QED
      BY <2>1, <3>1, AgentStable
  <2> QED
    BY <2>1
<1> QED
  BY <1>1, <1>2 DEF IInv

LEMMA KeptRefl == ASSUME NEW files PROVE Kept(files, files)
  BY DEF Kept

LEMMA StartKeeps ==
  ASSUME IInv, NEW p \in Workers, NEW r \in Requests,
         RequestInv(r, application, trail), Start(p, r)
  PROVE  IInv'
<1>1. /\ application' = application /\ agent' = agent /\ vote' = vote /\ trail' = trail
      /\ req' = [req EXCEPT ![p] = r]
  BY DEF Start
<1>2. TypeOK'
  BY <1>1 DEF IInv, TypeOK, Requests
<1>3. \A q \in Workers : req'[q] = req[q] \/ RequestInv(req'[q], application', trail')
  BY <1>1 DEF IInv, TypeOK
<1> QED
  BY <1>1, <1>2, <1>3, Keeps, KeptRefl DEF IInv

-----------------------------------------------------------------------------
LEMMA SubmitKeeps ==
  ASSUME IInv, NEW e \in Applications, NEW n \in Names, Submit(e, n)
  PROVE  IInv'
<1>1. PICK role \in Asked :
        application' = [application EXCEPT ![e] =
          [status |-> "pending", name |-> n, asked |-> role, assigned |-> None]]
  BY DEF Submit
<1> DEFINE row == [status |-> "pending", name |-> n, asked |-> role, assigned |-> None]
<1>2. role \in EnrollRoles
  BY EnrollmentAssumption
<1>3. row \in Application
  BY <1>2 DEF Application, OrNone
<1>4. /\ application[e].status = "none"
      /\ agent' = agent /\ vote' = vote /\ trail' = trail /\ req' = req
  BY DEF Submit, Unsubmitted
<1>5. application \in [Applications -> Application]
  BY DEF IInv, TypeOK
<1>6. application'[e] = row /\ \A f \in Applications \ {e} : application'[f] = application[f]
  BY <1>1, <1>5
<1>7. TypeOK'
  BY <1>1, <1>3, <1>4 DEF IInv, TypeOK
<1>8. Kept(application, application')
  BY <1>4, <1>6 DEF Kept
<1>9. \A f \in Applications : FileInv(application'[f], f, trail')
  BY <1>2, <1>4, <1>6 DEF IInv, FileInv
<1>10. TrailInv(application', trail')
  BY <1>4, <1>8, TrailStable DEF IInv, TypeOK
<1>11. TokenInv(agent', application')
  BY <1>4, <1>6 DEF IInv, TokenInv
<1> QED
  BY <1>4, <1>7, <1>8, <1>9, <1>10, <1>11, Keeps DEF IInv

LEMMA VoteBeginKeeps ==
  ASSUME IInv, NEW p \in Workers, NEW a \in Names, NEW e \in Applications, VoteBegin(p, a, e)
  PROVE  IInv'
<1>1. PICK decision \in {"approve", "reject"}, role \in OrNone(Asked) :
        Start(p, [op |-> "vote", by |-> a, app |-> e,
                  ballot |-> [decision |-> decision, role |-> role],
                  onFile |-> RoleOnFile(application[e]), cast |-> FALSE,
                  seen |-> [n \in Names |-> NoVote]])
  BY DEF VoteBegin
<1> DEFINE r == [op |-> "vote", by |-> a, app |-> e,
                 ballot |-> [decision |-> decision, role |-> role],
                 onFile |-> RoleOnFile(application[e]), cast |-> FALSE,
                 seen |-> [n \in Names |-> NoVote]]
<1>2. application[e] \in Application /\ application[e].status # "none"
      /\ application[e].name # a
  BY DEF IInv, TypeOK, VoteBegin, Open
<1>3. RoleOnFile(application[e]) \in EnrollRoles
  BY <1>2 DEF IInv, FileInv, RoleOnFile, Application, OrNone
<1>4. [decision |-> decision, role |-> role] \in Vote /\ NoVote \in Vote
  BY EnrollmentAssumption DEF Vote, NoVote, OrNone
<1>5. r \in VoteRequest
  BY <1>3, <1>4 DEF VoteRequest
<1>6. RequestInv(r, application, trail)
  BY <1>2 DEF RequestInv
<1> HIDE DEF r
<1> QED
  BY <1>1, <1>5, <1>6, StartKeeps DEF Requests, r

LEMMA VoteCastKeeps ==
  ASSUME IInv, NEW p \in Workers, VoteCast(p)
  PROVE  IInv'
<1> DEFINE r == req[p]
           new == [r EXCEPT !.cast = TRUE, !.seen = [vote[r.app] EXCEPT ![r.by] = r.ballot]]
<1>1. r \in VoteRequest /\ RequestInv(r, application, trail)
  BY RequestsApart DEF VoteCast, IInv, TypeOK, Requests
<1>2. /\ agent' = agent /\ application' = application /\ vote' = vote /\ trail' = trail
      /\ req' = [req EXCEPT ![p] = new]
  BY <1>1 DEF VoteCast, IInv, TypeOK
<1>3. vote[r.app] \in [Names -> Vote] /\ r.by \in Names /\ r.ballot \in Vote
      /\ r.app \in Applications
  BY <1>1 DEF VoteRequest, IInv, TypeOK
<1>4. [vote[r.app] EXCEPT ![r.by] = r.ballot] \in [Names -> Vote]
  BY <1>3
<1>5. new \in VoteRequest /\ new.op = "vote" /\ new.app = r.app /\ new.by = r.by
      /\ new.ballot = r.ballot /\ new.seen = [vote[r.app] EXCEPT ![r.by] = r.ballot]
  BY <1>1, <1>4 DEF VoteRequest
<1>6. \A n \in Names : new.seen[n].decision = "approve" =>
        \/ n = r.by /\ r.ballot.decision = "approve"
        \/ Approval(n, r.app) \in trail
  BY <1>3, <1>5 DEF IInv, VoteInv
<1>7. RequestInv(new, application, trail)
  BY <1>1, <1>5, <1>6 DEF RequestInv, VoteRequest
<1> HIDE DEF new
<1>8. TypeOK'
  BY <1>2, <1>5 DEF IInv, TypeOK
<1>9. \A q \in Workers : req'[q] = req[q] \/ RequestInv(req'[q], application', trail')
  BY <1>2, <1>7 DEF IInv, TypeOK
<1> QED
  BY <1>2, <1>8, <1>9, Keeps, KeptRefl DEF IInv

LEMMA VoteEndKeeps ==
  ASSUME IInv, NEW p \in Workers, VoteEnd(p)
  PROVE  IInv'
<1> DEFINE r == req[p]
           e == r.app
           entry == [by |-> r.by, app |-> e, decision |-> r.ballot.decision]
<1>1. /\ r.op = "vote" /\ r.cast
      /\ trail' = trail \cup {entry}
      /\ vote' = [vote EXCEPT ![e][r.by] = r.ballot]
      /\ req' = [req EXCEPT ![p] = Idle]
      /\ agent' = agent
  BY DEF VoteEnd, Finish
<1>2. r \in VoteRequest /\ RequestInv(r, application, trail)
  BY <1>1, RequestsApart DEF IInv, TypeOK, Requests
<1>3. /\ e \in Applications /\ r.by \in Names /\ r.ballot \in Vote /\ r.onFile \in EnrollRoles
      /\ r.seen \in [Names -> Vote]
  BY <1>2 DEF VoteRequest
<1>4. /\ application[e].status # "none" /\ r.by # application[e].name
      /\ r.ballot.decision # "none"
      /\ \A n \in Names : r.seen[n].decision = "approve" =>
           (n = r.by /\ r.ballot.decision = "approve") \/ Approval(n, e) \in trail
  BY <1>1, <1>2 DEF RequestInv
<1>5. entry \in Entry
  BY <1>3, <1>4 DEF Entry, Vote
<1>6. application[e] \in Application /\ application \in [Applications -> Application]
  BY <1>3 DEF IInv, TypeOK
<1>7. ASSUME Carried(r.seen)
      PROVE  Backed(e, trail')
  <2>1. Approvers(r.seen) \subseteq Voters(e, trail')
    BY <1>1, <1>4 DEF Approvers, Voters, Approval
  <2>2. Voters(e, trail') \subseteq Names
    BY DEF Voters
  <2>3. IsFiniteSet(Voters(e, trail')) /\ IsFiniteSet(Approvers(r.seen))
        /\ Cardinality(Approvers(r.seen)) <= Cardinality(Voters(e, trail'))
    BY <2>1, <2>2, FS_Subset, EnrollmentAssumption
  <2>4. Cardinality(Approvers(r.seen)) \in Nat /\ Cardinality(Voters(e, trail')) \in Nat
    BY <2>3, FS_CardinalityType
  <2> QED
    BY <1>7, <2>3, <2>4, EnrollmentAssumption DEF Carried, Backed
(* The row of the application after the vote. *)
<1>8. /\ application' \in [Applications -> Application]
      /\ \A f \in Applications \ {e} : application'[f] = application[f]
      /\ application'[e].status # "none"
      /\ application'[e].name = application[e].name
      /\ application'[e].asked = application[e].asked
      /\ \/ Carried(r.seen) /\ application'[e].status = "approved"
            /\ application'[e].assigned \in EnrollRoles
         \/ application'[e].status = "rejected"
         \/ application'[e] = application[e]
  <2>1. CASE Carried(r.seen)
    <3>1. PICK role \in AssignedRoles(r.seen, r.onFile) :
            application' = [application EXCEPT ![e].status = "approved", ![e].assigned = role]
      BY <2>1 DEF VoteEnd
    <3>2. role \in EnrollRoles
      BY <1>3 DEF AssignedRoles, Approvers, Vote, OrNone
    <3> QED
      BY <1>3, <1>6, <2>1, <3>1, <3>2 DEF Application, OrNone
  <2>2. CASE ~Carried(r.seen) /\ Rejected(r.seen) /\ application[e].status = "pending"
    <3>1. application' = [application EXCEPT ![e].status = "rejected"]
      BY <2>2 DEF VoteEnd
    <3> QED
      BY <1>3, <1>6, <3>1 DEF Application
  <2>3. CASE ~Carried(r.seen) /\ ~(Rejected(r.seen) /\ application[e].status = "pending")
    <3>1. application' = application
      BY <2>3 DEF VoteEnd
    <3> QED
      BY <1>4, <1>6, <3>1
  <2> QED
    BY <2>1, <2>2, <2>3
<1> HIDE DEF r, e
<1>9. Kept(application, application')
  BY <1>8 DEF Kept
<1>10. TypeOK'
  <2>1. vote' \in [Applications -> [Names -> Vote]]
    BY <1>1, <1>3 DEF IInv, TypeOK
  <2>2. req' \in [Workers -> VoteRequest \cup PullRequest \cup RosterRequest \cup {Idle}]
    BY <1>1 DEF IInv, TypeOK
  <2> QED
    BY <1>1, <1>5, <1>8, <2>1, <2>2 DEF IInv, TypeOK
<1>11. \A f \in Applications : FileInv(application'[f], f, trail')
  <2> SUFFICES ASSUME NEW f \in Applications PROVE FileInv(application'[f], f, trail')
    OBVIOUS
  <2>1. FileInv(application[f], f, trail) /\ trail \subseteq trail'
    BY <1>1 DEF IInv
  <2>2. CASE application'[f] = application[f]
    BY <2>1, <2>2, BackedMonotone DEF FileInv
  <2>3. CASE application'[f] # application[f]
    BY <1>4, <1>7, <1>8, <2>1, <2>3 DEF FileInv
  <2> QED
    BY <2>2, <2>3
<1>12. TrailInv(application', trail')
  <2>1. TrailInv(application', trail)
    BY <1>9, TrailStable DEF IInv, TypeOK
  <2>2. application'[entry.app].status # "none" /\ entry.by # application'[entry.app].name
    BY <1>4, <1>8
  <2> QED
    BY <1>1, <2>1, <2>2 DEF TrailInv
<1>13. VoteInv(vote', trail')
  <2> SUFFICES ASSUME NEW f \in Applications, NEW n \in Names,
                      vote'[f][n].decision = "approve"
               PROVE  Approval(n, f) \in trail'
    BY DEF VoteInv
  <2>1. CASE f = e /\ n = r.by
    <3>1. vote'[f][n] = r.ballot
      BY <1>1, <1>3, <2>1 DEF IInv, TypeOK
    <3> QED
      BY <1>1, <2>1, <3>1 DEF Approval
  <2>2. CASE ~(f = e /\ n = r.by)
    <3>1. vote'[f][n] = vote[f][n]
      BY <1>1, <1>3, <2>2 DEF IInv, TypeOK
    <3> QED
      BY <1>1, <3>1 DEF IInv, VoteInv
  <2> QED
    BY <2>1, <2>2
<1>14. TokenInv(agent', application')
  BY <1>1, <1>3, <1>8 DEF IInv, TokenInv
<1>15. \A q \in Workers : req'[q] \in {req[q], Idle}
  BY <1>1 DEF IInv, TypeOK
<1> QED
  BY <1>1, <1>9, <1>10, <1>11, <1>12, <1>13, <1>14, <1>15, Keeps DEF IInv

-----------------------------------------------------------------------------
LEMMA PullBeginKeeps ==
  ASSUME IInv, NEW p \in Workers, NEW e \in Applications, PullBegin(p, e)
  PROVE  IInv'
<1> DEFINE r == [op |-> "pull", app |-> e, name |-> application[e].name,
                 role |-> application[e].assigned]
<1>1. application[e].status = "approved" /\ Start(p, r)
  BY DEF PullBegin
<1>2. application[e].name \in Names /\ application[e].assigned \in EnrollRoles
      /\ Backed(e, trail)
  BY <1>1 DEF IInv, FileInv
<1>3. r \in PullRequest
  BY <1>2 DEF PullRequest
<1>4. RequestInv(r, application, trail)
  BY <1>1, <1>2 DEF RequestInv
<1> HIDE DEF r
<1> QED
  BY <1>1, <1>3, <1>4, StartKeeps DEF Requests

LEMMA PullEndKeeps ==
  ASSUME IInv, NEW p \in Workers, PullEnd(p)
  PROVE  IInv'
<1> DEFINE r == req[p]
           e == r.app
           n == r.name
           row == [role |-> r.role, revoked |-> FALSE, source |-> e]
<1>1. /\ r.op = "pull" /\ Provisioned(e, n, r.role)
      /\ req' = [req EXCEPT ![p] = Idle]
      /\ vote' = vote /\ trail' = trail
  BY DEF PullEnd, Finish
<1>2. r \in PullRequest /\ RequestInv(r, application, trail)
  BY <1>1, RequestsApart DEF IInv, TypeOK, Requests
<1>3. e \in Applications /\ n \in Names /\ r.role \in EnrollRoles
  BY <1>2 DEF PullRequest
<1>4. application[e].status # "none" /\ application[e].name = n /\ Backed(e, trail)
  BY <1>1, <1>2 DEF RequestInv
<1>5. req' \in [Workers -> VoteRequest \cup PullRequest \cup RosterRequest \cup {Idle}]
      /\ \A q \in Workers : req'[q] \in {req[q], Idle}
  BY <1>1 DEF IInv, TypeOK
<1>6. row \in AgentRow
  BY <1>3 DEF AgentRow, EnrollRoles, AgentRoles, OrNone
<1> HIDE DEF r, e, n
<1>7. CASE agent[n] = NoAgent
  <2>1. /\ agent' = [agent EXCEPT ![n] = row]
        /\ application' = [application EXCEPT ![e].status = "provisioned"]
    BY <1>1, <1>7 DEF Provisioned
  <2>2. /\ agent' \in [Names -> AgentRow \cup {NoAgent}]
        /\ agent'[n] = row /\ \A m \in Names \ {n} : agent'[m] = agent[m]
    BY <1>3, <1>6, <2>1 DEF IInv, TypeOK
  <2>3. application' \in [Applications -> Application]
    BY <1>3, <2>1 DEF IInv, TypeOK, Application
  <2>4. \A f \in Applications \ {e} : application'[f] = application[f]
    BY <2>1 DEF IInv, TypeOK
  <2>5. /\ application'[e].status = "provisioned" /\ application'[e].name = n
        /\ application'[e].asked = application[e].asked
    BY <1>3, <1>4, <2>1 DEF IInv, TypeOK, Application
  <2>6. TypeOK'
    BY <1>1, <1>5, <2>2, <2>3 DEF IInv, TypeOK
  <2>7. Kept(application, application')
    BY <1>4, <2>4, <2>5 DEF Kept
  <2>8. \A f \in Applications : FileInv(application'[f], f, trail')
    <3> SUFFICES ASSUME NEW f \in Applications PROVE FileInv(application'[f], f, trail')
      OBVIOUS
    <3>1. FileInv(application[f], f, trail)
      BY DEF IInv
    <3>2. CASE f = e
      BY <1>1, <1>4, <2>5, <3>1, <3>2 DEF FileInv
    <3>3. CASE f # e
      BY <1>1, <2>4, <3>1, <3>3
    <3> QED
      BY <3>2, <3>3
  <2>9. TrailInv(application', trail')
    BY <1>1, <2>7, TrailStable DEF IInv, TypeOK
  <2>10. AgentInv(n, agent'[n], application', trail')
    BY <1>1, <1>3, <1>4, <2>2, <2>5 DEF AgentInv
  <2>11. \A m \in Names : agent'[m] = agent[m] \/ AgentInv(m, agent'[m], application', trail')
    BY <2>2, <2>10
  <2>12. TokenInv(agent', application')
    <3> SUFFICES ASSUME NEW f \in Applications, application'[f].status = "provisioned"
                 PROVE  agent'[application'[f].name] # NoAgent
                        /\ agent'[application'[f].name].source = f
      BY DEF TokenInv
    <3>1. CASE f = e
      BY <1>6, <2>2, <2>5, <3>1, NoAgentIsNoAgent
    <3>2. CASE f # e
      <4>1. /\ application'[f] = application[f] /\ application[f].status = "provisioned"
            /\ agent[application[f].name] # NoAgent
            /\ agent[application[f].name].source = f
            /\ application[f].name \in Names
        BY <2>4, <3>2 DEF IInv, TokenInv, FileInv
      <4>2. application[f].name # n
        BY <1>7, <4>1
      <4> QED
        BY <2>2, <4>1, <4>2
    <3> QED
      BY <3>1, <3>2
  <2> QED
    BY <1>1, <1>5, <2>6, <2>7, <2>8, <2>9, <2>11, <2>12, Keeps DEF IInv
<1>8. CASE agent[n] # NoAgent
  <2>1. agent' = agent /\ application' = application
    BY <1>1, <1>8 DEF Provisioned
  <2>2. TypeOK'
    BY <1>1, <1>5, <2>1 DEF IInv, TypeOK
  <2> QED
    BY <1>1, <1>5, <2>1, <2>2, Keeps, KeptRefl DEF IInv
<1> QED
  BY <1>7, <1>8

-----------------------------------------------------------------------------
LEMMA RosterBeginKeeps ==
  ASSUME IInv, NEW p \in Workers, NEW a \in Names, NEW n \in Names, RosterBegin(p, a, n)
  PROVE  IInv'
<1>1. PICK op \in {"revoke", "unrevoke", "set_role"}, role \in OrNone(Reassigned) :
        /\ role = None <=> op # "set_role"
        /\ Permitted(a, n, op, role)
        /\ Start(p, [op |-> op, by |-> a, name |-> n, role |-> role])
  BY DEF RosterBegin
<1> DEFINE r == [op |-> op, by |-> a, name |-> n, role |-> role]
<1>2. r \in RosterRequest
  BY EnrollmentAssumption DEF RosterRequest, OrNone
<1>3. r.op = "set_role" => r.role \in AgentRoles
  BY <1>1, EnrollmentAssumption DEF OrNone
<1>4. RequestInv(r, application, trail)
  BY <1>1, <1>3 DEF RequestInv
<1> HIDE DEF r
<1> QED
  BY <1>1, <1>2, <1>4, StartKeeps DEF Requests, r

LEMMA RosterEndKeeps ==
  ASSUME IInv, NEW p \in Workers, RosterEnd(p)
  PROVE  IInv'
<1> DEFINE r == req[p]
           n == r.name
<1>1. /\ r.op \in {"revoke", "unrevoke", "set_role"}
      /\ application' = application /\ vote' = vote /\ trail' = trail
      /\ req' = [req EXCEPT ![p] = Idle]
  BY DEF RosterEnd, Finish
<1>2. r \in RosterRequest
  BY <1>1, RequestsApart DEF IInv, TypeOK, Requests
<1>3. n \in Names /\ (r.op = "set_role" => r.role \in AgentRoles)
  BY <1>2 DEF RosterRequest, RequestInv, IInv
<1>4. /\ req' \in [Workers -> VoteRequest \cup PullRequest \cup RosterRequest \cup {Idle}]
      /\ \A q \in Workers : req'[q] \in {req[q], Idle}
  BY <1>1 DEF IInv, TypeOK
<1>5. agent \in [Names -> AgentRow \cup {NoAgent}]
  BY DEF IInv, TypeOK
(* The row changed keeps the application it came from. *)
<1>6. /\ agent' \in [Names -> AgentRow \cup {NoAgent}]
      /\ \A m \in Names : agent'[m] = NoAgent <=> agent[m] = NoAgent
      /\ \A m \in Names : agent[m] # NoAgent => agent'[m].source = agent[m].source
  <2>1. CASE agent[n] = NoAgent
    <3>1. agent' = agent
      BY <2>1 DEF RosterEnd
    <3> QED
      BY <1>5, <3>1
  <2>2. CASE agent[n] # NoAgent
    <3>1. agent[n] \in AgentRow
      BY <1>3, <1>5, <2>2
    <3>2. PICK row \in AgentRow : row.source = agent[n].source /\ agent' = [agent EXCEPT ![n] = row]
      <4>1. CASE r.op = "revoke"
        <5>1. agent' = [agent EXCEPT ![n].revoked = TRUE]
          BY <2>2, <4>1 DEF RosterEnd
        <5>2. [agent[n] EXCEPT !.revoked = TRUE] \in AgentRow
              /\ [agent[n] EXCEPT !.revoked = TRUE].source = agent[n].source
          BY <3>1 DEF AgentRow
        <5> QED
          BY <1>3, <1>5, <5>1, <5>2
      <4>2. CASE r.op = "unrevoke"
        <5>1. agent' = [agent EXCEPT ![n].revoked = FALSE]
          BY <2>2, <4>2 DEF RosterEnd
        <5>2. [agent[n] EXCEPT !.revoked = FALSE] \in AgentRow
              /\ [agent[n] EXCEPT !.revoked = FALSE].source = agent[n].source
          BY <3>1 DEF AgentRow
        <5> QED
          BY <1>3, <1>5, <5>1, <5>2
      <4>3. CASE r.op = "set_role"
        <5>1. agent' = [agent EXCEPT ![n].role = r.role]
          BY <2>2, <4>3 DEF RosterEnd
        <5>2. [agent[n] EXCEPT !.role = r.role] \in AgentRow
              /\ [agent[n] EXCEPT !.role = r.role].source = agent[n].source
          BY <1>3, <3>1, <4>3 DEF AgentRow
        <5> QED
          BY <1>3, <1>5, <5>1, <5>2
      <4> QED
        BY <1>1, <4>1, <4>2, <4>3
    <3> QED
      BY <1>3, <1>5, <2>2, <3>1, <3>2, NoAgentIsNoAgent
  <2> QED
    BY <2>1, <2>2
<1>7. TypeOK'
  BY <1>1, <1>4, <1>6 DEF IInv, TypeOK
<1>8. \A m \in Names : AgentInv(m, agent'[m], application', trail')
  BY <1>1, <1>6 DEF IInv, AgentInv
<1>9. TokenInv(agent', application')
  BY <1>1, <1>6 DEF IInv, TokenInv, FileInv
<1> QED
  BY <1>1, <1>4, <1>7, <1>8, <1>9, Keeps, KeptRefl DEF IInv

LEMMA AbortKeeps ==
  ASSUME IInv, NEW p \in Workers, Abort(p)
  PROVE  IInv'
<1>1. /\ agent' = agent /\ application' = application /\ vote' = vote /\ trail' = trail
      /\ req' = [req EXCEPT ![p] = Idle]
  BY DEF Abort, Finish
<1>2. TypeOK' /\ \A q \in Workers : req'[q] \in {req[q], Idle}
  BY <1>1 DEF IInv, TypeOK
<1> QED
  BY <1>1, <1>2, Keeps, KeptRefl DEF IInv

-----------------------------------------------------------------------------
LEMMA InitSound == Init => IInv
<1> SUFFICES ASSUME Init PROVE IInv
  OBVIOUS
<1>1. [role |-> "manager", revoked |-> FALSE, source |-> None] \in AgentRow
  BY DEF AgentRow, AgentRoles, OrNone
<1>2. Unsubmitted \in Application /\ NoVote \in Vote
  BY DEF Unsubmitted, Application, NoVote, Vote, OrNone
<1>3. TypeOK
  BY <1>1, <1>2 DEF Init, TypeOK
<1>4. \A e \in Applications : FileInv(application[e], e, trail)
  BY DEF Init, FileInv, Unsubmitted
<1>5. TrailInv(application, trail) /\ VoteInv(vote, trail)
  BY DEF Init, TrailInv, VoteInv, NoVote
<1>6. \A p \in Workers : RequestInv(req[p], application, trail)
  BY DEF Init, RequestInv, Idle
<1>7. \A n \in Names : AgentInv(n, agent[n], application, trail)
  BY DEF Init, AgentInv
<1>8. TokenInv(agent, application)
  BY DEF Init, TokenInv, Unsubmitted
<1> QED
  BY <1>3, <1>4, <1>5, <1>6, <1>7, <1>8 DEF IInv

LEMMA NextSound == IInv /\ [Next]_vars => IInv'
<1> SUFFICES ASSUME IInv, [Next]_vars PROVE IInv'
  OBVIOUS
<1>1. CASE UNCHANGED vars
  BY <1>1 DEF vars, IInv, TypeOK
<1>2. ASSUME NEW e \in Applications, NEW n \in Names, Submit(e, n) PROVE IInv'
  BY <1>2, SubmitKeeps
<1>3. ASSUME NEW p \in Workers, NEW a \in Names, NEW e \in Applications, VoteBegin(p, a, e)
      PROVE  IInv'
  BY <1>3, VoteBeginKeeps
<1>4. ASSUME NEW p \in Workers, NEW e \in Applications, PullBegin(p, e) PROVE IInv'
  BY <1>4, PullBeginKeeps
<1>5. ASSUME NEW p \in Workers, NEW a \in Names, NEW n \in Names, RosterBegin(p, a, n)
      PROVE  IInv'
  BY <1>5, RosterBeginKeeps
<1>6. ASSUME NEW p \in Workers,
             VoteCast(p) \/ VoteEnd(p) \/ PullEnd(p) \/ RosterEnd(p) \/ Abort(p)
      PROVE  IInv'
  BY <1>6, VoteCastKeeps, VoteEndKeeps, PullEndKeeps, RosterEndKeeps, AbortKeeps
<1> QED
  BY <1>1, <1>2, <1>3, <1>4, <1>5, <1>6 DEF Next

(* The inductive invariant: what is on file, counted or being written is   *)
(* backed by the log, whatever requests overlap or are killed.             *)
THEOREM InductiveInvariant == Spec => []IInv
  BY InitSound, NextSound, PTL DEF Spec

(* Every table keeps its type, for every roster and every number of        *)
(* applications and gunicorn workers.                                      *)
THEOREM TypeCorrectness == Spec => []TypeOK
<1>1. IInv => TypeOK
  BY DEF IInv
<1> QED
  BY <1>1, InductiveInvariant, PTL

(* No agent without ENROLL_APPROVALS logged approvals by others of an      *)
(* application for its name, although votes are counted before they are    *)
(* committed and the outcome is written WHERE id only.                     *)
THEOREM AgentsAreApproved == Spec => []AgentsWereApproved
<1>1. IInv => AgentsWereApproved
  <2> SUFFICES ASSUME IInv, NEW n \in Names \ Founders, agent[n] # NoAgent
               PROVE  \E e \in Applications :
                        /\ agent[n].source = e
                        /\ application[e].name = n
                        /\ n \notin ApprovedBy(e)
                        /\ Cardinality(ApprovedBy(e)) >= Quorum
    BY DEF AgentsWereApproved
  <2> DEFINE e == agent[n].source
  <2>1. /\ e \in Applications /\ application[e].status # "none" /\ application[e].name = n
        /\ Backed(e, trail)
    BY DEF IInv, AgentInv
  <2>2. ApprovedBy(e) = Voters(e, trail)
    BY DEF ApprovedBy, Voters, Approval
  <2>3. n \notin ApprovedBy(e)
    <3> SUFFICES ASSUME Approval(n, e) \in trail PROVE FALSE
      BY <2>2 DEF Voters
    <3> QED
      BY <2>1 DEF IInv, TrailInv, Approval
  <2> QED
    BY <2>1, <2>2, <2>3 DEF Backed
<1> QED
  BY <1>1, InductiveInvariant, PTL

(* Of two applications for one name, or two polls of one application, at   *)
(* most one is answered with a token, and the agent is the answered one's. *)
THEOREM TokensAreUnique == Spec => []ProvisionedHaveTheirAgent
<1>1. IInv => ProvisionedHaveTheirAgent
  BY DEF IInv, TokenInv, ProvisionedHaveTheirAgent
<1> QED
  BY <1>1, InductiveInvariant, PTL

-----------------------------------------------------------------------------
(* Requests that overlap. *)

(* The caller of a change of the roster keeps its own role and access. *)
LEMMA CallersStayManagers ==
  ASSUME IInv, NEW p \in Workers, RosterEnd(p), IsManager(req[p].by)
  PROVE  ManagersRemain'
<1>1. req[p] \in RosterRequest /\ RequestInv(req[p], application, trail)
      /\ req[p].op \in {"revoke", "unrevoke", "set_role"}
  BY RequestsApart DEF RosterEnd, IInv, TypeOK, Requests
<1>2. PICK a \in Names : a = req[p].by
  BY <1>1 DEF RosterRequest
<1>3. PICK n \in Names : n = req[p].name
  BY <1>1 DEF RosterRequest
<1>4. IsManager(a) /\ Permitted(a, n, req[p].op, req[p].role)
  BY <1>1, <1>2, <1>3 DEF RequestInv
<1>5. agent \in [Names -> AgentRow \cup {NoAgent}] /\ agent[a] \in AgentRow
  BY <1>4 DEF IsManager, Live, IInv, TypeOK
<1>6. CASE n = a
  <2>1. req[p].op = "set_role" /\ req[p].role = "manager"
    BY <1>4, <1>6 DEF Permitted
  <2>2. agent' = [agent EXCEPT ![a].role = "manager"]
    BY <1>3, <1>4, <1>6, <2>1 DEF RosterEnd, IsManager, Live
  <2>3. agent'[a] = [agent[a] EXCEPT !.role = "manager"]
    BY <1>5, <2>2
  <2>4. /\ [agent[a] EXCEPT !.role = "manager"] \in AgentRow
        /\ [agent[a] EXCEPT !.role = "manager"].role = "manager"
        /\ [agent[a] EXCEPT !.role = "manager"].revoked = agent[a].revoked
    BY <1>5 DEF AgentRow, AgentRoles
  <2> QED
    BY <1>4, <2>3, <2>4, NoAgentIsNoAgent DEF ManagersRemain, IsManager, Live
<1>7. CASE n # a
  <2>1. agent' = agent \/ \E row : agent' = [agent EXCEPT ![n] = row]
    BY <1>1, <1>3 DEF RosterEnd
  <2>2. agent'[a] = agent[a]
    BY <1>5, <1>7, <2>1
  <2> QED
    BY <1>4, <2>2 DEF ManagersRemain, IsManager, Live
<1> QED
  BY <1>6, <1>7

(* Provisioning changes nobody who is in the fleet. *)
LEMMA PullsSpareManagers ==
  ASSUME IInv, NEW p \in Workers, PullEnd(p), ManagersRemain
  PROVE  ManagersRemain'
<1>1. agent \in [Names -> AgentRow \cup {NoAgent}]
  BY DEF IInv, TypeOK
<1>2. \A m \in Names : agent[m] # NoAgent => agent'[m] = agent[m]
  BY <1>1 DEF PullEnd, Provisioned
<1> QED
  BY <1>2 DEF ManagersRemain, IsManager, Live

(* Only a manager who was one no more when its request committed takes     *)
(* away the last manager, with any number of gunicorn workers: the guards  *)
(* of agent_revoke and agent_update fail in no other way.                  *)
THEOREM LockOutGuards == Spec => OnlyFormerManagersTakeTheLast
<1>1. IInv /\ [Next]_vars =>
        [ManagersRemain /\ ~ManagersRemain' =>
           \E p \in Workers : Committing(p) /\ ~IsManager(req[p].by)]_vars
  <2> SUFFICES ASSUME IInv, [Next]_vars, ManagersRemain, ~ManagersRemain'
               PROVE  \E p \in Workers : Committing(p) /\ ~IsManager(req[p].by)
    OBVIOUS
  <2>1. agent' # agent
    BY DEF ManagersRemain, IsManager, Live
  <2>2. PICK p \in Workers : PullEnd(p) \/ RosterEnd(p)
    BY <2>1 DEF Next, vars, Submit, VoteBegin, VoteCast, VoteEnd, PullBegin, RosterBegin,
                Abort, Start
  <2>3. RosterEnd(p)
    BY <2>2, PullsSpareManagers
  <2>4. ~IsManager(req[p].by)
    BY <2>3, CallersStayManagers
  <2>5. Committing(p)
    BY <2>3 DEF RosterEnd, Finish, Committing, IInv, TypeOK
  <2> QED
    BY <2>4, <2>5
<1> QED
  BY <1>1, InductiveInvariant, PTL DEF Spec, OnlyFormerManagersTakeTheLast

-----------------------------------------------------------------------------
Overtaken(p, e) ==
  /\ Committing(p) /\ req[p].op = "vote" /\ req[p].app = e
  /\ req[p].seen # [vote[e] EXCEPT ![req[p].by] = req[p].ballot]

(* A vote that commits what it counted decides what it counted. *)
LEMMA VotesDecideWhatTheyCount ==
  ASSUME IInv, NEW p \in Workers, VoteEnd(p), NEW e \in Applications,
         Recognised(e), ~Recognised(e)'
  PROVE  Overtaken(p, e)
<1> DEFINE r == req[p]
           f == r.app
<1>1. r \in VoteRequest /\ r.op = "vote"
  BY RequestsApart DEF VoteEnd, IInv, TypeOK, Requests
<1>2. f \in Applications /\ r.by \in Names
  BY <1>1 DEF VoteRequest
<1>3. /\ vote'[f] = [vote[f] EXCEPT ![r.by] = r.ballot]
      /\ \A g \in Applications \ {f} : vote'[g] = vote[g]
  BY <1>2 DEF VoteEnd, IInv, TypeOK
<1>4. application \in [Applications -> Application]
  BY DEF IInv, TypeOK
<1>5. \A g \in Applications \ {f} : application'[g] = application[g]
  BY <1>2, <1>4 DEF VoteEnd
<1>6. Carried(r.seen) => application'[f].status = "approved"
  <2> SUFFICES ASSUME Carried(r.seen) PROVE application'[f].status = "approved"
    OBVIOUS
  <2>1. PICK role \in AssignedRoles(r.seen, r.onFile) :
          application' = [application EXCEPT ![f].status = "approved", ![f].assigned = role]
    BY DEF VoteEnd
  <2> QED
    BY <1>2, <1>4, <2>1 DEF Application
<1>7. e = f
  BY <1>3, <1>5 DEF Recognised
<1>8. r.seen # [vote[f] EXCEPT ![r.by] = r.ballot]
  BY <1>3, <1>6, <1>7 DEF Recognised, Carried
<1>9. Committing(p)
  BY DEF VoteEnd, Finish, Committing, IInv, TypeOK
<1> QED
  BY <1>1, <1>7, <1>8, <1>9 DEF Overtaken

(* An application that has its quorum and no reject is left undecided only *)
(* by a vote that was overtaken between its count and its commit, for any  *)
(* quorum and any number of gunicorn workers.                              *)
THEOREM QuorumsAreMissedByOverlapOnly == Spec => OnlyOvertakenVotesMissTheQuorum
<1>1. IInv /\ [Next]_vars =>
        [\A e \in Applications :
           Recognised(e) /\ ~Recognised(e)' => \E p \in Workers : Overtaken(p, e)]_vars
  <2> SUFFICES ASSUME IInv, [Next]_vars, NEW e \in Applications,
                      Recognised(e), ~Recognised(e)'
               PROVE  \E p \in Workers : Overtaken(p, e)
    OBVIOUS
  <2>1. application \in [Applications -> Application]
    BY DEF IInv, TypeOK
  <2>2. ~(UNCHANGED <<application, vote>>)
    BY DEF Recognised
  <2>3. ASSUME NEW f \in Applications, NEW n \in Names, Submit(f, n) PROVE FALSE
    <3>1. vote' = vote /\ application[f].status = "none"
      BY <2>3 DEF Submit, Unsubmitted
    <3>2. f # e => application'[e] = application[e]
      BY <2>1, <2>3 DEF Submit
    <3> QED
      BY <3>1, <3>2 DEF Recognised
  <2>4. ASSUME NEW p \in Workers, PullEnd(p) PROVE FALSE
    <3>1. vote' = vote /\ (application'[e] = application[e]
                           \/ application'[e].status = "provisioned")
      BY <2>1, <2>4 DEF PullEnd, Provisioned, Application
    <3> QED
      BY <3>1 DEF Recognised
  <2>5. PICK p \in Workers : VoteEnd(p)
    BY <2>2, <2>3, <2>4 DEF Next, vars, VoteBegin, VoteCast, PullBegin, RosterBegin, RosterEnd,
                            Abort, Start
  <2> QED
    BY <2>5, VotesDecideWhatTheyCount
<1> QED
  BY <1>1, InductiveInvariant, PTL DEF Spec, OnlyOvertakenVotesMissTheQuorum, Overtaken
=============================================================================
