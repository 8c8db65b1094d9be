--------------------------- MODULE NoteGovernance ---------------------------
(***************************************************************************)
(* What the lifecycle of notes promises the fleet, without the handlers:   *)
(* a note is its author's alone until the author offers it; a reviewer,    *)
(* and not its author unless the author is a manager, shares it after that *)
(* offer; who took each of the two steps stays on record; a retired note   *)
(* never comes back.  Who retires a note, and for which reason, is left    *)
(* open: a sweep or a verdict may retire one that was shared meanwhile.    *)
(* NoteLifecycle implements this specification.                            *)
(***************************************************************************)
CONSTANTS Notes, Agents, Managers, Reviewers, None

VARIABLES
  stage,   \* how far each note has come
  owner,   \* whose note it is
  trail    \* who offered and who decided which note

vars == <<stage, owner, trail>>

Stages == {"none", "personal", "review", "shared", "retired"}

TypeOK ==
  /\ stage \in [Notes -> Stages]
  /\ owner \in [Notes -> Agents \cup {None}]
  /\ trail \subseteq [step : {"offer", "decision"}, by : Agents, note : Notes]

Init ==
  /\ stage = [n \in Notes |-> "none"]
  /\ owner = [n \in Notes |-> None]
  /\ trail = {}

Capture(n, a) ==
  /\ stage[n] = "none"
  /\ stage' = [stage EXCEPT ![n] = "personal"]
  /\ owner' = [owner EXCEPT ![n] = a]
  /\ UNCHANGED trail

Record(step, a, n) == trail \cup {[step |-> step, by |-> a, note |-> n]}

(* Agent a offers its own note. *)
Offer(n, a) ==
  /\ stage[n] = "personal" /\ a = owner[n]
  /\ stage' = [stage EXCEPT ![n] = "review"]
  /\ trail' = Record("offer", a, n)
  /\ UNCHANGED owner

(* Reviewer r decides on a note its owner offered: the note is shared, or  *)
(* is no longer in review and stays as it is.                              *)
Decide(n, r) ==
  /\ r \in Reviewers
  /\ r # owner[n] \/ r \in Managers
  /\ [step |-> "offer", by |-> owner[n], note |-> n] \in trail
  /\ trail' = Record("decision", r, n)
  /\ stage' \in {stage, [stage EXCEPT ![n] = "shared"]}
  /\ stage' # stage => stage[n] = "review"
  /\ UNCHANGED owner

(* One sweep may retire several notes. *)
Retire(S) ==
  /\ \A n \in S : stage[n] \in {"personal", "review", "shared"}
  /\ stage' = [n \in Notes |-> IF n \in S THEN "retired" ELSE stage[n]]
  /\ UNCHANGED <<owner, trail>>

Next ==
  \/ \E n \in Notes, a \in Agents : Capture(n, a) \/ Offer(n, a) \/ Decide(n, a)
  \/ \E S \in SUBSET Notes : Retire(S)

Spec == Init /\ [][Next]_vars
=============================================================================
