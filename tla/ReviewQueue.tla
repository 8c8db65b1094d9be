---------------------------- MODULE ReviewQueue ----------------------------
(***************************************************************************)
(* What the queue of proposals promises, whatever overlaps: a proposal is  *)
(* decided once, by somebody who may, and a fact is published by the       *)
(* approval of exactly one proposal, in the step that approves it.         *)
(***************************************************************************)
CONSTANTS Items, Deciders, None

VARIABLES
  stage,      \* "absent", "pending", "approved" or "rejected"
  decidedBy,  \* who decided it; None if it is pending or rejected on arrival
  published   \* the items whose fact was published

vars == <<stage, decidedBy, published>>

Init ==
  /\ stage = [i \in Items |-> "absent"]
  /\ decidedBy = [i \in Items |-> None]
  /\ published = {}

Arrive(i) ==
  /\ stage[i] = "absent"
  /\ \E s \in {"pending", "rejected"} : stage' = [stage EXCEPT ![i] = s]
  /\ UNCHANGED <<decidedBy, published>>

Decide(i, a, outcome) ==
  /\ stage[i] = "pending"
  /\ stage' = [stage EXCEPT ![i] = outcome]
  /\ decidedBy' = [decidedBy EXCEPT ![i] = a]
  /\ published' = IF outcome = "approved" THEN published \cup {i} ELSE published

Next ==
  \E i \in Items :
    \/ Arrive(i)
    \/ \E a \in Deciders, outcome \in {"approved", "rejected"} : Decide(i, a, outcome)

Spec == Init /\ [][Next]_vars
=============================================================================
