-------------------------- MODULE MCProposalQueue --------------------------
(* Small instances of ProposalQueue for TLC. *)
EXTENDS ProposalQueue, TLC

CONSTANTS ada, max, rev   \* a worker, a manager with see_all, an approver

MCRole == [a \in Agents |-> CASE a = max -> "manager" [] a = rev -> "approver"
                              [] OTHER -> "worker"]
MCGroupsOf ==
  [a \in Agents |-> IF a = max THEN {"common", "managers"} ELSE {"common"}]

CONSTANT note   \* the name that a nameless body gives
MCDerivedName == [b \in Bodies |-> note]

Capture(spans, laundered, private) ==
  [spans |-> spans, laundered |-> laundered, private |-> private, said |-> None,
   sourced |-> TRUE]

(* A clean capture, one that cites a tool as well, a private one. *)
MCCaptures ==
  {Capture({"typed"}, "no", FALSE), Capture({"typed", "command"}, "no", FALSE),
   Capture({"typed"}, "no", TRUE)}

Symmetry == Permutations(Workers) \cup Permutations(Notes) \cup Permutations(Bodies)

(* What became of retired notes, and what superseded what, guard nothing.  *)
LiveView == <<memory, proposal, lesson, req, {e \in log : memory[e.note].live}>>
=============================================================================
