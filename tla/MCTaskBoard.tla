---------------------------- MODULE MCTaskBoard ----------------------------
(* Small instances of TaskBoard for TLC. *)
EXTENDS TaskBoard, TLC

CONSTANTS ada, max, rev   \* a worker, a manager, an approver

MCRole == [a \in Agents |-> CASE a = max -> "manager" [] a = rev -> "approver"
                              [] OTHER -> "worker"]
MCGroupsOf == [a \in Agents |-> {"common"}]
MCClearance == [a \in Agents |-> 3]
MCReaders == {None}

Symmetry == Permutations(Workers) \cup Permutations(Rows)
=============================================================================
