-------------------------- MODULE MCNoteLifecycle --------------------------
(* Small instances of NoteLifecycle for TLC. *)
EXTENDS NoteLifecycle, TLC

CONSTANTS ada, max, kim, rev   \* a worker, two managers and an approver

MCRole == [a \in Agents |-> CASE a \in {max, kim} -> "manager"
                              [] a = rev          -> "approver"
                              [] OTHER            -> "worker"]
MCGroupsOf ==
  [a \in Agents |-> IF a \in {max, kim} THEN {"common", "managers"} ELSE {"common"}]

Common == {{"common"}}
Normal == {"normal"}

(* What shares, judges, retires a note or promotes its tables, and overlaps. *)
GovernanceHandlers ==
  {"provisional_memory", "memory_share", "vouch", "self_validate", "self_invalid",
   "graduate", "decide_delete", "provisional_sweep", "curate_delete",
   "recall_fastkill", "validate_sweep", "provisional_table"}

(* What amends, signs or embeds a note. *)
EditHandlers ==
  {"provisional_memory", "memory_share", "vouch", "graduate", "curate_edit",
   "reembed_null"}

(* Captures, edits and the job. *)
EmbeddingHandlers == {"provisional_memory", "curate_edit", "curate_delete", "reembed_null"}

(* Gunicorn workers are interchangeable. *)
WorkerSymmetry == Permutations(Workers)
=============================================================================
