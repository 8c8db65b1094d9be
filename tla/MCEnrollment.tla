---------------------------- MODULE MCEnrollment ----------------------------
(* Small instances of Enrollment for TLC. *)
EXTENDS Enrollment, TLC

Worker == {"worker"}
NoRoles == {}

WorkerSymmetry == Permutations(Workers)
=============================================================================
