------------------------- MODULE MCMigrationRunner -------------------------
(* A small instance of MigrationRunner for TLC: the first migration        *)
(* creates a policy and a column, the second redefines the policy.         *)
EXTENDS MigrationRunner, TLC

CONSTANTS policy, column

MCDefines == 1 :> {policy, column} @@ 2 :> {policy}
=============================================================================
