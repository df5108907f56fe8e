---------------------------- MODULE MCMigration ----------------------------
(* Two migrators that start at once. *)
EXTENDS MigrationHistory, TLC
CONSTANTS p1, p2
MCProcs == {p1, p2}
=============================================================================
