---------------------------- MODULE MCMigration -----------------------------
(***************************************************************************)
(* Instances of Migration for TLC.                                          *)
(***************************************************************************)
EXTENDS Migration

AllVersions == 0..schemaVersion
=============================================================================
