-------------------------- MODULE MCBackupPipeline --------------------------
(* A small instance of BackupPipeline for TLC: the constants are numbers. *)
EXTENDS BackupPipeline
=============================================================================
