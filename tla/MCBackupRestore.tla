---------------------------- MODULE MCBackupRestore ----------------------------
(***************************************************************************)
(* Two restores of one backup to one target, and the scan that finds what  *)
(* they publish.                                                           *)
(***************************************************************************)
EXTENDS BackupRestore
=============================================================================
