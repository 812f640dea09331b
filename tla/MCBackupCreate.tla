---------------------------- MODULE MCBackupCreate ----------------------------
(***************************************************************************)
(* Two backups of one project while an editor saves its files.             *)
(***************************************************************************)
EXTENDS BackupCreate
=============================================================================
