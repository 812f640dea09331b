---------------------------- MODULE MCUnityMigration ----------------------------
(***************************************************************************)
(* Two migrations of one project; the preparation installs a package,      *)
(* updates a second, removes a third, replaces a manifest and takes a      *)
(* legacy file away.                                                       *)
(***************************************************************************)
EXTENDS UnityMigration

ThingKind == <<"install", "update", "remove", "vpm", "legacy">>
=============================================================================
