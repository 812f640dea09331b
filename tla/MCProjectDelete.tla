---------------------------- MODULE MCProjectDelete ----------------------------
(***************************************************************************)
(* Two deletions of one project, so that the second meets what the first   *)
(* left: its quarantine, a deleted row, a path that another program uses.  *)
(***************************************************************************)
EXTENDS ProjectDelete
=============================================================================
