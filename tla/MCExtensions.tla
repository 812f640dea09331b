------------------------------ MODULE MCExtensions ------------------------------
(***************************************************************************)
(* Two tasks beside the maintenance loop, two instances, one death of the  *)
(* daemon: the configurations give the constants their values.            *)
(***************************************************************************)
EXTENDS Extensions
=============================================================================
