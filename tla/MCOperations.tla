----------------------------- MODULE MCOperations -----------------------------
(***************************************************************************)
(* Instances of Operations for TLC: two Operations, two acceptance keys    *)
(* and two tasks, so that replays, the StateStore queue and recovery of    *)
(* several rows occur; every bound is a constant of the cfg.               *)
(***************************************************************************)
EXTENDS Operations

\* More worker tasks than Operations are never needed at once.
ASSUME Cardinality(Tasks) >= Cardinality(Ops)
=============================================================================
