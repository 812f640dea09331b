---------------------------- MODULE MCResourceLocks ----------------------------
(***************************************************************************)
(* Three tasks over two keys: a holder, a waiter, and a third task that    *)
(* asks while the last reference is being dropped.  A key pins at most one *)
(* dead cell, so one cell more than keys is always enough.                 *)
(***************************************************************************)
EXTENDS ResourceLocks

CONSTANTS operation, project

\* "operation:" sorts before "project:".
MCRank == [k \in {operation, project} |-> IF k = operation THEN 1 ELSE 2]

ASSUME Cardinality(Locks) > Cardinality(Keys)
=============================================================================
