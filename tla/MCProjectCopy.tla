----------------------------- MODULE MCProjectCopy -----------------------------
(***************************************************************************)
(* Two copies of one source to one target: the second finds the target of  *)
(* the first, or its own after a death.  Two contents are enough for a     *)
(* file to be saved away and back, any number of times.                    *)
(***************************************************************************)
EXTENDS ProjectCopy, TLC

\* The copies are interchangeable, and so are the contents.
Symmetry == Permutations(Ops) \cup Permutations(Contents)
=============================================================================
