---------------------------- MODULE MCPackageApply ----------------------------
(***************************************************************************)
(* Instances of PackageApply for TLC.  With packages {1, 2}, of which the  *)
(* project has the first, a plan may install, replace and remove, and a    *)
(* change set of two can be caught between them.  Package {1} is enough    *)
(* where Operations meet over the same directory; three of them let the    *)
(* project return to the bytes an earlier plan saw.                        *)
(***************************************************************************)
EXTENDS PackageApply, TLC

\* The plans are interchangeable.
Symmetry == Permutations(Ops)
=============================================================================
