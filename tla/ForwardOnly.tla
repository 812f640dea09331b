------------------------------ MODULE ForwardOnly ------------------------------
(***************************************************************************)
(* What an Operation that moves project directories promises: it may be    *)
(* refused, cancelled or fail only while it is open; once its intent to    *)
(* move a directory is journalled it is closed and can only go forward.    *)
(*                                                                         *)
(*   phase_at_or_after_intent in crates/alcomd-store/src/m7_delete.rs and  *)
(*   m7_copy.rs, and the refusals of operations.cancel in sqlite.rs        *)
(***************************************************************************)
CONSTANT Ops

VARIABLE stage

Stages == {"none", "open", "closed", "succeeded", "failed", "cancelled"}

Init == stage = [o \in Ops |-> "none"]

Move(o, from, to) == stage[o] = from /\ stage' = [stage EXCEPT ![o] = to]

Accept(o)  == Move(o, "none", "open")
GiveUp(o)  == Move(o, "open", "failed") \/ Move(o, "open", "cancelled")
Intend(o)  == Move(o, "open", "closed")
Succeed(o) == Move(o, "closed", "succeeded")

Next == \E o \in Ops : Accept(o) \/ GiveUp(o) \/ Intend(o) \/ Succeed(o)

ForwardSpec == Init /\ [][Next]_stage
=============================================================================
