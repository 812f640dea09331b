---------------------------- MODULE OperationStates ----------------------------
(***************************************************************************)
(* OperationState of crates/alcomd-domain: the states of a public          *)
(* Operation and the transitions frozen with the M2 contract.              *)
(***************************************************************************)

\* OperationState::is_terminal.
Terminal == {"succeeded", "failed", "cancelled"}

\* `planning' and `waiting_for_input' are reserved: nothing ever writes them.
States == {"queued", "running", "cancelling", "interrupted", "recovering"}
            \cup Terminal

\* OperationState::can_transition_to.
CanTransition(from, to) ==
    \/ from = "queued"      /\ to \in {"running", "cancelled"}
    \/ from = "running"     /\ to \in {"cancelling", "succeeded", "failed",
                                       "interrupted"}
    \/ from = "cancelling"  /\ to \in Terminal \cup {"interrupted"}
    \/ from = "interrupted" /\ to = "recovering"
    \/ from = "recovering"  /\ to \in {"running", "cancelling", "failed",
                                       "cancelled", "interrupted"}
=============================================================================
