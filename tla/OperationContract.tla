--------------------------- MODULE OperationContract ---------------------------
(***************************************************************************)
(* What a client of alcomd may rely on about a public Operation: the       *)
(* frozen state machine of crates/alcomd-domain and a revision that counts *)
(* its committed changes.  Nothing here says how the daemon schedules,     *)
(* crashes, recovers or cancels; Operations.tla is shown to implement it.  *)
(***************************************************************************)
EXTENDS Naturals, OperationStates

CONSTANT Ops   \* identities of the Operations the daemon may create

VARIABLES phase,    \* phase[o]: the published OperationState, or "absent"
          version   \* version[o]: the published revision, 0 while absent

contractVars == <<phase, version>>

ContractInit ==
    /\ phase = [o \in Ops |-> "absent"]
    /\ version = [o \in Ops |-> 0]

Publish(o, to) ==
    /\ phase' = [phase EXCEPT ![o] = to]
    /\ version' = [version EXCEPT ![o] = @ + 1]

Accept(o) == phase[o] = "absent" /\ Publish(o, "queued")

Advance(o) == \E to \in States : CanTransition(phase[o], to) /\ Publish(o, to)

ContractNext == \E o \in Ops : Accept(o) \/ Advance(o)

ContractSpec == ContractInit /\ [][ContractNext]_contractVars
=============================================================================
