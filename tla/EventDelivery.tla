--------------------------- MODULE EventDelivery ---------------------------
(***************************************************************************)
(* What the oracle half of the Peggy bridge promises: the events that the  *)
(* bridge contract emits on Ethereum are applied to the Injective state in *)
(* the order of their event nonces, each exactly once, and nothing else is *)
(* applied.  How validators reach that promise by voting is the business   *)
(* of PeggyOracle, which implements this module.                           *)
(***************************************************************************)
EXTENDS Naturals, Sequences

CONSTANT Claims     \* what an event says (type, amounts, block height...)

VARIABLES
    events,         \* events[n]: the event with nonce n of the contract
    applied         \* the claims handed to the attestation handler, in order

vars == <<events, applied>>

Init == /\ events = <<>>
        /\ applied = <<>>

(* The contract emits an event under the next nonce. *)
Emit(c) == /\ events' = Append(events, c)
           /\ UNCHANGED applied

(* A block applies some of the events that are not applied yet, in order. *)
Deliver(n) == /\ n > Len(applied)
              /\ applied' = SubSeq(events, 1, n)
              /\ UNCHANGED events

(* Governance moves the bridge to a fresh contract, whose event nonce      *)
(* starts where the chain stopped: what the old one emitted since is lost. *)
Redeploy == /\ events' = applied
            /\ UNCHANGED applied

Next == \/ \E c \in Claims : Emit(c)
        \/ \E n \in 1..Len(events) : Deliver(n)
        \/ Redeploy

Spec == Init /\ [][Next]_vars
=============================================================================
