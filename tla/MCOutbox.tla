------------------------------ MODULE MCOutbox ------------------------------
(* Instances of OutboxRelay for TLC. *)
EXTENDS OutboxRelayInv

CONSTANTS r1, r2
=============================================================================
