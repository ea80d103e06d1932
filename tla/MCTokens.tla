------------------------------ MODULE MCTokens ------------------------------
(* Instances of RefreshTokens for TLC. *)
EXTENDS RefreshTokensInv

CONSTANTS c1, c2
=============================================================================
