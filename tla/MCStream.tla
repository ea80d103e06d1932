------------------------------ MODULE MCStream ------------------------------
(* Instances of StreamWorker for TLC. *)
EXTENDS StreamWorkerInv

CONSTANTS p1, p2, w1, d1, d2
=============================================================================
