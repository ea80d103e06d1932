----------------------------- MODULE MCPipeline -----------------------------
(* Instances of Pipeline for TLC. *)
EXTENDS PipelineInv, TLC

CONSTANTS q1, q2, r1, w1, d1

\* Nothing tells two webhook calls apart.
Interchangeable == Permutations(Requests)
=============================================================================
