-------------------------- MODULE MCMediaPipeline --------------------------
(* Small instances of MediaPipeline: one file that several messages carry.  *)
EXTENDS MediaPipelineInv, TLC

CONSTANTS m1, m2, f1

\* Every message carries the same file, so that jobs meet at the model call.
OneFile == [r \in Rows |-> f1]

\* Rows, and workers of one queue, that differ in nothing; not for liveness.
JobSymmetry == Permutations(Rows) \cup Permutations(Video)
============================================================================
