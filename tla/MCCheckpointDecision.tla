------------------------- MODULE MCCheckpointDecision -------------------------
(* A small instance of CheckpointDecision.  Fewer than 47 steps of progress   *)
(* leave a gain below 0.15; they and the interval of 500 are scaled to 3 and  *)
(* 2.  With a size of 40, 2 when shrunk, against a ceiling of 20, every       *)
(* routing decision is taken.                                                 *)
EXTENDS CheckpointDecision, TLC
CONSTANTS r1, r2

RailSymmetry == Permutations({r1, r2})
===============================================================================
