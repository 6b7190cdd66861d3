----------------------------- MODULE MC_HalScalar -----------------------------
(* Instances of the scalar backend for TLC: blocks of 8 weights in 2     *)
(* bytes, two rows of two blocks.                                         *)
EXTENDS HalScalar

(* Weights in units of 5e-7: 0 and 1 are below 1e-6, -3 and 3 are not.  *)
(* Activations 0 and 1: a one-hot activation reads out one column.       *)
MCWVals == {-3, 0, 1, 3}
MCYVals == {0, 1}

(* The stride ggml passes as bx for an I2_S row: its nb01, which counts  *)
(* one byte per weight.                                                   *)
MCStrides == {NPerRow}
=============================================================================
