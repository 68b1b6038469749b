------------------------------ MODULE MCCodec -------------------------------
(* Short blocks for Codec: four coefficients in an order that is not its   *)
(* own inverse, runs of at most one zero, words of four bits and numbers   *)
(* of up to three.                                                         *)
EXTENDS Codec

MCZigZag == [i \in 0 .. 3 |-> <<0, 2, 3, 1>>[i + 1]]
TwoBlocks == [1 .. 2 -> [0 .. 3 -> {-3, 0, 1}]]
=============================================================================
