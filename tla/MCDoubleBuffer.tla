---------------------------- MODULE MCDoubleBuffer ----------------------------
(* DoubleBuffer for TLC: room for four units, frames of one to three, and  *)
(* one frame that is larger than a buffer.                                 *)
EXTENDS DoubleBuffer

Sizes == {1, 2, 3, 6}
=============================================================================
