----------------------------- MODULE MCImageQueue -----------------------------
(* ImageQueue for TLC: three threads around a ring of two blocks. *)
EXTENDS ImageQueue

CONSTANTS t1, t2, t3

ThreeThreads == {t1, t2, t3}
=============================================================================
