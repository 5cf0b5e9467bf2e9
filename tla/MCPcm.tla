--------------------------------- MODULE MCPcm ---------------------------------
(* Pcm for TLC: a ring of two frames whose pointers wrap at eight, streams  *)
(* of every kind, and transfers longer than the ring.                       *)
EXTENDS Pcm

Kinds == {{}, {"NORESTART"}, {"IN"}, {"NOIRQ"}, {"MMAP", "MONOTONIC"},
          {"MMAP", "NOIRQ"}, {"MMAP", "IN"}}
Thresholds == {1, 3}
Mins == {0, 1}

\* The instance is one of the configurations AreaIsFree is about.
ASSUME InstanceFits == RingFits
=============================================================================
