----------------------------- MODULE MCRknpuMem -----------------------------
(* A small instance of the buffers of the misc device: threads, sessions   *)
(* and objects are interchangeable, and the run checks invariants only.    *)
EXTENDS RknpuMem, TLC

Symmetry == Permutations(Threads) \cup Permutations(Sessions) \cup Permutations(Objs)
=============================================================================
