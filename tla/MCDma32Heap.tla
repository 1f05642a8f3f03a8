---------------------------- MODULE MCDma32Heap ----------------------------
(* A small instance of the heap: blocks of four, two and one page frames.  *)
EXTENDS Dma32Heap

TwoOneZero == <<2, 1, 0>>
=============================================================================
