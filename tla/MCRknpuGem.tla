----------------------------- MODULE MCRknpuGem -----------------------------
(* Small instances of the buffer objects.  Threads, files and objects are  *)
(* interchangeable, and the runs check invariants only.                    *)
EXTENDS RknpuGem, TLC

Symmetry == Permutations(Threads) \cup Permutations(Files) \cup Permutations(Objs)

(* Bound: once an address is stale the run goes no further.                *)
NoStale == stale = {}

(* States that differ only in values no step reads any more are one: the   *)
(* amount of SRAM once it is allocated, the number of tries of a domain    *)
(* that was entered, whether a call behind its create tracks, and which    *)
(* objects were refused SRAM.                                              *)
Forgets(c) ==
    [c EXCEPT !.n = IF c.at \in {"get", "sram", "mm"} THEN @ ELSE 0,
              !.tries = IF c.at \in {"destroy", "free"} THEN @ ELSE 0,
              !.tracks = @ /\ c.at \in {"get", "sram", "mm", "map", "ddr", "put", "handle", "drop"}]
NoLeftovers == <<objVars, dma, chunks, domain, [t \in Threads |-> Forgets(call[t])]>>
=============================================================================
