--------------------------- MODULE ChunkAllocator ---------------------------
(***************************************************************************)
(* What the SRAM manager of rknpu_mm.c promises its callers, without a     *)
(* bitmap, a lock or a search: every object holds a contiguous run of      *)
(* chunks, no chunk has two holders, an object is given the lowest run     *)
(* that is long enough, and a request is refused only when there is none.  *)
(***************************************************************************)
EXTENDS Integers

CONSTANTS Objects,      \* the rknpu_mm_obj a caller may hold
          TotalChunks,  \* mm->total_chunks
          Lengths       \* the numbers of chunks a caller may ask for

VARIABLES held,     \* held[o]: the chunks object o owns ({} when it owns none)
          refused   \* the objects whose last request was refused

allocVars == <<held, refused>>

AllHeld == UNION {held[o] : o \in Objects}

(* A run of n chunks that starts at s, lies in the memory and is free.     *)
FreeRun(s, n) ==
    /\ s + n <= TotalChunks
    /\ (s .. s + n - 1) \cap AllHeld = {}

AllocInit ==
    /\ held = [o \in Objects |-> {}]
    /\ refused = {}

Grant(o, n) ==
    /\ held[o] = {}
    /\ \E s \in 0 .. TotalChunks - 1 :
          /\ FreeRun(s, n)
          /\ \A r \in 0 .. s - 1 : ~FreeRun(r, n)
          /\ held' = [held EXCEPT ![o] = s .. s + n - 1]
    /\ refused' = refused \ {o}

Refuse(o, n) ==
    /\ held[o] = {}
    /\ \A s \in 0 .. TotalChunks - 1 : ~FreeRun(s, n)
    /\ refused' = refused \cup {o}
    /\ UNCHANGED held

Release(o) ==
    /\ held[o] # {}
    /\ held' = [held EXCEPT ![o] = {}]
    /\ UNCHANGED refused

AllocNext ==
    \E o \in Objects :
        \/ \E n \in Lengths : Grant(o, n) \/ Refuse(o, n)
        \/ Release(o)

AllocSpec == AllocInit /\ [][AllocNext]_allocVars
=============================================================================
