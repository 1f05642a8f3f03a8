------------------------------ MODULE RknpuMm ------------------------------
(***************************************************************************)
(* The on-chip SRAM manager (rknpu_mm.c): a bitmap of fixed-size chunks,   *)
(* searched first-fit under mm->lock.  The search is modelled loop by      *)
(* loop, as rknpu_mm_alloc runs it, so that what it finds can be proved.   *)
(* Only the holder of the lock runs the loops, so one copy of their local  *)
(* variables is enough; a caller that waits for the lock has no state.     *)
(***************************************************************************)
EXTENDS Integers, FiniteSets

CONSTANTS Objects,      \* the mm_obj a caller may hold; one caller per object
          TotalChunks,  \* mm->total_chunks, mem_size / chunk_size
          ChunkSize,    \* mm->chunk_size
          NoObject      \* no caller holds mm->lock

ASSUME MmAssumption ==
    /\ TotalChunks \in Nat \ {0}
    /\ ChunkSize \in Nat \ {0}
    /\ NoObject \notin Objects

Chunks == 0 .. TotalChunks - 1

(* The sizes that pass the checks in front of the lock: 0 is -EINVAL and   *)
(* more than the memory is -ENOMEM.                                        *)
Sizes == 1 .. TotalChunks * ChunkSize

VARIABLES
    bitmap,       \* mm->bitmap: the set of chunks whose bit is set
    free_chunks,  \* mm->free_chunks
    range,        \* range[o]: the chunks of live object o, {} when o is not live
    owner,        \* the caller in the critical section of rknpu_mm_alloc
    pc,           \* where it is: "idle", "search" or "extend"
    size,         \* its argument
    start_search, found, range_start, range_end, cur_size,  \* its locals
    failed        \* the callers whose last rknpu_mm_alloc returned -ENOMEM

search == <<size, start_search, found, range_start, range_end, cur_size>>
vars == <<bitmap, free_chunks, range, owner, pc, search, failed>>

NextZeroBitBlind(from) == from   \* mutant: the bits are not looked at
NextZeroBitShort(from) ==        \* mutant: the last chunk is taken for the end
    IF from >= TotalChunks - 1 THEN TotalChunks
    ELSE CHOOSE r \in from .. TotalChunks :
            /\ \A b \in from .. r - 1 : b \in bitmap
            /\ r < TotalChunks => r \notin bitmap

(* find_next_zero_bit(mm->bitmap, mm->total_chunks, from)                  *)
NextZeroBit(from) ==
    CHOOSE r \in from .. TotalChunks :
        /\ \A b \in from .. r - 1 : b \in bitmap
        /\ r < TotalChunks => r \notin bitmap

----------------------------------------------------------------------------
(* rknpu_mm_create.                                                        *)
Init ==
    /\ bitmap = {}
    /\ free_chunks = TotalChunks
    /\ range = [o \in Objects |-> {}]
    /\ owner = NoObject
    /\ pc = "idle"
    /\ size = 0 /\ start_search = 0 /\ found = 0
    /\ range_start = 0 /\ range_end = 0 /\ cur_size = 0
    /\ failed = {}

(* rknpu_mm_alloc up to mutex_lock.                                        *)
AllocLock(o, s) ==
    /\ pc = "idle"
    /\ range[o] = {}
    /\ owner' = o
    /\ pc' = "search"
    /\ size' = s
    /\ start_search' = 0
    /\ UNCHANGED <<bitmap, free_chunks, range, found, range_start, range_end,
                   cur_size, failed>>

NoFreeChunkKeepsLock ==          \* mutant: bail out without mutex_unlock
    /\ owner' = owner
    /\ pc' = "idle"
    /\ failed' = failed \cup {owner}
    /\ UNCHANGED <<bitmap, free_chunks, range>>

(* mm_no_free_chunk: unlock, free the object, -ENOMEM.                     *)
NoFreeChunk ==
    /\ owner' = NoObject
    /\ pc' = "idle"
    /\ failed' = failed \cup {owner}
    /\ UNCHANGED <<bitmap, free_chunks, range>>

(* The bits are set, then mm_out: account for them and unlock.             *)
MarkRange(from, to) ==
    /\ bitmap' = bitmap \cup (from .. to)
    /\ free_chunks' = free_chunks - (to - from + 1)
    /\ range' = [range EXCEPT ![owner] = from .. to]
    /\ owner' = NoObject
    /\ pc' = "idle"
    /\ failed' = failed \ {owner}

(* mm_restart_search.                                                      *)
Search ==
    /\ pc = "search"
    /\ LET f == NextZeroBit(start_search) IN
       /\ found' = f
       /\ IF f = TotalChunks
          THEN NoFreeChunk /\ UNCHANGED <<range_start, range_end, cur_size>>
          ELSE /\ range_start' = f
               /\ range_end' = f
               /\ IF size <= ChunkSize
                  THEN MarkRange(f, f) /\ UNCHANGED cur_size
                  ELSE /\ cur_size' = size - ChunkSize
                       /\ pc' = "extend"
                       /\ UNCHANGED <<bitmap, free_chunks, range, owner, failed>>
    /\ UNCHANGED <<size, start_search>>

(* What is left to find after one more chunk.                              *)
Remaining(c) == IF c <= ChunkSize THEN 0 ELSE c - ChunkSize

RestartAtRange(f) ==             \* mutant: search again from the run's start
    /\ start_search' = range_start
    /\ pc' = "search"
    /\ UNCHANGED <<bitmap, free_chunks, range, owner, cur_size, failed>>

(* goto mm_restart_search with start_search = found.                       *)
RestartSearch(f) ==
    /\ start_search' = f
    /\ pc' = "search"
    /\ UNCHANGED <<bitmap, free_chunks, range, owner, cur_size, failed>>

(* One iteration of the do ... while: is the next chunk free as well?      *)
Extend ==
    /\ pc = "extend"
    /\ found' = found + 1
    /\ range_end' = NextZeroBit(found + 1)
    /\ IF range_end' # found'
       THEN RestartSearch(found')
       ELSE /\ UNCHANGED start_search
            /\ IF found' = TotalChunks
               THEN NoFreeChunk /\ UNCHANGED cur_size
               ELSE /\ cur_size' = Remaining(cur_size)
                    /\ IF cur_size' > 0
                       THEN UNCHANGED <<bitmap, free_chunks, range, owner, pc, failed>>
                       ELSE MarkRange(range_start, range_end')
    /\ UNCHANGED <<size, range_start>>

FreeKeepsLastBit(o) ==           \* mutant: bit < range_end in the loop
    /\ pc = "idle"
    /\ range[o] # {}
    /\ bitmap' = bitmap \ {b \in range[o] : b + 1 \in range[o]}
    /\ free_chunks' = free_chunks + Cardinality(range[o])
    /\ range' = [range EXCEPT ![o] = {}]
    /\ UNCHANGED <<owner, pc, search, failed>>

(* rknpu_mm_free; its own critical section.                                *)
Free(o) ==
    /\ pc = "idle"
    /\ range[o] # {}
    /\ bitmap' = bitmap \ range[o]
    /\ free_chunks' = free_chunks + Cardinality(range[o])
    /\ range' = [range EXCEPT ![o] = {}]
    /\ UNCHANGED <<owner, pc, search, failed>>

Next ==
    \/ \E o \in Objects, s \in Sizes : AllocLock(o, s)
    \/ Search
    \/ Extend
    \/ \E o \in Objects : Free(o)

(* The lock holder's loops terminate in the kernel: nothing blocks them.   *)
Fairness == WF_vars(Search) /\ WF_vars(Extend)

Spec == Init /\ [][Next]_vars
FairSpec == Spec /\ Fairness
----------------------------------------------------------------------------
(* Type correctness of the manager and of the search's locals.             *)
TypeOK ==
    /\ bitmap \in SUBSET Chunks
    /\ free_chunks \in 0 .. TotalChunks
    /\ range \in [Objects -> SUBSET Chunks]
    /\ owner \in Objects \cup {NoObject}
    /\ pc \in {"idle", "search", "extend"}
    /\ (owner = NoObject) <=> (pc = "idle")
    /\ size \in Nat /\ cur_size \in Nat
    /\ {start_search, found, range_start, range_end} \subseteq 0 .. TotalChunks
    /\ failed \in SUBSET Objects

(* No chunk of the SRAM belongs to two live objects: rknpu_mm_alloc never  *)
(* hands out a chunk that an earlier call handed out and nobody freed.     *)
NoSharedChunk ==
    \A o, p \in Objects : o # p => range[o] \cap range[p] = {}

(* The bitmap and the chunks of live objects, free_chunks and the bitmap.  *)
BitmapExact == bitmap = UNION {range[o] : o \in Objects}
FreeExact == free_chunks = TotalChunks - Cardinality(bitmap)

(* The bitmap knows exactly the chunks of live objects, so a chunk is      *)
(* neither leaked by rknpu_mm_free nor offered twice, and free_chunks,     *)
(* which RKNPU_GET_FREE_SRAM_SIZE reports and the GEM code sizes its       *)
(* requests by, is the number of clear bits.                               *)
AccountingExact == BitmapExact /\ FreeExact

(* A call that succeeds gives the caller a contiguous run that covers the  *)
(* requested size with less than one chunk of slack.                       *)
RightLength ==
    [][\A o \in Objects :
          (range[o] = {} /\ range'[o] # {}) =>
             /\ \E s, e \in Chunks : range'[o] = s .. e
             /\ Cardinality(range'[o]) * ChunkSize >= size
             /\ (Cardinality(range'[o]) - 1) * ChunkSize < size]_vars

(* The search ends: its restarts always move past the run that was too     *)
(* short, so rknpu_mm_alloc returns and mm->lock is released.              *)
SearchEnds == (pc # "idle") ~> (pc = "idle")

(* The bitmap search implements the abstract allocator: the run is the     *)
(* lowest that fits and -ENOMEM means that no run fits.                    *)
Allocator == INSTANCE ChunkAllocator
                WITH held <- range, refused <- failed, Lengths <- 1 .. TotalChunks
ImplementsAllocator == Allocator!AllocSpec
=============================================================================
