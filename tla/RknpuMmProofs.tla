--------------------------- MODULE RknpuMmProofs ---------------------------
(***************************************************************************)
(* Proofs about the SRAM manager: its type invariant, that no chunk has    *)
(* two owners, that bitmap and free_chunks are exact, and that the search  *)
(* implements ChunkAllocator, for any number of chunks, any chunk size and *)
(* any set of callers.                                                     *)
(***************************************************************************)
EXTENDS RknpuMm, TLAPS, FiniteSetTheorems, WellFoundedInduction

(* Every set of naturals with a member has a least one.                    *)
LEMMA LeastNatural ==
    ASSUME NEW T \in SUBSET Nat, T # {}
    PROVE  \E x \in T : \A y \in T : x <= y
<1>1. PICK x \in T : \A y \in T : <<y, x>> \notin OpToRel(<, Nat)
  <2>1. IsWellFoundedOn(OpToRel(<, Nat), Nat)
    BY NatLessThanWellFounded
  <2>2. QED
    BY <2>1, WFMin
<1>2. ASSUME NEW y \in T PROVE ~(y < x)
  BY <1>1 DEF OpToRel
<1>3. QED
  BY <1>2

(* What find_next_zero_bit returns: the first clear bit, or total_chunks.  *)
LEMMA NextZeroBitSpec ==
    ASSUME bitmap \in SUBSET Chunks, NEW from \in 0 .. TotalChunks
    PROVE  /\ NextZeroBit(from) \in from .. TotalChunks
           /\ \A b \in from .. NextZeroBit(from) - 1 : b \in bitmap
           /\ NextZeroBit(from) < TotalChunks => NextZeroBit(from) \notin bitmap
<1> DEFINE T == {x \in from .. TotalChunks : x \notin bitmap}
           Ok(r) == /\ \A b \in from .. r - 1 : b \in bitmap
                    /\ r < TotalChunks => r \notin bitmap
<1>0. TotalChunks \in Nat /\ from \in Nat
  BY MmAssumption
<1>1. T \in SUBSET Nat
  BY <1>0
<1>2. TotalChunks \in T
  BY <1>0 DEF Chunks
<1>3. PICK x \in T : \A y \in T : x <= y
  BY <1>1, <1>2, LeastNatural
<1>4. x \in from .. TotalChunks /\ Ok(x)
  BY <1>0, <1>3
<1>5. \E r \in from .. TotalChunks : Ok(r)
  BY <1>4
<1> HIDE DEF T
<1>6. NextZeroBit(from) = CHOOSE r \in from .. TotalChunks : Ok(r)
  BY DEF NextZeroBit
<1>7. QED
  BY <1>5, <1>6

----------------------------------------------------------------------------
(* The strengthening: what the search knows while the lock is held.  Its   *)
(* caller owns nothing yet, and the run it extends is free.                *)
SearchInv ==
    /\ pc # "idle" => owner \in Objects /\ range[owner] = {} /\ size \in Sizes
    /\ pc = "extend" => /\ range_start <= found
                        /\ found < TotalChunks
                        /\ (range_start .. found) \cap bitmap = {}

IInv == TypeOK /\ NoSharedChunk /\ BitmapExact /\ FreeExact /\ SearchInv

(* The state the search shares with the other callers.                     *)
Shared ==
    /\ bitmap \in SUBSET Chunks
    /\ free_chunks \in 0 .. TotalChunks
    /\ range \in [Objects -> SUBSET Chunks]
    /\ failed \in SUBSET Objects

(* free_chunks stays in range as long as it is exact.                      *)
LEMMA FreeChunksBound ==
    ASSUME bitmap \in SUBSET Chunks, FreeExact
    PROVE  free_chunks \in 0 .. TotalChunks /\ IsFiniteSet(bitmap)
<1>1. TotalChunks \in Nat \ {0}
  BY MmAssumption
<1>2. IsFiniteSet(Chunks) /\ Cardinality(Chunks) = TotalChunks
  BY <1>1, FS_Interval DEF Chunks
<1>3. /\ IsFiniteSet(bitmap)
      /\ Cardinality(bitmap) <= TotalChunks
  BY <1>2, FS_Subset
<1>4. Cardinality(bitmap) \in Nat
  BY <1>3, FS_CardinalityType
<1>5. QED
  BY <1>1, <1>3, <1>4 DEF FreeExact

(* Handing out a free run keeps the bookkeeping exact.                     *)
LEMMA MarkRangeSafe ==
    ASSUME IInv, pc # "idle",
           NEW from \in Chunks, NEW to \in Chunks, from <= to,
           (from .. to) \cap bitmap = {},
           MarkRange(from, to)
    PROVE  Shared' /\ NoSharedChunk' /\ BitmapExact' /\ FreeExact'
<1> DEFINE R == from .. to
<1>0. /\ TotalChunks \in Nat \ {0}
      /\ from \in Nat /\ to \in Nat
      /\ R \subseteq Chunks
      /\ owner \in Objects /\ range[owner] = {}
  BY MmAssumption DEF Chunks, IInv, SearchInv
<1>1. Shared
  BY DEF IInv, TypeOK, Shared
<1>2. range' \in [Objects -> SUBSET Chunks]
  BY <1>0, <1>1 DEF MarkRange, Shared
<1>3. \A o \in Objects : range'[o] = IF o = owner THEN R ELSE range[o]
  BY <1>0, <1>1 DEF MarkRange, Shared
<1>4. BitmapExact'
  <2>1. bitmap = UNION {range[o] : o \in Objects}
    BY DEF IInv, BitmapExact
  <2>2. bitmap' = bitmap \cup R
    BY DEF MarkRange
  <2>3. \A b : b \in bitmap' <=> \E o \in Objects : b \in range'[o]
    BY <1>0, <1>3, <2>1, <2>2
  <2>4. QED
    BY <2>3 DEF BitmapExact
<1>5. NoSharedChunk'
  <2>1. \A o \in Objects : range[o] \cap R = {}
    BY DEF IInv, BitmapExact
  <2>2. QED
    BY <1>3, <2>1 DEF IInv, NoSharedChunk
<1>6. FreeExact'
  <2>1. IsFiniteSet(bitmap)
    BY <1>1, FreeChunksBound DEF IInv, Shared
  <2>2. IsFiniteSet(R) /\ Cardinality(R) = to - from + 1
    BY <1>0, FS_Interval
  <2>3. Cardinality(bitmap \cup R) = Cardinality(bitmap) + Cardinality(R)
    <3>1. bitmap \cap R = {}
      OBVIOUS
    <3>2. Cardinality(bitmap) \in Nat /\ Cardinality(R) \in Nat
      BY <2>1, <2>2, FS_CardinalityType
    <3>3. Cardinality(bitmap \cap R) = 0
      BY <3>1, FS_EmptySet
    <3> HIDE DEF R
    <3>4. Cardinality(bitmap \cup R)
             = Cardinality(bitmap) + Cardinality(R) - Cardinality(bitmap \cap R)
      BY <2>1, <2>2, FS_Union
    <3>5. QED
      BY <3>2, <3>3, <3>4
  <2>4. Cardinality(bitmap) \in Nat
    BY <2>1, FS_CardinalityType
  <2>5. QED
    BY <1>0, <2>2, <2>3, <2>4 DEF IInv, FreeExact, MarkRange
<1>7. bitmap' \in SUBSET Chunks /\ failed' \in SUBSET Objects
  BY <1>0, <1>1 DEF MarkRange, Shared
<1>8. free_chunks' \in 0 .. TotalChunks
  <2>1. Cardinality(bitmap') \in Nat /\ Cardinality(bitmap') <= TotalChunks
    <3>1. IsFiniteSet(Chunks) /\ Cardinality(Chunks) = TotalChunks
      BY <1>0, FS_Interval DEF Chunks
    <3>2. QED
      BY <1>7, <3>1, FS_Subset, FS_CardinalityType
  <2>2. QED
    BY <1>0, <1>6, <2>1 DEF FreeExact
<1>9. QED
  BY <1>2, <1>4, <1>5, <1>6, <1>7, <1>8 DEF Shared
----------------------------------------------------------------------------
(* rknpu_mm_create establishes the invariant.                              *)
LEMMA InitIInv == Init => IInv
<1> SUFFICES ASSUME Init PROVE IInv
  OBVIOUS
<1>1. TotalChunks \in Nat \ {0} /\ NoObject \notin Objects
  BY MmAssumption
<1>2. TypeOK
  BY <1>1 DEF Init, TypeOK, Chunks
<1>3. NoSharedChunk /\ BitmapExact
  BY DEF Init, NoSharedChunk, BitmapExact
<1>4. FreeExact
  BY <1>1, FS_EmptySet DEF Init, FreeExact
<1>5. SearchInv
  BY DEF Init, SearchInv
<1>6. QED
  BY <1>2, <1>3, <1>4, <1>5 DEF IInv

(* Taking the lock.                                                        *)
LEMMA AllocLockStep ==
    ASSUME IInv, NEW o \in Objects, NEW s \in Sizes, AllocLock(o, s)
    PROVE  IInv'
<1>1. TotalChunks \in Nat \ {0} /\ ChunkSize \in Nat \ {0} /\ NoObject \notin Objects
  BY MmAssumption
<1>2. s \in Nat
  BY <1>1 DEF Sizes
<1>3. TypeOK'
  BY <1>1, <1>2 DEF IInv, TypeOK, AllocLock
<1>4. NoSharedChunk' /\ BitmapExact' /\ FreeExact'
  BY DEF IInv, AllocLock, NoSharedChunk, BitmapExact, FreeExact
<1>5. SearchInv'
  BY DEF IInv, AllocLock, SearchInv
<1>6. QED
  BY <1>3, <1>4, <1>5 DEF IInv

(* Leaving the search without a run.                                       *)
LEMMA NoFreeChunkSafe ==
    ASSUME IInv, pc # "idle", NoFreeChunk
    PROVE  Shared' /\ NoSharedChunk' /\ BitmapExact' /\ FreeExact'
  BY DEF IInv, TypeOK, SearchInv, NoFreeChunk, Shared, NoSharedChunk, BitmapExact, FreeExact

(* mm_restart_search.                                                      *)
LEMMA SearchStep == ASSUME IInv, Search PROVE IInv'
<1> DEFINE f == NextZeroBit(start_search)
<1>0. /\ TotalChunks \in Nat \ {0} /\ ChunkSize \in Nat \ {0}
      /\ NoObject \notin Objects
      /\ start_search \in 0 .. TotalChunks /\ size \in Nat /\ cur_size \in Nat
      /\ range_start \in 0 .. TotalChunks /\ range_end \in 0 .. TotalChunks
      /\ bitmap \in SUBSET Chunks /\ owner \in Objects /\ pc = "search"
  BY MmAssumption DEF IInv, TypeOK, SearchInv, Search
<1>1. f \in 0 .. TotalChunks /\ (f < TotalChunks => f \notin bitmap)
  BY <1>0, NextZeroBitSpec
<1>2. found' = f /\ size' = size /\ start_search' = start_search
  BY DEF Search
<1> HIDE DEF f
<1>3. CASE f = TotalChunks
  <2>1. NoFreeChunk /\ UNCHANGED <<range_start, range_end, cur_size>>
    BY <1>3 DEF Search, f
  <2>2. Shared' /\ NoSharedChunk' /\ BitmapExact' /\ FreeExact'
    BY <1>0, <2>1, NoFreeChunkSafe
  <2>3. owner' = NoObject /\ pc' = "idle"
    BY <2>1 DEF NoFreeChunk
  <2>4. TypeOK'
    BY <1>0, <1>1, <1>2, <2>1, <2>2, <2>3 DEF TypeOK, Shared
  <2>5. SearchInv'
    BY <2>3 DEF SearchInv
  <2>6. QED
    BY <2>2, <2>4, <2>5 DEF IInv
<1>4. CASE f # TotalChunks /\ size <= ChunkSize
  <2>1. /\ MarkRange(f, f) /\ UNCHANGED cur_size
        /\ range_start' = f /\ range_end' = f
    BY <1>4 DEF Search, f
  <2>2. f \in Chunks /\ f <= f /\ (f .. f) \cap bitmap = {}
    BY <1>0, <1>1, <1>4 DEF Chunks
  <2>3. Shared' /\ NoSharedChunk' /\ BitmapExact' /\ FreeExact'
    BY <1>0, <2>1, <2>2, MarkRangeSafe
  <2>4. owner' = NoObject /\ pc' = "idle"
    BY <2>1 DEF MarkRange
  <2>5. TypeOK'
    BY <1>0, <1>1, <1>2, <2>1, <2>3, <2>4 DEF TypeOK, Shared
  <2>6. SearchInv'
    BY <2>4 DEF SearchInv
  <2>7. QED
    BY <2>3, <2>5, <2>6 DEF IInv
<1>5. CASE f # TotalChunks /\ ~(size <= ChunkSize)
  <2>1. /\ cur_size' = size - ChunkSize /\ pc' = "extend"
        /\ range_start' = f /\ range_end' = f
        /\ UNCHANGED <<bitmap, free_chunks, range, owner, failed>>
    BY <1>5 DEF Search, f
  <2>2. TypeOK'
    BY <1>0, <1>1, <1>2, <1>5, <2>1 DEF IInv, TypeOK
  <2>3. NoSharedChunk' /\ BitmapExact' /\ FreeExact'
    BY <2>1 DEF IInv, NoSharedChunk, BitmapExact, FreeExact
  <2>4. SearchInv'
    BY <1>0, <1>1, <1>2, <1>5, <2>1 DEF IInv, SearchInv
  <2>5. QED
    BY <2>2, <2>3, <2>4 DEF IInv
<1>6. QED
  BY <1>3, <1>4, <1>5
(* One iteration of the loop that extends the run.                         *)
LEMMA ExtendStep == ASSUME IInv, Extend PROVE IInv'
<1> DEFINE f == found + 1
           e == NextZeroBit(f)
<1>0. /\ TotalChunks \in Nat \ {0} /\ ChunkSize \in Nat \ {0}
      /\ NoObject \notin Objects
      /\ start_search \in 0 .. TotalChunks /\ size \in Nat /\ cur_size \in Nat
      /\ found \in 0 .. TotalChunks
      /\ range_start \in 0 .. TotalChunks /\ range_end \in 0 .. TotalChunks
      /\ bitmap \in SUBSET Chunks /\ owner \in Objects /\ pc = "extend"
  BY MmAssumption DEF IInv, TypeOK, SearchInv, Extend
<1>1. range_start <= found /\ found < TotalChunks /\ (range_start .. found) \cap bitmap = {}
  BY <1>0 DEF IInv, SearchInv
<1>2. f \in 0 .. TotalChunks
  BY <1>0, <1>1
<1>3. e \in 0 .. TotalChunks /\ (e < TotalChunks => e \notin bitmap)
  BY <1>0, <1>2, NextZeroBitSpec
<1>4. /\ found' = f /\ range_end' = e
      /\ size' = size /\ range_start' = range_start
  BY DEF Extend
<1> HIDE DEF e
<1>5. CASE e # f
  <2>1. /\ start_search' = f /\ pc' = "search"
        /\ UNCHANGED <<bitmap, free_chunks, range, owner, cur_size, failed>>
    BY <1>4, <1>5 DEF Extend, RestartSearch
  <2>2. TypeOK'
    BY <1>0, <1>2, <1>3, <1>4, <2>1 DEF IInv, TypeOK
  <2>3. NoSharedChunk' /\ BitmapExact' /\ FreeExact'
    BY <2>1 DEF IInv, NoSharedChunk, BitmapExact, FreeExact
  <2>4. SearchInv'
    BY <1>0, <1>4, <2>1 DEF IInv, SearchInv
  <2>5. QED
    BY <2>2, <2>3, <2>4 DEF IInv
<1>6. CASE e = f /\ f = TotalChunks
  <2>1. NoFreeChunk /\ UNCHANGED <<cur_size, start_search>>
    BY <1>4, <1>6 DEF Extend
  <2>2. Shared' /\ NoSharedChunk' /\ BitmapExact' /\ FreeExact'
    BY <1>0, <2>1, NoFreeChunkSafe
  <2>3. owner' = NoObject /\ pc' = "idle"
    BY <2>1 DEF NoFreeChunk
  <2>4. TypeOK'
    BY <1>0, <1>2, <1>3, <1>4, <2>1, <2>2, <2>3 DEF TypeOK, Shared
  <2>5. SearchInv'
    BY <2>3 DEF SearchInv
  <2>6. QED
    BY <2>2, <2>4, <2>5 DEF IInv
<1>7. CASE e = f /\ f # TotalChunks
  <2>0. /\ cur_size' = Remaining(cur_size) /\ start_search' = start_search
        /\ IF cur_size' > 0
           THEN UNCHANGED <<bitmap, free_chunks, range, owner, pc, failed>>
           ELSE MarkRange(range_start, e)
    BY <1>4, <1>7 DEF Extend
  <2>1. cur_size' \in Nat
    BY <1>0, <2>0 DEF Remaining
  <2>2. (range_start .. f) \cap bitmap = {} /\ f < TotalChunks /\ range_start <= f
    BY <1>0, <1>1, <1>2, <1>3, <1>7
  <2>3. CASE cur_size' > 0
    <3>1. UNCHANGED <<bitmap, free_chunks, range, owner, pc, failed>>
      BY <2>0, <2>3
    <3>2. TypeOK'
      BY <1>0, <1>2, <1>3, <1>4, <2>0, <2>1, <3>1 DEF IInv, TypeOK
    <3>3. NoSharedChunk' /\ BitmapExact' /\ FreeExact'
      BY <3>1 DEF IInv, NoSharedChunk, BitmapExact, FreeExact
    <3>4. SearchInv'
      BY <1>0, <1>4, <2>2, <3>1 DEF IInv, SearchInv
    <3>5. QED
      BY <3>2, <3>3, <3>4 DEF IInv
  <2>4. CASE ~(cur_size' > 0)
    <3>1. MarkRange(range_start, f)
      BY <1>7, <2>0, <2>4
    <3>2. range_start \in Chunks /\ f \in Chunks
      BY <1>0, <1>1, <2>2 DEF Chunks
    <3>3. Shared' /\ NoSharedChunk' /\ BitmapExact' /\ FreeExact'
      BY <1>0, <2>2, <3>1, <3>2, MarkRangeSafe
    <3>4. owner' = NoObject /\ pc' = "idle"
      BY <3>1 DEF MarkRange
    <3>5. TypeOK'
      BY <1>0, <1>2, <1>3, <1>4, <2>0, <2>1, <3>3, <3>4 DEF TypeOK, Shared
    <3>6. SearchInv'
      BY <3>4 DEF SearchInv
    <3>7. QED
      BY <3>3, <3>5, <3>6 DEF IInv
  <2>5. QED
    BY <2>3, <2>4
<1>8. QED
  BY <1>5, <1>6, <1>7

(* rknpu_mm_free.                                                          *)
LEMMA FreeStep == ASSUME IInv, NEW o \in Objects, Free(o) PROVE IInv'
<1>0. /\ TotalChunks \in Nat \ {0}
      /\ bitmap \in SUBSET Chunks
      /\ range \in [Objects -> SUBSET Chunks]
  BY MmAssumption DEF IInv, TypeOK
<1>1. \A p \in Objects : range'[p] = IF p = o THEN {} ELSE range[p]
  BY <1>0 DEF Free
<1>2. range[o] \subseteq bitmap
  BY DEF IInv, BitmapExact
<1>3. bitmap' = bitmap \ range[o]
  BY DEF Free
<1>4. NoSharedChunk'
  BY <1>1 DEF IInv, NoSharedChunk
<1>5. BitmapExact'
  <2>1. \A p \in Objects : p # o => range[p] \cap range[o] = {}
    BY DEF IInv, NoSharedChunk
  <2>2. \A b : b \in bitmap' <=> \E p \in Objects : b \in range'[p]
    BY <1>1, <1>3, <2>1 DEF IInv, BitmapExact
  <2>3. QED
    BY <2>2 DEF BitmapExact
<1>6. FreeExact'
  <2>1. IsFiniteSet(bitmap) /\ free_chunks \in Nat
    BY <1>0, FreeChunksBound DEF IInv
  <2>2. IsFiniteSet(range[o])
    BY <1>2, <2>1, FS_Subset
  <2>3. Cardinality(bitmap) \in Nat /\ Cardinality(range[o]) \in Nat
    BY <2>1, <2>2, FS_CardinalityType
  <2>4. Cardinality(bitmap \ range[o]) = Cardinality(bitmap) - Cardinality(range[o])
    <3>1. bitmap \cap range[o] = range[o]
      BY <1>2
    <3>2. Cardinality(bitmap \ range[o])
             = Cardinality(bitmap) - Cardinality(bitmap \cap range[o])
      BY <2>1, FS_Difference
    <3>3. QED
      BY <3>1, <3>2
  <2>5. QED
    BY <1>0, <1>3, <2>1, <2>3, <2>4 DEF IInv, FreeExact, Free
<1>7. TypeOK'
  <2>1. bitmap' \in SUBSET Chunks /\ range' \in [Objects -> SUBSET Chunks]
    BY <1>0 DEF Free
  <2>2. IsFiniteSet(Chunks) /\ Cardinality(Chunks) = TotalChunks
    BY <1>0, FS_Interval DEF Chunks
  <2>3. Cardinality(bitmap') \in Nat /\ Cardinality(bitmap') <= TotalChunks
    BY <2>1, <2>2, FS_Subset, FS_CardinalityType
  <2>4. free_chunks' \in 0 .. TotalChunks
    BY <1>0, <1>6, <2>3 DEF FreeExact
  <2>5. QED
    BY <2>1, <2>4 DEF IInv, TypeOK, Free, search
<1>8. SearchInv'
  BY DEF IInv, SearchInv, Free, search
<1>9. QED
  BY <1>4, <1>5, <1>6, <1>7, <1>8 DEF IInv

(* The invariant is inductive.                                             *)
LEMMA NextIInv == IInv /\ [Next]_vars => IInv'
<1> SUFFICES ASSUME IInv, [Next]_vars PROVE IInv'
  OBVIOUS
<1>1. CASE \E o \in Objects, s \in Sizes : AllocLock(o, s)
  BY <1>1, AllocLockStep
<1>2. CASE Search
  BY <1>2, SearchStep
<1>3. CASE Extend
  BY <1>3, ExtendStep
<1>4. CASE \E o \in Objects : Free(o)
  BY <1>4, FreeStep
<1>5. CASE UNCHANGED vars
  BY <1>5 DEF IInv, TypeOK, NoSharedChunk, BitmapExact, FreeExact, SearchInv, vars, search
<1>6. QED
  BY <1>1, <1>2, <1>3, <1>4, <1>5 DEF Next

(* Every reachable state satisfies the inductive invariant.                *)
THEOREM Invariance == Spec => []IInv
  BY InitIInv, NextIInv, PTL DEF Spec

(* The manager and the locals of rknpu_mm_alloc keep their types: found    *)
(* never runs past total_chunks and free_chunks never wraps below zero.    *)
THEOREM MmTypeCorrect == Spec => []TypeOK
<1>1. IInv => TypeOK
  BY DEF IInv
<1>2. QED
  BY <1>1, Invariance, PTL

(* rknpu_mm_alloc never hands out a chunk that another object still owns.  *)
THEOREM MmNoSharedChunk == Spec => []NoSharedChunk
<1>1. IInv => NoSharedChunk
  BY DEF IInv
<1>2. QED
  BY <1>1, Invariance, PTL

(* A set bit is a chunk of a live object and a live object's chunks are    *)
(* set bits: rknpu_mm_free leaks nothing.  free_chunks is the number of    *)
(* clear bits.                                                             *)
THEOREM MmAccountingExact == Spec => []AccountingExact
<1>1. IInv => AccountingExact
  BY DEF IInv, AccountingExact
<1>2. QED
  BY <1>1, Invariance, PTL
----------------------------------------------------------------------------
(* What RightLength needs on top: cur_size is exactly what the chunks      *)
(* found so far leave uncovered, and it is never 0 inside the loop.        *)
LengthInv ==
    pc = "extend" => /\ cur_size > 0
                     /\ cur_size = size - (found - range_start + 1) * ChunkSize

(* The loop keeps cur_size exact.                                          *)
LEMMA LengthStep == IInv /\ LengthInv /\ [Next]_vars => LengthInv'
<1> SUFFICES ASSUME IInv, LengthInv, [Next]_vars PROVE LengthInv'
  OBVIOUS
<1>0. /\ TotalChunks \in Nat \ {0} /\ ChunkSize \in Nat \ {0}
      /\ size \in Nat /\ cur_size \in Nat /\ found \in Nat /\ range_start \in Nat
  BY MmAssumption DEF IInv, TypeOK
<1>1. CASE \E o \in Objects, s \in Sizes : AllocLock(o, s)
  BY <1>1 DEF AllocLock, LengthInv
<1>2. CASE Search
  <2>1. ASSUME pc' = "extend"
        PROVE  /\ found' = range_start' /\ size' = size /\ size > ChunkSize
               /\ cur_size' = size - ChunkSize
    BY <1>0, <1>2, <2>1 DEF Search, NoFreeChunk, MarkRange
  <2>2. ASSUME pc' = "extend" PROVE range_start' \in Nat
    <3>1. range_start' \in 0 .. TotalChunks
      BY NextIInv DEF IInv, TypeOK
    <3>2. QED
      BY <1>0, <3>1
  <2>3. QED
    BY <1>0, <2>1, <2>2 DEF LengthInv
<1>3. CASE Extend
  <2>1. ASSUME pc' = "extend"
        PROVE  /\ found' = found + 1 /\ range_start' = range_start /\ size' = size
               /\ cur_size' = Remaining(cur_size) /\ cur_size' > 0
    BY <1>3, <2>1 DEF Extend, RestartSearch, NoFreeChunk, MarkRange
  <2>2. pc = "extend"
    BY <1>3 DEF Extend
  <2>3. ASSUME pc' = "extend" PROVE cur_size' = cur_size - ChunkSize
    BY <1>0, <2>1, <2>3 DEF Remaining
  <2>4. (found + 1 - range_start + 1) * ChunkSize
           = (found - range_start + 1) * ChunkSize + ChunkSize
    BY <1>0
  <2>5. QED
    BY <1>0, <2>1, <2>2, <2>3, <2>4 DEF LengthInv
<1>4. CASE \E o \in Objects : Free(o)
  BY <1>4 DEF Free, search, LengthInv
<1>5. CASE UNCHANGED vars
  BY <1>5 DEF vars, search, LengthInv
<1>6. QED
  BY <1>1, <1>2, <1>3, <1>4, <1>5 DEF Next

(* A run of the right length.                                              *)
Fits(R) ==
    /\ \E s, e \in Chunks : R = s .. e
    /\ Cardinality(R) * ChunkSize >= size
    /\ (Cardinality(R) - 1) * ChunkSize < size

(* The only object a step gives a run to is the lock holder, by MarkRange. *)
LEMMA MarkRangeFits ==
    ASSUME IInv, pc # "idle",
           NEW from \in Chunks, NEW to \in Chunks, from <= to,
           (to - from + 1) * ChunkSize >= size, (to - from) * ChunkSize < size,
           MarkRange(from, to),
           NEW o \in Objects, range[o] = {}, range'[o] # {}
    PROVE  Fits(range'[o])
<1>1. from \in Nat /\ to \in Nat /\ range \in [Objects -> SUBSET Chunks]
  BY MmAssumption DEF Chunks, IInv, TypeOK
<1>2. range'[o] = from .. to
  BY <1>1 DEF MarkRange
<1>3. Cardinality(from .. to) = to - from + 1
  BY <1>1, FS_Interval
<1>4. (to - from + 1) - 1 = to - from
  BY <1>1
<1>5. QED
  BY <1>2, <1>3, <1>4 DEF Fits

(* Every step that allocates, allocates the right length.                  *)
LEMMA RightLengthStep ==
    ASSUME IInv, LengthInv, [Next]_vars, NEW o \in Objects, range[o] = {}, range'[o] # {}
    PROVE  Fits(range'[o])
<1>0. /\ TotalChunks \in Nat \ {0} /\ ChunkSize \in Nat \ {0}
      /\ size \in Nat /\ cur_size \in Nat
      /\ start_search \in 0 .. TotalChunks
      /\ bitmap \in SUBSET Chunks /\ range \in [Objects -> SUBSET Chunks]
  BY MmAssumption DEF IInv, TypeOK
<1>1. CASE \E p \in Objects, s \in Sizes : AllocLock(p, s)
  BY <1>1 DEF AllocLock
<1>2. CASE Search
  <2> DEFINE f == NextZeroBit(start_search)
  <2>1. f \in 0 .. TotalChunks
    BY <1>0, NextZeroBitSpec
  <2>2. /\ f # TotalChunks /\ size <= ChunkSize
        /\ MarkRange(f, f) /\ pc = "search"
    BY <1>2 DEF Search, NoFreeChunk
  <2> HIDE DEF f
  <2>3. f \in Chunks
    BY <1>0, <2>1, <2>2 DEF Chunks
  <2>4. size > 0
    BY <1>0, <2>2 DEF IInv, SearchInv, Sizes
  <2>5. /\ f <= f /\ (f - f + 1) * ChunkSize >= size /\ (f - f) * ChunkSize < size
    BY <1>0, <2>1, <2>2, <2>4
  <2>6. QED
    BY <2>2, <2>3, <2>5, MarkRangeFits
<1>3. CASE Extend
  <2> DEFINE f == found + 1
  <2>1. /\ range_start \in Nat /\ found \in Nat /\ range_start <= found
        /\ found < TotalChunks /\ pc = "extend"
    BY <1>0, <1>3 DEF Extend, IInv, TypeOK, SearchInv
  <2>2. /\ f # TotalChunks
        /\ MarkRange(range_start, f)
        /\ ~(Remaining(cur_size) > 0)
    BY <1>3 DEF Extend, RestartSearch, NoFreeChunk
  <2>3. range_start \in Chunks /\ f \in Chunks /\ range_start <= f
    BY <1>0, <2>1, <2>2 DEF Chunks
  <2>4. cur_size > 0 /\ cur_size = size - (found - range_start + 1) * ChunkSize
    BY <2>1 DEF LengthInv
  <2>5. cur_size <= ChunkSize
    BY <1>0, <2>2 DEF Remaining
  <2>6. /\ f - range_start = found - range_start + 1
        /\ (f - range_start + 1) * ChunkSize
              = (found - range_start + 1) * ChunkSize + ChunkSize
        /\ (found - range_start + 1) * ChunkSize \in Nat
    BY <1>0, <2>1
  <2>7. /\ (f - range_start + 1) * ChunkSize >= size
        /\ (f - range_start) * ChunkSize < size
    BY <1>0, <2>4, <2>5, <2>6
  <2>8. QED
    BY <2>1, <2>2, <2>3, <2>7, MarkRangeFits
<1>4. CASE \E p \in Objects : Free(p)
  BY <1>0, <1>4 DEF Free
<1>5. CASE UNCHANGED vars
  BY <1>5 DEF vars
<1>6. QED
  BY <1>1, <1>2, <1>3, <1>4, <1>5 DEF Next

(* A successful rknpu_mm_alloc covers the requested size with a contiguous *)
(* run and wastes less than one chunk.                                     *)
THEOREM MmRightLength == Spec => RightLength
<1>1. Init => LengthInv
  BY DEF Init, LengthInv
<1>2. IInv /\ LengthInv /\ [Next]_vars =>
        [\A o \in Objects : (range[o] = {} /\ range'[o] # {}) => Fits(range'[o])]_vars
  BY RightLengthStep
<1>3. QED
  BY <1>1, <1>2, Invariance, LengthStep, PTL DEF Spec, RightLength, Fits
----------------------------------------------------------------------------
(* The number of chunks the request of the lock holder takes.              *)
Needs(n) ==
    /\ n \in 1 .. TotalChunks
    /\ (n - 1) * ChunkSize < size
    /\ size <= n * ChunkSize

(* A free run of n chunks from r on, as the bitmap shows it.               *)
RunFree(r, n) ==
    /\ r + n <= TotalChunks
    /\ (r .. r + n - 1) \cap bitmap = {}

(* What first fit needs on top: the search leaves no run behind that would *)
(* have been long enough, wherever it restarts.                            *)
FirstFitInv ==
    \A n \in 1 .. TotalChunks : Needs(n) =>
        /\ pc = "search" => \A r \in 0 .. start_search - 1 : ~RunFree(r, n)
        /\ pc = "extend" => \A r \in 0 .. range_start - 1 : ~RunFree(r, n)

(* Every size that passes the checks takes some number of chunks.          *)
LEMMA NeedsSome == ASSUME size \in Sizes PROVE \E n \in 1 .. TotalChunks : Needs(n)
<1>0. TotalChunks \in Nat \ {0} /\ ChunkSize \in Nat \ {0}
  BY MmAssumption
<1>1. size \in Nat /\ size > 0 /\ size <= TotalChunks * ChunkSize
  BY <1>0 DEF Sizes
<1> DEFINE T == {n \in Nat : size <= n * ChunkSize}
<1>2. TotalChunks \in T
  BY <1>0, <1>1
<1>3. PICK n \in T : \A m \in T : n <= m
  BY <1>2, LeastNatural
<1>4. n \in Nat /\ size <= n * ChunkSize /\ n <= TotalChunks
  BY <1>2, <1>3
<1>5. n # 0
  BY <1>0, <1>1, <1>4
<1>6. n - 1 \in Nat /\ n - 1 \notin T
  BY <1>3, <1>4, <1>5
<1>7. (n - 1) * ChunkSize < size
  BY <1>0, <1>1, <1>6
<1>8. n \in 1 .. TotalChunks
  BY <1>0, <1>4, <1>5
<1>9. QED
  BY <1>4, <1>7, <1>8 DEF Needs

(* Chunks that are taken start no free run.                                *)
LEMMA TakenStartsNoRun ==
    ASSUME NEW r \in Nat, NEW n \in Nat \ {0}, r \in bitmap
    PROVE  ~RunFree(r, n)
<1>1. r \in r .. r + n - 1
  OBVIOUS
<1>2. QED
  BY <1>1 DEF RunFree

(* A run too short for the request: what the loop has covered is less than *)
(* it needs, so a run that starts in it reaches past the chunks found.     *)
LEMMA NeedsMore ==
    ASSUME IInv, LengthInv, pc = "extend", NEW n \in 1 .. TotalChunks, Needs(n)
    PROVE  range_start + n >= found + 2
<1>0. /\ TotalChunks \in Nat \ {0} /\ ChunkSize \in Nat \ {0}
      /\ size \in Nat /\ found \in Nat /\ range_start \in Nat
      /\ range_start <= found /\ n \in Nat
  BY MmAssumption DEF IInv, TypeOK, SearchInv
<1> DEFINE k == found - range_start + 1
<1>1. cur_size > 0 /\ cur_size = size - k * ChunkSize /\ cur_size \in Nat
  BY DEF LengthInv, IInv, TypeOK
<1>2. k \in Nat /\ k * ChunkSize \in Nat /\ n * ChunkSize \in Nat
  BY <1>0
<1>3. k * ChunkSize < n * ChunkSize
  <2> HIDE DEF k
  <2>1. QED
    BY <1>0, <1>1, <1>2 DEF Needs
<1>4. k < n
  <2> HIDE DEF k
  <2>1. ASSUME n <= k PROVE FALSE
    <3>1. n * ChunkSize <= k * ChunkSize
      BY <1>0, <1>2, <2>1
    <3>2. QED
      BY <1>2, <1>3, <3>1
  <2>2. QED
    BY <1>0, <1>2, <2>1
<1>5. QED
  BY <1>0, <1>4

(* No run is left behind by mm_restart_search either.                      *)
LEMMA SearchLeavesNone ==
    ASSUME IInv, FirstFitInv, pc = "search", NEW n \in 1 .. TotalChunks, Needs(n),
           NEW r \in 0 .. NextZeroBit(start_search) - 1
    PROVE  ~RunFree(r, n)
<1>0. /\ TotalChunks \in Nat \ {0} /\ start_search \in 0 .. TotalChunks
      /\ bitmap \in SUBSET Chunks
  BY MmAssumption DEF IInv, TypeOK
<1>1. /\ NextZeroBit(start_search) \in start_search .. TotalChunks
      /\ \A b \in start_search .. NextZeroBit(start_search) - 1 : b \in bitmap
  BY <1>0, NextZeroBitSpec
<1>2. CASE r < start_search
  <2>1. r \in 0 .. start_search - 1
    BY <1>0, <1>1, <1>2
  <2>2. QED
    BY <2>1 DEF FirstFitInv
<1>3. CASE ~(r < start_search)
  <2>1. r \in start_search .. NextZeroBit(start_search) - 1 /\ r \in Nat
    BY <1>0, <1>1, <1>3
  <2>2. r \in bitmap
    BY <1>1, <2>1
  <2>3. QED
    BY <1>0, <2>1, <2>2, TakenStartsNoRun
<1>4. QED
  BY <1>2, <1>3

(* A run that hits a taken chunk or the end of the memory is too short     *)
(* from each of its chunks on.                                             *)
LEMMA ShortRunLeavesNone ==
    ASSUME IInv, LengthInv, FirstFitInv, pc = "extend",
           NEW n \in 1 .. TotalChunks, Needs(n),
           found + 1 \in bitmap \/ found + 1 = TotalChunks,
           NEW r \in 0 .. found
    PROVE  ~RunFree(r, n)
<1>0. /\ TotalChunks \in Nat \ {0} /\ found \in Nat /\ range_start \in Nat
      /\ n \in Nat /\ n > 0 /\ r \in Nat /\ r <= found
      /\ range_start + n >= found + 2
  BY MmAssumption, NeedsMore DEF IInv, TypeOK
<1>1. CASE r < range_start
  <2>1. r \in 0 .. range_start - 1
    BY <1>0, <1>1
  <2>2. QED
    BY <2>1 DEF FirstFitInv
<1>2. CASE ~(r < range_start)
  <2>1. r + n >= found + 2
    BY <1>0, <1>2
  <2>2. found + 1 \in r .. r + n - 1
    BY <1>0, <2>1
  <2>3. QED
    BY <1>0, <2>1, <2>2 DEF RunFree
<1>3. QED
  BY <1>1, <1>2

(* First fit survives every step.                                          *)
LEMMA FirstFitStep ==
    IInv /\ LengthInv /\ FirstFitInv /\ [Next]_vars => FirstFitInv'
<1> SUFFICES ASSUME IInv, LengthInv, FirstFitInv, [Next]_vars,
                    NEW n \in 1 .. TotalChunks, Needs(n)'
             PROVE  /\ pc' = "search" => \A r \in 0 .. start_search' - 1 : ~RunFree(r, n)'
                    /\ pc' = "extend" => \A r \in 0 .. range_start' - 1 : ~RunFree(r, n)'
  BY DEF FirstFitInv
<1>0. /\ TotalChunks \in Nat \ {0} /\ start_search \in 0 .. TotalChunks
      /\ bitmap \in SUBSET Chunks /\ found \in Nat
  BY MmAssumption DEF IInv, TypeOK
<1>1. CASE \E o \in Objects, s \in Sizes : AllocLock(o, s)
  <2>1. pc' = "search" /\ start_search' = 0
    BY <1>1 DEF AllocLock
  <2>2. QED
    BY <2>1
<1>2. CASE Search
  <2>1. pc = "search" /\ size' = size
    BY <1>2 DEF Search
  <2>2. ASSUME pc' = "extend"
        PROVE  bitmap' = bitmap /\ range_start' = NextZeroBit(start_search)
    BY <1>2, <2>2 DEF Search, NoFreeChunk, MarkRange
  <2>3. pc' # "search"
    BY <1>2 DEF Search, NoFreeChunk, MarkRange
  <2>4. Needs(n)
    BY <2>1 DEF Needs
  <2>5. ASSUME pc' = "extend", NEW r \in 0 .. range_start' - 1 PROVE ~RunFree(r, n)'
    <3>1. ~RunFree(r, n)
      BY <2>1, <2>2, <2>4, <2>5, SearchLeavesNone
    <3>2. QED
      BY <2>2, <2>5, <3>1 DEF RunFree
  <2>6. QED
    BY <2>3, <2>5
<1>3. CASE Extend
  <2>1. pc = "extend" /\ size' = size /\ range_start' = range_start
    BY <1>3 DEF Extend
  <2>2. Needs(n)
    BY <2>1 DEF Needs
  <2>3. ASSUME pc' = "extend" PROVE bitmap' = bitmap
    BY <1>3, <2>3 DEF Extend, RestartSearch, NoFreeChunk, MarkRange
  <2>4. ASSUME pc' = "extend", NEW r \in 0 .. range_start' - 1 PROVE ~RunFree(r, n)'
    <3>1. ~RunFree(r, n)
      BY <2>1, <2>2, <2>4 DEF FirstFitInv
    <3>2. QED
      BY <2>3, <2>4, <3>1 DEF RunFree
  <2>5. ASSUME pc' = "search"
        PROVE  /\ bitmap' = bitmap /\ start_search' = found + 1
               /\ NextZeroBit(found + 1) # found + 1
    BY <1>3, <2>5 DEF Extend, RestartSearch, NoFreeChunk, MarkRange
  <2>6. ASSUME pc' = "search", NEW r \in 0 .. start_search' - 1 PROVE ~RunFree(r, n)'
    <3>1. found + 1 \in 0 .. TotalChunks
      BY <1>0, <2>1 DEF IInv, SearchInv
    <3>2. found + 1 \in bitmap
      <4>1. /\ NextZeroBit(found + 1) \in found + 1 .. TotalChunks
            /\ \A b \in found + 1 .. NextZeroBit(found + 1) - 1 : b \in bitmap
        BY <1>0, <3>1, NextZeroBitSpec
      <4>2. found + 1 \in found + 1 .. NextZeroBit(found + 1) - 1
        BY <1>0, <2>5, <2>6, <4>1
      <4>3. QED
        BY <4>1, <4>2
    <3>3. r \in 0 .. found
      BY <1>0, <2>5, <2>6
    <3>4. ~RunFree(r, n)
      BY <2>1, <2>2, <3>2, <3>3, ShortRunLeavesNone
    <3>5. QED
      BY <2>5, <2>6, <3>4 DEF RunFree
  <2>7. QED
    BY <2>4, <2>6
<1>4. CASE \E o \in Objects : Free(o)
  BY <1>4 DEF Free
<1>5. CASE UNCHANGED vars
  BY <1>5 DEF vars, search, FirstFitInv, Needs, RunFree
<1>6. QED
  BY <1>1, <1>2, <1>3, <1>4, <1>5 DEF Next
----------------------------------------------------------------------------
(* The abstract allocator's free runs are the bitmap's.                    *)
LEMMA SameRuns ==
    ASSUME BitmapExact, NEW r, NEW n
    PROVE  Allocator!FreeRun(r, n) <=> RunFree(r, n)
  BY DEF BitmapExact, Allocator!FreeRun, Allocator!AllHeld, RunFree

(* Handing out the lowest run is Grant.                                    *)
LEMMA MarkRangeGrants ==
    ASSUME IInv, pc # "idle", NEW from \in Chunks, NEW n \in 1 .. TotalChunks,
           from + n <= TotalChunks, (from .. from + n - 1) \cap bitmap = {},
           \A r \in 0 .. from - 1 : ~RunFree(r, n),
           MarkRange(from, from + n - 1)
    PROVE  Allocator!Grant(owner, n) /\ owner \in Objects
<1>1. owner \in Objects /\ range[owner] = {} /\ BitmapExact
  BY DEF IInv, SearchInv
<1>2. Allocator!FreeRun(from, n)
  BY <1>1, SameRuns DEF RunFree
<1>3. \A r \in 0 .. from - 1 : ~Allocator!FreeRun(r, n)
  BY <1>1, SameRuns
<1>4. /\ range' = [range EXCEPT ![owner] = from .. from + n - 1]
      /\ failed' = failed \ {owner}
  BY DEF MarkRange
<1>5. from \in 0 .. TotalChunks - 1
  BY DEF Chunks
<1>6. QED
  BY <1>1, <1>2, <1>3, <1>4, <1>5 DEF Allocator!Grant

(* Giving up is Refuse, if no run is long enough.                          *)
LEMMA NoFreeChunkRefuses ==
    ASSUME IInv, pc # "idle", NoFreeChunk, NEW n \in 1 .. TotalChunks,
           \A r \in 0 .. TotalChunks - 1 : ~RunFree(r, n)
    PROVE  Allocator!Refuse(owner, n) /\ owner \in Objects
<1>1. owner \in Objects /\ range[owner] = {} /\ BitmapExact
  BY DEF IInv, SearchInv
<1>2. \A r \in 0 .. TotalChunks - 1 : ~Allocator!FreeRun(r, n)
  BY <1>1, SameRuns
<1>3. QED
  BY <1>1, <1>2 DEF Allocator!Refuse, NoFreeChunk

(* mm_restart_search is a Grant, a Refuse or invisible.                    *)
LEMMA SearchMaps ==
    ASSUME IInv, FirstFitInv, Search
    PROVE  Allocator!AllocNext \/ UNCHANGED <<range, failed>>
<1> DEFINE f == NextZeroBit(start_search)
<1>0. /\ TotalChunks \in Nat \ {0} /\ ChunkSize \in Nat \ {0}
      /\ start_search \in 0 .. TotalChunks /\ bitmap \in SUBSET Chunks
      /\ pc = "search" /\ size \in Sizes /\ size \in Nat
  BY MmAssumption DEF IInv, TypeOK, SearchInv, Search
<1>1. f \in 0 .. TotalChunks /\ (f < TotalChunks => f \notin bitmap)
  BY <1>0, NextZeroBitSpec
<1>2. \A n \in 1 .. TotalChunks : Needs(n) => \A r \in 0 .. f - 1 : ~RunFree(r, n)
  BY <1>0, SearchLeavesNone
<1>3. \/ f = TotalChunks /\ NoFreeChunk
      \/ f # TotalChunks /\ size <= ChunkSize /\ MarkRange(f, f)
      \/ UNCHANGED <<range, failed>>
  BY DEF Search
<1> HIDE DEF f
<1>4. CASE f = TotalChunks /\ NoFreeChunk
  <2>1. PICK n \in 1 .. TotalChunks : Needs(n)
    BY <1>0, NeedsSome
  <2>2. Allocator!Refuse(owner, n) /\ owner \in Objects
    BY <1>0, <1>2, <1>4, <2>1, NoFreeChunkRefuses
  <2>3. QED
    BY <2>2 DEF Allocator!AllocNext
<1>5. CASE f # TotalChunks /\ size <= ChunkSize /\ MarkRange(f, f)
  <2>1. 1 \in 1 .. TotalChunks /\ Needs(1)
    BY <1>0, <1>5 DEF Needs, Sizes
  <2>2. f \in Chunks /\ f + 1 <= TotalChunks /\ f + 1 - 1 = f /\ f \in Nat
    BY <1>0, <1>1, <1>5 DEF Chunks
  <2>3. (f .. f + 1 - 1) \cap bitmap = {} /\ MarkRange(f, f + 1 - 1)
    BY <1>0, <1>1, <1>5, <2>2
  <2>4. \A r \in 0 .. f - 1 : ~RunFree(r, 1)
    BY <1>2, <2>1
  <2>5. Allocator!Grant(owner, 1) /\ owner \in Objects
    BY <1>0, <2>1, <2>2, <2>3, <2>4, MarkRangeGrants
  <2>6. QED
    BY <2>1, <2>5 DEF Allocator!AllocNext
<1>6. QED
  BY <1>3, <1>4, <1>5

(* So is an iteration of the loop that extends a run.                      *)
LEMMA ExtendMaps ==
    ASSUME IInv, LengthInv, FirstFitInv, Extend
    PROVE  Allocator!AllocNext \/ UNCHANGED <<range, failed>>
<1> DEFINE f == found + 1
           n == f - range_start + 1
<1>0. /\ TotalChunks \in Nat \ {0} /\ ChunkSize \in Nat \ {0}
      /\ pc = "extend" /\ size \in Sizes /\ size \in Nat /\ cur_size \in Nat
      /\ bitmap \in SUBSET Chunks
      /\ range_start \in Nat /\ found \in Nat /\ range_start <= found
      /\ found < TotalChunks /\ (range_start .. found) \cap bitmap = {}
  BY MmAssumption DEF IInv, TypeOK, SearchInv, Extend
<1>1. /\ NextZeroBit(f) \in f .. TotalChunks
      /\ NextZeroBit(f) < TotalChunks => NextZeroBit(f) \notin bitmap
  BY <1>0, NextZeroBitSpec
<1>2. \/ f = TotalChunks /\ NoFreeChunk
      \/ /\ f # TotalChunks /\ NextZeroBit(f) = f /\ ~(Remaining(cur_size) > 0)
         /\ MarkRange(range_start, f)
      \/ UNCHANGED <<range, failed>>
  BY DEF Extend, RestartSearch
<1>3. CASE f = TotalChunks /\ NoFreeChunk
  <2>1. PICK m \in 1 .. TotalChunks : Needs(m)
    BY <1>0, NeedsSome
  <2>2. 0 .. TotalChunks - 1 = 0 .. found
    BY <1>0, <1>3
  <2>3. \A r \in 0 .. TotalChunks - 1 : ~RunFree(r, m)
    BY <1>0, <1>3, <2>1, <2>2, ShortRunLeavesNone
  <2>4. Allocator!Refuse(owner, m) /\ owner \in Objects
    BY <1>0, <1>3, <2>1, <2>3, NoFreeChunkRefuses
  <2>5. QED
    BY <2>4 DEF Allocator!AllocNext
<1>4. CASE /\ f # TotalChunks /\ NextZeroBit(f) = f /\ ~(Remaining(cur_size) > 0)
           /\ MarkRange(range_start, f)
  <2>1. /\ n \in 1 .. TotalChunks /\ range_start \in Chunks
        /\ range_start + n <= TotalChunks /\ range_start + n - 1 = f
    BY <1>0, <1>4 DEF Chunks
  <2>2. f \notin bitmap
    BY <1>0, <1>1, <1>4
  <2>3. (range_start .. f) \cap bitmap = {}
    BY <1>0, <2>2
  <2>4. cur_size > 0 /\ cur_size = size - (found - range_start + 1) * ChunkSize
    BY <1>0 DEF LengthInv
  <2>5. cur_size <= ChunkSize
    BY <1>0, <1>4 DEF Remaining
  <2>6. /\ n - 1 = found - range_start + 1
        /\ n * ChunkSize = (found - range_start + 1) * ChunkSize + ChunkSize
        /\ (found - range_start + 1) * ChunkSize \in Nat
    BY <1>0
  <2>7. (n - 1) * ChunkSize < size /\ size <= n * ChunkSize
    BY <1>0, <2>4, <2>5, <2>6
  <2> HIDE DEF n
  <2>8. Needs(n)
    BY <2>1, <2>7 DEF Needs
  <2>9. \A r \in 0 .. range_start - 1 : ~RunFree(r, n)
    BY <1>0, <2>1, <2>8 DEF FirstFitInv
  <2>10. MarkRange(range_start, range_start + n - 1)
    BY <1>4, <2>1
  <2>11. (range_start .. range_start + n - 1) \cap bitmap = {}
    BY <2>1, <2>3
  <2>12. Allocator!Grant(owner, n) /\ owner \in Objects
    BY <1>0, <2>1, <2>9, <2>10, <2>11, MarkRangeGrants
  <2>13. QED
    BY <2>1, <2>12 DEF Allocator!AllocNext
<1>5. QED
  BY <1>2, <1>3, <1>4

(* Every step of the manager is a step of the abstract allocator.          *)
LEMMA NextMaps ==
    IInv /\ LengthInv /\ FirstFitInv /\ [Next]_vars
        => [Allocator!AllocNext]_(Allocator!allocVars)
<1> SUFFICES ASSUME IInv, LengthInv, FirstFitInv, [Next]_vars
             PROVE  Allocator!AllocNext \/ UNCHANGED <<range, failed>>
  BY DEF Allocator!allocVars
<1>1. CASE \E o \in Objects, s \in Sizes : AllocLock(o, s)
  BY <1>1 DEF AllocLock
<1>2. CASE Search
  BY <1>2, SearchMaps
<1>3. CASE Extend
  BY <1>3, ExtendMaps
<1>4. CASE \E o \in Objects : Free(o)
  BY <1>4 DEF Free, Allocator!AllocNext, Allocator!Release
<1>5. CASE UNCHANGED vars
  BY <1>5 DEF vars
<1>6. QED
  BY <1>1, <1>2, <1>3, <1>4, <1>5 DEF Next

(* The bitmap search of rknpu_mm_alloc implements the abstract allocator,  *)
(* for every memory and chunk size: a caller gets the lowest run that      *)
(* covers its request, and -ENOMEM means that no such run is free, however *)
(* the search was broken off and restarted on the way.                     *)
THEOREM MmImplementsAllocator == Spec => ImplementsAllocator
<1>1. Init => LengthInv /\ FirstFitInv
  BY DEF Init, LengthInv, FirstFitInv
<1>2. Init => Allocator!AllocInit
  BY DEF Init, Allocator!AllocInit
<1>3. QED
  BY <1>1, <1>2, Invariance, LengthStep, FirstFitStep, NextMaps, PTL
     DEF Spec, ImplementsAllocator, Allocator!AllocSpec
=============================================================================
