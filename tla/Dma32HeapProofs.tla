--------------------------- MODULE Dma32HeapProofs ---------------------------
(***************************************************************************)
(* The frames of the dma32 heap, for every number of buffers and of page   *)
(* frames and every table of orders: no frame is lost or in two buffers, a *)
(* buffer has the length that was asked for, no frame lies above 4 GB, and *)
(* everybody who looks at a buffer sees the same pages in the same order.  *)
(*                                                                         *)
(* PagesExact alone is not inductive: it does not say that a buffer that   *)
(* is not allocated has no blocks, which the start of the next allocation  *)
(* relies on, nor that a block is one the page allocator could have handed *)
(* out, which is what "aligned, so the first page decides" rests on.       *)
(*                                                                         *)
(* ViewsAgree compares the pages that the loops of mmap and vmap collect   *)
(* with a definition that does not walk.  Each loop is a recursive         *)
(* function; that it exists is shown by giving its value in closed form    *)
(* (PagesUpTo), that it has no other value by induction over the blocks,   *)
(* and the induction is a least counterexample (LeastNumber).              *)
(***************************************************************************)
EXTENDS Dma32Heap, FiniteSetTheorems, SequenceTheorems, TLAPS

BlockType == [start : Nat, order : Nat]

HeapTypeOK ==
    /\ taken \in SUBSET (0 .. Frames - 1)
    /\ blocks \in [Buffers -> Seq(BlockType)]
    /\ pc \in [Buffers -> {"none", "loop", "export", "ready", "free_pages",
                           "free_buffer", "release"}]
    /\ len \in [Buffers -> Int]
    /\ remaining \in [Buffers -> Int]
    /\ i \in [Buffers -> 1 .. NumOrders]

(* A block as alloc_pages hands it out and the check at 4 GB lets it pass. *)
Sound(block) ==
    /\ \E k \in 1 .. NumOrders : block.order = Orders[k]
    /\ block.start % Size(block.order) = 0
    /\ FramesOf(block) \subseteq 0 .. Frames - 1
    /\ block.start < Limit

BlocksSound == \A b \in Buffers : \A x \in DOMAIN blocks[b] : Sound(blocks[b][x])

TakenExact == taken = UNION {FramesIn(blocks[b]) : b \in Buffers}

Apart ==
    \A b, c \in Buffers :
        \A x \in DOMAIN blocks[b], y \in DOMAIN blocks[c] :
            FramesOf(blocks[b][x]) \cap FramesOf(blocks[c][y]) # {} => b = c /\ x = y

(* What one buffer has found and still needs; an unused one has nothing.   *)
AddsUp(b) ==
    /\ pc[b] \in {"loop", "export", "ready"} =>
          /\ Cardinality(FramesIn(blocks[b])) + remaining[b] = len[b]
          /\ remaining[b] >= 0 /\ (pc[b] # "loop" => remaining[b] = 0)
    /\ pc[b] = "none" => blocks[b] = <<>>

HeapInv ==
    HeapTypeOK /\ BlocksSound /\ TakenExact /\ Apart /\ \A b \in Buffers : AddsUp(b)

----------------------------------------------------------------------------
(* Frames, blocks and lists of blocks.                                     *)

(* A sound block has at least one frame.                                   *)
LEMMA SizePositive ==
    ASSUME NEW block \in BlockType, \E k \in 1 .. NumOrders : block.order = Orders[k]
    PROVE  Size(block.order) \in Nat \ {0}
<1>1. PICK k \in 1 .. NumOrders : block.order = Orders[k]
    OBVIOUS
<1>2. 2 ^ Orders[k] > 0 /\ Orders[k] \in Nat
    BY HeapAssumption
<1>3. 2 ^ Orders[k] \in Int
    BY <1>2
<1> QED
    BY <1>1, <1>2, <1>3 DEF Size

(* The size of a block is the number of its frames.                        *)
LEMMA BlockCardinality ==
    ASSUME NEW block \in BlockType, \E k \in 1 .. NumOrders : block.order = Orders[k]
    PROVE  IsFiniteSet(FramesOf(block)) /\ Cardinality(FramesOf(block)) = Size(block.order)
<1> DEFINE s == Size(block.order)
<1>1. s \in Nat \ {0}
    BY SizePositive
<1>2. block.start \in Int
    BY DEF BlockType
<1> HIDE DEF s
<1>3. block.start + s - 1 \in Int /\ block.start <= block.start + s - 1
    BY <1>1, <1>2
<1>4. ASSUME NEW a \in Int, NEW z \in Int, a <= z, z = a + s - 1
      PROVE  IsFiniteSet(a .. z) /\ Cardinality(a .. z) = s
    <2>1. Cardinality(a .. z) = z - a + 1 /\ IsFiniteSet(a .. z)
        BY <1>4, FS_Interval
    <2> QED
        BY <1>1, <1>4, <2>1
<1>5. IsFiniteSet(block.start .. block.start + s - 1)
      /\ Cardinality(block.start .. block.start + s - 1) = s
    BY <1>2, <1>3, <1>4
<1> QED
    BY <1>5 DEF FramesOf, s

(* alloc_pages is aligned and 4 GB is a multiple of every block size: when *)
(* the first page of a block is below 4 GB, all of its pages are.          *)
LEMMA FirstPageDecides ==
    ASSUME NEW block \in BlockType, Sound(block), NEW f \in FramesOf(block)
    PROVE  f < Limit
<1> DEFINE s == Size(block.order)
           p == Limit \div s
           q == block.start \div s
<1>1. s \in Nat \ {0}
    BY SizePositive DEF Sound
<1>2. Limit \in Nat /\ Limit % s = 0
    BY HeapAssumption DEF Sound, Size
<1>3. block.start \in Nat /\ block.start % s = 0 /\ block.start < Limit
    BY DEF Sound, BlockType
<1>4. f \in Int /\ f <= block.start + s - 1
    BY <1>1, <1>3 DEF FramesOf
<1> HIDE DEF s
<1>5. p \in Nat /\ Limit = p * s
    BY <1>1, <1>2
<1>6. q \in Nat /\ block.start = q * s
    BY <1>1, <1>3
<1> HIDE DEF p, q
<1>7. q < p
    BY <1>1, <1>3, <1>5, <1>6
<1>8. PICK d \in Nat : p = q + 1 + d
    BY <1>5, <1>6, <1>7
<1>9. p * s = q * s + s + d * s /\ d * s >= 0
    BY <1>1, <1>6, <1>8
<1>10. block.start + s <= Limit
    BY <1>1, <1>5, <1>6, <1>9
<1> QED
    BY <1>1, <1>2, <1>3, <1>4, <1>10

(* A frame is in a list of blocks when it is in one of them.               *)
LEMMA InFrames ==
    ASSUME NEW s, NEW f
    PROVE  f \in FramesIn(s) <=> \E x \in DOMAIN s : f \in FramesOf(s[x])
BY DEF FramesIn

(* list_add_tail adds the frames of the block.                             *)
LEMMA AppendFrames ==
    ASSUME NEW s \in Seq(BlockType), NEW block \in BlockType
    PROVE  FramesIn(Append(s, block)) = FramesIn(s) \cup FramesOf(block)
<1> DEFINE t == Append(s, block)
<1>1. /\ DOMAIN s = 1 .. Len(s) /\ DOMAIN t = 1 .. Len(s) + 1 /\ Len(s) \in Nat
      /\ \A x \in 1 .. Len(s) : t[x] = s[x]
      /\ t[Len(s) + 1] = block
    OBVIOUS
<1> HIDE DEF t
<1>2. ASSUME NEW f
      PROVE  f \in FramesIn(t) <=> f \in FramesIn(s) \cup FramesOf(block)
    <2>1. f \in FramesIn(t) <=> \E x \in 1 .. Len(s) + 1 : f \in FramesOf(t[x])
        BY <1>1, InFrames
    <2>2. f \in FramesIn(s) <=> \E x \in 1 .. Len(s) : f \in FramesOf(s[x])
        BY <1>1, InFrames
    <2>3. \A x \in 1 .. Len(s) + 1 : x \in 1 .. Len(s) \/ x = Len(s) + 1
        BY <1>1
    <2>4. 1 .. Len(s) \subseteq 1 .. Len(s) + 1 /\ Len(s) + 1 \in 1 .. Len(s) + 1
        BY <1>1
    <2> QED
        BY <1>1, <2>1, <2>2, <2>3, <2>4, Zenon
<1> QED
    BY <1>2 DEF t

(* Taking the first block off a list of disjoint blocks takes its frames   *)
(* and no other.                                                           *)
LEMMA TailFrames ==
    ASSUME NEW s \in Seq(BlockType), s # <<>>,
           \A x, y \in DOMAIN s : FramesOf(s[x]) \cap FramesOf(s[y]) # {} => x = y
    PROVE  FramesIn(Tail(s)) = FramesIn(s) \ FramesOf(Head(s))
<1> DEFINE t == Tail(s)
<1>1. /\ DOMAIN s = 1 .. Len(s) /\ Len(s) \in Nat /\ Len(s) >= 1
      /\ DOMAIN t = 1 .. Len(s) - 1
      /\ \A x \in 1 .. Len(s) - 1 : t[x] = s[x + 1]
      /\ Head(s) = s[1]
    OBVIOUS
<1> HIDE DEF t
<1>2. ASSUME NEW f
      PROVE  f \in FramesIn(t) <=> f \in FramesIn(s) \ FramesOf(Head(s))
    <2>1. ASSUME f \in FramesIn(t)
          PROVE  f \in FramesIn(s) /\ f \notin FramesOf(s[1])
        <3>1. PICK x \in 1 .. Len(s) - 1 : f \in FramesOf(t[x])
            BY <1>1, <2>1, InFrames
        <3>2. x + 1 \in DOMAIN s /\ 1 \in DOMAIN s /\ x + 1 # 1
            BY <1>1
        <3>3. f \in FramesOf(s[x + 1])
            BY <1>1, <3>1
        <3> QED
            BY <3>2, <3>3, InFrames, Zenon
    <2>2. ASSUME f \in FramesIn(s), f \notin FramesOf(s[1])
          PROVE  f \in FramesIn(t)
        <3>1. PICK y \in 1 .. Len(s) : f \in FramesOf(s[y])
            BY <1>1, <2>2, InFrames
        <3>2. y # 1
            BY <2>2, <3>1
        <3>3. y - 1 \in 1 .. Len(s) - 1 /\ t[y - 1] = s[y]
            BY <1>1, <3>2
        <3> QED
            BY <1>1, <3>1, <3>3, InFrames
    <2> QED
        BY <1>1, <2>1, <2>2
<1> QED
    BY <1>2 DEF t

----------------------------------------------------------------------------
(* What each step does.                                                    *)

(* A step that leaves blocks, page allocator and the counts of a buffer    *)
(* alone (or only moves its caller on) keeps the invariant if the buffer   *)
(* still adds up.                                                          *)
LEMMA SameBlocks ==
    ASSUME HeapInv, UNCHANGED <<taken, blocks>>, HeapTypeOK',
           \A b \in Buffers : AddsUp(b)'
    PROVE  HeapInv'
<1>1. BlocksSound'
    BY DEF HeapInv, BlocksSound, Sound, FramesOf, Size
<1>2. TakenExact'
    BY DEF HeapInv, TakenExact, FramesIn, FramesOf, Size
<1>3. Apart'
    BY DEF HeapInv, Apart, FramesOf, Size
<1> QED
    BY <1>1, <1>2, <1>3 DEF HeapInv

(* A step of the views changes nothing the invariant is about.             *)
LEMMA ViewStep ==
    ASSUME HeapInv, UNCHANGED <<taken, blocks, pc, loopVars>>
    PROVE  HeapInv'
<1>1. HeapTypeOK'
    BY DEF HeapInv, HeapTypeOK, loopVars
<1>2. \A b \in Buffers : AddsUp(b)'
    BY DEF HeapInv, AddsUp, loopVars
<1> QED
    BY <1>1, <1>2, SameBlocks

(* A buffer whose caller is on the way out has to have no length; only one *)
(* that is not allocated has to be empty.                                  *)
LEMMA MovedOn ==
    ASSUME HeapInv, NEW b \in Buffers,
           pc' = [pc EXCEPT ![b] = "free_buffer"]
           \/ pc' = [pc EXCEPT ![b] = "free_pages"]
           \/ pc' = [pc EXCEPT ![b] = "release"],
           UNCHANGED <<taken, blocks, len, remaining, i>>
    PROVE  HeapInv'
<1>1. HeapTypeOK'
    BY DEF HeapInv, HeapTypeOK
<1>2. ASSUME NEW c \in Buffers PROVE AddsUp(c)'
    <2>1. AddsUp(c) /\ pc \in [Buffers -> {"none", "loop", "export", "ready", "free_pages",
                                           "free_buffer", "release"}]
        BY DEF HeapInv, HeapTypeOK
    <2>2. CASE c = b
        <3>1. pc'[c] \in {"free_buffer", "free_pages", "release"}
            BY <2>1, <2>2
        <3> QED
            BY <3>1 DEF AddsUp
    <2>3. CASE c # b
        <3>1. pc'[c] = pc[c]
            BY <2>1, <2>3
        <3> QED
            BY <2>1, <3>1 DEF AddsUp
    <2> QED
        BY <2>2, <2>3
<1> QED
    BY <1>1, <1>2, SameBlocks

(* The start of an allocation: the buffer has no blocks, all of its length *)
(* remains.                                                                *)
LEMMA AllocateStep ==
    ASSUME HeapInv, NEW b \in Buffers, NEW n \in Lengths, Allocate(b, n)
    PROVE  HeapInv'
<1>1. n \in Nat /\ NumOrders \in Nat /\ 1 \in 1 .. NumOrders
    BY HeapAssumption
<1>2. HeapTypeOK'
    BY <1>1 DEF HeapInv, HeapTypeOK, Allocate, Goto
<1>3. ASSUME NEW c \in Buffers PROVE AddsUp(c)'
    <2>1. AddsUp(c) /\ HeapTypeOK
        BY DEF HeapInv
    <2>2. CASE c = b
        <3>1. blocks'[c] = <<>> /\ len'[c] = n /\ remaining'[c] = n /\ pc'[c] = "loop"
            BY <2>1, <2>2 DEF AddsUp, Allocate, Goto, HeapTypeOK
        <3>2. FramesIn(<<>>) = {}
            BY DEF FramesIn
        <3>3. Cardinality(FramesIn(blocks'[c])) = 0
            BY <3>1, <3>2, FS_EmptySet
        <3> QED
            BY <1>1, <3>1, <3>3 DEF AddsUp, FramesIn, FramesOf, Size
    <2>3. CASE c # b
        <3>1. /\ blocks'[c] = blocks[c] /\ len'[c] = len[c]
              /\ remaining'[c] = remaining[c] /\ pc'[c] = pc[c]
            BY <2>1, <2>3 DEF Allocate, Goto, HeapTypeOK
        <3> QED
            BY <2>1, <3>1 DEF AddsUp, FramesIn, FramesOf, Size
    <2> QED
        BY <2>2, <2>3
<1>4. UNCHANGED <<taken, blocks>>
    BY DEF Allocate
<1> QED
    BY <1>2, <1>3, <1>4, SameBlocks

(* An order that is passed over changes the index, or ends the allocation. *)
LEMMA SkipStep ==
    ASSUME HeapInv, NEW b \in Buffers, SkipOrder(b)
    PROVE  HeapInv'
<1>1. CASE i[b] < NumOrders
    <2>1. i' = [i EXCEPT ![b] = @ + 1] /\ UNCHANGED <<taken, blocks, pc, len, remaining>>
        BY <1>1 DEF SkipOrder, Passed
    <2>2. i[b] \in 1 .. NumOrders /\ NumOrders \in Nat
        BY HeapAssumption DEF HeapInv, HeapTypeOK
    <2>3. i[b] + 1 \in 1 .. NumOrders
        BY <1>1, <2>2
    <2>4. HeapTypeOK'
        BY <2>1, <2>3 DEF HeapInv, HeapTypeOK
    <2>5. \A c \in Buffers : AddsUp(c)'
        BY <2>1 DEF HeapInv, AddsUp, FramesIn, FramesOf, Size
    <2> QED
        BY <2>1, <2>4, <2>5, SameBlocks
<1>2. CASE ~(i[b] < NumOrders)
    BY <1>2, MovedOn DEF SkipOrder, Passed, Goto
<1> QED
    BY <1>1, <1>2

(* sg_alloc_table and dma_buf_export: the length is complete, or the       *)
(* blocks go back.                                                         *)
LEMMA TableStep ==
    ASSUME HeapInv, NEW b \in Buffers, Table(b) \/ Export(b)
    PROVE  HeapInv'
<1>1. CASE (Table(b) /\ Goto(b, "export")) \/ (Export(b) /\ Goto(b, "ready"))
    <2>1. UNCHANGED <<taken, blocks, len, remaining, i>>
        BY <1>1 DEF Table, Export, loopVars
    <2>2. HeapTypeOK'
        BY <1>1, <2>1 DEF HeapInv, HeapTypeOK, Goto
    <2>3. ASSUME NEW c \in Buffers PROVE AddsUp(c)'
        <3>1. AddsUp(c) /\ HeapTypeOK
            BY DEF HeapInv
        <3>2. CASE c = b
            <4>1. /\ pc[c] \in {"loop", "export"} /\ pc'[c] \in {"export", "ready"}
                  /\ pc[c] = "loop" => remaining[c] = 0
                BY <1>1, <3>1, <3>2 DEF Table, Export, Goto, HeapTypeOK
            <4> QED
                BY <2>1, <3>1, <4>1 DEF AddsUp, FramesIn, FramesOf, Size
        <3>3. CASE c # b
            <4>1. pc'[c] = pc[c]
                BY <1>1, <3>1, <3>3 DEF Goto, HeapTypeOK
            <4> QED
                BY <2>1, <3>1, <4>1 DEF AddsUp, FramesIn, FramesOf, Size
        <3> QED
            BY <3>2, <3>3
    <2> QED
        BY <2>1, <2>2, <2>3, SameBlocks
<1>2. CASE (Table(b) /\ Goto(b, "free_buffer")) \/ (Export(b) /\ Goto(b, "free_pages"))
    BY <1>2, MovedOn DEF Table, Export, Goto, loopVars
<1>3. Table(b) => Goto(b, "export") \/ Goto(b, "free_buffer")
    BY DEF Table
<1>4. Export(b) => Goto(b, "ready") \/ Goto(b, "free_pages")
    BY DEF Export
<1> QED
    BY <1>1, <1>2, <1>3, <1>4

(* kfree: the buffer is empty already.                                     *)
LEMMA FreeBufferStep ==
    ASSUME HeapInv, NEW b \in Buffers, FreeBuffer(b)
    PROVE  HeapInv'
<1>1. HeapTypeOK'
    BY DEF HeapInv, HeapTypeOK, FreeBuffer, Goto
<1>2. ASSUME NEW c \in Buffers PROVE AddsUp(c)'
    <2>1. AddsUp(c) /\ HeapTypeOK
        BY DEF HeapInv
    <2>2. CASE c = b
        <3>1. pc'[c] = "none" /\ blocks'[c] = <<>>
            BY <2>1, <2>2 DEF FreeBuffer, Goto, HeapTypeOK
        <3> QED
            BY <3>1 DEF AddsUp
    <2>3. CASE c # b
        <3>1. /\ blocks'[c] = blocks[c] /\ len'[c] = len[c]
              /\ remaining'[c] = remaining[c] /\ pc'[c] = pc[c]
            BY <2>1, <2>3 DEF FreeBuffer, Goto, HeapTypeOK
        <3> QED
            BY <2>1, <3>1 DEF AddsUp, FramesIn, FramesOf, Size
    <2> QED
        BY <2>2, <2>3
<1>3. UNCHANGED <<taken, blocks>>
    BY DEF FreeBuffer
<1> QED
    BY <1>1, <1>2, <1>3, SameBlocks

(* A block of alloc_pages that passes the check at 4 GB is sound, and its  *)
(* frames were free.                                                       *)
LEMMA TakenBlock ==
    ASSUME HeapTypeOK, NEW n \in 1 .. NumOrders, NEW block \in FreeBlocks(Orders[n]),
           ~Above4GB(block)
    PROVE  /\ block \in BlockType /\ block.order = Orders[n] /\ Sound(block)
           /\ FramesOf(block) \cap taken = {}
<1>1. Orders[n] \in Nat /\ Frames \in Nat /\ Limit \in Nat
    BY HeapAssumption
<1>2. /\ block \in [start : {k \in 0 .. Frames - 1 : k % Size(Orders[n]) = 0},
                    order : {Orders[n]}]
      /\ FramesOf(block) \subseteq (0 .. Frames - 1) \ taken
    BY DEF FreeBlocks
<1>3. /\ block.order = Orders[n] /\ block.start \in 0 .. Frames - 1
      /\ block.start % Size(Orders[n]) = 0
    BY <1>2
<1>4. block \in BlockType
    BY <1>1, <1>2 DEF BlockType
<1>5. block.start < Limit
    BY <1>1, <1>3 DEF Above4GB
<1> QED
    BY <1>2, <1>3, <1>4, <1>5 DEF Sound

(* The loop over the orders takes a block: the frames of the buffer grow   *)
(* by as much as what remains shrinks.                                     *)
LEMMA TakeStep ==
    ASSUME HeapInv, NEW b \in Buffers, TakeBlock(b)
    PROVE  HeapInv'
<1> DEFINE n == i[b]
           s == blocks[b]
           size == Size(Orders[n])
<1>1. HeapTypeOK /\ BlocksSound /\ TakenExact /\ Apart /\ AddsUp(b)
    BY DEF HeapInv
<1>2. PICK block \in FreeBlocks(Orders[n]) :
          /\ ~Above4GB(block)
          /\ taken' = taken \cup FramesOf(block)
          /\ blocks' = [blocks EXCEPT ![b] = Append(@, block)]
    BY DEF TakeBlock
<1>3. n \in 1 .. NumOrders /\ s \in Seq(BlockType)
    BY <1>1 DEF HeapTypeOK
<1>4. /\ block \in BlockType /\ block.order = Orders[n] /\ Sound(block)
      /\ FramesOf(block) \cap taken = {}
    BY <1>1, <1>2, <1>3, TakenBlock
<1>5. size \in Nat \ {0} /\ IsFiniteSet(FramesOf(block)) /\ Cardinality(FramesOf(block)) = size
    BY <1>3, <1>4, SizePositive, BlockCardinality
<1>6. /\ pc[b] = "loop" /\ remaining[b] >= size
      /\ remaining' = [remaining EXCEPT ![b] = @ - size]
      /\ i' = [i EXCEPT ![b] = 1] /\ UNCHANGED <<pc, len>>
    <2>1. remaining[b] \in Int
        BY <1>1 DEF HeapTypeOK
    <2> QED
        BY <1>5, <2>1 DEF TakeBlock, TooLarge
<1> HIDE DEF n, size
<1>7. /\ blocks'[b] = Append(s, block) /\ blocks' \in [Buffers -> Seq(BlockType)]
      /\ \A c \in Buffers : c # b => blocks'[c] = blocks[c]
    BY <1>1, <1>2, <1>3, <1>4 DEF HeapTypeOK
<1>8. /\ DOMAIN s = 1 .. Len(s) /\ DOMAIN blocks'[b] = 1 .. Len(s) + 1 /\ Len(s) \in Nat
      /\ \A x \in 1 .. Len(s) : blocks'[b][x] = s[x]
      /\ blocks'[b][Len(s) + 1] = block
    BY <1>3, <1>4, <1>7
<1>9. \A c \in Buffers : \A x \in DOMAIN blocks'[c] :
          \/ x \in DOMAIN blocks[c] /\ blocks'[c][x] = blocks[c][x]
          \/ c = b /\ x = Len(s) + 1 /\ blocks'[c][x] = block
    <2> TAKE c \in Buffers
    <2> TAKE x \in DOMAIN blocks'[c]
    <2>1. CASE c = b
        BY <1>8, <2>1
    <2>2. CASE c # b
        BY <1>7, <2>2
    <2> QED
        BY <2>1, <2>2
<1> HIDE DEF s
<1>10. FramesIn(blocks'[b]) = FramesIn(blocks[b]) \cup FramesOf(block)
    BY <1>3, <1>4, <1>7, AppendFrames DEF s
<1>11. \A c \in Buffers : c # b => FramesIn(blocks'[c]) = FramesIn(blocks[c])
    BY <1>7
<1>12. \A f : f \in taken <=> \E c \in Buffers : f \in FramesIn(blocks[c])
    BY <1>1 DEF TakenExact
<1>13. HeapTypeOK'
    <2>1. taken' \in SUBSET (0 .. Frames - 1)
        BY <1>1, <1>2, <1>4 DEF HeapTypeOK, Sound
    <2>2. remaining' \in [Buffers -> Int]
        BY <1>1, <1>5, <1>6 DEF HeapTypeOK
    <2>3. i' \in [Buffers -> 1 .. NumOrders]
        BY <1>1, <1>6, HeapAssumption DEF HeapTypeOK
    <2> QED
        BY <1>1, <1>6, <1>7, <2>1, <2>2, <2>3 DEF HeapTypeOK
<1>14. BlocksSound'
    <2>1. \A c \in Buffers : \A x \in DOMAIN blocks'[c] : Sound(blocks'[c][x])
        BY <1>1, <1>4, <1>9, Zenon DEF BlocksSound
    <2> QED
        BY <2>1 DEF BlocksSound, Sound, FramesOf, Size
<1>15. TakenExact'
    <2>1. ASSUME NEW f
          PROVE  f \in taken' <=> \E c \in Buffers : f \in FramesIn(blocks'[c])
        BY <1>2, <1>10, <1>11, <1>12
    <2>2. taken' = UNION {FramesIn(blocks'[c]) : c \in Buffers}
        BY <2>1
    <2> QED
        BY <2>2 DEF TakenExact, FramesIn, FramesOf, Size
<1>16. Apart'
    <2>1. ASSUME NEW c \in Buffers, NEW x \in DOMAIN blocks[c]
          PROVE  FramesOf(blocks[c][x]) \cap FramesOf(block) = {}
        <3>1. ASSUME NEW f \in FramesOf(blocks[c][x]) PROVE f \in taken
            BY <1>12, InFrames
        <3> QED
            BY <1>4, <3>1
    <2>2. ASSUME NEW c \in Buffers, NEW d \in Buffers,
                 NEW x \in DOMAIN blocks'[c], NEW y \in DOMAIN blocks'[d],
                 FramesOf(blocks'[c][x]) \cap FramesOf(blocks'[d][y]) # {}
          PROVE  c = d /\ x = y
        <3>1. CASE x \in DOMAIN blocks[c] /\ blocks'[c][x] = blocks[c][x]
                   /\ y \in DOMAIN blocks[d] /\ blocks'[d][y] = blocks[d][y]
            BY <1>1, <2>2, <3>1 DEF Apart
        <3>2. CASE x \in DOMAIN blocks[c] /\ blocks'[c][x] = blocks[c][x]
                   /\ blocks'[d][y] = block
            BY <2>1, <2>2, <3>2
        <3>3. CASE blocks'[c][x] = block
                   /\ y \in DOMAIN blocks[d] /\ blocks'[d][y] = blocks[d][y]
            BY <2>1, <2>2, <3>3
        <3>4. CASE c = b /\ x = Len(s) + 1 /\ d = b /\ y = Len(s) + 1
            BY <3>4
        <3> QED
            BY <1>9, <3>1, <3>2, <3>3, <3>4
    <2> QED
        BY <2>2 DEF Apart, FramesOf, Size
<1>17. ASSUME NEW c \in Buffers PROVE AddsUp(c)'
    <2>1. AddsUp(c) /\ remaining[c] \in Int /\ len[c] \in Int
        BY <1>1 DEF HeapInv, HeapTypeOK
    <2>2. CASE c = b
        <3>1. FramesIn(blocks[b]) \subseteq 0 .. Frames - 1
            BY <1>1, <1>12 DEF HeapTypeOK
        <3>2. Frames - 1 \in Int
            BY HeapAssumption
        <3>3. IsFiniteSet(FramesIn(blocks[b])) /\ Cardinality(FramesIn(blocks[b])) \in Nat
            <4>1. IsFiniteSet(0 .. Frames - 1)
                BY <3>2, FS_Interval
            <4>2. IsFiniteSet(FramesIn(blocks[b]))
                BY <3>1, <4>1, FS_Subset
            <4> QED
                BY <4>2, FS_CardinalityType
        <3>4. FramesIn(blocks[b]) \cap FramesOf(block) = {}
            BY <1>4, <1>12
        <3>5. Cardinality(FramesIn(blocks'[b])) = Cardinality(FramesIn(blocks[b])) + size
            <4> DEFINE old == FramesIn(blocks[b])
                       new == FramesOf(block)
            <4>1. /\ IsFiniteSet(old) /\ IsFiniteSet(new) /\ old \cap new = {}
                  /\ Cardinality(old) \in Nat /\ Cardinality(new) = size
                BY <1>5, <3>3, <3>4
            <4> HIDE DEF old, new
            <4>2. Cardinality(old \cup new)
                      = Cardinality(old) + Cardinality(new) - Cardinality(old \cap new)
                BY <4>1, FS_Union
            <4>3. Cardinality(old \cap new) = 0
                BY <4>1, FS_EmptySet
            <4>4. Cardinality(old \cup new) = Cardinality(old) + size
                BY <1>5, <4>1, <4>2, <4>3
            <4> QED
                BY <1>10, <4>4 DEF old, new
        <3>6. remaining'[b] = remaining[b] - size /\ pc'[b] = "loop" /\ len'[b] = len[b]
            BY <1>1, <1>6 DEF HeapTypeOK
        <3>7. Cardinality(FramesIn(blocks[b])) + remaining[b] = len[b]
            BY <1>1, <1>6 DEF AddsUp
        <3>8. Cardinality(FramesIn(blocks'[b])) + remaining'[b] = len'[b] /\ remaining'[b] >= 0
            BY <1>5, <1>6, <2>1, <2>2, <3>3, <3>5, <3>6, <3>7
        <3> QED
            BY <2>2, <3>6, <3>8 DEF AddsUp, FramesIn, FramesOf, Size
    <2>3. CASE c # b
        <3>1. remaining'[c] = remaining[c] /\ pc'[c] = pc[c] /\ len'[c] = len[c]
              /\ blocks'[c] = blocks[c]
            BY <1>1, <1>6, <1>7, <2>3 DEF HeapTypeOK
        <3> QED
            BY <2>1, <3>1 DEF AddsUp, FramesIn, FramesOf, Size
    <2> QED
        BY <2>2, <2>3
<1> QED
    BY <1>13, <1>14, <1>15, <1>16, <1>17 DEF HeapInv

(* A block goes back: its frames were in no other block.                   *)
LEMMA FreePageStep ==
    ASSUME HeapInv, NEW b \in Buffers, FreePage(b)
    PROVE  HeapInv'
<1> DEFINE s == blocks[b]
<1>1. HeapTypeOK /\ BlocksSound /\ TakenExact /\ Apart
    BY DEF HeapInv
<1>2. /\ pc[b] \in {"free_pages", "free_buffer", "release"} /\ s # <<>>
      /\ taken' = taken \ FramesOf(Head(s))
      /\ blocks' = [blocks EXCEPT ![b] = Tail(@)]
      /\ UNCHANGED <<pc, len, remaining, i>>
    BY DEF FreePage, loopVars
<1>3. s \in Seq(BlockType)
    BY <1>1 DEF HeapTypeOK
<1>4. /\ DOMAIN s = 1 .. Len(s) /\ Len(s) \in Nat /\ Len(s) >= 1 /\ Head(s) = s[1]
      /\ Tail(s) \in Seq(BlockType) /\ DOMAIN Tail(s) = 1 .. Len(s) - 1
      /\ \A x \in 1 .. Len(s) - 1 : Tail(s)[x] = s[x + 1]
    BY <1>2, <1>3
<1>5. /\ blocks'[b] = Tail(s) /\ blocks' \in [Buffers -> Seq(BlockType)]
      /\ \A c \in Buffers : c # b => blocks'[c] = blocks[c]
    BY <1>1, <1>2, <1>4 DEF HeapTypeOK
<1>6. FramesIn(Tail(s)) = FramesIn(s) \ FramesOf(Head(s))
    <2>1. \A x, y \in DOMAIN s : FramesOf(s[x]) \cap FramesOf(s[y]) # {} => x = y
        BY <1>1 DEF Apart
    <2> QED
        BY <1>2, <1>3, <2>1, TailFrames
(* Every block left was a block before, at the same or the next place.     *)
<1>7. \A c \in Buffers : \A x \in DOMAIN blocks'[c] :
          \/ c # b /\ x \in DOMAIN blocks[c] /\ blocks'[c][x] = blocks[c][x]
          \/ c = b /\ x \in Int /\ x + 1 \in DOMAIN blocks[c] /\ blocks'[c][x] = blocks[c][x + 1]
    <2> TAKE c \in Buffers
    <2> TAKE x \in DOMAIN blocks'[c]
    <2>1. CASE c = b
        <3>1. x \in 1 .. Len(s) - 1
            BY <1>4, <1>5, <2>1
        <3> QED
            BY <1>4, <1>5, <2>1, <3>1
    <2>2. CASE c # b
        BY <1>5, <2>2
    <2> QED
        BY <2>1, <2>2
<1> HIDE DEF s
<1>8. \A f : f \in taken <=> \E c \in Buffers : f \in FramesIn(blocks[c])
    BY <1>1 DEF TakenExact
<1>9. HeapTypeOK'
    BY <1>1, <1>2, <1>5 DEF HeapTypeOK
<1>10. BlocksSound'
    <2>1. \A c \in Buffers : \A x \in DOMAIN blocks'[c] : Sound(blocks'[c][x])
        BY <1>1, <1>7, Zenon DEF BlocksSound
    <2> QED
        BY <2>1 DEF BlocksSound, Sound, FramesOf, Size
<1>11. Apart'
    <2>1. ASSUME NEW c \in Buffers, NEW d \in Buffers,
                 NEW x \in DOMAIN blocks'[c], NEW y \in DOMAIN blocks'[d],
                 FramesOf(blocks'[c][x]) \cap FramesOf(blocks'[d][y]) # {}
          PROVE  c = d /\ x = y
        <3>1. PICK u \in DOMAIN blocks[c] : blocks'[c][x] = blocks[c][u]
                  /\ u = IF c = b THEN x + 1 ELSE x
            BY <1>7
        <3>2. PICK v \in DOMAIN blocks[d] : blocks'[d][y] = blocks[d][v]
                  /\ v = IF d = b THEN y + 1 ELSE y
            BY <1>7
        <3>3. c = d /\ u = v
            <4>1. FramesOf(blocks[c][u]) \cap FramesOf(blocks[d][v]) # {}
                BY <2>1, <3>1, <3>2
            <4> QED
                BY <1>1, <4>1 DEF Apart
        <3>4. CASE c = b
            <4>1. x \in Int /\ y \in Int /\ x + 1 = y + 1
                BY <1>7, <3>1, <3>2, <3>3, <3>4
            <4> QED
                BY <3>3, <4>1
        <3>5. CASE c # b
            BY <3>1, <3>2, <3>3, <3>5
        <3> QED
            BY <3>4, <3>5
    <2> QED
        BY <2>1 DEF Apart, FramesOf, Size
<1>12. TakenExact'
    <2>1. FramesIn(blocks'[b]) = FramesIn(blocks[b]) \ FramesOf(blocks[b][1])
        BY <1>4, <1>5, <1>6 DEF s
    <2>2. ASSUME NEW c \in Buffers, c # b
          PROVE  FramesIn(blocks'[c]) = FramesIn(blocks[c]) \ FramesOf(blocks[b][1])
        <3>1. ASSUME NEW f \in FramesIn(blocks[c]), f \in FramesOf(blocks[b][1])
              PROVE  FALSE
            <4>1. PICK x \in DOMAIN blocks[c] : f \in FramesOf(blocks[c][x])
                BY InFrames
            <4>2. 1 \in DOMAIN blocks[b]
                BY <1>4 DEF s
            <4>3. FramesOf(blocks[c][x]) \cap FramesOf(blocks[b][1]) # {}
                BY <3>1, <4>1
            <4> QED
                BY <1>1, <2>2, <4>2, <4>3 DEF Apart
        <3>2. blocks'[c] = blocks[c]
            BY <1>5, <2>2
        <3> QED
            BY <3>1, <3>2
    <2>3. taken' = taken \ FramesOf(blocks[b][1])
        BY <1>2, <1>4 DEF s
    <2>4. ASSUME NEW f
          PROVE  f \in taken' <=> \E c \in Buffers : f \in FramesIn(blocks'[c])
        BY <1>8, <2>1, <2>2, <2>3
    <2>5. taken' = UNION {FramesIn(blocks'[c]) : c \in Buffers}
        BY <2>4
    <2> QED
        BY <2>5 DEF TakenExact, FramesIn, FramesOf, Size
<1>13. ASSUME NEW c \in Buffers PROVE AddsUp(c)'
    <2>1. AddsUp(c)
        BY DEF HeapInv
    <2>2. CASE c = b
        BY <1>2, <2>2 DEF AddsUp
    <2>3. CASE c # b
        <3>1. blocks'[c] = blocks[c]
            BY <1>5, <2>3
        <3> QED
            BY <1>2, <2>1, <3>1 DEF AddsUp, FramesIn, FramesOf, Size
    <2> QED
        BY <2>2, <2>3
<1> QED
    BY <1>9, <1>10, <1>11, <1>12, <1>13 DEF HeapInv

----------------------------------------------------------------------------
(* The invariant holds in every reachable state, and what it says.         *)

(* Every step of an allocation, of a release and of a view keeps the       *)
(* frames exact.                                                           *)
LEMMA HeapStep == HeapInv /\ [Next]_vars => HeapInv'
<1> SUFFICES ASSUME HeapInv, [Next]_vars
             PROVE  HeapInv'
    OBVIOUS
<1>1. ASSUME NEW b \in Buffers, Step(b) PROVE HeapInv'
    <2>1. CASE Interrupted(b)
        BY <2>1, MovedOn DEF Interrupted, Goto, loopVars
    <2>2. CASE SkipOrder(b)
        BY <2>2, SkipStep
    <2>3. CASE TakeBlock(b)
        BY <2>3, TakeStep
    <2>4. CASE Table(b) \/ Export(b)
        BY <2>4, TableStep
    <2>5. CASE FreePage(b)
        BY <2>5, FreePageStep
    <2>6. CASE FreeBuffer(b)
        BY <2>6, FreeBufferStep
    <2> QED
        BY <1>1, <2>1, <2>2, <2>3, <2>4, <2>5, <2>6 DEF Step
<1>2. ASSUME NEW b \in Buffers, NEW n \in Lengths, Allocate(b, n) PROVE HeapInv'
    BY <1>2, AllocateStep
<1>3. ASSUME NEW b \in Buffers, Attach(b) \/ Detach(b) \/ MapDmaBuf(b) \/ UnmapDmaBuf(b)
      PROVE  HeapInv'
    <2>1. UNCHANGED <<taken, blocks, pc, loopVars>>
        BY <1>3 DEF Attach, Detach, MapDmaBuf, UnmapDmaBuf
    <2> QED
        BY <2>1, ViewStep
<1>4. ASSUME NEW b \in Buffers, NEW offset \in 0 .. 1, NEW n \in Lengths, Mmap(b, offset, n)
      PROVE  HeapInv'
    <2>1. UNCHANGED <<taken, blocks, pc, loopVars>>
        BY <1>4 DEF Mmap
    <2> QED
        BY <2>1, ViewStep
<1>5. ASSUME NEW b \in Buffers, Munmap(b) \/ Vmap(b) \/ Vunmap(b) PROVE HeapInv'
    <2>1. UNCHANGED <<taken, blocks, pc, loopVars>>
        BY <1>5 DEF Munmap, Vmap, Vunmap
    <2> QED
        BY <2>1, ViewStep
<1>6. ASSUME NEW b \in Buffers, Release(b) PROVE HeapInv'
    BY <1>6, MovedOn DEF Release, Goto, loopVars
<1>7. ASSUME UNCHANGED vars PROVE HeapInv'
    <2>1. UNCHANGED <<taken, blocks, pc, loopVars>>
        BY <1>7 DEF vars
    <2> QED
        BY <2>1, ViewStep
<1> QED
    BY <1>1, <1>2, <1>3, <1>4, <1>5, <1>6, <1>7 DEF Next

(* The heap starts with no frame taken and no buffer.                      *)
LEMMA HeapInit == Init => HeapInv
<1> SUFFICES ASSUME Init PROVE HeapInv
    OBVIOUS
<1>1. \A b \in Buffers : blocks[b] = <<>> /\ pc[b] = "none"
    BY DEF Init
<1>2. HeapTypeOK
    BY HeapAssumption DEF Init, HeapTypeOK
<1>3. \A b \in Buffers : DOMAIN blocks[b] = {} /\ FramesIn(blocks[b]) = {}
    BY <1>1 DEF FramesIn
<1>4. BlocksSound /\ Apart
    BY <1>3 DEF BlocksSound, Apart
<1>5. TakenExact
    BY <1>3 DEF TakenExact, Init
<1>6. \A b \in Buffers : AddsUp(b)
    BY <1>1 DEF AddsUp
<1> QED
    BY <1>2, <1>4, <1>5, <1>6 DEF HeapInv

(* The invariant is one of the specification.                              *)
THEOREM HeapInvariance == Spec => []HeapInv
BY HeapInit, HeapStep, PTL DEF Spec

(* Whatever interleaves and whatever fails, the frames handed out are      *)
(* exactly those of the buffers, each in one place, and a buffer has the   *)
(* length that was asked for (alloc_largest_available_dma32 and the labels *)
(* free_pages and free_buffer of dma32_heap_allocate).                     *)
THEOREM HeapPagesExact == Spec => []PagesExact
<1>1. HeapInv => PagesExact
    BY DEF HeapInv, PagesExact, TakenExact, Apart, AddsUp
<1> QED
    BY <1>1, HeapInvariance, PTL

(* No page of a buffer is at or above 4 GB, although only the first page   *)
(* of a block is compared with the limit: the blocks are aligned and 4 GB  *)
(* is a multiple of each size.                                             *)
THEOREM HeapBelow4GB == Spec => []Below4GB
<1>1. HeapInv => Below4GB
    <2> SUFFICES ASSUME HeapInv, NEW b \in Buffers, NEW f \in FramesIn(blocks[b])
                 PROVE  f < Limit
        BY DEF Below4GB
    <2>1. PICK x \in DOMAIN blocks[b] : f \in FramesOf(blocks[b][x])
        BY InFrames
    <2>2. blocks[b] \in Seq(BlockType) /\ Sound(blocks[b][x])
        BY DEF HeapInv, HeapTypeOK, BlocksSound
    <2>3. blocks[b][x] \in BlockType
        BY <2>1, <2>2
    <2> QED
        BY <2>1, <2>2, <2>3, FirstPageDecides
<1> QED
    BY <1>1, HeapInvariance, PTL

----------------------------------------------------------------------------
(* Induction over the blocks of a buffer.                                  *)

(* A set of natural numbers has a least element: their initial segments    *)
(* are well-founded by inclusion.                                          *)
LEMMA LeastNumber ==
    ASSUME NEW T \in SUBSET Nat, T # {}
    PROVE  \E n \in T : \A m \in T : n <= m
<1> DEFINE R == StrictSubsetOrdering(Nat)
           F == {0 .. n : n \in T}
<1>1. IsWellFoundedOn(R, FiniteSubsetsOf(Nat))
    BY FS_StrictSubsetOrderingWellFounded
<1>2. F \subseteq FiniteSubsetsOf(Nat)
    <2>1. ASSUME NEW n \in T PROVE 0 .. n \in SUBSET Nat /\ IsFiniteSet(0 .. n)
        BY FS_Interval
    <2> QED
        BY <2>1 DEF FiniteSubsetsOf
<1>3. F # {}
    OBVIOUS
<1> HIDE DEF R
<1>4. PICK S \in F : \A M \in F : ~ (<<M, S>> \in R)
    <2> HIDE DEF F
    <2> QED
        BY <1>1, <1>2, <1>3, WFMin
<1>5. PICK n \in T : S = 0 .. n
    BY <1>4
<1>6. ASSUME NEW m \in T, m < n
      PROVE  FALSE
    <2>1. 0 .. m \in SUBSET Nat /\ 0 .. n \in SUBSET Nat
        OBVIOUS
    <2>2. 0 .. m \subseteq 0 .. n /\ n \in 0 .. n /\ n \notin 0 .. m
        BY <1>6
    <2>3. <<0 .. m, 0 .. n>> \in R
        BY <2>1, <2>2 DEF R, StrictSubsetOrdering
    <2> QED
        BY <1>4, <1>5, <2>3
<1>7. \A m \in T : n <= m
    BY <1>6
<1> QED
    BY <1>7

(* Two functions that begin alike and go on alike end alike.               *)
LEMMA SameWalk ==
    ASSUME NEW u, NEW w, NEW n \in Nat, u[0] = w[0],
           \A k \in 1 .. n : u[k - 1] = w[k - 1] => u[k] = w[k]
    PROVE  u[n] = w[n]
<1> DEFINE T == {k \in 0 .. n : u[k] # w[k]}
<1>1. T \in SUBSET Nat
    OBVIOUS
<1>2. SUFFICES ASSUME T # {} PROVE FALSE
    OBVIOUS
<1>3. PICK k \in T : \A m \in T : k <= m
    BY <1>1, <1>2, LeastNumber
<1>4. k \in 1 .. n /\ k - 1 \in 0 .. n /\ ~(k <= k - 1)
    OBVIOUS
<1>5. k - 1 \notin T
    BY <1>3, <1>4
<1> QED
    BY <1>3, <1>4, <1>5

----------------------------------------------------------------------------
(* Where the pages of a list of blocks lie.                                *)

(* A list of blocks as a buffer has them: each one sound, no two of them   *)
(* sharing a frame.                                                        *)
Lined(s) ==
    /\ s \in Seq(BlockType)
    /\ \A x \in DOMAIN s : Sound(s[x])
    /\ \A x, y \in DOMAIN s : FramesOf(s[x]) \cap FramesOf(s[y]) # {} => x = y

(* The frames of the first k blocks.                                       *)
LEMMA FirstFrames ==
    ASSUME NEW s \in Seq(BlockType), NEW k \in 0 .. Len(s), NEW f
    PROVE  f \in FramesIn(SubSeq(s, 1, k)) <=> \E x \in 1 .. k : f \in FramesOf(s[x])
<1> DEFINE t == SubSeq(s, 1, k)
<1>1. DOMAIN t = 1 .. k /\ \A x \in 1 .. k : t[x] = s[x]
    OBVIOUS
<1> HIDE DEF t
<1>2. f \in FramesIn(t) <=> \E x \in 1 .. k : f \in FramesOf(t[x])
    BY <1>1, InFrames
<1>3. (\E x \in 1 .. k : f \in FramesOf(t[x])) <=> \E x \in 1 .. k : f \in FramesOf(s[x])
    BY <1>1
<1> QED
    BY <1>2, <1>3 DEF t

(* Any number of blocks is a finite number of frames, and one block more   *)
(* is its size more.                                                       *)
LEMMA SizeOfFirstIsNat ==
    ASSUME NEW s, Lined(s), NEW k \in 0 .. Len(s)
    PROVE  IsFiniteSet(FramesIn(SubSeq(s, 1, k))) /\ SizeOfFirst(s, k) \in Nat
<1>1. FramesIn(SubSeq(s, 1, k)) \subseteq 0 .. Frames - 1
    <2>1. \A x \in 1 .. k : FramesOf(s[x]) \subseteq 0 .. Frames - 1
        BY DEF Lined, Sound
    <2> QED
        BY <2>1, FirstFrames DEF Lined
<1>2. IsFiniteSet(0 .. Frames - 1)
    BY FS_Interval, HeapAssumption
<1>3. IsFiniteSet(FramesIn(SubSeq(s, 1, k)))
    BY <1>1, <1>2, FS_Subset
<1> QED
    BY <1>3, FS_CardinalityType DEF SizeOfFirst

(* The blocks before and the next one have no frame in common.             *)
LEMMA SizeOfFirstGrows ==
    ASSUME NEW s, Lined(s), NEW k \in 1 .. Len(s)
    PROVE  SizeOfFirst(s, k) = SizeOfFirst(s, k - 1) + Size(s[k].order)
<1> DEFINE old == FramesIn(SubSeq(s, 1, k - 1))
           new == FramesOf(s[k])
<1>1. s \in Seq(BlockType) /\ k \in 0 .. Len(s) /\ k - 1 \in 0 .. Len(s)
      /\ DOMAIN s = 1 .. Len(s)
    BY DEF Lined
<1>2. s[k] \in BlockType /\ Sound(s[k])
    BY <1>1 DEF Lined
<1>3. IsFiniteSet(new) /\ Cardinality(new) = Size(s[k].order)
    BY <1>2, BlockCardinality DEF Sound
<1>4. IsFiniteSet(old) /\ Cardinality(old) = SizeOfFirst(s, k - 1)
    BY <1>1, SizeOfFirstIsNat DEF SizeOfFirst
<1>5. FramesIn(SubSeq(s, 1, k)) = old \cup new
    <2>1. ASSUME NEW f
          PROVE  f \in FramesIn(SubSeq(s, 1, k)) <=> f \in old \/ f \in new
        <3>1. f \in FramesIn(SubSeq(s, 1, k)) <=> \E x \in 1 .. k : f \in FramesOf(s[x])
            BY <1>1, FirstFrames
        <3>2. f \in old <=> \E x \in 1 .. k - 1 : f \in FramesOf(s[x])
            BY <1>1, FirstFrames
        <3>3. \A x : x \in 1 .. k <=> x \in 1 .. k - 1 \/ x = k
            OBVIOUS
        <3> HIDE DEF old
        <3> QED
            BY <3>1, <3>2, <3>3
    <2> QED
        BY <2>1
<1>6. old \cap new = {}
    <2>1. ASSUME NEW f \in old, f \in new PROVE FALSE
        <3>1. PICK x \in 1 .. k - 1 : f \in FramesOf(s[x])
            BY <1>1, FirstFrames
        <3>2. x \in DOMAIN s /\ k \in DOMAIN s /\ x # k
            BY <1>1
        <3>3. FramesOf(s[x]) \cap FramesOf(s[k]) # {}
            BY <2>1, <3>1
        <3> QED
            BY <3>2, <3>3 DEF Lined
    <2> QED
        BY <2>1
<1> HIDE DEF old, new
<1>7. Cardinality(old \cup new)
          = Cardinality(old) + Cardinality(new) - Cardinality(old \cap new)
    BY <1>3, <1>4, FS_Union
<1>8. Cardinality(old \cap new) = 0
    BY <1>6, FS_EmptySet
<1>9. SizeOfFirst(s, k) = Cardinality(old \cup new)
    BY <1>5 DEF SizeOfFirst
<1>10. Cardinality(old) \in Nat /\ Cardinality(new) \in Nat
    BY <1>3, <1>4, FS_CardinalityType
<1> QED
    BY <1>3, <1>4, <1>7, <1>8, <1>9, <1>10

(* No block is no frame.                                                   *)
LEMMA SizeOfNone ==
    ASSUME NEW s, Lined(s)
    PROVE  SizeOfFirst(s, 0) = 0
<1>1. s \in Seq(BlockType) /\ 0 \in 0 .. Len(s)
    BY DEF Lined
<1>2. FramesIn(SubSeq(s, 1, 0)) = {}
    BY <1>1, FirstFrames
<1> QED
    BY <1>2, FS_EmptySet DEF SizeOfFirst

(* More blocks are at least as many frames.                                *)
LEMMA SizeOfFirstMonotone ==
    ASSUME NEW s, Lined(s), NEW k \in 0 .. Len(s), NEW m \in 0 .. Len(s), k <= m
    PROVE  SizeOfFirst(s, k) <= SizeOfFirst(s, m)
<1>1. FramesIn(SubSeq(s, 1, k)) \subseteq FramesIn(SubSeq(s, 1, m))
    <2>1. 1 .. k \subseteq 1 .. m /\ s \in Seq(BlockType)
        BY DEF Lined
    <2> QED
        BY <2>1, FirstFrames
<1>2. IsFiniteSet(FramesIn(SubSeq(s, 1, m)))
    BY SizeOfFirstIsNat
<1> QED
    BY <1>1, <1>2, FS_Subset DEF SizeOfFirst

(* A frame that lies j pages into the blocks is in the block that page j   *)
(* belongs to.                                                             *)
LEMMA PagePlace ==
    ASSUME NEW s, Lined(s), NEW y \in 1 .. Len(s), NEW h \in FramesOf(s[y]),
           NEW j, j = SizeOfFirst(s, y - 1) + (h - s[y].start) + 1
    PROVE  /\ SizeOfFirst(s, y - 1) \in Int /\ SizeOfFirst(s, y) \in Int /\ j \in Int
           /\ SizeOfFirst(s, y - 1) < j /\ j <= SizeOfFirst(s, y)
           /\ s[y].start \in Int /\ h = s[y].start + (j - SizeOfFirst(s, y - 1)) - 1
<1>1. s[y] \in BlockType /\ Sound(s[y]) /\ y - 1 \in 0 .. Len(s) /\ y \in 0 .. Len(s)
    BY DEF Lined
<1> DEFINE size == Size(s[y].order)
           start == s[y].start
           a == SizeOfFirst(s, y - 1)
           b == SizeOfFirst(s, y)
<1>2. size \in Nat \ {0}
    BY <1>1, SizePositive DEF Sound
<1>3. start \in Int
    BY <1>1 DEF BlockType
<1>4. h \in start .. start + size - 1
    BY DEF FramesOf
<1>5. a \in Int /\ b \in Int /\ b = a + size
    BY <1>1, SizeOfFirstIsNat, SizeOfFirstGrows
<1>6. j = a + (h - start) + 1
    OBVIOUS
<1> HIDE DEF size, start, a, b
<1>7. h \in Int /\ start <= h /\ h < start + size
    BY <1>2, <1>3, <1>4
<1>8. j \in Int /\ a < j /\ j <= b /\ h = start + (j - a) - 1
    BY <1>2, <1>3, <1>5, <1>6, <1>7
<1>9. /\ a \in Int /\ b \in Int /\ j \in Int /\ a < j /\ j <= b
      /\ start \in Int /\ h = start + (j - a) - 1
    BY <1>3, <1>5, <1>8
<1> QED
    BY <1>9, Zenon DEF start, a, b

(* Page j of the blocks is the frame that lies j pages into them; no other *)
(* frame does.                                                             *)
LEMMA PageFound ==
    ASSUME NEW s, Lined(s), NEW k \in 1 .. Len(s), NEW f \in FramesOf(s[k]),
           NEW j, j = SizeOfFirst(s, k - 1) + (f - s[k].start) + 1
    PROVE  PageAt(s, j) = f
<1>1. s \in Seq(BlockType) /\ DOMAIN s = 1 .. Len(s) /\ Len(s) \in Nat
    BY DEF Lined
<1> DEFINE Lies(g, x) ==
               g \in FramesOf(s[x]) /\ SizeOfFirst(s, x - 1) + (g - s[x].start) + 1 = j
<1>2. f \in FramesIn(s) /\ Lies(f, k)
    BY <1>1, InFrames
<1>3. ASSUME NEW g, NEW x \in 1 .. Len(s), Lies(g, x)
      PROVE  x = k /\ g = f
    <2> DEFINE a == SizeOfFirst(s, x - 1)
               b == SizeOfFirst(s, x)
               c == SizeOfFirst(s, k - 1)
               d == SizeOfFirst(s, k)
    <2>1. /\ a \in Int /\ b \in Int /\ j \in Int /\ a < j /\ j <= b
          /\ g = s[x].start + (j - a) - 1
        BY <1>3, PagePlace
    <2>2. /\ c \in Int /\ d \in Int /\ c < j /\ j <= d
          /\ f = s[k].start + (j - c) - 1
        BY PagePlace
    <2>3. x < k => b <= c
        BY <1>1, SizeOfFirstMonotone
    <2>4. k < x => d <= a
        BY <1>1, SizeOfFirstMonotone
    <2>5. x = k => a = c
        OBVIOUS
    <2> HIDE DEF a, b, c, d
    <2>6. x \in Int /\ k \in Int
        OBVIOUS
    <2> HIDE DEF Lies
    <2>7. ~(x < k)
        BY <2>1, <2>2, <2>3
    <2>8. ~(k < x)
        BY <2>1, <2>2, <2>4
    <2>9. x = k
        BY <2>6, <2>7, <2>8
    <2> QED
        BY <2>1, <2>2, <2>5, <2>9, Zenon
<1> DEFINE Q(g) == g \in FramesIn(s) /\ \E x \in DOMAIN s : Lies(g, x)
<1>4. Q(f) /\ \A g : Q(g) => g = f
    BY <1>1, <1>2, <1>3
<1>5. PageAt(s, j) = CHOOSE g \in FramesIn(s) : \E x \in DOMAIN s : Lies(g, x)
    BY DEF PageAt
<1> HIDE DEF Lies
<1> QED
    BY <1>4, <1>5

(* The first n pages of a list of blocks.                                  *)
PagesUpTo(s, n) == [j \in 1 .. n |-> PageAt(s, j)]

(* A concatenation, place by place.                                        *)
LEMMA ConcatPlaces ==
    ASSUME NEW T, NEW u \in Seq(T), NEW w \in Seq(T)
    PROVE  u \o w = [j \in 1 .. Len(u) + Len(w) |->
                        IF j <= Len(u) THEN u[j] ELSE w[j - Len(u)]]
<1> DEFINE n == Len(u) + Len(w)
           v == u \o w
<1>1. v \in Seq(T) /\ Len(v) = n
    BY ConcatProperties
<1>2. \A j \in 1 .. n : v[j] = IF j <= Len(u) THEN u[j] ELSE w[j - Len(u)]
    BY ConcatProperties
<1> HIDE DEF v, n
<1>3. v = [j \in 1 .. n |-> v[j]]
    BY <1>1
<1> QED
    BY <1>2, <1>3 DEF v, n

(* One block's pages, or the first m of them, after those of the blocks    *)
(* before it.                                                              *)
LEMMA Joined ==
    ASSUME NEW s, Lined(s), NEW k \in 1 .. Len(s), NEW m \in 0 .. Size(s[k].order)
    PROVE  PagesUpTo(s, SizeOfFirst(s, k - 1)) \o SubSeq(Pages(s[k]), 1, m)
               = PagesUpTo(s, SizeOfFirst(s, k - 1) + m)
<1> DEFINE a == SizeOfFirst(s, k - 1)
           size == Size(s[k].order)
           start == s[k].start
           u == PagesUpTo(s, a)
           w == SubSeq(Pages(s[k]), 1, m)
           T == {PageAt(s, j) : j \in 1 .. a + m} \cup {start + j - 1 : j \in 1 .. m}
<1>1. s[k] \in BlockType /\ Sound(s[k]) /\ k - 1 \in 0 .. Len(s)
    BY DEF Lined
<1>2. size \in Nat \ {0}
    BY <1>1, SizePositive DEF Sound
<1>3. start \in Int
    BY <1>1 DEF BlockType
<1>4. a \in Nat
    BY <1>1, SizeOfFirstIsNat
<1>5. Pages(s[k]) = [j \in 1 .. size |-> start + j - 1]
    BY DEF Pages
<1>6. FramesOf(s[k]) = start .. start + size - 1
    BY DEF FramesOf
<1>7. ASSUME NEW j \in 1 .. size PROVE PageAt(s, a + j) = start + j - 1
    <2>1. start + j - 1 \in FramesOf(s[k])
        BY <1>2, <1>3, <1>6
    <2>2. a + j = a + ((start + j - 1) - start) + 1
        BY <1>3, <1>4
    <2> QED
        BY <2>1, <2>2, PageFound
<1>8. m \in Nat /\ m <= size
    BY <1>2 DEF size
<1>9. w = [j \in 1 .. m |-> start + j - 1]
    <2> HIDE DEF size, start
    <2>1. SubSeq([j \in 1 .. size |-> start + j - 1], 1, m) = [j \in 1 .. m |-> start + j - 1]
        BY <1>2, <1>3, <1>8
    <2> QED
        BY <1>5, <2>1
<1>10. u = [j \in 1 .. a |-> PageAt(s, j)]
    BY DEF PagesUpTo
<1> HIDE DEF a, size, start, u, w
<1>11. u \in Seq(T) /\ Len(u) = a
    BY <1>4, <1>8, <1>10
<1>12. w \in Seq(T) /\ Len(w) = m
    <2>1. \A j \in 1 .. m : start + j - 1 \in T
        OBVIOUS
    <2> HIDE DEF T
    <2>2. w \in [1 .. m -> T]
        BY <1>9, <2>1, Zenon
    <2> QED
        BY <1>8, <2>2
<1> HIDE DEF T
<1>13. u \o w = [j \in 1 .. a + m |-> IF j <= a THEN u[j] ELSE w[j - a]]
    <2>1. u \o w = [j \in 1 .. Len(u) + Len(w) |->
                        IF j <= Len(u) THEN u[j] ELSE w[j - Len(u)]]
        BY <1>11, <1>12, ConcatPlaces
    <2> QED
        BY <1>11, <1>12, <2>1, Zenon
<1>14. ASSUME NEW j \in 1 .. a + m
       PROVE  PageAt(s, j) = IF j <= a THEN u[j] ELSE w[j - a]
    <2>1. CASE j <= a
        BY <1>4, <1>8, <1>10, <2>1
    <2>2. CASE ~(j <= a)
        <3>1. j - a \in 1 .. m /\ j - a \in 1 .. size /\ a + (j - a) = j
            BY <1>2, <1>4, <1>8, <2>2
        <3>2. w[j - a] = start + (j - a) - 1
            BY <1>9, <3>1
        <3> QED
            BY <1>7, <2>2, <3>1, <3>2
    <2> QED
        BY <2>1, <2>2
<1>15. u \o w = [j \in 1 .. a + m |-> PageAt(s, j)]
    BY <1>13, <1>14
<1> QED
    BY <1>15 DEF PagesUpTo, a, u, w

(* The array of pages of dma32_heap_vmap holds the pages in their order.   *)
LEMMA PageArrayPages ==
    ASSUME NEW b, Lined(blocks[b]), len[b] = SizeOfFirst(blocks[b], Len(blocks[b]))
    PROVE  PageArray(b) = FirstPages(b, len[b])
<1> DEFINE s == blocks[b]
           L == Len(s)
           W(w) == [k \in 0 .. L |-> IF k = 0 THEN <<>> ELSE w[k - 1] \o Pages(s[k])]
           closed == [k \in 0 .. L |-> PagesUpTo(s, SizeOfFirst(s, k))]
           walk == CHOOSE w : w = W(w)
<1>1. PageArray(b) = SubSeq(walk[L], 1, len[b])
    BY DEF PageArray
<1>2. L \in Nat /\ Lined(s)
    <2>1. Lined(s)
        OBVIOUS
    <2> HIDE DEF s
    <2> QED
        BY <2>1 DEF Lined
<1> HIDE DEF L, s
<1>3. closed[0] = <<>>
    BY <1>2, SizeOfNone DEF PagesUpTo
<1>4. ASSUME NEW k \in 1 .. L
      PROVE  closed[k] = closed[k - 1] \o Pages(s[k])
    <2>1. s[k] \in BlockType /\ Sound(s[k]) /\ k - 1 \in 0 .. L /\ k \in 0 .. L
        BY <1>2 DEF Lined, L
    <2>2. Size(s[k].order) \in Nat \ {0}
        BY <2>1, SizePositive DEF Sound
    <2>3. SubSeq(Pages(s[k]), 1, Size(s[k].order)) = Pages(s[k])
        <3> DEFINE size == Size(s[k].order)
                   start == s[k].start
        <3>1. size \in Nat /\ start \in Int
            BY <2>1, <2>2 DEF BlockType
        <3>2. Pages(s[k]) = [j \in 1 .. size |-> start + j - 1]
            BY DEF Pages
        <3> HIDE DEF size, start
        <3>3. SubSeq([j \in 1 .. size |-> start + j - 1], 1, size)
                  = [j \in 1 .. size |-> start + j - 1]
            BY <3>1
        <3> QED
            BY <3>2, <3>3 DEF size
    <2>4. PagesUpTo(s, SizeOfFirst(s, k - 1)) \o Pages(s[k])
              = PagesUpTo(s, SizeOfFirst(s, k - 1) + Size(s[k].order))
        <3> DEFINE m == Size(s[k].order)
        <3>1. m \in 0 .. Size(s[k].order)
            BY <2>2
        <3> HIDE DEF m
        <3>2. PagesUpTo(s, SizeOfFirst(s, k - 1)) \o SubSeq(Pages(s[k]), 1, m)
                  = PagesUpTo(s, SizeOfFirst(s, k - 1) + m)
            BY <1>2, <3>1, Joined DEF L
        <3> QED
            BY <2>3, <3>2 DEF m
    <2>5. SizeOfFirst(s, k) = SizeOfFirst(s, k - 1) + Size(s[k].order)
        BY <1>2, SizeOfFirstGrows DEF L
    <2> QED
        BY <2>1, <2>4, <2>5
<1>5. closed = W(closed)
    <2>1. \A k \in 0 .. L :
              closed[k] = IF k = 0 THEN <<>> ELSE closed[k - 1] \o Pages(s[k])
        BY <1>2, <1>3, <1>4
    <2>2. closed = [k \in 0 .. L |-> closed[k]]
        OBVIOUS
    <2> HIDE DEF closed
    <2> QED
        BY <2>1, <2>2
<1>6. walk = W(walk)
    <2> HIDE DEF W, closed
    <2> QED
        BY <1>5
<1> HIDE DEF walk
<1>7. walk[0] = <<>> /\ \A k \in 1 .. L : walk[k] = walk[k - 1] \o Pages(s[k])
    <2>1. \A k \in 0 .. L : walk[k] = IF k = 0 THEN <<>> ELSE walk[k - 1] \o Pages(s[k])
        BY <1>6, Zenon
    <2>2. 0 \in 0 .. L /\ \A k \in 1 .. L : k \in 0 .. L /\ k # 0
        BY <1>2
    <2> HIDE DEF W
    <2> QED
        BY <2>1, <2>2, Zenon
<1> HIDE DEF closed, W
<1>8. walk[L] = closed[L]
    <2>1. walk[0] = closed[0]
        BY <1>3, <1>7
    <2>2. \A k \in 1 .. L : walk[k - 1] = closed[k - 1] => walk[k] = closed[k]
        BY <1>4, <1>7
    <2> QED
        BY <1>2, <2>1, <2>2, SameWalk
<1>9. closed[L] = PagesUpTo(s, len[b])
    BY <1>2 DEF closed, s, L
<1>10. len[b] \in Nat
    BY <1>2, SizeOfFirstIsNat DEF L, s
<1>11. SubSeq(PagesUpTo(s, len[b]), 1, len[b]) = PagesUpTo(s, len[b])
    <2>1. ASSUME NEW n \in Nat
          PROVE  SubSeq(PagesUpTo(s, n), 1, n) = PagesUpTo(s, n)
        BY DEF PagesUpTo
    <2> QED
        BY <1>10, <2>1
<1> QED
    BY <1>1, <1>8, <1>9, <1>11 DEF FirstPages, PagesUpTo, s

(* The loop of dma32_heap_mmap maps the first n pages in their order, if   *)
(* the buffer has that many.                                               *)
LEMMA RemapPages ==
    ASSUME NEW b, Lined(blocks[b]), NEW n \in Nat,
           n <= SizeOfFirst(blocks[b], Len(blocks[b]))
    PROVE  Remap(b, n) = FirstPages(b, n)
<1> DEFINE s == blocks[b]
           L == Len(s)
           Cut(x, k) == LET remainder == n - Len(x)
                            size == Size(s[k].order)
                            length == IF size > remainder THEN remainder ELSE size
                        IN x \o SubSeq(Pages(s[k]), 1, length)
           W(w) == [k \in 0 .. L |-> IF k = 0 THEN <<>> ELSE Cut(w[k - 1], k)]
           Upto(k) == IF SizeOfFirst(s, k) <= n THEN SizeOfFirst(s, k) ELSE n
           closed == [k \in 0 .. L |-> PagesUpTo(s, Upto(k))]
           walk == CHOOSE w : w = W(w)
<1>1. Remap(b, n) = walk[L]
    BY DEF Remap
<1>2. L \in Nat /\ Lined(s) /\ n <= SizeOfFirst(s, L)
    <2>1. Lined(s) /\ n <= SizeOfFirst(s, L)
        OBVIOUS
    <2> HIDE DEF s
    <2> QED
        BY <2>1 DEF Lined
<1> HIDE DEF L, s
<1>3. closed[0] = <<>>
    BY <1>2, SizeOfNone DEF PagesUpTo
<1>4. ASSUME NEW k \in 1 .. L
      PROVE  closed[k] = Cut(closed[k - 1], k)
    <2> DEFINE a == SizeOfFirst(s, k - 1)
               size == Size(s[k].order)
               start == s[k].start
               x == PagesUpTo(s, Upto(k - 1))
               length == IF size > n - Upto(k - 1) THEN n - Upto(k - 1) ELSE size
    <2>1. s[k] \in BlockType /\ Sound(s[k]) /\ k - 1 \in 0 .. L /\ k \in 0 .. L
        BY <1>2 DEF Lined, L
    <2>2. size \in Nat \ {0} /\ start \in Int
        BY <2>1, SizePositive DEF Sound, BlockType
    <2>3. a \in Nat /\ SizeOfFirst(s, k) = a + size
        BY <1>2, <2>1, SizeOfFirstIsNat, SizeOfFirstGrows DEF L
    <2>4. Upto(k - 1) = IF a <= n THEN a ELSE n
        OBVIOUS
    <2>5. Upto(k) = IF a + size <= n THEN a + size ELSE n
        BY <2>3
    <2> HIDE DEF a, size, Upto
    <2>6. Upto(k - 1) \in Nat /\ Upto(k) = Upto(k - 1) + length
        BY <2>2, <2>3, <2>4, <2>5
    <2>7. length \in 0 .. size /\ (Upto(k - 1) = a \/ length = 0)
        BY <2>2, <2>3, <2>4, <2>5
    <2>8. Len(x) = Upto(k - 1)
        BY <2>6 DEF PagesUpTo
    <2> HIDE DEF x, length
    <2>9. x \o SubSeq(Pages(s[k]), 1, length) = PagesUpTo(s, Upto(k - 1) + length)
        <3>1. CASE Upto(k - 1) = a
            BY <1>2, <2>7, <3>1, Joined DEF L, a, size, x
        <3>2. CASE length = 0
            <4>1. SubSeq(Pages(s[k]), 1, length) = <<>>
                BY <3>2, SubSeqEmpty
            <4>2. x \in Seq({PageAt(s, j) : j \in 1 .. Upto(k - 1)})
                BY <2>6 DEF x, PagesUpTo
            <4>3. x \o <<>> = x
                BY <4>2, ConcatEmptySeq
            <4>4. Upto(k - 1) + length = Upto(k - 1)
                BY <2>6, <3>2
            <4> QED
                BY <4>1, <4>3, <4>4 DEF x
        <3> QED
            BY <2>7, <3>1, <3>2
    <2>10. closed[k - 1] = x /\ closed[k] = PagesUpTo(s, Upto(k))
        BY <2>1 DEF x
    <2>11. Cut(x, k) = x \o SubSeq(Pages(s[k]), 1, length)
        BY <2>8 DEF length, size
    <2> HIDE DEF closed, Cut
    <2> QED
        BY <2>6, <2>9, <2>10, <2>11
<1>5. closed = W(closed)
    <2> HIDE DEF Cut
    <2>1. \A k \in 0 .. L : closed[k] = IF k = 0 THEN <<>> ELSE Cut(closed[k - 1], k)
        <3>1. \A k \in 0 .. L : k = 0 \/ k \in 1 .. L
            BY <1>2
        <3> HIDE DEF closed
        <3> QED
            BY <1>3, <1>4, <3>1, Zenon
    <2>2. closed = [k \in 0 .. L |-> closed[k]]
        OBVIOUS
    <2> HIDE DEF closed
    <2> QED
        BY <2>1, <2>2
<1>6. walk = W(walk)
    <2> HIDE DEF W, closed
    <2> QED
        BY <1>5
<1> HIDE DEF walk, Cut
<1>7. walk[0] = <<>> /\ \A k \in 1 .. L : walk[k] = Cut(walk[k - 1], k)
    <2>1. \A k \in 0 .. L : walk[k] = IF k = 0 THEN <<>> ELSE Cut(walk[k - 1], k)
        BY <1>6, Zenon
    <2>2. 0 \in 0 .. L /\ \A k \in 1 .. L : k \in 0 .. L /\ k # 0
        BY <1>2
    <2> HIDE DEF W
    <2> QED
        BY <2>1, <2>2, Zenon
<1>8. walk[L] = closed[L]
    <2> HIDE DEF closed, W
    <2>1. walk[0] = closed[0]
        BY <1>3, <1>7
    <2>2. \A k \in 1 .. L : walk[k - 1] = closed[k - 1] => walk[k] = closed[k]
        BY <1>4, <1>7
    <2> QED
        BY <1>2, <2>1, <2>2, SameWalk
<1>9. closed[L] = PagesUpTo(s, n)
    <2>1. SizeOfFirst(s, L) \in Nat
        BY <1>2, SizeOfFirstIsNat DEF L
    <2>2. Upto(L) = n
        BY <1>2, <2>1
    <2> HIDE DEF Upto
    <2> QED
        BY <1>2, <2>2
<1> QED
    BY <1>1, <1>8, <1>9 DEF FirstPages, PagesUpTo, s

----------------------------------------------------------------------------
(* The views of a buffer.                                                  *)

(* What the kernel, user space and a device see of a buffer.               *)
KernelSees(b) == vaddr[b] = IF vmap_cnt[b] > 0 THEN FirstPages(b, len[b]) ELSE <<>>
UserSees(b) == user[b].offset = 0 => user[b].pages = FirstPages(b, user[b].size)
DeviceSees(b) == att[b] # Unattached => att[b].table = blocks[b] /\ pc[b] = "ready"

(* Whoever has a view holds the buffer, so that its blocks stay.           *)
Held(b) == vmap_cnt[b] > 0 \/ user[b] # Unmapped => pc[b] = "ready"

ViewsTypeOK ==
    /\ vmap_cnt \in [Buffers -> Nat]
    /\ vaddr = [b \in Buffers |-> vaddr[b]]
    /\ user = [b \in Buffers |-> user[b]]
    /\ att \in [Buffers -> [table : Seq(BlockType), mapped : BOOLEAN]]

Seen(b) == KernelSees(b) /\ UserSees(b) /\ DeviceSees(b) /\ Held(b)

ViewsInv == HeapInv /\ ViewsTypeOK /\ \A b \in Buffers : Seen(b)

(* The pages of a buffer depend on its blocks only.                        *)
LEMMA PagesKept ==
    ASSUME NEW b, blocks'[b] = blocks[b]
    PROVE  /\ len'[b] = len[b] => FirstPages(b, len[b])' = FirstPages(b, len[b])
           /\ user'[b] = user[b]
                  => FirstPages(b, user[b].size)' = FirstPages(b, user[b].size)
           /\ FirstPages(b, user[b].size)' = FirstPages(b, user'[b].size)
<1>1. FirstPages(b, len[b])' = PagesUpTo(blocks'[b], len'[b])
    BY DEF FirstPages, PagesUpTo, PageAt, SizeOfFirst, FramesIn, FramesOf, Size
<1>2. FirstPages(b, user[b].size)' = PagesUpTo(blocks'[b], user'[b].size)
    BY DEF FirstPages, PagesUpTo, PageAt, SizeOfFirst, FramesIn, FramesOf, Size
<1>3. \A n : FirstPages(b, n) = PagesUpTo(blocks[b], n)
    BY DEF FirstPages, PagesUpTo
<1> QED
    BY <1>1, <1>2, <1>3

(* A buffer of which nothing changes is seen as before.                    *)
LEMMA SeenAsBefore ==
    ASSUME NEW b, Seen(b), blocks'[b] = blocks[b], pc'[b] = pc[b], len'[b] = len[b],
           vmap_cnt'[b] = vmap_cnt[b], vaddr'[b] = vaddr[b], att'[b] = att[b],
           user'[b] = user[b]
    PROVE  Seen(b)'
<1>1. KernelSees(b)'
    BY PagesKept DEF Seen, KernelSees
<1>2. UserSees(b)'
    BY PagesKept DEF Seen, UserSees
<1>3. DeviceSees(b)' /\ Held(b)'
    BY DEF Seen, DeviceSees, Held, Unattached, Unmapped
<1> QED
    BY <1>1, <1>2, <1>3 DEF Seen

(* A buffer that nobody sees may change as it likes.                       *)
LEMMA Unseen ==
    ASSUME NEW b \in Buffers, Seen(b), ViewsTypeOK, pc[b] # "ready" \/ pc'[b] # "ready",
           pc[b] = "ready" =>
               vmap_cnt[b] = 0 /\ att[b] = Unattached /\ user[b] = Unmapped,
           vmap_cnt'[b] = vmap_cnt[b], vaddr'[b] = vaddr[b], att'[b] = att[b],
           user'[b] = user[b]
    PROVE  Seen(b)'
<1>1. vmap_cnt[b] = 0 /\ att[b] = Unattached /\ user[b] = Unmapped /\ vaddr[b] = <<>>
    BY DEF Seen, KernelSees, DeviceSees, Held, ViewsTypeOK
<1>2. KernelSees(b)'
    BY <1>1 DEF KernelSees
<1>3. UserSees(b)'
    <2>1. user'[b].pages = <<>> /\ user'[b].size = 0
        BY <1>1 DEF Unmapped
    <2>2. FirstPages(b, user[b].size)' = <<>>
        BY <2>1 DEF FirstPages
    <2> QED
        BY <2>1, <2>2 DEF UserSees
<1>4. DeviceSees(b)' /\ Held(b)'
    BY <1>1 DEF DeviceSees, Held, Unattached, Unmapped
<1> QED
    BY <1>2, <1>3, <1>4 DEF Seen

(* A buffer that is ready has its blocks in a line, as long as was asked.  *)
LEMMA ReadyIsLined ==
    ASSUME HeapInv, NEW b \in Buffers, pc[b] = "ready"
    PROVE  Lined(blocks[b]) /\ len[b] = SizeOfFirst(blocks[b], Len(blocks[b]))
<1>1. Lined(blocks[b])
    BY DEF HeapInv, HeapTypeOK, BlocksSound, Apart, Lined
<1>2. SubSeq(blocks[b], 1, Len(blocks[b])) = blocks[b]
    <2>1. blocks[b] \in Seq(BlockType)
        BY <1>1 DEF Lined
    <2> QED
        BY <2>1
<1>3. Cardinality(FramesIn(blocks[b])) + remaining[b] = len[b] /\ remaining[b] = 0
    BY DEF HeapInv, AddsUp
<1>4. SizeOfFirst(blocks[b], Len(blocks[b])) \in Nat
    <2>1. Len(blocks[b]) \in 0 .. Len(blocks[b])
        BY <1>1 DEF Lined
    <2> QED
        BY <1>1, <2>1, SizeOfFirstIsNat
<1>5. SizeOfFirst(blocks[b], Len(blocks[b])) = Cardinality(FramesIn(blocks[b]))
    BY <1>2 DEF SizeOfFirst
<1> QED
    BY <1>1, <1>3, <1>4, <1>5

(* A step of b changes no other buffer.                                    *)
LEMMA OthersSeen ==
    ASSUME ViewsInv, NEW b \in Buffers, NEW c \in Buffers, c # b,
           blocks'[c] = blocks[c], pc'[c] = pc[c], len'[c] = len[c],
           vmap_cnt'[c] = vmap_cnt[c], vaddr'[c] = vaddr[c], att'[c] = att[c],
           user'[c] = user[c]
    PROVE  Seen(c)'
BY SeenAsBefore DEF ViewsInv
----------------------------------------------------------------------------
(* The steps of the views.                                                 *)

(* A device attaches with the table of the moment, which stays the table.  *)
LEMMA AttachStep ==
    ASSUME ViewsInv, NEW b \in Buffers,
           Attach(b) \/ Detach(b) \/ MapDmaBuf(b) \/ UnmapDmaBuf(b), HeapInv'
    PROVE  ViewsInv'
<1>1. HeapInv /\ HeapTypeOK /\ ViewsTypeOK /\ \A c \in Buffers : Seen(c)
    BY DEF ViewsInv, HeapInv
<1>2. UNCHANGED <<taken, blocks, pc, loopVars, vmap_cnt, vaddr, user>>
    BY DEF Attach, Detach, MapDmaBuf, UnmapDmaBuf
<1>3. \/ UNCHANGED att
      \/ pc[b] = "ready" /\ att' = [att EXCEPT ![b] = [table |-> blocks[b], mapped |-> FALSE]]
      \/ att' = [att EXCEPT ![b] = Unattached]
      \/ \E m \in BOOLEAN : att[b] # Unattached /\ att' = [att EXCEPT ![b].mapped = m]
    <2>1. CASE Attach(b)
        BY <2>1 DEF Attach, MayView
    <2>2. CASE Detach(b)
        BY <2>2 DEF Detach
    <2>3. CASE MapDmaBuf(b)
        BY <2>3 DEF MapDmaBuf
    <2>4. CASE UnmapDmaBuf(b)
        <3>1. att[b].mapped /\ att' = [att EXCEPT ![b].mapped = FALSE]
            BY <2>4 DEF UnmapDmaBuf
        <3>2. att[b] # Unattached
            BY <3>1 DEF Unattached
        <3> QED
            BY <3>1, <3>2
    <2> QED
        BY <2>1, <2>2, <2>3, <2>4
<1>4. blocks[b] \in Seq(BlockType)
    BY <1>1 DEF HeapTypeOK
<1>5. att' \in [Buffers -> [table : Seq(BlockType), mapped : BOOLEAN]]
    <2> DEFINE Type == [table : Seq(BlockType), mapped : BOOLEAN]
    <2>1. att \in [Buffers -> Type]
        BY <1>1 DEF ViewsTypeOK
    <2>2. [table |-> blocks[b], mapped |-> FALSE] \in Type /\ Unattached \in Type
        BY <1>4 DEF Unattached
    <2>3. ASSUME NEW m \in BOOLEAN PROVE [att[b] EXCEPT !.mapped = m] \in Type
        BY <2>1
    <2> HIDE DEF Type
    <2>4. att' \in [Buffers -> Type]
        BY <1>3, <2>1, <2>2, <2>3
    <2> QED
        BY <2>4 DEF Type
<1>6. \A c \in Buffers : c # b => att'[c] = att[c]
    BY <1>1, <1>3 DEF ViewsTypeOK
<1>7. DeviceSees(b)'
    <2>1. DeviceSees(b)
        BY <1>1 DEF Seen
    <2>2. att[b] \in [table : Seq(BlockType), mapped : BOOLEAN]
        BY <1>1 DEF ViewsTypeOK
    <2>3. att'[b] # Unattached => att'[b].table = blocks[b] /\ pc[b] = "ready"
        BY <1>1, <1>3, <2>1, <2>2 DEF DeviceSees, ViewsTypeOK
    <2> QED
        BY <1>2, <2>3 DEF DeviceSees, Unattached
<1>8. Seen(b)'
    <2>1. KernelSees(b)' /\ UserSees(b)' /\ Held(b)'
        <3>1. blocks'[b] = blocks[b] /\ len'[b] = len[b]
            BY <1>2 DEF loopVars
        <3> QED
            BY <1>1, <1>2, <3>1, PagesKept DEF Seen, KernelSees, UserSees, Held, Unmapped
    <2> QED
        BY <1>7, <2>1 DEF Seen
<1>9. ASSUME NEW c \in Buffers, c # b PROVE Seen(c)'
    BY <1>2, <1>6, <1>9, OthersSeen DEF loopVars
<1>10. ViewsTypeOK'
    BY <1>1, <1>2, <1>5 DEF ViewsTypeOK
<1> QED
    BY <1>8, <1>9, <1>10 DEF ViewsInv

(* User space maps what the loop of mmap has collected.                    *)
LEMMA MmapStep ==
    ASSUME ViewsInv, NEW b \in Buffers, NEW offset \in 0 .. 1, NEW n \in Lengths,
           Mmap(b, offset, n), HeapInv'
    PROVE  ViewsInv'
<1>1. HeapInv /\ HeapTypeOK /\ ViewsTypeOK /\ \A c \in Buffers : Seen(c)
    BY DEF ViewsInv, HeapInv
<1>2. UNCHANGED <<taken, blocks, pc, loopVars, vmap_cnt, vaddr, att>>
    BY DEF Mmap
<1> DEFINE view == [offset |-> offset, size |-> n, pages |-> Remap(b, n)]
<1>3. pc[b] = "ready" /\ offset + n <= len[b]
      /\ (user' = [user EXCEPT ![b] = view] \/ UNCHANGED user)
    BY DEF Mmap, MayView
<1>4. Remap(b, n) = FirstPages(b, n)
    <2>1. Lined(blocks[b]) /\ len[b] = SizeOfFirst(blocks[b], Len(blocks[b]))
        BY <1>1, <1>3, ReadyIsLined
    <2>2. n \in Nat /\ len[b] \in Int
        BY <1>1, HeapAssumption DEF HeapTypeOK
    <2>3. n <= SizeOfFirst(blocks[b], Len(blocks[b]))
        BY <1>3, <2>1, <2>2
    <2> QED
        BY <2>1, <2>2, <2>3, RemapPages
<1>5. user = [c \in Buffers |-> user[c]]
    BY <1>1 DEF ViewsTypeOK
<1> HIDE DEF view
<1>6. \A c \in Buffers : c # b => user'[c] = user[c]
    BY <1>3, <1>5
<1>7. user'[b] = view \/ user'[b] = user[b]
    BY <1>3, <1>5
<1>8. blocks'[b] = blocks[b] /\ len'[b] = len[b] /\ pc'[b] = pc[b]
    BY <1>2 DEF loopVars
<1>9. UserSees(b)'
    <2>1. CASE user'[b] = view
        <3>1. user'[b].size = n /\ user'[b].pages = FirstPages(b, n)
            BY <1>4, <2>1 DEF view
        <3>2. FirstPages(b, user[b].size)' = FirstPages(b, n)
            BY <1>8, <3>1, PagesKept
        <3> QED
            BY <3>1, <3>2 DEF UserSees
    <2>2. CASE user'[b] = user[b]
        BY <1>1, <1>8, <2>2, PagesKept DEF Seen, UserSees
    <2> QED
        BY <1>7, <2>1, <2>2
<1>10. KernelSees(b)' /\ DeviceSees(b)' /\ Held(b)'
    BY <1>1, <1>2, <1>3, <1>8, PagesKept DEF Seen, KernelSees, DeviceSees, Held, Unattached
<1>11. ASSUME NEW c \in Buffers, c # b PROVE Seen(c)'
    BY <1>2, <1>6, <1>11, OthersSeen DEF loopVars
<1>12. ViewsTypeOK'
    <2>1. user' = [c \in Buffers |-> user'[c]]
        BY <1>3, <1>5
    <2> QED
        BY <1>1, <1>2, <2>1 DEF ViewsTypeOK
<1> QED
    BY <1>9, <1>10, <1>11, <1>12 DEF ViewsInv, Seen

(* and unmaps it.                                                          *)
LEMMA MunmapStep ==
    ASSUME ViewsInv, NEW b \in Buffers, Munmap(b), HeapInv'
    PROVE  ViewsInv'
<1>1. HeapInv /\ HeapTypeOK /\ ViewsTypeOK /\ \A c \in Buffers : Seen(c)
    BY DEF ViewsInv, HeapInv
<1>2. UNCHANGED <<taken, blocks, pc, loopVars, vmap_cnt, vaddr, att>>
      /\ user' = [user EXCEPT ![b] = Unmapped]
    BY DEF Munmap
<1>3. user = [c \in Buffers |-> user[c]]
    BY <1>1 DEF ViewsTypeOK
<1>4. user'[b] = Unmapped /\ \A c \in Buffers : c # b => user'[c] = user[c]
    BY <1>2, <1>3
<1>5. blocks'[b] = blocks[b] /\ len'[b] = len[b] /\ pc'[b] = pc[b]
    BY <1>2 DEF loopVars
<1>6. UserSees(b)'
    <2>1. user'[b].pages = <<>> /\ user'[b].size = 0
        BY <1>4 DEF Unmapped
    <2>2. FirstPages(b, user[b].size)' = <<>>
        BY <2>1 DEF FirstPages
    <2> QED
        BY <2>1, <2>2 DEF UserSees
<1>7. KernelSees(b)' /\ DeviceSees(b)' /\ Held(b)'
    BY <1>1, <1>2, <1>4, <1>5, PagesKept
       DEF Seen, KernelSees, DeviceSees, Held, Unattached, Unmapped
<1>8. ASSUME NEW c \in Buffers, c # b PROVE Seen(c)'
    BY <1>2, <1>4, <1>8, OthersSeen DEF loopVars
<1>9. ViewsTypeOK'
    <2>1. user' = [c \in Buffers |-> user'[c]]
        BY <1>2, <1>3
    <2> QED
        BY <1>1, <1>2, <2>1 DEF ViewsTypeOK
<1> QED
    BY <1>6, <1>7, <1>8, <1>9 DEF ViewsInv, Seen

(* The first vmap collects the pages, the last vunmap drops them.          *)
LEMMA VmapStep ==
    ASSUME ViewsInv, NEW b \in Buffers, Vmap(b) \/ Vunmap(b), HeapInv'
    PROVE  ViewsInv'
<1>1. HeapInv /\ HeapTypeOK /\ ViewsTypeOK /\ \A c \in Buffers : Seen(c)
    BY DEF ViewsInv, HeapInv
<1>2. UNCHANGED <<taken, blocks, pc, loopVars, att, user>>
    BY DEF Vmap, Vunmap
<1>3. vmap_cnt[b] \in Nat /\ vmap_cnt \in [Buffers -> Nat]
      /\ vaddr = [c \in Buffers |-> vaddr[c]]
    BY <1>1 DEF ViewsTypeOK
<1>4. /\ vmap_cnt' \in [Buffers -> Nat] /\ vaddr' = [c \in Buffers |-> vaddr'[c]]
      /\ \A c \in Buffers : c # b => vmap_cnt'[c] = vmap_cnt[c] /\ vaddr'[c] = vaddr[c]
      /\ \/ pc[b] = "ready" /\ vmap_cnt'[b] = vmap_cnt[b] + 1
            /\ vaddr'[b] = IF vmap_cnt[b] = 0 THEN PageArray(b) ELSE vaddr[b]
         \/ vmap_cnt'[b] = vmap_cnt[b] /\ vaddr'[b] = vaddr[b]
         \/ vmap_cnt[b] > 0 /\ vmap_cnt'[b] = vmap_cnt[b] - 1
            /\ vaddr'[b] = IF vmap_cnt[b] > 1 THEN vaddr[b] ELSE <<>>
    <2>1. CASE Vmap(b)
        BY <1>3, <2>1 DEF Vmap, MayView
    <2>2. CASE Vunmap(b)
        <3>1. /\ vmap_cnt[b] > 0 /\ vmap_cnt' = [vmap_cnt EXCEPT ![b] = @ - 1]
              /\ vaddr' = [vaddr EXCEPT ![b] = IF vmap_cnt[b] > 1 THEN @ ELSE <<>>]
            BY <2>2 DEF Vunmap
        <3>2. vmap_cnt[b] - 1 \in Nat
            BY <1>3, <3>1
        <3>3. vmap_cnt' \in [Buffers -> Nat] /\ vmap_cnt'[b] = vmap_cnt[b] - 1
              /\ \A c \in Buffers : c # b => vmap_cnt'[c] = vmap_cnt[c]
            BY <1>3, <3>1, <3>2
        <3>4. /\ vaddr' = [c \in Buffers |-> vaddr'[c]]
              /\ vaddr'[b] = IF vmap_cnt[b] > 1 THEN vaddr[b] ELSE <<>>
              /\ \A c \in Buffers : c # b => vaddr'[c] = vaddr[c]
            BY <1>3, <3>1, Zenon
        <3> QED
            BY <3>1, <3>3, <3>4
    <2> QED
        BY <2>1, <2>2
<1>5. blocks'[b] = blocks[b] /\ len'[b] = len[b] /\ pc'[b] = pc[b]
    BY <1>2 DEF loopVars
<1>6. pc[b] = "ready" => PageArray(b) = FirstPages(b, len[b])
    BY <1>1, ReadyIsLined, PageArrayPages
<1>7. KernelSees(b)'
    <2>1. vaddr[b] = IF vmap_cnt[b] > 0 THEN FirstPages(b, len[b]) ELSE <<>>
        BY <1>1 DEF Seen, KernelSees
    <2>2. FirstPages(b, len[b])' = FirstPages(b, len[b])
        BY <1>5, PagesKept
    <2>3. vaddr'[b] = IF vmap_cnt'[b] > 0 THEN FirstPages(b, len[b]) ELSE <<>>
        BY <1>3, <1>4, <1>6, <2>1
    <2> QED
        BY <2>2, <2>3 DEF KernelSees
<1>8. UserSees(b)' /\ DeviceSees(b)'
    BY <1>1, <1>2, <1>5, PagesKept DEF Seen, UserSees, DeviceSees, Unattached
<1>9. Held(b)'
    BY <1>1, <1>2, <1>3, <1>4, <1>5 DEF Seen, Held, Unmapped
<1>10. ASSUME NEW c \in Buffers, c # b PROVE Seen(c)'
    BY <1>2, <1>4, <1>10, OthersSeen DEF loopVars
<1>11. ViewsTypeOK'
    BY <1>1, <1>2, <1>4 DEF ViewsTypeOK
<1> QED
    BY <1>7, <1>8, <1>9, <1>10, <1>11 DEF ViewsInv, Seen

(* An allocation or a release moves a buffer that nobody sees.             *)
LEMMA CallerStep ==
    ASSUME ViewsInv, NEW b \in Buffers,
           Step(b) \/ (\E n \in Lengths : Allocate(b, n)) \/ Release(b), HeapInv'
    PROVE  ViewsInv'
<1>1. HeapTypeOK /\ ViewsTypeOK /\ \A c \in Buffers : Seen(c)
    BY DEF ViewsInv, HeapInv
<1>2. UNCHANGED <<vmap_cnt, vaddr, att, user>>
    BY DEF Step, Interrupted, SkipOrder, TakeBlock, Table, Export, FreePage, FreeBuffer,
           Allocate, Release, mapVars
<1>3. \/ pc[b] # "ready"
      \/ pc[b] = "ready" /\ pc'[b] # "ready"
         /\ vmap_cnt[b] = 0 /\ att[b] = Unattached /\ user[b] = Unmapped
    <2>1. CASE Step(b) \/ \E n \in Lengths : Allocate(b, n)
        BY <2>1 DEF Step, Interrupted, SkipOrder, TakeBlock, Table, Export, FreePage,
                    FreeBuffer, Allocate
    <2>2. CASE Release(b)
        BY <1>1, <2>2 DEF Release, Goto, HeapTypeOK
    <2> QED
        BY <2>1, <2>2
<1>4. ASSUME NEW c \in Buffers, c # b
      PROVE  blocks'[c] = blocks[c] /\ pc'[c] = pc[c] /\ len'[c] = len[c]
    <2>1. CASE Interrupted(b) \/ SkipOrder(b) \/ Table(b) \/ Export(b) \/ Release(b)
        BY <1>1, <1>4, <2>1
           DEF Interrupted, SkipOrder, Passed, Table, Export, Release, Goto, HeapTypeOK, loopVars
    <2>2. CASE TakeBlock(b)
        BY <1>1, <1>4, <2>2 DEF TakeBlock, HeapTypeOK
    <2>3. CASE FreePage(b) \/ FreeBuffer(b)
        BY <1>1, <1>4, <2>3 DEF FreePage, FreeBuffer, Goto, HeapTypeOK, loopVars
    <2>4. CASE \E n \in Lengths : Allocate(b, n)
        BY <1>1, <1>4, <2>4 DEF Allocate, Goto, HeapTypeOK
    <2> QED
        BY <2>1, <2>2, <2>3, <2>4 DEF Step
<1>5. Seen(b)'
    BY <1>1, <1>2, <1>3, Unseen
<1>6. ASSUME NEW c \in Buffers, c # b PROVE Seen(c)'
    BY <1>2, <1>4, <1>6, OthersSeen
<1>7. ViewsTypeOK'
    BY <1>1, <1>2 DEF ViewsTypeOK
<1> QED
    BY <1>5, <1>6, <1>7 DEF ViewsInv

(* Every step keeps the views in agreement.                                *)
LEMMA ViewsStep == ViewsInv /\ [Next]_vars => ViewsInv'
<1> SUFFICES ASSUME ViewsInv, [Next]_vars
             PROVE  ViewsInv'
    OBVIOUS
<1>1. HeapInv'
    BY HeapStep DEF ViewsInv
<1>2. CASE UNCHANGED vars
    <2>1. \A b \in Buffers : Seen(b)'
        BY <1>2, SeenAsBefore DEF ViewsInv, vars, loopVars, mapVars
    <2>2. ViewsTypeOK'
        BY <1>2 DEF ViewsInv, ViewsTypeOK, vars, mapVars
    <2> QED
        BY <1>1, <2>1, <2>2 DEF ViewsInv
<1> QED
    BY <1>1, <1>2, CallerStep, AttachStep, MmapStep, MunmapStep, VmapStep DEF Next

(* Nobody sees anything at first.                                          *)
LEMMA ViewsInit == Init => ViewsInv
<1> SUFFICES ASSUME Init PROVE ViewsInv
    OBVIOUS
<1>1. ViewsTypeOK
    BY DEF Init, ViewsTypeOK, Unattached
<1>2. ASSUME NEW b \in Buffers PROVE Seen(b)
    <2>1. vmap_cnt[b] = 0 /\ vaddr[b] = <<>> /\ att[b] = Unattached /\ user[b] = Unmapped
        BY DEF Init
    <2>2. KernelSees(b) /\ DeviceSees(b) /\ Held(b)
        BY <2>1 DEF KernelSees, DeviceSees, Held
    <2>3. user[b].pages = <<>> /\ user[b].size = 0
        BY <2>1 DEF Unmapped
    <2>4. FirstPages(b, user[b].size) = <<>>
        BY <2>3 DEF FirstPages
    <2> QED
        BY <2>2, <2>3, <2>4 DEF Seen, UserSees
<1> QED
    BY <1>1, <1>2, HeapInit DEF ViewsInv

(* Devices, kernel and user space see the same page at the same place of a *)
(* buffer, whatever blocks it was put together from and whatever else is   *)
(* allocated and released meanwhile (the loops of dma32_heap_mmap and      *)
(* dma32_heap_vmap, and the copy of the table in dma32_heap_attach).       *)
THEOREM HeapViewsAgree == Spec => []ViewsAgree
<1>1. ViewsInv => ViewsAgree
    BY DEF ViewsInv, Seen, KernelSees, UserSees, DeviceSees, ViewsAgree
<1> QED
    BY <1>1, ViewsInit, ViewsStep, PTL DEF Spec
==============================================================================
