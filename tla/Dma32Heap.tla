------------------------------ MODULE Dma32Heap ------------------------------
(***************************************************************************)
(* The dma-heap of dma32_heap.c: a buffer is put together from blocks of   *)
(* 2^order page frames, largest orders first, all of them below 4 GB; an   *)
(* allocation that cannot go on gives every block back.  A step is one     *)
(* iteration of the loop over orders in alloc_largest_available_dma32, so  *)
(* allocations of several callers interleave in the page allocator.  An    *)
(* exported buffer is seen by devices, by the kernel and by user space;    *)
(* the dma-buf core (external) keeps it as long as anybody sees it.        *)
(***************************************************************************)
EXTENDS Integers, FiniteSets, Sequences

CONSTANTS Buffers,   \* the dma32_heap_buffers, each with the caller that allocates it
          Orders,    \* orders[]: a decreasing sequence, the last is 0
          NumOrders, \* NUM_ORDERS
          Frames,    \* the number of page frames
          Limit,     \* the frame at 4 GB
          Lengths,   \* the lengths asked for, in pages (the dma-heap core aligns them)
          MaxViews,  \* bound: attachments and mappings at a time, see MayView
          Faults     \* what may go wrong, see FaultKinds

FaultKinds == {"signal", "table", "export", "vmap", "attach", "map", "remap"}

ASSUME HeapAssumption ==
    /\ IsFiniteSet(Buffers)
    /\ NumOrders \in Nat \ {0}
    /\ Orders \in [1 .. NumOrders -> Nat]
    /\ Frames \in Nat /\ Limit \in Nat
    /\ \A k \in 1 .. NumOrders : 2 ^ Orders[k] > 0 /\ Limit % 2 ^ Orders[k] = 0
    /\ Lengths \subseteq Nat \ {0}
    /\ MaxViews \in Nat
    /\ Faults \subseteq FaultKinds

VARIABLES taken,     \* the frames the page allocator has handed out to the heap
          blocks,    \* blocks[b]: the blocks on the list pages, then in sg_table
          pc,        \* pc[b]: where dma32_heap_allocate is, or the life of the buffer
          len,       \* len[b]: buffer->len
          remaining, \* remaining[b]: size_remaining
          max_order, \* max_order[b]
          i,         \* i[b]: the index into orders, from 1
          vmap_cnt,  \* vmap_cnt[b]
          vaddr,     \* vaddr[b]: the pages at buffer->vaddr, <<>> for NULL
          att,       \* att[b]: the attachment of a device: the copy of sg_table, mapped
          user       \* user[b]: the mapping in user space: offset, size and pages of the vma

loopVars == <<len, remaining, max_order, i>>
mapVars == <<vmap_cnt, vaddr, att, user>>
vars == <<taken, blocks, pc, loopVars, mapVars>>

Size(order) == 2 ^ order
FramesOf(block) == block.start .. block.start + Size(block.order) - 1
FramesIn(s) == UNION {FramesOf(s[k]) : k \in DOMAIN s}
Unattached == [table |-> <<>>, mapped |-> FALSE]
Unmapped == [offset |-> 0, size |-> 0, pages |-> <<>>]

Init ==
    /\ taken = {}
    /\ blocks = [b \in Buffers |-> <<>>]
    /\ pc = [b \in Buffers |-> "none"]
    /\ len = [b \in Buffers |-> 0]
    /\ remaining = [b \in Buffers |-> 0]
    /\ max_order = [b \in Buffers |-> 0]
    /\ i = [b \in Buffers |-> 1]
    /\ vmap_cnt = [b \in Buffers |-> 0]
    /\ vaddr = [b \in Buffers |-> <<>>]
    /\ att = [b \in Buffers |-> Unattached]
    /\ user = [b \in Buffers |-> Unmapped]

----------------------------------------------------------------------------
(* alloc_pages: an aligned block of free frames, or NULL.  __free_pages    *)
(* with compound_order gives a block back as a whole.                      *)
FreeBlocks(order) ==
    {block \in [start : {k \in 0 .. Frames - 1 : k % Size(order) = 0}, order : {order}] :
        FramesOf(block) \subseteq (0 .. Frames - 1) \ taken}

Goto(b, label) == pc' = [pc EXCEPT ![b] = label]

Allocate(b, n) ==
    /\ pc[b] = "none"
    /\ len' = [len EXCEPT ![b] = n]
    /\ remaining' = [remaining EXCEPT ![b] = n]
    /\ max_order' = [max_order EXCEPT ![b] = Orders[1]]
    /\ i' = [i EXCEPT ![b] = 1]
    /\ Goto(b, "loop")
    /\ UNCHANGED <<taken, blocks, mapVars>>

(* fatal_signal_pending, tested before each block.                         *)
Interrupted(b) ==
    /\ "signal" \in Faults
    /\ pc[b] = "loop" /\ i[b] = 1 /\ remaining[b] > 0
    /\ Goto(b, "free_buffer")
    /\ UNCHANGED <<taken, blocks, loopVars, mapVars>>

(* The order is passed over: too large, larger than the last block, not to *)
(* be had, or above 4 GB (and freed again).  After the last order there is *)
(* no page.                                                                *)
TooLarge(b, order) == remaining[b] < Size(order) \/ max_order[b] < order

PassedAgain(b) ==                    \* mutant: starts over until a block is found
    /\ i' = [i EXCEPT ![b] = (@ % NumOrders) + 1]
    /\ UNCHANGED pc

Passed(b) ==
    IF i[b] < NumOrders
    THEN i' = [i EXCEPT ![b] = @ + 1] /\ UNCHANGED pc
    ELSE Goto(b, "free_buffer") /\ UNCHANGED i

SkipOrder(b) ==
    /\ pc[b] = "loop" /\ remaining[b] > 0
    /\ Passed(b)
    /\ UNCHANGED <<taken, blocks, len, remaining, max_order, mapVars>>

Above4GBNever(block) == FALSE        \* mutant: the check is missing
Above4GB(block) == block.start >= Limit

TakeBlock(b) ==
    LET order == Orders[i[b]]
    IN /\ pc[b] = "loop" /\ remaining[b] > 0
       /\ ~TooLarge(b, order)
       /\ \E block \in FreeBlocks(order) :
             /\ ~Above4GB(block)
             /\ taken' = taken \cup FramesOf(block)
             /\ blocks' = [blocks EXCEPT ![b] = Append(@, block)]
       /\ remaining' = [remaining EXCEPT ![b] = @ - Size(order)]
       /\ max_order' = [max_order EXCEPT ![b] = order]
       /\ i' = [i EXCEPT ![b] = 1]
       /\ UNCHANGED <<pc, len, mapVars>>

(* sg_alloc_table.  The pages move from the list to the table.             *)
Table(b) ==
    /\ pc[b] = "loop" /\ remaining[b] = 0
    /\ Goto(b, "export") \/ ("table" \in Faults /\ Goto(b, "free_buffer"))
    /\ UNCHANGED <<taken, blocks, loopVars, mapVars>>

Export(b) ==
    /\ pc[b] = "export"
    /\ Goto(b, "ready") \/ ("export" \in Faults /\ Goto(b, "free_pages"))
    /\ UNCHANGED <<taken, blocks, loopVars, mapVars>>

FreePageFirstOnly(b) ==              \* mutant: only one page of a block is freed
    /\ pc[b] \in {"free_pages", "free_buffer", "release"}
    /\ blocks[b] # <<>>
    /\ taken' = taken \ {Head(blocks[b]).start}
    /\ blocks' = [blocks EXCEPT ![b] = Tail(@)]
    /\ UNCHANGED <<pc, loopVars, mapVars>>

(* The labels free_pages (the blocks of the table) and free_buffer (those  *)
(* of the list), and the release of the dma-buf: block by block.           *)
FreePage(b) ==
    /\ pc[b] \in {"free_pages", "free_buffer", "release"}
    /\ blocks[b] # <<>>
    /\ taken' = taken \ FramesOf(Head(blocks[b]))
    /\ blocks' = [blocks EXCEPT ![b] = Tail(@)]
    /\ UNCHANGED <<pc, loopVars, mapVars>>

(* kfree(buffer).                                                          *)
FreeBuffer(b) ==
    /\ pc[b] \in {"free_pages", "free_buffer", "release"}
    /\ blocks[b] = <<>>
    /\ len' = [len EXCEPT ![b] = 0]
    /\ remaining' = [remaining EXCEPT ![b] = 0]
    /\ Goto(b, "none")
    /\ UNCHANGED <<taken, blocks, max_order, i, mapVars>>

----------------------------------------------------------------------------
(* The views of a buffer.                                                  *)
Pages(block) == [k \in 1 .. Size(block.order) |-> block.start + k - 1]

Views == Cardinality({b \in Buffers : att[b] # Unattached})
         + Cardinality({b \in Buffers : user[b] # Unmapped})
MayView(b) == pc[b] = "ready" /\ Views + vmap_cnt[b] < MaxViews

(* dma32_heap_attach copies the table (two kzallocs and sg_alloc_table may *)
(* fail and undo each other); dma32_heap_detach frees the copy.            *)
Attach(b) ==
    /\ MayView(b)
    /\ att[b] = Unattached
    /\ \/ att' = [att EXCEPT ![b] = [table |-> blocks[b], mapped |-> FALSE]]
       \/ "attach" \in Faults /\ UNCHANGED att
    /\ UNCHANGED <<taken, blocks, pc, loopVars, vmap_cnt, vaddr, user>>

Detach(b) ==
    /\ att[b] # Unattached /\ ~att[b].mapped
    /\ att' = [att EXCEPT ![b] = Unattached]
    /\ UNCHANGED <<taken, blocks, pc, loopVars, vmap_cnt, vaddr, user>>

MapDmaBuf(b) ==
    /\ att[b] # Unattached /\ ~att[b].mapped
    /\ \/ att' = [att EXCEPT ![b].mapped = TRUE]
       \/ "map" \in Faults /\ UNCHANGED att
    /\ UNCHANGED <<taken, blocks, pc, loopVars, vmap_cnt, vaddr, user>>

UnmapDmaBuf(b) ==
    /\ att[b].mapped
    /\ att' = [att EXCEPT ![b].mapped = FALSE]
    /\ UNCHANGED <<taken, blocks, pc, loopVars, vmap_cnt, vaddr, user>>

RemapUncut(b, n) ==                  \* mutant: an entry that ends past the vma is mapped whole
    LET walk[k \in 0 .. Len(blocks[b])] ==
            IF k = 0 THEN <<>>
            ELSE IF Len(walk[k - 1]) >= n THEN walk[k - 1]
            ELSE walk[k - 1] \o Pages(blocks[b][k])
    IN walk[Len(blocks[b])]

(* The loop of dma32_heap_mmap for a vma of n pages: entry by entry, the   *)
(* last one cut to what remains of the vma.                                *)
Remap(b, n) ==
    LET walk[k \in 0 .. Len(blocks[b])] ==
            IF k = 0 THEN <<>>
            ELSE LET remainder == n - Len(walk[k - 1])
                     size == Size(blocks[b][k].order)
                     length == IF size > remainder THEN remainder ELSE size
                 IN walk[k - 1] \o SubSeq(Pages(blocks[b][k]), 1, length)
    IN walk[Len(blocks[b])]

(* dma32_heap_mmap, which does not look at vm_pgoff.  The dma-buf core     *)
(* checks that the vma lies in the buffer, and takes back what was mapped  *)
(* when remap_pfn_range fails.                                             *)
Mmap(b, offset, n) ==
    /\ MayView(b)
    /\ user[b] = Unmapped
    /\ offset + n <= len[b]
    /\ \/ user' = [user EXCEPT ![b] = [offset |-> offset, size |-> n, pages |-> Remap(b, n)]]
       \/ "remap" \in Faults /\ UNCHANGED user
    /\ UNCHANGED <<taken, blocks, pc, loopVars, vmap_cnt, vaddr, att>>

Munmap(b) ==
    /\ user[b] # Unmapped
    /\ user' = [user EXCEPT ![b] = Unmapped]
    /\ UNCHANGED <<taken, blocks, pc, loopVars, vmap_cnt, vaddr, att>>

(* The array of pages of dma32_heap_vmap, of which vmap takes npages.      *)
PageArray(b) ==
    LET walk[k \in 0 .. Len(blocks[b])] ==
            IF k = 0 THEN <<>> ELSE walk[k - 1] \o Pages(blocks[b][k])
    IN SubSeq(walk[Len(blocks[b])], 1, len[b])

(* dma32_heap_vmap and dma32_heap_vunmap, each under buffer->lock: the     *)
(* first caller maps, the last one unmaps.                                 *)
Vmap(b) ==
    /\ MayView(b)
    /\ \/ /\ vmap_cnt' = [vmap_cnt EXCEPT ![b] = @ + 1]
          /\ vaddr' = [vaddr EXCEPT ![b] = IF vmap_cnt[b] = 0 THEN PageArray(b) ELSE @]
       \/ vmap_cnt[b] = 0 /\ "vmap" \in Faults /\ UNCHANGED <<vmap_cnt, vaddr>>
    /\ UNCHANGED <<taken, blocks, pc, loopVars, att, user>>

Vunmap(b) ==
    /\ vmap_cnt[b] > 0
    /\ vmap_cnt' = [vmap_cnt EXCEPT ![b] = @ - 1]
    /\ vaddr' = [vaddr EXCEPT ![b] = IF vmap_cnt[b] > 1 THEN @ ELSE <<>>]
    /\ UNCHANGED <<taken, blocks, pc, loopVars, att, user>>

(* The last reference on the dma-buf is dropped; whoever has a view holds  *)
(* one.                                                                    *)
Release(b) ==
    /\ pc[b] = "ready"
    /\ vmap_cnt[b] = 0 /\ att[b] = Unattached /\ user[b] = Unmapped
    /\ Goto(b, "release")
    /\ UNCHANGED <<taken, blocks, loopVars, mapVars>>

----------------------------------------------------------------------------
Step(b) ==
    \/ Interrupted(b) \/ SkipOrder(b) \/ TakeBlock(b) \/ Table(b) \/ Export(b)
    \/ FreePage(b) \/ FreeBuffer(b)

Next ==
    \E b \in Buffers :
        \/ Step(b)
        \/ \E n \in Lengths : Allocate(b, n)
        \/ Attach(b) \/ Detach(b) \/ MapDmaBuf(b) \/ UnmapDmaBuf(b)
        \/ \E offset \in 0 .. 1, n \in Lengths : Mmap(b, offset, n)
        \/ Munmap(b) \/ Vmap(b) \/ Vunmap(b) \/ Release(b)

Spec == Init /\ [][Next]_vars

(* A caller inside dma32_heap_allocate or the release keeps running.       *)
FairSpec == Spec /\ \A b \in Buffers : WF_vars(Step(b))
----------------------------------------------------------------------------
(* The frames that are handed out are those of the buffers: none is lost   *)
(* when an allocation is interrupted, runs out of pages, or fails in       *)
(* sg_alloc_table or dma_buf_export, and none is in two buffers.  A buffer *)
(* that is exported has exactly the length that was asked for, although    *)
(* blocks of different sizes were tried in turn: what has been found and   *)
(* what remains always add up, and size_remaining never wraps.             *)
PagesExact ==
    /\ taken = UNION {FramesIn(blocks[b]) : b \in Buffers}
    /\ \A b, c \in Buffers :
          \A x \in DOMAIN blocks[b], y \in DOMAIN blocks[c] :
              FramesOf(blocks[b][x]) \cap FramesOf(blocks[c][y]) # {} => b = c /\ x = y
    /\ \A b \in Buffers :
          pc[b] \in {"loop", "export", "ready"} =>
              /\ Cardinality(FramesIn(blocks[b])) + remaining[b] = len[b]
              /\ remaining[b] >= 0 /\ (pc[b] # "loop" => remaining[b] = 0)

(* Devices, kernel and user space see the same page at the same place of a *)
(* buffer, though each gets there in its own way: page j is the one that   *)
(* lies j pages into the blocks, in the order they were found; and nobody  *)
(* sees a buffer that is being released.  A mapping in user space that     *)
(* does not begin at the start of the buffer is excepted: it shows the     *)
(* start all the same.                                                     *)
SizeOfFirst(s, k) == Cardinality(FramesIn(SubSeq(s, 1, k)))
PageAt(s, j) ==
    CHOOSE f \in FramesIn(s) : \E k \in DOMAIN s :
        f \in FramesOf(s[k]) /\ SizeOfFirst(s, k - 1) + (f - s[k].start) + 1 = j
FirstPages(b, n) == [j \in 1 .. n |-> PageAt(blocks[b], j)]

ViewsAgree ==
    \A b \in Buffers :
        /\ vaddr[b] = IF vmap_cnt[b] > 0 THEN FirstPages(b, len[b]) ELSE <<>>
        /\ user[b].offset = 0 => user[b].pages = FirstPages(b, user[b].size)
        /\ att[b] # Unattached => att[b].table = blocks[b] /\ pc[b] = "ready"

(* README and FEATURES.md: all allocations are below 4 GB.  Only the first *)
(* page of a block is compared with the limit.                             *)
Below4GB == \A b \in Buffers : \A f \in FramesIn(blocks[b]) : f < Limit

(* An allocation comes to an end: a buffer, or everything given back.      *)
AllocationEnds == \A b \in Buffers : (pc[b] = "loop") ~> (pc[b] \in {"ready", "none"})
=============================================================================
