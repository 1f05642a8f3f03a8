----------------------------- MODULE RknpuSync -----------------------------
(***************************************************************************)
(* MEM_SYNC: which memory the cache maintenance of a sync reaches.         *)
(* rknpu_dma_buf_sync (rknpu_mem.c) and rknpu_gem_sync_ioctl (rknpu_gem.c) *)
(* walk the scatterlist of a buffer and sync the part of each entry that   *)
(* lies in the range the client gave; one step is one entry.  The first    *)
(* walk takes 32-bit arguments from a 64-bit ioctl and computes the        *)
(* address of an entry from that of the first one.  The second also syncs  *)
(* the whole table beforehand, for another struct device, and ignores that *)
(* a buffer with SRAM has it in front of its table: the call of            *)
(* rknpu_cache_sync is compiled out without CONFIG_NO_GKI.                 *)
(*                                                                         *)
(* A call has one direction; with both flags all of it is done twice.      *)
(***************************************************************************)
EXTENDS Integers, Sequences

CONSTANTS Tables,   \* the scatterlists of the buffers: sequences of Entry
          MemWord,  \* u32 and unsigned int of rknpu_dma_buf_sync: 2^32
          GemWord,  \* unsigned long of rknpu_gem_sync_ioctl: 2^64
          SramSizes,  \* the amounts of SRAM in front of a GEM object's table
          Args      \* bound: the offsets and sizes a client passes

(* sg->length, sg_dma_address or sg_phys, and where in the table the entry *)
(* starts, which the code has to add up.                                   *)
Entry == [length : Nat \ {0}, addr : Nat, start : Nat]

(* One entry starts where the one before it ends, and a buffer is smaller  *)
(* than what the words can count.                                          *)
TableOK(t) ==
    /\ t # <<>> /\ t[1].start = 0
    /\ \A k, m \in DOMAIN t :
          /\ k < m => t[k].start + t[k].length <= t[m].start
          /\ m = k + 1 => t[k].start + t[k].length = t[m].start
    /\ \A k \in DOMAIN t :
          t[k].start + t[k].length < MemWord /\ t[k].start + t[k].length < GemWord

ASSUME SyncAssumption ==
    /\ Tables \subseteq Seq(Entry)
    /\ MemWord \in Nat \ {0} /\ GemWord \in Nat \ {0}
    /\ \A t \in Tables : TableOK(t)
    /\ SramSizes \subseteq Nat
    /\ Args \subseteq 0 .. GemWord - 1

VARIABLES path,    \* "none", or the kind of object and its sync, see Paths
          table,   \* its sg_table
          sram,    \* its sram_size
          args,    \* args->offset and args->size
          offset, length, len, i,   \* the locals of the walk, i from 1
          sg_dma_addr,  \* the address rknpu_dma_buf_sync computes
          flushed, \* the addresses that were synced with the whole table
          synced   \* the addresses that were synced by the walk

locals == <<offset, length, len, i, sg_dma_addr>>
buffer == <<table, sram>>
vars == <<path, buffer, args, locals, flushed, synced>>

(* An object of the misc device, a GEM object whose memory is in one piece *)
(* and one with RKNPU_MEM_NON_CONTIGUOUS.                                  *)
Paths == {"mem", "gem_single", "gem_sg"}

Word == IF path = "mem" THEN MemWord ELSE GemWord
Region(addr, size) == addr .. addr + size - 1
EntryRegion(k) == Region(table[k].addr, table[k].length)
Buffer == UNION {EntryRegion(k) : k \in DOMAIN table}

Init ==
    /\ path = "none"
    /\ table \in Tables
    /\ sram \in SramSizes
    /\ args = [offset |-> 0, size |-> 0]
    /\ offset = 0 /\ length = 0 /\ len = 0 /\ i = 1 /\ sg_dma_addr = 0
    /\ flushed = {} /\ synced = {}

----------------------------------------------------------------------------
(* The u32 parameters of rknpu_dma_buf_sync.                               *)
ToU32(x) == x % MemWord

(* rknpu_mem_sync_ioctl, once it has found the object in the session.      *)
MemSync(o, s) ==
    /\ path = "none" /\ sram = 0
    /\ path' = "mem"
    /\ args' = [offset |-> o, size |-> s]
    /\ offset' = ToU32(o) /\ length' = ToU32(s)
    /\ len' = 0 /\ i' = 1
    /\ sg_dma_addr' = table[1].addr
    /\ UNCHANGED <<buffer, flushed, synced>>

(* rknpu_gem_sync_ioctl of a non-contiguous object: all of the table for   *)
(* dev->dev, then the walk for fake_dev.                                   *)
GemSync(o, s) ==
    /\ path = "none"
    /\ path' = "gem_sg"
    /\ args' = [offset |-> o, size |-> s]
    /\ offset' = o /\ length' = s
    /\ len' = 0 /\ i' = 1
    /\ flushed' = Buffer
    /\ UNCHANGED <<buffer, sg_dma_addr, synced>>

(* The same of a contiguous one: the range goes to the DMA API as it is.   *)
GemSyncSingle(o, s) ==
    /\ path = "none"
    /\ Len(table) = 1 /\ sram = 0
    /\ path' = "gem_single"
    /\ args' = [offset |-> o, size |-> s]
    /\ synced' = Region(table[1].addr + o, s)
    /\ i' = 2
    /\ UNCHANGED <<buffer, offset, length, len, sg_dma_addr, flushed>>

----------------------------------------------------------------------------
(* The arithmetic of one entry, which both walks share: n is len with the  *)
(* entry counted.                                                          *)
SgLeft(n) == (n - offset) % Word
SgOffsetNone(k, n) == 0          \* mutant: sync from the start of the entry
SgOffset(k, n) == (table[k].length - SgLeft(n)) % Word

Chunk(n) == IF length < SgLeft(n) THEN length ELSE SgLeft(n)

SyncEntry(addr, n) ==
    /\ synced' = synced \cup Region(addr + SgOffset(i, n), Chunk(n))
    /\ offset' = (offset + Chunk(n)) % Word
    /\ length' = (length - Chunk(n)) % Word

(* One iteration of rknpu_dma_buf_sync.                                    *)
MemWalk ==
    LET n == (len + table[i].length) % Word
    IN  /\ path = "mem" /\ i <= Len(table)
        /\ len' = n
        /\ sg_dma_addr' = sg_dma_addr + table[i].length
        /\ IF n <= offset
           THEN i' = i + 1 /\ UNCHANGED <<offset, length, synced>>
           ELSE /\ SyncEntry(sg_dma_addr, n)
                /\ i' = IF length' = 0 THEN Len(table) + 1 ELSE i + 1
        /\ UNCHANGED <<path, buffer, args, flushed>>

(* One iteration of the loop of rknpu_gem_sync_ioctl.                      *)
GemWalk ==
    LET n == (len + table[i].length) % Word
    IN  /\ path = "gem_sg" /\ i <= Len(table)
        /\ IF length = 0
           THEN i' = Len(table) + 1 /\ UNCHANGED <<len, offset, length, synced>>
           ELSE /\ len' = n
                /\ i' = i + 1
                /\ IF n <= offset THEN UNCHANGED <<offset, length, synced>>
                                  ELSE SyncEntry(table[i].addr, n)
        /\ UNCHANGED <<path, buffer, args, sg_dma_addr, flushed>>

Finished == path # "none" /\ i > Len(table)

(* The ioctl returns; the next one may be for another buffer.              *)
Return ==
    /\ Finished
    /\ path' = "none"
    /\ table' \in Tables /\ sram' \in SramSizes
    /\ args' = [offset |-> 0, size |-> 0]
    /\ offset' = 0 /\ length' = 0 /\ len' = 0 /\ i' = 1 /\ sg_dma_addr' = 0
    /\ flushed' = {} /\ synced' = {}

Next ==
    \/ \E o, s \in Args : MemSync(o, s) \/ GemSync(o, s) \/ GemSyncSingle(o, s)
    \/ MemWalk \/ GemWalk \/ Return

Spec == Init /\ [][Next]_vars
----------------------------------------------------------------------------
(* Each entry begins where the one before it ends, as behind an IOMMU:     *)
(* what the address computation of rknpu_dma_buf_sync relies on.           *)
Adjacent ==
    \A k \in 1 .. Len(table) - 1 : table[k + 1].addr = table[k].addr + table[k].length
WalkApplies == path = "gem_sg" \/ (path = "mem" /\ Adjacent)

(* The addresses of the bytes offset .. offset + size - 1 of the buffer,   *)
(* those in SRAM left out.                                                 *)
Requested ==
    UNION {{table[k].addr + b : b \in
               {b \in 0 .. table[k].length - 1 :
                   sram + table[k].start + b \in args.offset .. args.offset + args.size - 1}}
           : k \in DOMAIN table}

(* A sync that has returned has reached each byte of the requested range   *)
(* that the buffer has outside SRAM, and the walk of a buffer without SRAM *)
(* has synced no other byte of it, wherever the range begins and ends in   *)
(* the table (for arguments that fit the width).  A walk never does cache  *)
(* maintenance outside the buffer, whatever the arguments are.             *)
SyncExact ==
    /\ WalkApplies => synced \subseteq Buffer
    /\ (Finished /\ (WalkApplies \/ path = "gem_single")
                 /\ args.offset < Word /\ args.size < Word) =>
          /\ Requested \subseteq flushed \cup synced
          /\ sram = 0 => synced \cap Buffer = Requested
=============================================================================
