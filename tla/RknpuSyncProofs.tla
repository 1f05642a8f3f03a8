-------------------------- MODULE RknpuSyncProofs --------------------------
(***************************************************************************)
(* MEM_SYNC reaches what it is asked to reach and nothing else, for every  *)
(* scatterlist, every width of the words and all arguments.                *)
(*                                                                         *)
(* SyncExact says what a walk that has returned has done; the invariant    *)
(* says what it has done at each entry.  Of the range, what lies in front  *)
(* of "offset" is synced and "length" is what is left of it; "len" is      *)
(* where the next entry starts, and "offset" is not in front of it unless  *)
(* nothing is left.  So the subtractions of the code never wrap.           *)
(***************************************************************************)
EXTENDS RknpuSync, TLAPS

(* The range as the walk got it, in words of its width.                    *)
First == args.offset % Word
Total == args.size % Word

(* The addresses of the bytes a .. z - 1 of the table.                     *)
Bytes(a, z) ==
    UNION {{table[k].addr + b : b \in
               {b \in 0 .. table[k].length - 1 : table[k].start + b \in a .. z - 1}}
           : k \in DOMAIN table}

SyncTypeOK ==
    /\ path \in Paths \cup {"none"}
    /\ table \in Tables /\ sram \in SramSizes
    /\ args \in [offset : Nat, size : Nat]
    /\ i \in 1 .. Len(table) + 1
    /\ offset \in Nat /\ length \in Nat

Walking == path \in {"mem", "gem_sg"}

(* What is left of the range.                                              *)
RangeInv == First <= offset /\ offset + length = First + Total

(* Where the walk is.                                                      *)
PlaceInv ==
    /\ i \in DOMAIN table =>
          /\ len = table[i].start
          /\ len <= offset \/ (length = 0 /\ path = "gem_sg")
          /\ path = "mem" /\ Adjacent => sg_dma_addr = table[i].addr
    /\ i \notin DOMAIN table =>
          length = 0 \/ \A k \in DOMAIN table : table[k].start + table[k].length <= offset

DoneInv == WalkApplies => synced = Bytes(First, offset)

SyncInv ==
    /\ SyncTypeOK
    /\ path = "none" => synced = {}
    /\ path = "mem" => sram = 0
    /\ path = "gem_sg" => flushed = Buffer /\ args.offset < GemWord /\ args.size < GemWord
    /\ path = "gem_single" =>
          /\ Len(table) = 1 /\ sram = 0
          /\ synced = Region(table[1].addr + args.offset, args.size)
    /\ Walking => RangeInv /\ PlaceInv /\ DoneInv

----------------------------------------------------------------------------
(* A number that fits its word is not reduced.                             *)
LEMMA FitsWord == ASSUME NEW w \in Nat \ {0}, NEW x \in 0 .. w - 1 PROVE x % w = x
OBVIOUS

(* A reduced number fits.                                                  *)
LEMMA Reduced == ASSUME NEW w \in Nat \ {0}, NEW x \in Nat PROVE x % w \in 0 .. w - 1
OBVIOUS

(* A piece of at most what is left is done.                                *)
LEMMA PieceDone ==
    ASSUME NEW o \in Nat, NEW l \in Nat, NEW c \in Nat, c <= l
    PROVE  o + c \in Nat /\ l - c \in Nat /\ o <= o + c /\ (o + c) + (l - c) = o + l
OBVIOUS

(* What is known of the table of the buffer.                               *)
LEMMA TableFacts ==
    ASSUME table \in Tables
    PROVE  /\ Word \in Nat \ {0} /\ Len(table) \in Nat \ {0} /\ DOMAIN table = 1 .. Len(table)
           /\ \A k \in DOMAIN table :
                 /\ table[k].length \in Nat \ {0} /\ table[k].addr \in Nat
                 /\ table[k].start \in Nat
                 /\ table[k].start + table[k].length < Word
           /\ table[1].start = 0
           /\ \A k, m \in DOMAIN table :
                 /\ k < m => table[k].start + table[k].length <= table[m].start
                 /\ m = k + 1 => table[k].start + table[k].length = table[m].start
<1>1. table \in Seq(Entry) /\ TableOK(table) /\ MemWord \in Nat \ {0} /\ GemWord \in Nat \ {0}
  BY SyncAssumption
<1>2. \A k \in DOMAIN table : table[k] \in Entry
  BY <1>1
<1>3. table # <<>>
  BY <1>1 DEF TableOK
<1>4. Len(table) \in Nat \ {0} /\ DOMAIN table = 1 .. Len(table)
  BY <1>1, <1>3
<1>5. QED
  BY <1>1, <1>2, <1>4 DEF TableOK, Entry, Word

(* Membership, spelt out.                                                  *)
LEMMA BytesMember ==
    ASSUME NEW a, NEW z, NEW x
    PROVE  x \in Bytes(a, z) <=>
              \E k \in DOMAIN table : \E b \in 0 .. table[k].length - 1 :
                  x = table[k].addr + b /\ table[k].start + b \in a .. z - 1
BY DEF Bytes

(* Nothing is in an empty range.                                           *)
LEMMA BytesEmpty == ASSUME NEW a \in Nat PROVE Bytes(a, a) = {}
<1>1. a .. a - 1 = {}
  OBVIOUS
<1>2. QED
  BY <1>1 DEF Bytes

(* All of it belongs to the buffer.                                        *)
LEMMA BytesInBuffer ==
    ASSUME table \in Tables, NEW a, NEW z
    PROVE  Bytes(a, z) \subseteq Buffer
<1> SUFFICES ASSUME NEW x \in Bytes(a, z) PROVE x \in Buffer
  OBVIOUS
<1>1. PICK k \in DOMAIN table : \E b \in 0 .. table[k].length - 1 : x = table[k].addr + b
  BY BytesMember
<1>2. x \in EntryRegion(k)
  BY <1>1, TableFacts DEF EntryRegion, Region
<1>3. QED
  BY <1>2 DEF Buffer

(* c bytes of entry k from o on, up to p, the first of them at address d.  *)
Piece(k, o, c, p, d) ==
    /\ o \in Nat /\ c \in Nat
    /\ table[k].start <= o /\ o + c <= table[k].start + table[k].length
    /\ p = o + c /\ d = table[k].addr + (o - table[k].start)

(* The range grows by a piece of one entry.                                *)
LEMMA BytesGrow ==
    ASSUME table \in Tables, NEW k \in DOMAIN table, NEW a \in Nat, NEW o, NEW c, NEW p, NEW d,
           a <= o, Piece(k, o, c, p, d)
    PROVE  Bytes(a, p) = Bytes(a, o) \cup Region(d, c)
<1> USE DEF Piece
<1>0. p \in Nat /\ p = o + c /\ p <= table[k].start + table[k].length
  OBVIOUS
<1>1. /\ table[k].length \in Nat /\ table[k].addr \in Nat /\ table[k].start \in Nat
      /\ DOMAIN table \subseteq Nat
  BY TableFacts
<1>2. ASSUME NEW x \in Bytes(a, p), x \notin Bytes(a, o)
      PROVE  x \in Region(d, c)
  <2>1. PICK m \in DOMAIN table : \E b \in 0 .. table[m].length - 1 :
            x = table[m].addr + b /\ table[m].start + b \in a .. p - 1
    BY <1>2, BytesMember
  <2> PICK b \in 0 .. table[m].length - 1 :
          x = table[m].addr + b /\ table[m].start + b \in a .. p - 1
    BY <2>1
  <2>2. ~(table[m].start + b \in a .. o - 1)
    BY <1>2, BytesMember
  <2>3. /\ table[m].length \in Nat /\ table[m].addr \in Nat /\ table[m].start \in Nat
        /\ m \in Nat /\ k \in Nat
    BY <1>1, TableFacts
  <2>4. o <= table[m].start + b /\ table[m].start + b < p
    BY <2>1, <2>2, <2>3
  <2>5. m = k
    <3>1. ~(m < k)
      <4>1. m < k => table[m].start + table[m].length <= table[k].start
        BY TableFacts
      <4>2. QED
        BY <1>1, <2>3, <2>4, <4>1
    <3>2. ~(k < m)
      <4>1. k < m => table[k].start + table[k].length <= table[m].start
        BY TableFacts
      <4>2. QED
        BY <1>1, <2>3, <2>4, <4>1
    <3>3. QED
      BY <2>3, <3>1, <3>2
  <2>6. QED
    BY <1>1, <2>1, <2>4, <2>5 DEF Region
<1>3. ASSUME NEW x \in Region(d, c) PROVE x \in Bytes(a, p)
  <2>1. x \in Int /\ d <= x /\ x < d + c /\ d \in Int
    BY <1>1 DEF Region
  <2>2. PICK b \in Int : b = x - table[k].addr
    BY <1>1, <2>1
  <2>3. x = table[k].addr + b
    BY <1>1, <2>1, <2>2
  <2>4. o <= table[k].start + b /\ table[k].start + b < p
    BY <1>1, <2>1, <2>2
  <2>5. b \in 0 .. table[k].length - 1
    BY <1>0, <1>1, <2>4
  <2>6. table[k].start + b \in a .. p - 1
    BY <1>0, <1>1, <2>4
  <2>7. QED
    BY <2>3, <2>5, <2>6, BytesMember
<1>4. ASSUME NEW x \in Bytes(a, o) PROVE x \in Bytes(a, p)
  <2>1. PICK m \in DOMAIN table : \E b \in 0 .. table[m].length - 1 :
            x = table[m].addr + b /\ table[m].start + b \in a .. o - 1
    BY BytesMember
  <2> PICK b \in 0 .. table[m].length - 1 :
          x = table[m].addr + b /\ table[m].start + b \in a .. o - 1
    BY <2>1
  <2>2. \A n \in Int : n \in a .. o - 1 => n \in a .. p - 1
    BY <1>0
  <2>3. table[m].start + b \in Int
    BY TableFacts
  <2>4. table[m].start + b \in a .. p - 1
    BY <2>2, <2>3, Zenon
  <2>5. QED
    BY <2>4, BytesMember
<1>5. QED
  BY <1>2, <1>3, <1>4

(* Behind the end of the table there is nothing.                           *)
LEMMA BytesPastEnd ==
    ASSUME table \in Tables, NEW a \in Nat, NEW o \in Nat, NEW z \in Nat, o <= z,
           \A k \in DOMAIN table : table[k].start + table[k].length <= o
    PROVE  Bytes(a, o) = Bytes(a, z)
<1>1. ASSUME NEW k \in DOMAIN table, NEW b \in 0 .. table[k].length - 1
      PROVE  table[k].start + b \in a .. o - 1 <=> table[k].start + b \in a .. z - 1
  <2>1. table[k].start \in Nat /\ table[k].length \in Nat \ {0}
    BY TableFacts
  <2>2. table[k].start + table[k].length <= o
    OBVIOUS
  <2>3. QED
    BY <2>1, <2>2
<1>2. ASSUME NEW x \in Bytes(a, o) PROVE x \in Bytes(a, z)
  <2>1. PICK k \in DOMAIN table : \E b \in 0 .. table[k].length - 1 :
            x = table[k].addr + b /\ table[k].start + b \in a .. o - 1
    BY BytesMember
  <2> PICK b \in 0 .. table[k].length - 1 :
          x = table[k].addr + b /\ table[k].start + b \in a .. o - 1
    BY <2>1
  <2>2. table[k].start + b \in a .. z - 1
    BY <1>1
  <2>3. QED
    BY <2>2, BytesMember
<1>3. ASSUME NEW x \in Bytes(a, z) PROVE x \in Bytes(a, o)
  <2>1. PICK k \in DOMAIN table : \E b \in 0 .. table[k].length - 1 :
            x = table[k].addr + b /\ table[k].start + b \in a .. z - 1
    BY BytesMember
  <2> PICK b \in 0 .. table[k].length - 1 :
          x = table[k].addr + b /\ table[k].start + b \in a .. z - 1
    BY <2>1
  <2>2. table[k].start + b \in a .. o - 1
    BY <1>1
  <2>3. QED
    BY <2>2, BytesMember
<1>4. QED
  BY <1>2, <1>3

----------------------------------------------------------------------------
(* The range fits the words of the walk.                                   *)
LEMMA RangeFits ==
    ASSUME SyncInv
    PROVE  /\ First \in 0 .. Word - 1 /\ Total \in 0 .. Word - 1
           /\ First \in Nat /\ Total \in Nat
<1>1. args.offset \in Nat /\ args.size \in Nat /\ Word \in Nat \ {0}
  BY TableFacts DEF SyncInv, SyncTypeOK
<1> DEFINE w == Word
<1>2. args.offset % w \in 0 .. w - 1 /\ args.size % w \in 0 .. w - 1
  <2>1. w \in Nat \ {0}
    BY <1>1
  <2> HIDE DEF w
  <2> QED BY <1>1, <2>1, Reduced
<1>3. First \in 0 .. Word - 1 /\ Total \in 0 .. Word - 1
  BY <1>2 DEF First, Total
<1>4. QED
  BY <1>1, <1>3

(* One entry of a walk: what SyncEntry does when nothing wraps.            *)
LEMMA EntryArithmetic ==
    ASSUME SyncInv, Walking, i \in DOMAIN table, len <= offset
    PROVE  LET n == (len + table[i].length) % Word
           IN  /\ n = table[i].start + table[i].length
               /\ n > offset =>
                     /\ SgLeft(n) = n - offset
                     /\ SgOffset(i, n) = offset - table[i].start
                     /\ Chunk(n) \in Nat /\ Chunk(n) <= length
                     /\ offset + Chunk(n) <= n
                     /\ Chunk(n) = length \/ offset + Chunk(n) = n
                     /\ \A addr : SyncEntry(addr, n) =>
                           /\ offset' = offset + Chunk(n)
                           /\ length' = length - Chunk(n)
                           /\ synced' = synced \cup
                                 Region(addr + (offset - table[i].start), Chunk(n))
<1> DEFINE w == Word
           start == table[i].start
           size == table[i].length
           n == (len + size) % w
<1>1. /\ w \in Nat \ {0} /\ start \in Nat /\ size \in Nat \ {0} /\ start + size < w
      /\ offset \in Nat /\ length \in Nat /\ len = start
  BY TableFacts DEF SyncInv, SyncTypeOK, PlaceInv, Walking
<1>2. n = start + size
  BY <1>1, FitsWord
<1>3. length < w
  <2>1. First \in Nat /\ Total \in 0 .. w - 1
    BY RangeFits
  <2>2. First <= offset /\ offset + length = First + Total
    BY DEF SyncInv, RangeInv
  <2>3. QED
    BY <1>1, <2>1, <2>2
<1>4. ASSUME n > offset
      PROVE  /\ SgLeft(n) = n - offset
             /\ SgOffset(i, n) = offset - start
             /\ Chunk(n) \in Nat /\ Chunk(n) <= length
             /\ offset + Chunk(n) <= n
             /\ Chunk(n) = length \/ offset + Chunk(n) = n
  <2>1. n - offset \in 0 .. w - 1
    BY <1>1, <1>2, <1>4
  <2>2. SgLeft(n) = n - offset
    <3> HIDE DEF n
    <3> QED BY <1>1, <2>1, FitsWord DEF SgLeft
  <2>3. size - (n - offset) = offset - start /\ offset - start \in 0 .. w - 1
    BY <1>1, <1>2, <1>4
  <2>4. SgOffset(i, n) = offset - start
    <3> HIDE DEF n
    <3> QED BY <1>1, <2>2, <2>3, FitsWord DEF SgOffset
  <2>5. Chunk(n) = IF length < n - offset THEN length ELSE n - offset
    <3> HIDE DEF n
    <3> QED BY <2>2 DEF Chunk
  <2>6. QED
    <3>1. n \in Nat
      BY <1>1, <1>2
    <3> HIDE DEF n
    <3>2. QED
      BY <1>1, <1>4, <2>2, <2>4, <2>5, <3>1
<1>5. ASSUME n > offset, NEW addr, SyncEntry(addr, n)
      PROVE  /\ offset' = offset + Chunk(n)
             /\ length' = length - Chunk(n)
             /\ synced' = synced \cup Region(addr + (offset - start), Chunk(n))
  <2>1. /\ SgOffset(i, n) = offset - start
        /\ Chunk(n) \in Nat /\ Chunk(n) <= length /\ offset + Chunk(n) <= n
    BY <1>4, <1>5
  <2>2. n \in Nat /\ n < w
    BY <1>1, <1>2
  <2> HIDE DEF n
  <2>3. offset + Chunk(n) \in 0 .. w - 1
    BY <1>1, <2>1, <2>2
  <2>4. offset' = offset + Chunk(n)
    BY <1>1, <1>5, <2>3, FitsWord DEF SyncEntry
  <2>5. length - Chunk(n) \in 0 .. w - 1
    BY <1>1, <1>3, <2>1
  <2>6. QED
    BY <1>1, <1>5, <2>1, <2>4, <2>5, FitsWord DEF SyncEntry
<1>6. QED
  BY <1>2, <1>4, <1>5

----------------------------------------------------------------------------
(* What depends on the call alone stays as it is during a walk.            *)
LEMMA SameCall ==
    ASSUME path' = path, table' = table, args' = args
    PROVE  /\ First' = First /\ Total' = Total /\ Word' = Word
           /\ WalkApplies' = WalkApplies /\ Adjacent' = Adjacent /\ Buffer' = Buffer
           /\ Bytes(First, offset)' = Bytes(First, offset')
<1>1. Word' = Word
  BY DEF Word
<1>2. First' = First /\ Total' = Total
  BY <1>1 DEF First, Total
<1>3. Adjacent' = Adjacent
  BY DEF Adjacent
<1>4. WalkApplies' = WalkApplies
  BY <1>3 DEF WalkApplies
<1>5. Buffer' = Buffer
  BY DEF Buffer, EntryRegion
<1>6. Bytes(First, offset)' = Bytes(First, offset')
  BY <1>2 DEF Bytes
<1>7. QED
  BY <1>1, <1>2, <1>3, <1>4, <1>5, <1>6

(* A step of a walk changes its locals and what it synced: what is left to *)
(* show is where it is now.                                                *)
LEMMA WalkStep ==
    ASSUME SyncInv, Walking, UNCHANGED <<path, buffer, args, flushed>>,
           i' \in 1 .. Len(table) + 1, offset' \in Nat, length' \in Nat,
           offset <= offset', offset' + length' = offset + length,
           WalkApplies => synced' = Bytes(First, offset'), PlaceInv'
    PROVE  SyncInv'
<1>1. path' = path /\ table' = table /\ args' = args /\ sram' = sram /\ flushed' = flushed
  BY DEF buffer
<1>2. /\ First' = First /\ Total' = Total /\ WalkApplies' = WalkApplies /\ Buffer' = Buffer
      /\ Bytes(First, offset)' = Bytes(First, offset')
  BY <1>1, SameCall
<1>3. SyncTypeOK'
  BY <1>1 DEF SyncInv, SyncTypeOK
<1>4. First \in Nat /\ Total \in Nat
  BY RangeFits
<1>5. RangeInv'
  <2>1. First <= offset /\ offset + length = First + Total /\ offset \in Nat /\ length \in Nat
    BY DEF SyncInv, RangeInv, SyncTypeOK
  <2>2. First <= offset' /\ offset' + length' = First + Total
    <3>1. First <= offset'
      BY <1>4, <2>1
    <3>2. offset' + length' = First + Total
      BY <2>1, Zenon
    <3>3. QED
      BY <3>1, <3>2
  <2>3. First' = First /\ Total' = Total
    BY <1>2
  <2>4. QED
    BY <2>2, <2>3 DEF RangeInv
<1>6. DoneInv'
  BY <1>2 DEF DoneInv
<1>7. path' \in {"mem", "gem_sg"}
  BY <1>1 DEF Walking
<1>8. QED
  BY <1>1, <1>2, <1>3, <1>5, <1>6, <1>7 DEF SyncInv

(* The walk goes on to the next entry, or ends behind the last one.        *)
LEMMA NextPlace ==
    ASSUME SyncInv, Walking, i \in DOMAIN table, UNCHANGED <<path, buffer, args>>,
           i' = i + 1, offset' \in Nat, len' = table[i].start + table[i].length,
           path = "mem" => sg_dma_addr' = sg_dma_addr + table[i].length,
           len' <= offset' \/ (length' = 0 /\ path = "gem_sg")
    PROVE  PlaceInv'
<1>1. /\ path' = path /\ table' = table /\ args' = args
  BY DEF buffer
<1>2. Adjacent' = Adjacent
  BY <1>1, SameCall
<1>3. /\ Len(table) \in Nat /\ DOMAIN table = 1 .. Len(table) /\ i \in 1 .. Len(table)
      /\ table[i].start \in Nat /\ table[i].length \in Nat
  BY TableFacts DEF SyncInv, SyncTypeOK
<1>4. ASSUME i + 1 \in DOMAIN table
      PROVE  /\ len' = table[i + 1].start
             /\ path = "mem" /\ Adjacent => sg_dma_addr' = table[i + 1].addr
  <2>1. table[i].start + table[i].length = table[i + 1].start
    BY <1>4, TableFacts DEF SyncInv, SyncTypeOK
  <2>2. ASSUME path = "mem", Adjacent PROVE sg_dma_addr' = table[i + 1].addr
    <3>1. table[i + 1].addr = table[i].addr + table[i].length
      BY <1>3, <1>4, <2>2 DEF Adjacent
    <3>2. sg_dma_addr = table[i].addr
      BY <2>2 DEF SyncInv, PlaceInv, Walking
    <3>3. QED
      BY <2>2, <3>1, <3>2
  <2>3. QED
    BY <2>1, <2>2
<1>5. ASSUME i + 1 \notin DOMAIN table, len' <= offset', NEW k \in DOMAIN table
      PROVE  table[k].start + table[k].length <= offset'
  <2>1. i = Len(table)
    BY <1>3, <1>5
  <2>2. k = i \/ k < i
    BY <1>3, <2>1
  <2>3. k < i => table[k].start + table[k].length <= table[i].start
    BY TableFacts DEF SyncInv, SyncTypeOK
  <2>4. table[k].start \in Nat /\ table[k].length \in Nat
    BY TableFacts DEF SyncInv, SyncTypeOK
  <2>5. table[k].start + table[k].length <= len'
    BY <1>3, <2>2, <2>3, <2>4
  <2>6. QED
    BY <1>5, <2>4, <2>5
<1>6. QED
  BY <1>1, <1>2, <1>4, <1>5 DEF PlaceInv

(* An entry in front of the range is skipped.                              *)
LEMMA SkipEntry ==
    ASSUME SyncInv, Walking, i \in DOMAIN table, len <= offset,
           UNCHANGED <<path, buffer, args, flushed, offset, length, synced>>,
           len' = (len + table[i].length) % Word, len' <= offset, i' = i + 1,
           path = "mem" => sg_dma_addr' = sg_dma_addr + table[i].length
    PROVE  SyncInv'
<1>1. len' = table[i].start + table[i].length
  BY EntryArithmetic
<1>2. offset' = offset /\ length' = length /\ offset \in Nat /\ length \in Nat
  BY DEF SyncInv, SyncTypeOK
<1>3. PlaceInv'
  BY <1>1, <1>2, NextPlace
<1>4. i' \in 1 .. Len(table) + 1
  BY TableFacts DEF SyncInv, SyncTypeOK
<1>5. WalkApplies => synced' = Bytes(First, offset')
  BY <1>2 DEF SyncInv, DoneInv
<1>6. QED
  BY <1>2, <1>3, <1>4, <1>5, WalkStep

(* A piece of an entry is done, up to the end of the entry or that of the  *)
(* range; then the walk goes on, or it breaks with nothing left.           *)
LEMMA PieceTaken ==
    ASSUME SyncInv, Walking, i \in DOMAIN table,
           UNCHANGED <<path, buffer, args, flushed>>,
           len' = table[i].start + table[i].length,
           NEW c \in Nat, c <= length, offset + c <= len', c = length \/ offset + c = len',
           table[i].start <= offset, offset' = offset + c, length' = length - c,
           NEW addr, WalkApplies => addr = table[i].addr,
           synced' = synced \cup Region(addr + (offset - table[i].start), c),
           \/ i' = i + 1 /\ (path = "mem" => length' # 0)
           \/ i' = Len(table) + 1 /\ length' = 0,
           path = "mem" => sg_dma_addr' = sg_dma_addr + table[i].length
    PROVE  SyncInv'
<1>1. offset \in Nat /\ length \in Nat /\ table \in Tables
  BY DEF SyncInv, SyncTypeOK
<1>2. /\ table[i].start \in Nat /\ table[i].length \in Nat /\ Len(table) \in Nat
      /\ i \in 1 .. Len(table) /\ DOMAIN table = 1 .. Len(table)
  BY <1>1, TableFacts
<1>3. offset' \in Nat /\ length' \in Nat /\ offset <= offset' /\ offset' + length' = offset + length
  <2>1. /\ offset + c \in Nat /\ length - c \in Nat /\ offset <= offset + c
        /\ (offset + c) + (length - c) = offset + length
    BY <1>1, PieceDone
  <2>2. QED
    BY <2>1, Zenon
<1>4. ASSUME WalkApplies PROVE synced' = Bytes(First, offset')
  <2>1. First \in Nat /\ First <= offset /\ synced = Bytes(First, offset)
    BY <1>4, RangeFits DEF SyncInv, RangeInv, DoneInv
  <2>2. offset + c <= table[i].start + table[i].length
    BY Zenon
  <2>3. Bytes(First, offset') = Bytes(First, offset) \cup Region(addr + (offset - table[i].start), c)
    <3>1. PICK d : d = addr + (offset - table[i].start)
      OBVIOUS
    <3>2. d = table[i].addr + (offset - table[i].start)
      BY <1>4, <3>1, Zenon
    <3>3. Piece(i, offset, c, offset', d)
      BY <1>1, <2>2, <3>2, Zenon DEF Piece
    <3>4. Bytes(First, offset') = Bytes(First, offset) \cup Region(d, c)
      BY <1>1, <2>1, <3>3, BytesGrow
    <3>5. QED
      BY <3>1, <3>4, Zenon
  <2>4. QED
    BY <1>4, <2>1, <2>3, Zenon
<1>5. PlaceInv'
  <2>1. CASE i' = i + 1 /\ (path = "mem" => length' # 0)
    <3>1. len' <= offset' \/ (length' = 0 /\ path = "gem_sg")
      <4>1. CASE offset + c = len'
        BY <1>1, <1>2, <4>1
      <4>2. CASE c = length
        BY <1>1, <2>1, <4>2 DEF Walking
      <4>3. QED
        BY <4>1, <4>2
    <3>2. QED
      BY <1>3, <2>1, <3>1, NextPlace
  <2>2. CASE i' = Len(table) + 1 /\ length' = 0
    <3>1. i' \notin DOMAIN table'
      BY <1>2, <2>2 DEF buffer
    <3>2. QED
      BY <2>2, <3>1 DEF PlaceInv
  <2>3. QED
    BY <2>1, <2>2
<1>6. i' \in 1 .. Len(table) + 1
  BY <1>2
<1>7. QED
  BY <1>3, <1>4, <1>5, <1>6, WalkStep

(* An entry that reaches into the range is synced from "offset" on.        *)
LEMMA TakeEntry ==
    ASSUME SyncInv, Walking, i \in DOMAIN table, len <= offset,
           UNCHANGED <<path, buffer, args, flushed>>,
           len' = (len + table[i].length) % Word, len' > offset,
           NEW addr, WalkApplies => addr = table[i].addr, SyncEntry(addr, len'),
           \/ i' = i + 1 /\ (path = "mem" => length' # 0)
           \/ i' = Len(table) + 1 /\ length' = 0,
           path = "mem" => sg_dma_addr' = sg_dma_addr + table[i].length
    PROVE  SyncInv'
<1>1. len' = table[i].start + table[i].length
  BY EntryArithmetic
<1>2. PICK c : c = Chunk(len')
  OBVIOUS
<1>3. /\ c \in Nat /\ c <= length /\ offset + c <= len'
      /\ c = length \/ offset + c = len'
      /\ offset' = offset + c /\ length' = length - c
      /\ synced' = synced \cup Region(addr + (offset - table[i].start), c)
  BY <1>2, EntryArithmetic
<1>4. table[i].start <= offset
  BY DEF SyncInv, PlaceInv
<1>5. QED
  BY <1>1, <1>3, <1>4, PieceTaken

----------------------------------------------------------------------------
LEMMA SyncInit == Init => SyncInv
<1> SUFFICES ASSUME Init PROVE SyncInv
  OBVIOUS
<1>1. SyncTypeOK
  BY TableFacts DEF Init, SyncTypeOK
<1>2. QED
  BY <1>1 DEF Init, SyncInv, Walking

LEMMA SyncReturn == ASSUME SyncInv, Return PROVE SyncInv'
<1>1. Len(table') \in Nat
  BY SyncAssumption DEF Return
<1>2. SyncTypeOK'
  BY <1>1 DEF Return, SyncTypeOK
<1>3. QED
  BY <1>2 DEF Return, SyncInv, Walking

(* A walk begins at the first entry with the whole range to do.            *)
LEMMA WalkStarts ==
    ASSUME SyncInv, path = "none", UNCHANGED <<buffer, synced>>,
           path' \in {"mem", "gem_sg"}, args' \in [offset : Nat, size : Nat],
           offset' = First', length' = Total', len' = 0, i' = 1,
           path' = "mem" => sg_dma_addr' = table[1].addr /\ sram = 0,
           path' = "gem_sg" => flushed' = Buffer /\ args'.offset < GemWord /\ args'.size < GemWord
    PROVE  SyncInv'
<1>1. /\ table' = table /\ sram' = sram /\ synced' = {} /\ table \in Tables
      /\ sram \in SramSizes
  BY DEF buffer, SyncInv, SyncTypeOK
<1>2. /\ Len(table) \in Nat \ {0} /\ DOMAIN table = 1 .. Len(table) /\ table[1].start = 0
  BY <1>1, TableFacts
<1>3. Word' \in Nat \ {0}
  BY SyncAssumption DEF Word
<1>4. First' \in Nat /\ Total' \in Nat
  <2> DEFINE w == Word'
             f == args'.offset
             t == args'.size
  <2>1. w \in Nat \ {0} /\ f \in Nat /\ t \in Nat
    BY <1>3
  <2>2. f % w \in Nat /\ t % w \in Nat
    <3> HIDE DEF w, f, t
    <3>1. f % w \in 0 .. w - 1 /\ t % w \in 0 .. w - 1
      BY <2>1, Reduced
    <3>2. QED
      BY <2>1, <3>1
  <2>3. QED
    BY <2>2 DEF First, Total
<1>5. SyncTypeOK'
  BY <1>1, <1>2, <1>4 DEF SyncTypeOK, Paths
<1>6. RangeInv'
  BY <1>4 DEF RangeInv
<1>7. PlaceInv'
  <2>1. len' <= offset'
    BY <1>4
  <2>2. QED
    BY <1>1, <1>2, <2>1 DEF PlaceInv
<1>8. DoneInv'
  <2>1. Bytes(First, offset)' = Bytes(First', First')
    BY <1>1 DEF Bytes
  <2>2. QED
    BY <1>1, <1>4, <2>1, BytesEmpty DEF DoneInv
<1>9. Buffer' = Buffer
  BY <1>1 DEF Buffer, EntryRegion
<1>10. QED
  BY <1>1, <1>5, <1>6, <1>7, <1>8, <1>9 DEF SyncInv

LEMMA SyncMemSync == ASSUME SyncInv, NEW o \in Args, NEW s \in Args, MemSync(o, s) PROVE SyncInv'
<1>1. o \in Nat /\ s \in Nat
  BY SyncAssumption
<1>2. path' = "mem" /\ args' = [offset |-> o, size |-> s] /\ Word' = MemWord
  BY DEF MemSync, Word
<1>3. offset' = First' /\ length' = Total'
  BY <1>2 DEF MemSync, First, Total, ToU32
<1>4. QED
  BY <1>1, <1>2, <1>3, WalkStarts DEF MemSync

LEMMA SyncGemSync == ASSUME SyncInv, NEW o \in Args, NEW s \in Args, GemSync(o, s) PROVE SyncInv'
<1>1. /\ o \in 0 .. GemWord - 1 /\ s \in 0 .. GemWord - 1 /\ GemWord \in Nat \ {0}
      /\ o \in Nat /\ s \in Nat /\ o < GemWord /\ s < GemWord
  BY SyncAssumption
<1>2. path' = "gem_sg" /\ args' = [offset |-> o, size |-> s] /\ Word' = GemWord
  BY DEF GemSync, Word
<1>3. o % GemWord = o /\ s % GemWord = s
  BY <1>1, FitsWord
<1>4. offset' = First' /\ length' = Total'
  BY <1>2, <1>3 DEF GemSync, First, Total
<1>5. QED
  BY <1>1, <1>2, <1>4, WalkStarts DEF GemSync

LEMMA SyncGemSyncSingle ==
    ASSUME SyncInv, NEW o \in Args, NEW s \in Args, GemSyncSingle(o, s) PROVE SyncInv'
<1>1. o \in Nat /\ s \in Nat
  BY SyncAssumption
<1>2. SyncTypeOK'
  <2>1. args' \in [offset : Nat, size : Nat]
    BY <1>1 DEF GemSyncSingle
  <2>2. table' = table /\ sram' = sram /\ i' = 2 /\ Len(table) = 1
    BY DEF GemSyncSingle, buffer
  <2>3. i' \in 1 .. Len(table') + 1
    BY <2>2
  <2>4. path' \in Paths \cup {"none"} /\ offset' = offset /\ length' = length
    BY DEF GemSyncSingle, Paths
  <2>5. QED
    BY <2>1, <2>2, <2>3, <2>4 DEF SyncInv, SyncTypeOK
<1>3. QED
  BY <1>1, <1>2 DEF SyncInv, GemSyncSingle, Walking, buffer

LEMMA SyncMemWalk == ASSUME SyncInv, MemWalk PROVE SyncInv'
<1> DEFINE n == (len + table[i].length) % Word
<1>1. /\ path = "mem" /\ Walking /\ i \in DOMAIN table /\ table \in Tables
      /\ UNCHANGED <<path, buffer, args, flushed>>
  BY TableFacts DEF MemWalk, Walking, SyncInv, SyncTypeOK
<1>2. len <= offset /\ (WalkApplies => sg_dma_addr = table[i].addr)
  BY <1>1 DEF SyncInv, PlaceInv, WalkApplies
<1>3. len' = n /\ sg_dma_addr' = sg_dma_addr + table[i].length
  BY DEF MemWalk
<1>4. CASE n <= offset
  <2>1. i' = i + 1 /\ UNCHANGED <<offset, length, synced>>
    BY <1>4 DEF MemWalk
  <2>2. QED
    BY <1>1, <1>2, <1>3, <1>4, <2>1, SkipEntry
<1>5. CASE ~(n <= offset)
  <2>1. /\ SyncEntry(sg_dma_addr, n)
        /\ i' = IF length' = 0 THEN Len(table) + 1 ELSE i + 1
    BY <1>5 DEF MemWalk
  <2>2. n > offset
    BY <1>1, <1>2, <1>5, EntryArithmetic, TableFacts DEF SyncInv, SyncTypeOK
  <2>3. QED
    BY <1>1, <1>2, <1>3, <2>1, <2>2, TakeEntry
<1>6. QED
  BY <1>4, <1>5

LEMMA SyncGemWalk == ASSUME SyncInv, GemWalk PROVE SyncInv'
<1> DEFINE n == (len + table[i].length) % Word
<1>1. /\ path = "gem_sg" /\ Walking /\ i \in DOMAIN table /\ table \in Tables
      /\ UNCHANGED <<path, buffer, args, flushed>>
  BY TableFacts DEF GemWalk, Walking, SyncInv, SyncTypeOK
<1>2. CASE length = 0
  <2>1. i' = Len(table) + 1 /\ UNCHANGED <<len, offset, length, synced>>
    BY <1>2 DEF GemWalk
  <2>2. offset \in Nat /\ Len(table) \in Nat
    BY TableFacts, <1>1 DEF SyncInv, SyncTypeOK
  <2>3. PlaceInv'
    <3>1. i' \notin DOMAIN table'
      BY <1>1, <2>1, <2>2, TableFacts DEF buffer
    <3>2. QED
      BY <1>2, <2>1, <3>1 DEF PlaceInv
  <2>4. WalkApplies => synced' = Bytes(First, offset')
    BY <1>1, <2>1 DEF SyncInv, DoneInv
  <2>5. QED
    BY <1>1, <1>2, <2>1, <2>2, <2>3, <2>4, WalkStep
<1>3. CASE length # 0
  <2>1. len <= offset
    BY <1>1, <1>3 DEF SyncInv, PlaceInv
  <2>2. len' = n /\ i' = i + 1
    BY <1>3 DEF GemWalk
  <2>3. CASE n <= offset
    <3>1. UNCHANGED <<offset, length, synced>>
      BY <1>3, <2>3 DEF GemWalk
    <3>2. QED
      BY <1>1, <2>1, <2>2, <2>3, <3>1, SkipEntry
  <2>4. CASE ~(n <= offset)
    <3>1. SyncEntry(table[i].addr, n)
      BY <1>3, <2>4 DEF GemWalk
    <3>2. n > offset
      BY <1>1, <2>1, <2>4, EntryArithmetic, TableFacts DEF SyncInv, SyncTypeOK
    <3>3. QED
      BY <1>1, <2>1, <2>2, <3>1, <3>2, TakeEntry
  <2>5. QED
    BY <2>3, <2>4
<1>4. QED
  BY <1>2, <1>3

LEMMA SyncStep == SyncInv /\ [Next]_vars => SyncInv'
<1> SUFFICES ASSUME SyncInv, [Next]_vars PROVE SyncInv'
  OBVIOUS
<1>1. CASE UNCHANGED vars
  <2>1. /\ path' = path /\ table' = table /\ sram' = sram /\ args' = args /\ offset' = offset
        /\ length' = length /\ len' = len /\ i' = i /\ sg_dma_addr' = sg_dma_addr
        /\ flushed' = flushed /\ synced' = synced
    BY <1>1 DEF vars, buffer, locals
  <2>2. /\ First' = First /\ Total' = Total /\ WalkApplies' = WalkApplies /\ Adjacent' = Adjacent
        /\ Buffer' = Buffer /\ Bytes(First, offset)' = Bytes(First, offset)
    BY <2>1, SameCall
  <2>3. /\ SyncTypeOK' = SyncTypeOK /\ RangeInv' = RangeInv /\ PlaceInv' = PlaceInv
        /\ Walking' = Walking
    BY <2>1, <2>2 DEF SyncTypeOK, RangeInv, PlaceInv, Walking
  <2>4. DoneInv => DoneInv'
    BY <2>1, <2>2 DEF DoneInv
  <2>5. QED
    BY <2>1, <2>2, <2>3, <2>4 DEF SyncInv
<1>2. CASE Next
  BY <1>2, SyncMemSync, SyncGemSync, SyncGemSyncSingle, SyncMemWalk, SyncGemWalk, SyncReturn
     DEF Next
<1>3. QED
  BY <1>1, <1>2

(* At each entry of a walk the part of the range in front of "offset" is   *)
(* what it synced, and the rest is behind the entries it has passed.       *)
THEOREM SyncInvariance == Spec => []SyncInv
<1>1. QED
  BY SyncInit, SyncStep, PTL DEF Spec

----------------------------------------------------------------------------
(* The range a client asked for, in front of which there may be SRAM.      *)
LEMMA RequestedBytes ==
    ASSUME table \in Tables, sram = 0, args.offset \in Nat, args.size \in Nat
    PROVE  Requested = Bytes(args.offset, args.offset + args.size)
<1> DEFINE f == args.offset
           z == args.offset + args.size
<1> HIDE DEF f, z
<1>0. ASSUME NEW x
      PROVE  x \in Requested <=>
                \E k \in DOMAIN table : \E b \in 0 .. table[k].length - 1 :
                    x = table[k].addr + b /\ sram + table[k].start + b \in f .. z - 1
  <2>1. x \in Requested <=>
            \E k \in DOMAIN table : \E b \in 0 .. table[k].length - 1 :
                /\ x = table[k].addr + b
                /\ sram + table[k].start + b \in args.offset .. args.offset + args.size - 1
    BY DEF Requested
  <2>2. args.offset .. args.offset + args.size - 1 = f .. z - 1
    BY DEF f, z
  <2>3. QED
    BY <2>1, <2>2, Zenon
<1>1. \A k \in DOMAIN table : table[k].start \in Nat /\ table[k].length \in Nat
  BY TableFacts
<1>2. ASSUME NEW k \in DOMAIN table, NEW b \in 0 .. table[k].length - 1
      PROVE  sram + table[k].start + b = table[k].start + b
  BY <1>1
<1>3. ASSUME NEW x \in Requested PROVE x \in Bytes(f, z)
  <2>1. PICK k \in DOMAIN table : \E b \in 0 .. table[k].length - 1 :
            /\ x = table[k].addr + b
            /\ sram + table[k].start + b \in f .. z - 1
    BY <1>0
  <2> PICK b \in 0 .. table[k].length - 1 :
            /\ x = table[k].addr + b
            /\ sram + table[k].start + b \in f .. z - 1
    BY <2>1
  <2>2. table[k].start + b \in f .. z - 1
    BY <1>2
  <2>3. QED
    BY <2>2, BytesMember
<1>4. ASSUME NEW x \in Bytes(f, z) PROVE x \in Requested
  <2>1. PICK k \in DOMAIN table : \E b \in 0 .. table[k].length - 1 :
            /\ x = table[k].addr + b
            /\ table[k].start + b \in f .. z - 1
    BY BytesMember
  <2> PICK b \in 0 .. table[k].length - 1 :
            /\ x = table[k].addr + b
            /\ table[k].start + b \in f .. z - 1
    BY <2>1
  <2>2. sram + table[k].start + b \in f .. z - 1
    BY <1>2
  <2>3. QED
    BY <1>0, <2>2
<1>5. Requested = Bytes(f, z)
  BY <1>3, <1>4
<1>6. QED
  BY <1>5 DEF f, z

(* All of it is in the buffer.                                             *)
LEMMA RequestedInBuffer == ASSUME table \in Tables PROVE Requested \subseteq Buffer
<1> SUFFICES ASSUME NEW x \in Requested PROVE x \in Buffer
  OBVIOUS
<1>1. PICK k \in DOMAIN table : \E b \in 0 .. table[k].length - 1 : x = table[k].addr + b
  BY DEF Requested
<1>2. x \in EntryRegion(k)
  BY <1>1, TableFacts DEF EntryRegion, Region
<1>3. QED
  BY <1>2 DEF Buffer

(* A walk that has ended has synced the whole range.                       *)
LEMMA WalkDone ==
    ASSUME SyncInv, WalkApplies, i > Len(table), args.offset < Word, args.size < Word
    PROVE  synced = Bytes(args.offset, args.offset + args.size)
<1>1. /\ Walking /\ table \in Tables /\ args.offset \in Nat /\ args.size \in Nat
      /\ offset \in Nat /\ length \in Nat /\ i \in Nat
  BY TableFacts DEF SyncInv, SyncTypeOK, WalkApplies, Walking
<1>2. First = args.offset /\ Total = args.size
  <2> DEFINE w == Word
             f == args.offset
             t == args.size
  <2>1. w \in Nat \ {0} /\ f \in 0 .. w - 1 /\ t \in 0 .. w - 1
    BY <1>1, TableFacts
  <2>2. f % w = f /\ t % w = t
    <3> HIDE DEF w, f, t
    <3> QED BY <2>1, FitsWord
  <2>3. QED
    BY <2>2 DEF First, Total
<1>3. synced = Bytes(args.offset, offset)
  BY <1>1, <1>2 DEF SyncInv, DoneInv
<1>4. offset + length = args.offset + args.size
  BY <1>1, <1>2 DEF SyncInv, RangeInv
<1>5. i \notin DOMAIN table
  BY <1>1, TableFacts
<1>6. CASE length = 0
  <2>1. offset = args.offset + args.size
    BY <1>1, <1>4, <1>6
  <2>2. QED
    BY <1>3, <2>1
<1>7. CASE \A k \in DOMAIN table : table[k].start + table[k].length <= offset
  <2>1. offset + length \in Nat /\ offset <= offset + length
    BY <1>1
  <2>2. Bytes(args.offset, offset) = Bytes(args.offset, offset + length)
    BY <1>1, <1>7, <2>1, BytesPastEnd
  <2>3. QED
    BY <1>3, <1>4, <2>2
<1>8. QED
  BY <1>1, <1>5, <1>6, <1>7 DEF SyncInv, PlaceInv

(* An object in one piece: what of the requested range lies in its entry.  *)
LEMMA SingleDone ==
    ASSUME SyncInv, path = "gem_single"
    PROVE  synced \cap Buffer = Bytes(args.offset, args.offset + args.size)
<1>1. /\ table \in Tables /\ args.offset \in Nat /\ args.size \in Nat
      /\ synced = Region(table[1].addr + args.offset, args.size)
      /\ DOMAIN table = {1} /\ table[1].start = 0
      /\ table[1].addr \in Nat /\ table[1].length \in Nat
  <2>1. table \in Tables /\ args.offset \in Nat /\ args.size \in Nat /\ Len(table) = 1
    BY DEF SyncInv, SyncTypeOK
  <2>2. DOMAIN table = {1}
    BY <2>1, TableFacts
  <2>3. QED
    BY <2>1, <2>2, TableFacts DEF SyncInv
<1>2. Buffer = Region(table[1].addr, table[1].length)
  BY <1>1 DEF Buffer, EntryRegion
<1> DEFINE f == args.offset
           s == args.size
           z == f + s
           d == table[1].addr
           l == table[1].length
<1>0. /\ f \in Nat /\ s \in Nat /\ d \in Nat /\ l \in Nat
      /\ synced = Region(d + f, s) /\ Buffer = Region(d, l)
  BY <1>1, <1>2
<1> HIDE DEF f, s, d, l
<1>3. ASSUME NEW x \in synced, x \in Buffer PROVE x \in Bytes(f, z)
  <2>1. PICK b \in Int : b = x - d
    BY <1>0, <1>3 DEF Region
  <2>2. x = d + b /\ b \in 0 .. l - 1 /\ 0 + b \in f .. z - 1
    BY <1>0, <1>3, <2>1 DEF Region
  <2> HIDE DEF z
  <2>3. x = table[1].addr + b /\ b \in 0 .. table[1].length - 1 /\ table[1].start + b \in f .. z - 1
    BY <1>1, <2>2 DEF d, l
  <2>4. QED
    BY <1>1, <2>3, BytesMember
<1>4. ASSUME NEW x \in Bytes(f, z) PROVE x \in synced /\ x \in Buffer
  <2>1. \E b \in 0 .. table[1].length - 1 :
            x = table[1].addr + b /\ table[1].start + b \in f .. z - 1
    <3> HIDE DEF z
    <3> QED BY <1>1, BytesMember
  <2>2. PICK b \in 0 .. l - 1 : x = d + b /\ 0 + b \in f .. z - 1
    BY <1>1, <2>1 DEF d, l
  <2>3. QED
    BY <1>0, <2>2 DEF Region
<1>5. synced \cap Buffer = Bytes(f, z)
  BY <1>3, <1>4
<1>6. QED
  BY <1>5 DEF f, s

(* A sync that has returned has reached each requested byte of the table,  *)
(* the walk of a buffer without SRAM has reached nothing else of it, and   *)
(* no walk leaves the buffer: the walks of rknpu_dma_buf_sync and          *)
(* rknpu_gem_sync_ioctl, for every table that fits the words and for every *)
(* range.                                                                  *)
THEOREM SyncExactAlways == Spec => []SyncExact
<1>1. ASSUME SyncInv PROVE SyncExact
  <2>1. table \in Tables /\ args.offset \in Nat /\ args.size \in Nat
    BY <1>1 DEF SyncInv, SyncTypeOK
  <2>2. WalkApplies => synced \subseteq Buffer
    BY <1>1, <2>1, BytesInBuffer DEF SyncInv, DoneInv, WalkApplies, Walking
  <2>3. ASSUME Finished, WalkApplies \/ path = "gem_single",
               args.offset < Word, args.size < Word
        PROVE  /\ Requested \subseteq flushed \cup synced
               /\ sram = 0 => synced \cap Buffer = Requested
    <3>1. ASSUME sram = 0 PROVE synced \cap Buffer = Requested
      <4>1. Requested = Bytes(args.offset, args.offset + args.size)
        BY <2>1, <3>1, RequestedBytes
      <4>2. CASE WalkApplies
        BY <1>1, <2>2, <2>3, <4>1, <4>2, WalkDone DEF Finished
      <4>3. CASE path = "gem_single"
        BY <1>1, <4>1, <4>3, SingleDone
      <4>4. QED
        BY <2>3, <4>2, <4>3
    <3>2. CASE path = "gem_sg"
      <4>1. flushed = Buffer
        BY <1>1, <3>2 DEF SyncInv
      <4>2. Requested \subseteq flushed \cup synced
        BY <2>1, <4>1, RequestedInBuffer
      <4>3. QED
        BY <3>1, <4>2
    <3>3. CASE path # "gem_sg"
      <4>1. sram = 0
        BY <1>1, <2>3, <3>3 DEF SyncInv, WalkApplies
      <4>2. QED
        BY <3>1, <4>1
    <3>4. QED
      BY <3>1, <3>2, <3>3
  <2>4. QED
    BY <2>2, <2>3 DEF SyncExact
<1>2. QED
  BY <1>1, SyncInvariance, PTL
=============================================================================
