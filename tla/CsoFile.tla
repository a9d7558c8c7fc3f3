------------------------------ MODULE CsoFile ------------------------------
(***************************************************************************)
(* Reading a compressed image: File and IndexEntryCache of pkg/fs/cso      *)
(* (cso.go, cso_items.go).  The image is Blocks blocks of BlockSize bytes, *)
(* of which the last may be short; in the file a block takes BlockSize     *)
(* bytes or less, and an index of Blocks + 1 entries says where each       *)
(* begins.                                                                 *)
(*                                                                         *)
(* A file belongs to one session, so one call runs at a time; Read is a    *)
(* step for each stage of it that reads the file.  Bytes are what they     *)
(* stand for: a byte of the image, a byte of the file, or what was in the  *)
(* buffer before.  The model ends where Read panics, and where it uses     *)
(* bytes that are not what it takes them for ("astray").                   *)
(***************************************************************************)
EXTENDS Integers, Sequences

CONSTANTS
  BlockSize,    \* Header.BlockSize
  Blocks,       \* Header.BlocksCount()
  MaxEntries,   \* capacity of the index cache (257 in the code)
  MaxLen,       \* bound: length of the buffers Read is given
  Spare         \* capacities that buffers have beyond their length

Block == 0..(Blocks - 1)
Entry == 0..Blocks

ImageByte(i) == [kind |-> "image", at |-> i]
FileByte(i) == [kind |-> "file", at |-> i]
Old == [kind |-> "old", at |-> 0]

SizesAssumption ==
  /\ BlockSize \in Nat \ {0} /\ Blocks \in Nat \ {0} /\ MaxEntries \in Nat \ {0}
  /\ MaxLen \in Nat /\ Spare \subseteq Nat

VARIABLES
  entry,        \* entry[j]: where block j begins in the file; the last one ends it
  last,         \* the last block: [size, of the image's bytes in it; decoded, what it
                \* decodes to, more if it was padded; strict, which deflate is about it]
  start,        \* IndexEntryCache.startEntryNum
  held,         \* how many entries IndexEntryCache.entries holds
  array,        \* its memory, up to its capacity: the entry there, -1 for none
  cachedBlockNum, cachedBlock,  \* number of the block cached; which block is, -1 for none
  offset,       \* File.offset
  pc,           \* "idle", "start", "compressed", "decode"
  length,       \* of the buffer b that Read was given
  buf,          \* b and the memory behind it, up to its capacity
  n,            \* bytes of b filled
  blk,          \* the next block to decode
  rest,         \* where in b the compressed blocks still to decode begin
  result,       \* of the last Read: "none", "eof", "ok", "error", "overflow" (a
                \* slice out of bounds), "panic" (an entry out of none), "astray"
  fault,        \* history: this Read met a failure of the disk or a damaged block
  indexFault    \* history: an index fill has failed

index == <<start, held, array>>
cached == <<cachedBlockNum, cachedBlock>>
call == <<length, buf, n, blk, rest>>
vars == <<entry, last, index, cached, offset, pc, call, result, fault, indexFault>>

SizeOf(j) == entry[j + 1] - entry[j]
ImageSize == (Blocks - 1) * BlockSize + last.size

\* Header.UncompressedSize says how large the image is, nothing how long a block.
DecodedSize(j) == IF j = Blocks - 1 THEN last.decoded ELSE BlockSize
Raw(j) == SizeOf(j) = DecodedSize(j)

\* flateDecompressor reads until its destination is full.
Refuses(j) == last.strict /\ ~Raw(j) /\ DecodedSize(j) < BlockSize
Smaller(a, b) == IF a < b THEN a ELSE b

Init ==
  /\ entry \in {e \in [Entry -> 0..(Blocks * BlockSize)] :
                  e[0] = 0 /\ \A j \in Block : e[j + 1] - e[j] \in 1..BlockSize}
  /\ last \in {l \in [size : 1..BlockSize, decoded : 1..BlockSize, strict : BOOLEAN] :
                 /\ l.decoded \in {l.size, BlockSize}
                 /\ l.strict => l.decoded < BlockSize /\ SizeOf(Blocks - 1) # l.decoded}
  /\ start = -1 /\ held = 0 /\ array = [i \in 1..MaxEntries |-> -1]
  /\ cachedBlockNum = -1 /\ cachedBlock = -1
  /\ offset = 0 /\ pc = "idle"
  /\ length = 0 /\ buf = <<>> /\ n = 0 /\ blk = 0 /\ rest = 0
  /\ result = "none" /\ fault = FALSE /\ indexFault = FALSE
-----------------------------------------------------------------------------
(* The index cache.  A lookup takes a state of the cache to those it may   *)
(* leave, each with the outcome: "ok", "astray" (another entry), "fault",  *)
(* "error" (out of bounds) or "panic".                                     *)

Cache == [start |-> start, held |-> held, array |-> array, broken |-> FALSE, outcome |-> "ok"]

Hit(c, e) == e >= c.start /\ e - c.start < c.held

\* c.entries is resliced, then k of its entries are read from entry e on; those
\* behind keep what was in memory.
Refilled(c, e, k) ==
  [c EXCEPT !.held = Smaller(MaxEntries, Blocks + 1 - e),
            !.array = [i \in 1..MaxEntries |-> IF i <= k THEN e + i - 1 ELSE @[i]]]

\* Mutant: startEntryNum is not moved with the window.
StuckMoved(c, e) == c

\* The window begins at entry e from now on.
Moved(c, e) == [c EXCEPT !.start = e]

\* IndexEntryCache.ValueOf.  The bound lets one entry too many through: nothing
\* is read for it, and the first of no entries panics.
Lookup(c, e) ==
  LET m == Smaller(MaxEntries, Blocks + 1 - e)
      full == Moved(Refilled(c, e, m), e)
  IN IF e > Blocks + 1 THEN {[c EXCEPT !.outcome = "error"]}
     ELSE IF Hit(c, e)
     THEN {[c EXCEPT !.outcome = IF c.array[e - c.start + 1] = e THEN "ok" ELSE "astray"]}
     ELSE {[full EXCEPT !.outcome = IF m > 0 THEN "ok" ELSE "panic"],
           [c EXCEPT !.outcome = "fault"]}                              \* Seek
          \cup {[Refilled(c, e, k) EXCEPT !.outcome = "fault", !.broken = TRUE] :
                  k \in 0..(m - 1)}                                     \* ReadFull

\* A lookup of e more, in those of the caches that the lookups before were ok in.
After(caches, e) == UNION {IF c.outcome = "ok" THEN Lookup(c, e) ELSE {c} : c \in caches}

\* Entry j is looked up, then entry k.
Lookups(j, k) == After(After({Cache}, j), k)

\* The cache is left as c.
Keep(c) ==
  /\ start' = c.start /\ held' = c.held /\ array' = c.array
  /\ indexFault' = (indexFault \/ c.broken)
-----------------------------------------------------------------------------
(* How Read ends.                                                          *)

\* An error gives no bytes and leaves the offset, whatever is in b.
Finish(r) ==
  /\ pc' = "idle" /\ result' = r
  /\ offset' = IF r = "ok" THEN offset + n' ELSE offset

Broken == Finish("error") /\ fault' = TRUE /\ UNCHANGED call

Fails(r) == Finish(r) /\ UNCHANGED <<call, fault>>

\* A lookup that is not ok ends it.
LookupFails(c) == IF c.outcome = "fault" THEN Broken ELSE Fails(c.outcome)

\* Mutant: cachedBlockNum is left as it was until the block has been decoded.
StaleForget == UNCHANGED cachedBlockNum

\* cachedBlockNum is taken back before a block is decoded into cachedBlock.
Forget == cachedBlockNum' = -1

\* Block j, decoded into cachedBlock, or a part of it if it is damaged or short.
Cached(j) == cachedBlockNum' = j /\ cachedBlock' = j
Spoiled == Forget /\ cachedBlock' = -1

\* Behind a short block is what was there before.
CachedByte(i) ==
  IF cachedBlock' = -1 \/ i >= DecodedSize(cachedBlock') THEN Old
  ELSE ImageByte(cachedBlock' * BlockSize + i)

\* b after bytes have been put at its position p.
Put(p, bytes) ==
  [i \in 1..Len(buf) |-> IF i > p /\ i <= p + Len(bytes) THEN bytes[i - p] ELSE buf[i]]
-----------------------------------------------------------------------------
(* Read, in the order of its stages.                                       *)

\* getBlocksCount.  Nobody reads into no bytes.
BlocksToRead(l) ==
  Smaller(IF l < BlockSize THEN 1 ELSE l \div BlockSize, Blocks - (offset \div BlockSize))

\* Read is called on a buffer of l bytes with s more of capacity.
Begin(l, s) ==
  /\ pc = "idle" /\ result \in {"none", "eof", "ok", "error"}
  /\ fault' = FALSE
  /\ IF offset >= ImageSize
     THEN result' = "eof" /\ UNCHANGED <<pc, call>>
     ELSE /\ pc' = "start" /\ result' = "none"
          /\ length' = l /\ buf' = [i \in 1..(l + s) |-> Old]
          /\ n' = 0 /\ blk' = offset \div BlockSize /\ rest' = l
  /\ UNCHANGED <<entry, last, index, cached, offset, indexFault>>

\* The copy from the cached block, at an offset inside it; then whole blocks.
CopyCached ==
  LET pos == offset % BlockSize
      m == Smaller(length, BlockSize - pos)
  IN /\ n' = m /\ buf' = Put(0, [i \in 1..m |-> CachedByte(pos + i - 1)])
     /\ blk' = blk + 1
     /\ IF BlocksToRead(length) = 1
        THEN Finish("ok")
        ELSE pc' = "compressed" /\ UNCHANGED <<result, offset>>
     /\ UNCHANGED <<length, rest, fault>>

Unaligned == pc = "start" /\ offset % BlockSize > 0

StartAligned ==
  /\ pc = "start" /\ ~Unaligned /\ pc' = "compressed"
  /\ UNCHANGED <<entry, last, index, cached, offset, call, result, fault, indexFault>>

\* updateCachedBlock has nothing to do.
StartCached ==
  /\ Unaligned /\ cachedBlockNum = blk
  /\ UNCHANGED cached /\ CopyCached
  /\ UNCHANGED <<entry, last, index, indexFault>>

\* updateCachedBlock before the block is read.
StartUncachedFails ==
  /\ Unaligned /\ cachedBlockNum # blk
  /\ \E c \in Lookups(blk, blk + 1) :
       /\ Keep(c)
       /\ \/ c.outcome # "ok" /\ LookupFails(c) /\ UNCHANGED cached
          \/ c.outcome = "ok" /\ Broken /\ Forget /\ UNCHANGED cachedBlock
          \/ /\ c.outcome = "ok" /\ entry[Blocks] - entry[blk] < BlockSize
             /\ Fails("error") /\ Forget /\ UNCHANGED cachedBlock
  /\ UNCHANGED <<entry, last>>

\* updateCachedBlock with the block read.  All of tmpBuf is filled, so the file
\* must go on for BlockSize bytes.  selectDecompressor looks blk up again.
StartUncached ==
  /\ Unaligned /\ cachedBlockNum # blk /\ entry[Blocks] - entry[blk] >= BlockSize
  /\ \E c \in After({d \in Lookups(blk, blk + 1) : d.outcome = "ok"}, blk) :
       /\ Keep(c)
       /\ \/ c.outcome # "ok" /\ LookupFails(c) /\ Forget /\ UNCHANGED cachedBlock
          \/ c.outcome = "ok" /\ ~Raw(blk) /\ Broken /\ Spoiled
          \/ c.outcome = "ok" /\ Refuses(blk) /\ Fails("error") /\ Spoiled
          \/ c.outcome = "ok" /\ ~Refuses(blk) /\ Cached(blk) /\ CopyCached
  /\ UNCHANGED <<entry, last>>

\* readCompressedBlocks: into the end of b.
ReadCompressed ==
  LET end == (offset \div BlockSize) + BlocksToRead(length)
      size == entry[end] - entry[blk]
  IN /\ pc = "compressed"
     /\ \E c \in Lookups(blk, end) :
          /\ Keep(c)
          /\ \/ c.outcome # "ok" /\ LookupFails(c)
             \/ c.outcome = "ok" /\ size > length - n /\ Fails("overflow")
             \/ c.outcome = "ok" /\ size <= length - n /\ Broken
             \/ /\ c.outcome = "ok" /\ size <= length - n
                /\ pc' = "decode" /\ rest' = length - size
                /\ buf' = Put(rest', [i \in 1..size |-> FileByte(entry[blk] + i - 1)])
                /\ UNCHANGED <<length, n, blk, result, offset, fault>>
     /\ UNCHANGED <<entry, last, cached>>

\* The loop ends when b is full.
Full ==
  /\ pc = "decode" /\ n = length
  /\ UNCHANGED call /\ Finish("ok")
  /\ UNCHANGED <<entry, last, index, cached, fault, indexFault>>

\* compressedBlocks goes on for the whole block, in its length or its capacity.
Fits == blk < Blocks => rest + SizeOf(blk) <= Len(buf)

\* What is there is the compressed block.
Genuine == \A i \in 1..SizeOf(blk) : buf[rest + i] = FileByte(entry[blk] + i - 1)

ImageBytes(j) == [i \in 1..DecodedSize(j) |-> ImageByte(j * BlockSize + i - 1)]

\* One turn of the loop that does not get as far as decoding.
DecodeFails ==
  /\ pc = "decode" /\ n < length
  /\ \E c \in (IF Fits THEN After(Lookups(blk, blk + 1), blk) ELSE Lookups(blk, blk + 1)) :
       /\ Keep(c)
       /\ \/ c.outcome # "ok" /\ LookupFails(c)
          \/ c.outcome = "ok" /\ ~Fits /\ Fails("overflow")
          \/ c.outcome = "ok" /\ Fits /\ ~Genuine /\ Fails("astray")
  /\ UNCHANGED <<entry, last, cached>>

\* A whole block, decoded to its place in b, while there is room for one.
DecodeWhole ==
  /\ pc = "decode" /\ length - n >= BlockSize /\ blk < Blocks /\ Fits /\ Genuine
  /\ \E c \in After(Lookups(blk, blk + 1), blk) :
       /\ c.outcome = "ok" /\ Keep(c)
       /\ \/ ~Raw(blk) /\ Broken
          \/ Refuses(blk) /\ Fails("error")
          \/ /\ ~Refuses(blk) /\ buf' = Put(n, ImageBytes(blk))
             /\ n' = n + DecodedSize(blk) /\ blk' = blk + 1 /\ rest' = rest + SizeOf(blk)
             /\ UNCHANGED <<pc, length, result, offset, fault>>
  /\ UNCHANGED <<entry, last, cached>>

\* The last part of b, shorter than a block, by way of cachedBlock.
DecodePart ==
  /\ pc = "decode" /\ n < length /\ length - n < BlockSize /\ blk < Blocks /\ Fits /\ Genuine
  /\ \E c \in After(Lookups(blk, blk + 1), blk) :
       /\ c.outcome = "ok" /\ Keep(c)
       /\ \/ ~Raw(blk) /\ Broken /\ Spoiled
          \/ Refuses(blk) /\ Fails("error") /\ Spoiled
          \/ /\ ~Refuses(blk) /\ Cached(blk)
             /\ buf' = Put(n, [i \in 1..(length - n) |-> CachedByte(i - 1)]) /\ n' = length /\ Finish("ok")
             /\ UNCHANGED <<length, blk, rest, fault>>
  /\ UNCHANGED <<entry, last>>

\* Mutant: the size of the image is not looked at.
UnboundedSeek ==
  /\ pc = "idle" /\ result \in {"none", "eof", "ok", "error"}
  /\ offset' \in 0..(ImageSize + 1) /\ result' = "none"
  /\ UNCHANGED <<entry, last, index, cached, pc, call, fault, indexFault>>

\* Seek; an offset outside the image is refused.
Seek ==
  /\ pc = "idle" /\ result \in {"none", "eof", "ok", "error"}
  /\ offset' \in 0..ImageSize /\ result' = "none"
  /\ UNCHANGED <<entry, last, index, cached, pc, call, fault, indexFault>>

Next == \/ \E l \in 1..MaxLen, s \in Spare : Begin(l, s)
        \/ StartAligned \/ StartCached \/ StartUncachedFails \/ StartUncached
        \/ ReadCompressed \/ Full \/ DecodeFails \/ DecodeWhole \/ DecodePart
        \/ Seek

Spec == Init /\ [][Next]_vars
-----------------------------------------------------------------------------
TypeOK ==
  /\ entry \in [Entry -> Nat]
  /\ start \in -1..(Blocks + 1) /\ held \in 0..MaxEntries
  /\ array \in [1..MaxEntries -> -1..Blocks]
  /\ cachedBlockNum \in -1..(Blocks - 1) /\ cachedBlock \in -1..(Blocks - 1)
  /\ last \in [size : 1..BlockSize, decoded : 1..BlockSize, strict : BOOLEAN]
  /\ offset \in 0..(Blocks * BlockSize)
  /\ pc \in {"idle", "start", "compressed", "decode"}
  /\ length \in 0..MaxLen /\ n \in 0..length /\ blk \in Entry /\ rest \in Nat
  /\ \A i \in 1..Len(buf) : buf[i] \in [kind : {"image", "file", "old"}, at : Nat]
  /\ result \in {"none", "eof", "ok", "error", "overflow", "panic", "astray"}
  /\ fault \in BOOLEAN /\ indexFault \in BOOLEAN

\* A Read that succeeds fills n > 0 bytes of the buffer with the bytes of the
\* image from the offset before it, through both caches, over decoding in place
\* and after any failures; only at a short last block with more than there are.
ReadsTheImage ==
  result = "ok" =>
    /\ n > 0
    /\ \A i \in 1..n : offset - n + i <= ImageSize => buf[i] = ImageByte(offset - n + i - 1)
    /\ offset > ImageSize => last.size < BlockSize

\* The reads Read is made for.  Inside a block: up to its end, where the file
\* goes on for a block's size.  From its start: whole blocks of the image, or
\* a part of one no smaller than the compressed block.  And not a short block that
\* deflate refuses.
Tidy ==
  LET s == offset \div BlockSize
  IN /\ ~Refuses(s)
     /\ IF offset % BlockSize > 0
        THEN BlocksToRead(length) = 1 /\ entry[Blocks] - entry[s] >= BlockSize
        ELSE /\ length <= ImageSize - offset
             /\ length % BlockSize = 0 \/ (length < BlockSize /\ SizeOf(s) <= length)

\* Such a read fails only with the disk, or on a damaged block: it overflows no
\* buffer and always finds its blocks, unless an index fill has failed before,
\* after which the cache takes what was in memory for entries.
TidyReadsSucceed ==
  result \in {"error", "overflow", "panic", "astray"} /\ Tidy
    => indexFault \/ (result = "error" /\ fault)

\* The comment at cso.go:141-143: compressed blocks are no larger than blocks,
\* so the buffer will not overflow.
BufferSuffices == result # "overflow"
=============================================================================
