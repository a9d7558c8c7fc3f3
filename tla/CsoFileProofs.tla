--------------------------- MODULE CsoFileProofs ---------------------------
(***************************************************************************)
(* The properties of CsoFile, for all sizes of the image, of its blocks,   *)
(* of the index cache and of buffers.                                      *)
(*                                                                         *)
(* What was filled of the buffer are bytes of the image, up to where the   *)
(* block to decode next begins: that carries ReadsTheImage over all        *)
(* stages.  For TidyReadsSucceed there is the in-place decoding: what is   *)
(* still compressed lies at the end of the buffer and does not begin       *)
(* before what is decoded ends, as k blocks take no more than k blocks'    *)
(* size in the file (EntriesGrow).  The index cache gives the right        *)
(* entries until a fill of it fails.                                       *)
(***************************************************************************)
EXTENDS CsoFile, TLAPS, WellFoundedInduction

CacheState ==
  [start : Int, held : 0..MaxEntries, array : [1..MaxEntries -> Int], broken : BOOLEAN,
   outcome : {"ok", "astray", "fault", "error", "panic"}]

\* The entries held are those from the start on.
RightEntries(c) == c \in CacheState /\ \A i \in 1..c.held : c.array[i] = c.start + i - 1

\* What a lookup leaves of a cache with the right entries.
Sane(c) == IF c.broken THEN c.outcome = "fault" ELSE RightEntries(c)

\* And one of an entry there is.
Sound(c) == Sane(c) /\ c.outcome \in {"ok", "fault"}
-----------------------------------------------------------------------------
(* Numbers.                                                                *)

LEMMA LeastOf ==
  ASSUME NEW S \in SUBSET Nat, S # {}
  PROVE  \E m \in S : \A k \in S : m <= k
<1>1. PICK m \in S : \A k \in S : ~(<<k, m>> \in OpToRel(<, Nat))
  BY NatLessThanWellFounded, WFMin, Zenon
<1>2. \A k \in S : ~(k < m)
  BY <1>1 DEF OpToRel
<1>3. QED BY <1>2

LEMMA Product ==
  ASSUME NEW b \in Nat \ {0}, NEW j \in Int, NEW k \in Int
  PROVE  /\ j * b \in Int /\ (j + 1) * b = j * b + b /\ (k - j) * b = k * b - j * b
         /\ j <= k => j * b <= k * b
         /\ j < k => j * b + b <= k * b
         /\ j * b < k * b => j < k
<1>1. j * b \in Int /\ (j + 1) * b = j * b + b /\ (k - j) * b = k * b - j * b
  OBVIOUS
<1>2. ASSUME j <= k PROVE j * b <= k * b
  <2>1. PICK d \in Nat : k = j + d
    BY <1>2
  <2>2. d * b \in Nat
    OBVIOUS
  <2>3. k * b = j * b + d * b
    BY <2>1
  <2>4. QED BY <1>1, <2>2, <2>3
<1>3. ASSUME j < k PROVE j * b + b <= k * b
  <2>1. PICK d \in Nat : k = (j + 1) + d
    BY <1>3
  <2>2. d * b \in Nat
    OBVIOUS
  <2>3. k * b = (j + 1) * b + d * b
    BY <2>1
  <2>4. QED BY <1>1, <2>2, <2>3
<1>4. j * b < k * b => j < k
  <2>1. ASSUME k <= j PROVE k * b <= j * b
    <3>1. PICK d \in Nat : j = k + d
      BY <2>1
    <3>2. d * b \in Nat
      OBVIOUS
    <3>3. j * b = k * b + d * b
      BY <3>1
    <3>4. QED BY <3>2, <3>3
  <2>2. QED BY <2>1
<1>5. QED BY <1>1, <1>2, <1>3, <1>4

LEMMA Quotient ==
  ASSUME NEW a \in Nat, NEW b \in Nat \ {0}
  PROVE  /\ a = (a \div b) * b + (a % b)
         /\ a \div b \in Nat /\ a % b \in 0..(b - 1)
<1>1. a = b * (a \div b) + (a % b)
  OBVIOUS
<1>2. a \div b \in Nat
  OBVIOUS
<1>3. a % b \in 0..(b - 1)
  OBVIOUS
<1>4. (a \div b) * b = b * (a \div b)
  BY <1>2
<1>5. QED BY <1>1, <1>2, <1>3, <1>4

LEMMA SmallerOf ==
  ASSUME NEW a \in Int, NEW b \in Int
  PROVE  /\ Smaller(a, b) \in Int /\ Smaller(a, b) <= a /\ Smaller(a, b) <= b
         /\ a <= b => Smaller(a, b) = a
         /\ b <= a => Smaller(a, b) = b
BY DEF Smaller
-----------------------------------------------------------------------------
(* The index.                                                              *)

Sizes ==
  /\ BlockSize \in Nat \ {0} /\ Blocks \in Nat \ {0} /\ MaxEntries \in Nat \ {0}
  /\ entry \in [Entry -> Nat]
  /\ \A j \in Block : SizeOf(j) \in 1..BlockSize
  /\ last.size \in 1..BlockSize /\ last.decoded \in {last.size, BlockSize}

\* Blocks one after the other take no more than their number times BlockSize.
LEMMA EntriesGrow ==
  ASSUME Sizes, NEW j \in Entry, NEW k \in Entry, j <= k
  PROVE  entry[j] <= entry[k] /\ entry[k] - entry[j] <= (k - j) * BlockSize
<1>. DEFINE Bad == {i \in j..Blocks :
       ~(entry[j] <= entry[i] /\ entry[i] - entry[j] <= (i - j) * BlockSize)}
<1>1. SUFFICES ASSUME Bad # {} PROVE FALSE
  <2>1. k \in j..Blocks
    BY DEF Entry, Sizes
  <2>2. QED BY <2>1
<1>2. j \in 0..Blocks /\ Blocks \in Nat /\ BlockSize \in Nat \ {0} /\ entry[j] \in Nat
  BY DEF Entry, Sizes
<1>3. Bad \in SUBSET Nat
  BY <1>2
<1>4. PICK m \in Bad : \A i \in Bad : m <= i
  BY <1>1, <1>3, LeastOf
<1>5. m \in j..Blocks /\ m # j
  <2>1. m \in j..Blocks /\ ~(entry[j] <= entry[m] /\ entry[m] - entry[j] <= (m - j) * BlockSize)
    OBVIOUS
  <2>2. CASE m = j
    <3>1. (m - j) * BlockSize = 0
      BY <1>2, <2>2
    <3>2. QED BY <1>2, <2>1, <2>2, <3>1
  <2>3. QED BY <2>1, <2>2
<1>6. m - 1 \in j..Blocks /\ m - 1 \notin Bad
  <2>1. m - 1 \in j..Blocks /\ ~(m <= m - 1)
    BY <1>2, <1>5
  <2>. HIDE DEF Bad
  <2>2. QED BY <1>4, <2>1
<1>7. entry[j] <= entry[m - 1] /\ entry[m - 1] - entry[j] <= ((m - 1) - j) * BlockSize
  BY <1>6
<1>8. entry[m] - entry[m - 1] \in 1..BlockSize /\ entry[m] \in Nat /\ entry[m - 1] \in Nat
  <2>1. m - 1 \in Block /\ (m - 1) + 1 = m /\ m \in Entry /\ m - 1 \in Entry
    BY <1>2, <1>5 DEF Block, Entry
  <2>2. SizeOf(m - 1) \in 1..BlockSize
    BY <2>1 DEF Sizes
  <2>3. QED BY <2>1, <2>2 DEF SizeOf, Sizes
<1>9. (m - j) * BlockSize = ((m - 1) - j) * BlockSize + BlockSize
  <2>1. (m - 1) - j \in Int /\ ((m - 1) - j) + 1 = m - j
    BY <1>2, <1>5
  <2>2. QED BY <1>2, <2>1, Product
<1>10. ((m - 1) - j) * BlockSize \in Int
  BY <1>2, <1>5
<1>11. entry[j] <= entry[m] /\ entry[m] - entry[j] <= (m - j) * BlockSize
  BY <1>2, <1>7, <1>8, <1>9, <1>10
<1>12. QED BY <1>11

LEMMA LookupIsSound ==
  ASSUME Sizes, NEW c, Sane(c), c.outcome = "ok", NEW e \in 0..(Blocks + 1), NEW d \in Lookup(c, e)
  PROVE  Sane(d) /\ (e \in Entry => Sound(d))
<1>. DEFINE m == Smaller(MaxEntries, Blocks + 1 - e)
            full == [Refilled(c, e, m) EXCEPT !.start = e]
<1>1. /\ c \in CacheState /\ c.broken = FALSE
      /\ \A i \in 1..c.held : c.array[i] = c.start + i - 1
  <2>1. ~c.broken
    BY Zenon DEF Sane
  <2>2. RightEntries(c)
    BY <2>1, Zenon DEF Sane
  <2>3. QED BY <2>1, <2>2 DEF RightEntries, CacheState
<1>2. e \in Nat /\ e <= Blocks + 1 /\ Blocks \in Nat /\ MaxEntries \in Nat \ {0}
  BY DEF Sizes
<1>3. m \in 0..MaxEntries /\ (e \in Entry => m > 0)
  <2>0. e \in Entry => e <= Blocks
    BY DEF Entry
  <2>1. MaxEntries \in Int /\ Blocks + 1 - e \in Int /\ Blocks + 1 - e >= 0
        /\ (e <= Blocks => Blocks + 1 - e > 0)
    BY <1>2
  <2>2. m \in {MaxEntries, Blocks + 1 - e} /\ m <= MaxEntries
    BY <2>1 DEF Smaller
  <2>3. QED BY <1>2, <2>0, <2>1, <2>2
<1>. HIDE DEF m
<1>4. CASE Hit(c, e)
  <2>1. c.start \in Int /\ c.held \in 0..MaxEntries
    BY <1>1 DEF CacheState
  <2>2. e - c.start + 1 \in 1..c.held
    BY <1>2, <1>4, <2>1 DEF Hit
  <2>3. c.array[e - c.start + 1] = c.start + (e - c.start + 1) - 1
    BY <1>1, <2>2
  <2>4. c.array[e - c.start + 1] = e
    BY <1>2, <2>1, <2>3
  <2>5. d = [c EXCEPT !.outcome = "ok"]
    BY <1>2, <1>4, <2>4 DEF Lookup
  <2>6. d \in CacheState /\ d.broken = FALSE /\ d.outcome = "ok" /\ d.held = c.held
        /\ d.array = c.array /\ d.start = c.start
    BY <1>1, <2>5 DEF CacheState
  <2>7. QED BY <1>1, <2>6 DEF Sound, Sane, RightEntries
<1>5. CASE ~Hit(c, e)
  <2>1. \/ d = [full EXCEPT !.outcome = "ok"]
        \/ d = [full EXCEPT !.outcome = "panic"] /\ e \notin Entry
        \/ d = [c EXCEPT !.outcome = "fault"]
        \/ \E k \in 0..(m - 1) : d = [Refilled(c, e, k) EXCEPT !.outcome = "fault", !.broken = TRUE]
    <3>1. ~(e > Blocks + 1) /\ (e \in Entry => m > 0)
      BY <1>2, <1>3
    <3>2. d \in {[full EXCEPT !.outcome = IF m > 0 THEN "ok" ELSE "panic"],
          [c EXCEPT !.outcome = "fault"]}
                   \cup {[Refilled(c, e, k) EXCEPT !.outcome = "fault", !.broken = TRUE] :
                     k \in 0..(m - 1)}
      BY <1>5, <3>1 DEF Lookup, Moved, m
    <3>3. QED BY <3>1, <3>2
  <2>2. ASSUME NEW k \in Int
        PROVE  /\ Refilled(c, e, k) \in CacheState /\ Refilled(c, e, k).broken = FALSE
               /\ Refilled(c, e, k).held = m
               /\ Refilled(c, e, k).array = [i \in 1..MaxEntries |-> IF i <= k THEN e + i - 1
                    ELSE c.array[i]]
    <3>1. [i \in 1..MaxEntries |-> IF i <= k THEN e + i - 1 ELSE c.array[i]] \in [1..MaxEntries -> Int]
      BY <1>1, <1>2 DEF CacheState
    <3>. DEFINE arr == [i \in 1..MaxEntries |-> IF i <= k THEN e + i - 1 ELSE c.array[i]]
    <3>2. Refilled(c, e, k) = [c EXCEPT !.held = m, !.array = arr]
      BY DEF Refilled, m
    <3>3. arr \in [1..MaxEntries -> Int]
      BY <3>1
    <3>. HIDE DEF arr
    <3>4. [c EXCEPT !.held = m, !.array = arr] \in CacheState
      <4>1. m \in 0..MaxEntries
        BY <1>2, <1>3
      <4>2. QED BY <1>1, <3>3, <4>1 DEF CacheState
    <3>5. /\ [c EXCEPT !.held = m, !.array = arr].broken = FALSE
          /\ [c EXCEPT !.held = m, !.array = arr].held = m
          /\ [c EXCEPT !.held = m, !.array = arr].array = arr
      BY <1>1 DEF CacheState
    <3>6. QED BY <3>2, <3>4, <3>5 DEF arr
  <2>3. ASSUME NEW o \in {"ok", "panic"}, d = [full EXCEPT !.outcome = o]
        PROVE  Sane(d) /\ d.outcome = o
    <3>1. /\ d \in CacheState /\ d.broken = FALSE /\ d.outcome = o /\ d.start = e /\ d.held = m
          /\ d.array = [i \in 1..MaxEntries |-> IF i <= m THEN e + i - 1 ELSE c.array[i]]
      <4>. DEFINE r == Refilled(c, e, m)
      <4>1. /\ r \in CacheState /\ r.broken = FALSE /\ r.held = m /\ m \in Int /\ e \in Int
            /\ r.array = [i \in 1..MaxEntries |-> IF i <= m THEN e + i - 1 ELSE c.array[i]]
        <5>1. m \in Int /\ e \in Int
          BY <1>2, <1>3
        <5>2. QED BY <2>2, <5>1
      <4>2. d = [[r EXCEPT !.start = e] EXCEPT !.outcome = o]
        BY <2>3
      <4>. HIDE DEF r
      <4>3. /\ d \in CacheState /\ d.broken = FALSE /\ d.outcome = o /\ d.start = e
            /\ d.held = r.held /\ d.array = r.array
        BY <4>1, <4>2 DEF CacheState
      <4>4. QED BY <4>1, <4>3
    <3>2. \A i \in 1..d.held : d.array[i] = d.start + i - 1
      BY <1>2, <1>3, <3>1
    <3>3. QED BY <3>1, <3>2, Zenon DEF Sane, RightEntries
  <2>4. CASE d = [c EXCEPT !.outcome = "fault"]
    <3>1. /\ d \in CacheState /\ d.broken = FALSE /\ d.outcome = "fault"
          /\ d.held = c.held /\ d.array = c.array /\ d.start = c.start
      BY <1>1, <2>4 DEF CacheState
    <3>2. QED BY <1>1, <3>1 DEF Sound, Sane, RightEntries
  <2>5. CASE \E k \in 0..(m - 1) : d = [Refilled(c, e, k) EXCEPT !.outcome = "fault", !.broken = TRUE]
    <3>1. PICK k \in 0..(m - 1) : d = [Refilled(c, e, k) EXCEPT !.outcome = "fault", !.broken = TRUE]
      BY <2>5
    <3>2. d.broken = TRUE /\ d.outcome = "fault"
      BY <2>2, <3>1 DEF CacheState
    <3>3. QED BY <3>2 DEF Sound, Sane
  <2>6. CASE d = [full EXCEPT !.outcome = "ok"]
    BY <2>3, <2>6 DEF Sound
  <2>7. CASE d = [full EXCEPT !.outcome = "panic"] /\ e \notin Entry
    BY <2>3, <2>7
  <2>8. QED BY <2>1, <2>4, <2>5, <2>6, <2>7
<1>6. QED BY <1>4, <1>5

LEMMA AfterIsSane ==
  ASSUME Sizes, NEW S, \A c \in S : Sane(c), NEW e \in 0..(Blocks + 1)
  PROVE  \A d \in After(S, e) : Sane(d)
<1>1. SUFFICES ASSUME NEW d \in After(S, e) PROVE Sane(d)
  OBVIOUS
<1>2. PICK c \in S : d \in (IF c.outcome = "ok" THEN Lookup(c, e) ELSE {c})
  BY DEF After
<1>3. CASE c.outcome = "ok"
  BY <1>2, <1>3, LookupIsSound
<1>4. CASE c.outcome # "ok"
  BY <1>2, <1>4
<1>5. QED BY <1>3, <1>4

LEMMA AfterIsSound ==
  ASSUME Sizes, NEW S, \A c \in S : Sound(c), NEW e \in Entry
  PROVE  \A d \in After(S, e) : Sound(d)
<1>1. SUFFICES ASSUME NEW d \in After(S, e) PROVE Sound(d)
  OBVIOUS
<1>2. PICK c \in S : d \in (IF c.outcome = "ok" THEN Lookup(c, e) ELSE {c})
  BY DEF After
<1>3. Sound(c) /\ Sane(c)
  BY DEF Sound
<1>4. e \in 0..(Blocks + 1)
  BY DEF Entry, Sizes
<1>5. CASE c.outcome = "ok"
  BY <1>2, <1>3, <1>4, <1>5, LookupIsSound
<1>6. CASE c.outcome # "ok"
  BY <1>2, <1>3, <1>6
<1>7. QED BY <1>5, <1>6

\* The two lookups of a block, of the last block's end or of what is not there.
LEMMA LookupsAreSound ==
  ASSUME Sizes, RightEntries(Cache), NEW j \in Entry, NEW k \in 0..(Blocks + 1)
  PROVE  /\ \A c \in Lookups(j, k) : Sane(c)
         /\ k \in Entry => \A c \in Lookups(j, k) : Sound(c)
<1>1. Cache.broken = FALSE /\ Cache.outcome = "ok"
  BY DEF Cache
<1>2. \A c \in {Cache} : Sound(c)
  BY <1>1, Zenon DEF Sound, Sane
<1>3. \A c \in After({Cache}, j) : Sound(c) /\ Sane(c)
  BY <1>2, AfterIsSound DEF Sound
<1>4. \A c \in Lookups(j, k) : Sane(c)
  BY <1>3, AfterIsSane DEF Lookups
<1>5. k \in Entry => \A c \in Lookups(j, k) : Sound(c)
  BY <1>3, AfterIsSound DEF Lookups
<1>6. QED BY <1>4, <1>5

LEMMA KeepsEntries ==
  ASSUME NEW c, Keep(c), indexFault \/ Sane(c), indexFault \in BOOLEAN
  PROVE  indexFault' \in BOOLEAN /\ (indexFault' \/ RightEntries(Cache)')
<1>1. start' = c.start /\ held' = c.held /\ array' = c.array /\ indexFault' = (indexFault \/ c.broken)
  BY DEF Keep
<1>2. indexFault' \in BOOLEAN
  BY <1>1, Zenon
<1>3. CASE indexFault \/ c.broken
  BY <1>1, <1>2, <1>3, Zenon
<1>4. CASE ~indexFault /\ ~c.broken
  <2>1. RightEntries(c)
    BY <1>4, Zenon DEF Sane
  <2>2. c \in CacheState /\ \A i \in 1..c.held : c.array[i] = c.start + i - 1
    BY <2>1 DEF RightEntries
  <2>3. Cache' = [start |-> c.start, held |-> c.held, array |-> c.array, broken |-> FALSE,
        outcome |-> "ok"]
    BY <1>1 DEF Cache
  <2>4. RightEntries(Cache')
    BY <2>2, <2>3 DEF RightEntries, CacheState
  <2>5. RightEntries(Cache)' = RightEntries(Cache')
    BY DEF RightEntries, CacheState
  <2>6. QED BY <1>2, <2>4, <2>5
<1>5. QED BY <1>3, <1>4
-----------------------------------------------------------------------------
(* The invariant.                                                          *)

Byte == [kind : {"image", "file", "old"}, at : Nat]

CallType ==
  /\ length \in Nat /\ n \in 0..length /\ blk \in Entry /\ rest \in Nat
  /\ buf \in Seq(Byte) /\ length <= Len(buf)

OffsetInBlocks == offset \in Nat /\ offset <= Blocks * BlockSize

\* The block cached is the one its number says.
CachedIsRight == cachedBlockNum = -1 \/ (cachedBlockNum \in Block /\ cachedBlock = cachedBlockNum)

\* No fill of the index has failed, or the entries held may be wrong.
IndexIsRight == indexFault \/ RightEntries(Cache)

InCall == pc # "idle" => offset < ImageSize /\ length > 0 /\ result = "none"

Started == pc = "start" => n = 0 /\ blk = offset \div BlockSize

Filled(k) == \A i \in 1..k : offset + i <= ImageSize => buf[i] = ImageByte(offset + i - 1)

\* What is filled are bytes of the image, up to where the next block begins.
Reading ==
  pc \in {"compressed", "decode"} =>
    /\ Filled(n) /\ offset + n <= Blocks * BlockSize
    /\ blk < Blocks => offset + n = blk * BlockSize

firstBlock == offset \div BlockSize
endBlock == firstBlock + BlocksToRead(length)

\* A tidy read that comes to whole blocks has begun at one.
TidyCompressed ==
  pc = "compressed" /\ Tidy => n = 0 /\ blk = firstBlock /\ offset % BlockSize = 0

\* The compressed blocks that it still has to decode lie at the end of its buffer,
\* behind what it has decoded.
TidyDecode ==
  pc = "decode" /\ Tidy =>
    /\ offset % BlockSize = 0 /\ firstBlock <= blk /\ blk <= endBlock
    /\ rest = length - (entry[endBlock] - entry[blk])
    /\ \A p \in 1..length : p > rest => buf[p] = FileByte(entry[blk] + p - rest - 1)
    /\ n = (blk - firstBlock) * BlockSize
    /\ length < BlockSize => blk = firstBlock

CsoInv ==
  /\ Sizes /\ CallType /\ OffsetInBlocks /\ indexFault \in BOOLEAN
  /\ pc \in {"idle", "start", "compressed", "decode"}
  /\ CachedIsRight /\ IndexIsRight /\ InCall /\ Started /\ Reading
  /\ TidyCompressed /\ TidyDecode
  /\ ReadsTheImage /\ TidyReadsSucceed
-----------------------------------------------------------------------------
(* How calls end.                                                          *)

LEMMA SameImage ==
  ASSUME UNCHANGED <<entry, last>>
  PROVE  /\ Sizes' = Sizes /\ ImageSize' = ImageSize
         /\ UNCHANGED <<offset, length>> => /\ Tidy' = Tidy /\ firstBlock' = firstBlock
            /\ endBlock' = endBlock
BY DEF Sizes, SizeOf, ImageSize, Tidy, Refuses, Raw, DecodedSize, BlocksToRead, firstBlock, endBlock

\* A call that fails leaves things as they were.
LEMMA Failed ==
  ASSUME CsoInv, UNCHANGED <<entry, last>>, UNCHANGED call, NEW r, r # "ok", Finish(r),
         CachedIsRight', IndexIsRight', indexFault' \in BOOLEAN,
         Tidy /\ r \in {"error", "overflow", "panic", "astray"} => indexFault'
         \/ (r = "error" /\ fault')
  PROVE  CsoInv'
<1>1. /\ pc' = "idle" /\ result' = r /\ offset' = offset
      /\ UNCHANGED <<length, buf, n, blk, rest>>
  BY DEF Finish, call
<1>2. Sizes' /\ CallType' /\ OffsetInBlocks'
  BY <1>1, SameImage DEF CsoInv, CallType, OffsetInBlocks
<1>3. InCall' /\ Started' /\ Reading' /\ TidyCompressed' /\ TidyDecode'
  BY <1>1 DEF InCall, Started, Reading, TidyCompressed, TidyDecode
<1>4. ReadsTheImage'
  BY <1>1 DEF ReadsTheImage
<1>5. TidyReadsSucceed'
  BY <1>1, SameImage DEF TidyReadsSucceed
<1>6. QED BY <1>1, <1>2, <1>3, <1>4, <1>5, Zenon DEF CsoInv

LEMMA LookupFailed ==
  ASSUME CsoInv, UNCHANGED <<entry, last>>, NEW c, Keep(c), indexFault \/ Sane(c),
         Tidy => indexFault \/ Sound(c), c.outcome # "ok", LookupFails(c), CachedIsRight'
  PROVE  CsoInv'
<1>1. indexFault \in BOOLEAN
  BY DEF CsoInv
<1>2. IndexIsRight' /\ indexFault' \in BOOLEAN
  BY <1>1, KeepsEntries DEF IndexIsRight
<1>3. CASE c.outcome = "fault"
  <2>1. Finish("error") /\ fault' = TRUE /\ UNCHANGED call
    BY <1>3 DEF LookupFails, Broken
  <2>2. QED BY <1>2, <2>1, Failed
<1>4. CASE c.outcome # "fault"
  <2>1. Finish(c.outcome) /\ UNCHANGED call
    BY <1>4 DEF LookupFails, Fails
  <2>2. Tidy => indexFault'
    BY <1>4, Zenon DEF Sound, Keep
  <2>3. QED BY <1>2, <2>1, <2>2, Failed
<1>5. QED BY <1>3, <1>4

LEMMA BeyondImage ==
  ASSUME Sizes, NEW p \in Nat, p <= Blocks * BlockSize, p > ImageSize
  PROVE  last.size < BlockSize
<1>1. /\ BlockSize \in Nat \ {0} /\ Blocks \in Nat \ {0} /\ last.size \in 1..BlockSize
      /\ ImageSize = (Blocks - 1) * BlockSize + last.size
  BY DEF Sizes, ImageSize
<1>2. ((Blocks - 1) + 1) * BlockSize = (Blocks - 1) * BlockSize + BlockSize
      /\ (Blocks - 1) * BlockSize \in Int
  BY <1>1, Product
<1>3. (Blocks - 1) + 1 = Blocks
  BY <1>1
<1>4. Blocks * BlockSize = (Blocks - 1) * BlockSize + BlockSize
  BY <1>2, <1>3, Zenon
<1>5. QED BY <1>1, <1>2, <1>4

LEMMA Cancelled == \A a, b \in Nat : a + b \in Nat /\ (a + b) - b = a
OBVIOUS

\* What it had to fill is filled.
LEMMA Succeeded ==
  ASSUME Sizes, offset \in Nat, UNCHANGED <<entry, last>>, Finish("ok"), CallType', n' > 0,
         CachedIsRight', IndexIsRight', indexFault' \in BOOLEAN,
         \A i \in 1..n' : offset + i <= ImageSize => buf'[i] = ImageByte(offset + i - 1),
         offset + n' <= Blocks * BlockSize
  PROVE  CsoInv'
<1>1. pc' = "idle" /\ result' = "ok" /\ offset' = offset + n'
  BY DEF Finish
<1>2. n' \in Nat
  BY DEF CallType
<1>3. offset' \in Nat /\ offset' - n' = offset
  BY <1>1, <1>2, Cancelled, Zenon
<1>4. Sizes' /\ OffsetInBlocks'
  <2>1. Sizes'
    BY SameImage
  <2>2. offset' <= Blocks * BlockSize
    BY <1>1, Zenon
  <2>3. QED BY <1>3, <2>1, <2>2, Zenon DEF OffsetInBlocks
<1>5. InCall' /\ Started' /\ Reading' /\ TidyCompressed' /\ TidyDecode' /\ TidyReadsSucceed'
  BY <1>1 DEF InCall, Started, Reading, TidyCompressed, TidyDecode, TidyReadsSucceed
<1>6. ReadsTheImage'
  <2>1. ImageSize' = ImageSize /\ last' = last
    BY SameImage
  <2>2. offset' > ImageSize => last.size < BlockSize
    BY <1>1, <1>3, BeyondImage, Zenon
  <2>3. ASSUME NEW i \in 1..n', offset' - n' + i <= ImageSize
        PROVE  buf'[i] = ImageByte(offset' - n' + i - 1)
    BY <1>3, <2>3, Zenon
  <2>4. QED BY <1>2, <2>1, <2>2, <2>3, Zenon DEF ReadsTheImage, ImageByte
<1>7. QED BY <1>1, <1>4, <1>5, <1>6, Zenon DEF CsoInv
-----------------------------------------------------------------------------
(* Blocks and bytes.                                                       *)

LEMMA ImageInBlocks ==
  ASSUME Sizes
  PROVE  /\ ImageSize = (Blocks - 1) * BlockSize + last.size
         /\ Blocks * BlockSize = (Blocks - 1) * BlockSize + BlockSize
         /\ (Blocks - 1) * BlockSize \in Nat /\ ImageSize \in Nat /\ ImageSize <= Blocks * BlockSize
<1>1. /\ BlockSize \in Nat \ {0} /\ Blocks \in Nat \ {0} /\ last.size \in 1..BlockSize
      /\ ImageSize = (Blocks - 1) * BlockSize + last.size
  BY DEF Sizes, ImageSize
<1>2. ((Blocks - 1) + 1) * BlockSize = (Blocks - 1) * BlockSize + BlockSize
  BY <1>1, Product
<1>3. (Blocks - 1) + 1 = Blocks
  BY <1>1
<1>4. Blocks * BlockSize = (Blocks - 1) * BlockSize + BlockSize
  BY <1>2, <1>3, Zenon
<1>5. (Blocks - 1) * BlockSize \in Nat
  BY <1>1
<1>. DEFINE m == (Blocks - 1) * BlockSize
<1>6. m \in Nat /\ ImageSize = m + last.size /\ Blocks * BlockSize = m + BlockSize
  BY <1>1, <1>4, <1>5
<1>. HIDE DEF m
<1>7. ImageSize \in Nat /\ ImageSize <= Blocks * BlockSize
  BY <1>1, <1>6
<1>8. QED BY <1>1, <1>4, <1>5, <1>7

\* The block a call begins in, and those it asks for.
LEMMA FirstBlock ==
  ASSUME Sizes, offset \in Nat, offset < ImageSize, length \in Nat
  PROVE  /\ firstBlock \in Block /\ firstBlock \in Nat /\ offset % BlockSize \in 0..(BlockSize - 1)
         /\ offset = firstBlock * BlockSize + (offset % BlockSize)
         /\ BlocksToRead(length) \in Int /\ BlocksToRead(length) <= Blocks - firstBlock
         /\ length > 0 => BlocksToRead(length) >= 1
         /\ length < BlockSize => BlocksToRead(length) = 1
         /\ length >= BlockSize => BlocksToRead(length)
              = Smaller(length \div BlockSize, Blocks - firstBlock)
<1>1. BlockSize \in Nat \ {0} /\ Blocks \in Nat \ {0}
  BY DEF Sizes
<1>2. /\ firstBlock \in Nat /\ offset % BlockSize \in 0..(BlockSize - 1)
      /\ offset = firstBlock * BlockSize + (offset % BlockSize)
  BY <1>1, Quotient DEF firstBlock
<1>3. firstBlock < Blocks
  <2>1. offset < Blocks * BlockSize /\ Blocks * BlockSize \in Nat
    BY <1>1, ImageInBlocks
  <2>2. firstBlock * BlockSize \in Int
    BY <1>1, <1>2
  <2>3. firstBlock * BlockSize < Blocks * BlockSize
    BY <1>2, <2>1, <2>2
  <2>4. QED BY <1>1, <1>2, <2>3, Product
<1>4. length \div BlockSize \in Nat /\ (length >= BlockSize => length \div BlockSize >= 1)
  BY <1>1
<1>. DEFINE q == length \div BlockSize
<1>5. BlocksToRead(length) = Smaller(IF length < BlockSize THEN 1 ELSE q, Blocks - firstBlock)
  BY DEF BlocksToRead, firstBlock
<1>6. q \in Nat /\ (length >= BlockSize => q >= 1)
  BY <1>4
<1>. HIDE DEF q
<1>7. /\ BlocksToRead(length) \in Int /\ BlocksToRead(length) <= Blocks - firstBlock
      /\ length > 0 => BlocksToRead(length) >= 1
      /\ length < BlockSize => BlocksToRead(length) = 1
  BY <1>1, <1>2, <1>3, <1>5, <1>6 DEF Smaller
<1>8. length >= BlockSize => BlocksToRead(length) = Smaller(q, Blocks - firstBlock)
  BY <1>1, <1>5
<1>9. firstBlock \in Block
  BY <1>1, <1>2, <1>3 DEF Block
<1>10. QED BY <1>2, <1>7, <1>8, <1>9 DEF q

LEMMA EndBlock ==
  ASSUME Sizes, offset \in Nat, offset < ImageSize, length \in Nat \ {0}
  PROVE  endBlock \in Entry /\ firstBlock < endBlock /\ endBlock \in Nat
<1>1. /\ Blocks \in Nat /\ firstBlock \in Nat
      /\ BlocksToRead(length) \in Int /\ BlocksToRead(length) >= 1
         /\ BlocksToRead(length) <= Blocks - firstBlock
  BY FirstBlock DEF Sizes
<1>2. QED BY <1>1 DEF endBlock, Entry

LEMMA DecodedSizes ==
  ASSUME Sizes, NEW j \in Block
  PROVE  /\ DecodedSize(j) \in 1..BlockSize
         /\ j # Blocks - 1 => DecodedSize(j) = BlockSize
         /\ j = Blocks - 1 => DecodedSize(j) = last.decoded /\ last.size <= last.decoded
<1>1. BlockSize \in Nat \ {0} /\ last.size \in 1..BlockSize /\ last.decoded \in {last.size, BlockSize}
  BY DEF Sizes
<1>2. QED BY <1>1 DEF DecodedSize

\* What is decoded of a block are the bytes the image has there, all of them.
LEMMA DecodedReaches ==
  ASSUME Sizes, NEW j \in Block, NEW i \in 0..(BlockSize - 1), j * BlockSize + i < ImageSize
  PROVE  i < DecodedSize(j)
<1>1. CASE j # Blocks - 1
  BY <1>1, DecodedSizes DEF Sizes
<1>2. CASE j = Blocks - 1
  <2>1. ImageSize = j * BlockSize + last.size /\ j * BlockSize \in Nat
    BY <1>2, ImageInBlocks
  <2>2. last.size \in Nat /\ last.decoded \in Nat /\ last.size <= last.decoded
    BY <1>2, DecodedSizes DEF Sizes
  <2>3. i < last.size
    <3>. DEFINE m == j * BlockSize
    <3>1. m \in Nat /\ m + i < m + last.size
      BY <2>1
    <3>. HIDE DEF m
    <3>2. QED BY <2>2, <3>1
  <2>4. QED BY <1>2, <2>2, <2>3, DecodedSizes
<1>3. QED BY <1>1, <1>2

LEMMA CachedByteIsRight ==
  ASSUME Sizes, NEW j \in Block, cachedBlock' = j, NEW i \in 0..(BlockSize - 1)
  PROVE  /\ CachedByte(i) \in Byte
         /\ j * BlockSize + i < ImageSize => CachedByte(i) = ImageByte(j * BlockSize + i)
<1>1. BlockSize \in Nat \ {0} /\ Blocks \in Nat /\ j \in Nat /\ j * BlockSize + i \in Int
  BY DEF Sizes, Block
<1>2. CachedByte(i) = IF i >= DecodedSize(j) THEN Old ELSE ImageByte(j * BlockSize + i)
  BY <1>1 DEF CachedByte
<1>3. Old \in Byte /\ ImageByte(j * BlockSize + i) \in Byte
  BY <1>1 DEF Old, ImageByte, Byte
<1>4. j * BlockSize + i < ImageSize => i < DecodedSize(j)
  BY DecodedReaches
<1>5. DecodedSize(j) \in Nat /\ i \in Nat
  BY DecodedSizes, <1>1
<1>6. j * BlockSize + i < ImageSize => ~(i >= DecodedSize(j))
  BY <1>4, <1>5
<1>7. QED BY <1>2, <1>3, <1>6, Zenon

LEMMA PutBytes ==
  ASSUME buf \in Seq(Byte), NEW p \in Int, NEW bytes \in Seq(Byte)
  PROVE  /\ Put(p, bytes) \in Seq(Byte) /\ Len(Put(p, bytes)) = Len(buf)
         /\ \A i \in 1..Len(buf) :
              Put(p, bytes)[i] = IF i > p /\ i <= p + Len(bytes) THEN bytes[i - p] ELSE buf[i]
<1>1. \A i \in 1..Len(buf) : (IF i > p /\ i <= p + Len(bytes) THEN bytes[i - p] ELSE buf[i]) \in Byte
  <2>1. SUFFICES ASSUME NEW i \in 1..Len(buf), i > p /\ i <= p + Len(bytes) PROVE bytes[i - p] \in Byte
    OBVIOUS
  <2>2. i - p \in 1..Len(bytes)
    BY <2>1
  <2>3. QED BY <2>2
<1>2. Len(buf) \in Nat
  OBVIOUS
<1>3. Put(p, bytes) = [i \in 1..Len(buf) |-> IF i > p /\ i <= p + Len(bytes) THEN bytes[i - p]
        ELSE buf[i]]
  BY DEF Put
<1>4. QED BY <1>1, <1>2, <1>3
-----------------------------------------------------------------------------
(* The stages.                                                             *)

\* Where the copy from the cached block ends.
LEMMA CopyEnds ==
  ASSUME Sizes, OffsetInBlocks, offset < ImageSize, length \in Nat \ {0},
         NEW m, m = Smaller(length, BlockSize - (offset % BlockSize))
  PROVE  /\ m \in 1..length /\ (offset % BlockSize) + m <= BlockSize
         /\ offset + m <= Blocks * BlockSize
         /\ BlocksToRead(length) # 1 => offset + m = (firstBlock + 1) * BlockSize
<1>. DEFINE p == firstBlock * BlockSize
            pos == offset % BlockSize
            e == (firstBlock + 1) * BlockSize
            t == Blocks * BlockSize
<1>1. /\ BlockSize \in Nat \ {0} /\ firstBlock \in Nat /\ pos \in 0..(BlockSize - 1) /\ offset = p + pos
      /\ firstBlock < Blocks /\ Blocks \in Nat /\ offset \in Nat
      /\ length < BlockSize => BlocksToRead(length) = 1
  BY FirstBlock DEF Sizes, OffsetInBlocks, Block
<1>2. p \in Int /\ e = p + BlockSize /\ t \in Int /\ p + BlockSize <= t
  BY <1>1, Product
<1>3. m = Smaller(length, BlockSize - pos)
  OBVIOUS
<1>. HIDE DEF p, pos, e, t
<1>4. /\ m \in 1..length /\ pos + m <= BlockSize
      /\ length >= BlockSize => m = BlockSize - pos
  BY <1>1, <1>3 DEF Smaller
<1>5. offset + m <= t /\ (BlocksToRead(length) # 1 => offset + m = e)
  BY <1>1, <1>2, <1>4
<1>6. QED BY <1>4, <1>5 DEF pos, e, t

LEMMA CopyCachedKeeps ==
  ASSUME CsoInv, Unaligned, CopyCached, cachedBlock' = blk, UNCHANGED <<entry, last>>,
         CachedIsRight', IndexIsRight', indexFault' \in BOOLEAN
  PROVE  CsoInv'
<1>. DEFINE pos == offset % BlockSize
            m == Smaller(length, BlockSize - pos)
            bytes == [i \in 1..m |-> CachedByte(pos + i - 1)]
<1>1. /\ Sizes /\ CallType /\ OffsetInBlocks /\ offset \in Nat /\ offset < ImageSize /\ result = "none"
      /\ length \in Nat \ {0} /\ blk = firstBlock /\ pc = "start" /\ offset % BlockSize > 0
  BY DEF CsoInv, Unaligned, InCall, Started, CallType, OffsetInBlocks, firstBlock
<1>2. /\ n' = m /\ buf' = Put(0, bytes) /\ blk' = blk + 1 /\ UNCHANGED <<length, rest>>
  BY DEF CopyCached
<1>3. /\ m \in 1..length /\ pos + m <= BlockSize /\ offset + m <= Blocks * BlockSize
      /\ BlocksToRead(length) # 1 => offset + m = (firstBlock + 1) * BlockSize
  BY <1>1, CopyEnds
<1>4. /\ blk \in Block /\ blk \in Nat /\ blk + 1 \in Entry /\ pos \in 1..(BlockSize - 1)
      /\ offset = blk * BlockSize + pos /\ blk * BlockSize \in Int /\ BlockSize \in Nat
         /\ length \in Nat
  <2>1. /\ firstBlock \in Block /\ pos \in 0..(BlockSize - 1) /\ offset = firstBlock * BlockSize + pos
    BY <1>1, FirstBlock
  <2>2. BlockSize \in Nat \ {0} /\ Blocks \in Nat \ {0}
    BY <1>1 DEF Sizes
  <2>3. blk \in Block /\ blk \in Nat /\ blk + 1 \in Entry
    BY <1>1, <2>1, <2>2 DEF Block, Entry
  <2>4. blk * BlockSize \in Int
    BY <2>2, <2>3
  <2>5. pos \in 1..(BlockSize - 1)
    <3>1. pos > 0
      BY <1>1
    <3>. HIDE DEF pos
    <3>2. QED BY <2>1, <2>2, <3>1
  <2>. HIDE DEF pos
  <2>6. QED BY <1>1, <2>1, <2>2, <2>3, <2>4, <2>5
<1>. HIDE DEF m
<1>5. ASSUME NEW i \in 1..m
      PROVE  /\ CachedByte(pos + i - 1) \in Byte
             /\ offset + i <= ImageSize => CachedByte(pos + i - 1) = ImageByte(offset + i - 1)
  <2>. DEFINE p == blk * BlockSize
              k == pos + i - 1
  <2>1. pos \in 1..(BlockSize - 1) /\ offset = p + pos /\ p \in Int /\ i \in Int
    BY <1>3, <1>4
  <2>2. k \in 0..(BlockSize - 1) /\ offset + i - 1 = p + k /\ offset + i = p + k + 1 /\ k \in Int
    <3>. HIDE DEF p, pos
    <3>1. i \in 1..m /\ pos + m <= BlockSize /\ m \in Int /\ BlockSize \in Int
      BY <1>3, <1>4
    <3>2. QED BY <2>1, <3>1
  <2>3. ImageSize \in Nat
    BY <1>1, ImageInBlocks
  <2>. HIDE DEF k
  <2>4. /\ CachedByte(k) \in Byte
        /\ p + k < ImageSize => CachedByte(k) = ImageByte(p + k)
    BY <1>1, <1>4, <2>2, CachedByteIsRight
  <2>. HIDE DEF p
  <2>5. offset + i <= ImageSize => p + k < ImageSize
    BY <2>1, <2>2, <2>3
  <2>6. QED BY <2>2, <2>4, <2>5, Zenon DEF k
<1>6. bytes \in Seq(Byte) /\ Len(bytes) = m /\ \A i \in 1..m : bytes[i] = CachedByte(pos + i - 1)
  BY <1>3, <1>5
<1>. HIDE DEF bytes
<1>7. /\ buf' \in Seq(Byte) /\ Len(buf') = Len(buf) /\ Len(buf) \in Nat /\ length <= Len(buf)
      /\ \A i \in 1..Len(buf) :
           buf'[i] = IF i > 0 /\ i <= 0 + Len(bytes) THEN bytes[i - 0] ELSE buf[i]
  BY <1>1, <1>2, <1>6, PutBytes DEF CallType
<1>8. ASSUME NEW i \in 1..m PROVE buf'[i] = bytes[i]
  <2>0. /\ m \in 1..length /\ length \in Nat /\ Len(buf) \in Nat /\ length <= Len(buf) /\ Len(bytes) = m
    BY <1>3, <1>4, <1>6, <1>7, Zenon
  <2>1. i \in 1..Len(buf) /\ i > 0 /\ i <= 0 + Len(bytes) /\ i - 0 = i
    BY <2>0
  <2>2. QED BY <1>7, <2>1
<1>9. \A i \in 1..n' : offset + i <= ImageSize => buf'[i] = ImageByte(offset + i - 1)
  BY <1>2, <1>5, <1>6, <1>8
<1>10. CallType'
  <2>1. n' \in 0..length' /\ length' \in Nat /\ blk' \in Entry /\ rest' \in Nat
    BY <1>1, <1>2, <1>3, <1>4 DEF CallType, Entry
  <2>2. Entry' = Entry /\ Byte' = Byte
    BY DEF Entry, Byte
  <2>3. QED BY <1>2, <1>7, <2>1, <2>2 DEF CallType
<1>11. CASE BlocksToRead(length) = 1
  <2>1. Finish("ok")
    BY <1>11 DEF CopyCached
  <2>2. n' > 0 /\ offset + n' <= Blocks * BlockSize
    BY <1>2, <1>3
  <2>3. QED BY <1>1, <1>9, <1>10, <2>1, <2>2, Succeeded
<1>12. CASE BlocksToRead(length) # 1
  <2>1. pc' = "compressed" /\ UNCHANGED <<result, offset>>
    BY <1>12 DEF CopyCached
  <2>2. Sizes' /\ ImageSize' = ImageSize /\ Tidy' = Tidy
    BY <1>1, <1>2, <2>1, SameImage
  <2>3. InCall' /\ Started' /\ OffsetInBlocks' /\ TidyDecode' /\ ReadsTheImage' /\ TidyReadsSucceed'
    BY <1>1, <1>2, <2>1, <2>2 DEF InCall, Started, OffsetInBlocks, TidyDecode, ReadsTheImage,
       TidyReadsSucceed
  <2>4. TidyCompressed'
    BY <1>1, <1>12, <2>2 DEF TidyCompressed, Tidy
  <2>5. Reading'
    <3>1. Filled(n)'
      BY <1>9, <2>1, <2>2 DEF Filled, ImageByte
    <3>2. (offset + n)' <= Blocks * BlockSize /\ (offset + n)' = blk' * BlockSize
      BY <1>1, <1>2, <1>3, <1>12, <2>1
    <3>3. QED BY <3>1, <3>2 DEF Reading
  <2>6. QED BY <1>10, <2>1, <2>2, <2>3, <2>4, <2>5, Zenon DEF CsoInv
<1>13. QED BY <1>11, <1>12

LEMMA SameCaches ==
  ASSUME CsoInv, UNCHANGED <<entry, last, index, indexFault>>
  PROVE  /\ Sizes' /\ IndexIsRight' /\ indexFault' \in BOOLEAN
         /\ UNCHANGED cached => CachedIsRight'
<1>1. Sizes /\ CachedIsRight /\ IndexIsRight /\ indexFault \in BOOLEAN
  BY DEF CsoInv
<1>2. Sizes' /\ indexFault' \in BOOLEAN
  BY <1>1, SameImage
<1>3. Cache' = Cache
  BY DEF index, Cache
<1>4. RightEntries(Cache)' = RightEntries(Cache)
  BY <1>3 DEF RightEntries, CacheState
<1>5. IndexIsRight'
  BY <1>1, <1>4 DEF IndexIsRight
<1>6. UNCHANGED cached => CachedIsRight'
  BY <1>1 DEF cached, CachedIsRight, Block
<1>7. QED BY <1>2, <1>5, <1>6

LEMMA BeginKeeps ==
  ASSUME SizesAssumption, CsoInv, NEW l \in 1..MaxLen, NEW s \in Spare, Begin(l, s)
  PROVE  CsoInv'
<1>1. UNCHANGED <<entry, last, index, cached, offset, indexFault>> /\ pc = "idle"
  BY DEF Begin
<1>2. Sizes' /\ IndexIsRight' /\ indexFault' \in BOOLEAN /\ CachedIsRight' /\ ImageSize' = ImageSize
  BY <1>1, SameCaches, SameImage
<1>3. CallType /\ OffsetInBlocks /\ Sizes /\ offset \in Nat
  BY DEF CsoInv, OffsetInBlocks
<1>4. OffsetInBlocks'
  BY <1>1, <1>3 DEF OffsetInBlocks
<1>5. CASE offset >= ImageSize
  <2>1. result' = "eof" /\ UNCHANGED <<pc, length, buf, n, blk, rest>>
    BY <1>5 DEF Begin, call
  <2>2. CallType'
    BY <1>3, <2>1 DEF CallType, Entry, Byte
  <2>3. InCall' /\ Started' /\ Reading' /\ TidyCompressed' /\ TidyDecode' /\ ReadsTheImage'
        /\ TidyReadsSucceed'
    BY <1>1, <2>1 DEF InCall, Started, Reading, TidyCompressed, TidyDecode, ReadsTheImage,
       TidyReadsSucceed
  <2>4. QED BY <1>1, <1>2, <1>4, <2>1, <2>2, <2>3, Zenon DEF CsoInv
<1>6. CASE ~(offset >= ImageSize)
  <2>1. /\ pc' = "start" /\ result' = "none" /\ length' = l /\ buf' = [i \in 1..(l + s) |-> Old]
        /\ n' = 0 /\ blk' = offset \div BlockSize /\ rest' = l
    BY <1>6 DEF Begin
  <2>2. l \in Nat \ {0} /\ s \in Nat
    BY DEF SizesAssumption
  <2>3. offset < ImageSize
    BY <1>3, <1>6, ImageInBlocks
  <2>4. blk' \in Entry /\ BlockSize' = BlockSize
    <3>1. firstBlock \in Block
      BY <1>3, <2>3, FirstBlock DEF CallType
    <3>2. QED BY <1>3, <2>1, <3>1 DEF firstBlock, Block, Entry, Sizes
  <2>5. buf' \in Seq(Byte) /\ Len(buf') = l + s
    <3>1. Old \in Byte /\ l + s \in Nat
      BY <2>2 DEF Old, Byte
    <3>2. QED BY <2>1, <3>1
  <2>6. CallType'
    <3>1. length' \in Nat /\ n' \in 0..length' /\ rest' \in Nat /\ length' <= l + s
      BY <2>1, <2>2
    <3>2. QED BY <2>4, <2>5, <3>1 DEF CallType, Entry, Byte
  <2>7. InCall'
    BY <1>1, <1>2, <2>1, <2>2, <2>3 DEF InCall
  <2>8. Started' /\ Reading' /\ TidyCompressed' /\ TidyDecode' /\ ReadsTheImage' /\ TidyReadsSucceed'
    BY <1>1, <2>1 DEF Started, Reading, TidyCompressed, TidyDecode, ReadsTheImage, TidyReadsSucceed
  <2>9. QED BY <1>2, <1>4, <2>1, <2>6, <2>7, <2>8, Zenon DEF CsoInv
<1>7. QED BY <1>5, <1>6

LEMMA StartAlignedKeeps ==
  ASSUME CsoInv, StartAligned
  PROVE  CsoInv'
<1>1. /\ UNCHANGED <<entry, last, index, cached, offset, result, fault, indexFault>>
      /\ UNCHANGED <<length, buf, n, blk, rest>>
      /\ pc = "start" /\ pc' = "compressed" /\ ~(offset % BlockSize > 0)
  BY DEF StartAligned, Unaligned, call
<1>2. /\ Sizes' /\ IndexIsRight' /\ indexFault' \in BOOLEAN /\ CachedIsRight'
      /\ ImageSize' = ImageSize /\ Tidy' = Tidy /\ firstBlock' = firstBlock
  BY <1>1, SameCaches, SameImage
<1>3. /\ Sizes /\ CallType /\ OffsetInBlocks /\ offset \in Nat /\ offset < ImageSize
         /\ length \in Nat \ {0}
      /\ n = 0 /\ blk = firstBlock /\ result = "none"
  BY <1>1 DEF CsoInv, OffsetInBlocks, InCall, CallType, Started, firstBlock
<1>4. OffsetInBlocks' /\ CallType' /\ InCall'
  BY <1>1, <1>2, <1>3 DEF OffsetInBlocks, CallType, Entry, Byte, InCall
<1>5. offset % BlockSize = 0 /\ offset = firstBlock * BlockSize /\ BlockSize \in Nat
  <2>. DEFINE pos == offset % BlockSize
              p == firstBlock * BlockSize
  <2>1. pos \in 0..(BlockSize - 1) /\ offset = p + pos /\ BlockSize \in Nat /\ firstBlock \in Nat
        /\ ~(pos > 0)
    BY <1>1, <1>3, FirstBlock DEF Sizes
  <2>2. p \in Int
    BY <2>1
  <2>. HIDE DEF pos, p
  <2>3. pos = 0 /\ offset = p
    BY <1>3, <2>1, <2>2
  <2>4. QED BY <2>1, <2>3 DEF pos, p
<1>6. Reading'
  <2>1. (offset + n)' = offset /\ n' = 0
    BY <1>1, <1>3
  <2>2. Filled(n)'
    BY <2>1 DEF Filled
  <2>3. QED BY <1>1, <1>3, <1>5, <2>1, <2>2 DEF Reading, OffsetInBlocks
<1>7. TidyCompressed'
  BY <1>1, <1>2, <1>3, <1>5 DEF TidyCompressed
<1>8. Started' /\ TidyDecode' /\ ReadsTheImage' /\ TidyReadsSucceed'
  BY <1>1, <1>3 DEF Started, TidyDecode, ReadsTheImage, TidyReadsSucceed
<1>9. QED BY <1>1, <1>2, <1>4, <1>6, <1>7, <1>8, Zenon DEF CsoInv

\* A read inside a block.
LEMMA InBlock ==
  ASSUME CsoInv, Unaligned
  PROVE  /\ Sizes /\ blk \in Block /\ blk = firstBlock /\ blk \in Entry /\ blk + 1 \in Entry
         /\ blk + 1 \in 0..(Blocks + 1) /\ blk # -1 /\ offset % BlockSize > 0
         /\ Tidy => entry[Blocks] - entry[blk] >= BlockSize /\ ~Refuses(blk)
<1>1. /\ Sizes /\ offset \in Nat /\ offset < ImageSize /\ length \in Nat /\ blk = firstBlock
      /\ offset % BlockSize > 0
  BY DEF CsoInv, OffsetInBlocks, Unaligned, InCall, CallType, Started, firstBlock
<1>2. blk \in Block
  BY <1>1, FirstBlock
<1>3. blk \in Entry /\ blk + 1 \in Entry /\ blk + 1 \in 0..(Blocks + 1) /\ blk # -1
  BY <1>1, <1>2 DEF Sizes, Block, Entry
<1>4. Tidy => entry[Blocks] - entry[blk] >= BlockSize /\ ~Refuses(blk)
  BY <1>1 DEF Tidy, firstBlock
<1>5. QED BY <1>1, <1>2, <1>3, <1>4

LEMMA StartCachedKeeps ==
  ASSUME CsoInv, StartCached
  PROVE  CsoInv'
<1>1. /\ Unaligned /\ cachedBlockNum = blk /\ UNCHANGED cached /\ CopyCached
      /\ UNCHANGED <<entry, last, index, indexFault>>
  BY DEF StartCached
<1>2. CachedIsRight' /\ IndexIsRight' /\ indexFault' \in BOOLEAN
  BY <1>1, SameCaches
<1>3. cachedBlock' = blk
  BY <1>1, InBlock DEF CsoInv, CachedIsRight, cached
<1>4. QED BY <1>1, <1>2, <1>3, CopyCachedKeeps

LEMMA StartUncachedFailsKeeps ==
  ASSUME CsoInv, StartUncachedFails
  PROVE  CsoInv'
<1>1. Unaligned /\ UNCHANGED <<entry, last>> /\ indexFault \in BOOLEAN /\ IndexIsRight /\ CachedIsRight
  BY DEF StartUncachedFails, CsoInv
<1>2. PICK c \in Lookups(blk, blk + 1) :
        /\ Keep(c)
        /\ \/ c.outcome # "ok" /\ LookupFails(c) /\ UNCHANGED cached
           \/ c.outcome = "ok" /\ Broken /\ Forget /\ UNCHANGED cachedBlock
           \/ /\ c.outcome = "ok" /\ entry[Blocks] - entry[blk] < BlockSize
              /\ Fails("error") /\ Forget /\ UNCHANGED cachedBlock
  BY DEF StartUncachedFails
<1>3. indexFault \/ (Sane(c) /\ Sound(c))
  BY <1>1, InBlock, LookupsAreSound DEF IndexIsRight
<1>4. IndexIsRight' /\ indexFault' \in BOOLEAN
  BY <1>1, <1>2, <1>3, KeepsEntries DEF IndexIsRight
<1>5. Forget => CachedIsRight'
  BY DEF Forget, CachedIsRight
<1>6. CASE c.outcome # "ok" /\ LookupFails(c) /\ UNCHANGED cached
  <2>1. CachedIsRight'
    BY <1>1, <1>6 DEF cached, CachedIsRight, Block
  <2>2. QED BY <1>1, <1>2, <1>3, <1>6, <2>1, LookupFailed
<1>7. CASE Broken /\ Forget
  <2>1. Finish("error") /\ fault' = TRUE /\ UNCHANGED call
    BY <1>7 DEF Broken
  <2>2. QED BY <1>1, <1>4, <1>5, <1>7, <2>1, Failed
<1>8. CASE entry[Blocks] - entry[blk] < BlockSize /\ Fails("error") /\ Forget
  <2>1. Finish("error") /\ UNCHANGED call
    BY <1>8 DEF Fails
  <2>2. ~Tidy
    <3>1. entry[Blocks] \in Nat /\ entry[blk] \in Nat /\ BlockSize \in Nat
      BY <1>1, InBlock DEF Sizes, Entry
    <3>2. QED BY <1>1, <1>8, <3>1, InBlock
  <2>3. QED BY <1>1, <1>4, <1>5, <1>8, <2>1, <2>2, Failed
<1>9. QED BY <1>2, <1>6, <1>7, <1>8

LEMMA StartUncachedKeeps ==
  ASSUME CsoInv, StartUncached
  PROVE  CsoInv'
<1>1. Unaligned /\ UNCHANGED <<entry, last>> /\ indexFault \in BOOLEAN /\ IndexIsRight
  BY DEF StartUncached, CsoInv
<1>2. PICK c \in After({d \in Lookups(blk, blk + 1) : d.outcome = "ok"}, blk) :
        /\ Keep(c)
        /\ \/ c.outcome # "ok" /\ LookupFails(c) /\ Forget /\ UNCHANGED cachedBlock
           \/ c.outcome = "ok" /\ ~Raw(blk) /\ Broken /\ Spoiled
           \/ c.outcome = "ok" /\ Refuses(blk) /\ Fails("error") /\ Spoiled
           \/ c.outcome = "ok" /\ ~Refuses(blk) /\ Cached(blk) /\ CopyCached
  BY DEF StartUncached
<1>3. indexFault \/ (Sane(c) /\ Sound(c))
  <2>1. SUFFICES ASSUME RightEntries(Cache) PROVE Sane(c) /\ Sound(c)
    BY <1>1 DEF IndexIsRight
  <2>2. \A d \in {d \in Lookups(blk, blk + 1) : d.outcome = "ok"} : Sound(d)
    BY <1>1, <2>1, InBlock, LookupsAreSound
  <2>3. Sound(c)
    BY <1>1, <2>2, InBlock, AfterIsSound
  <2>4. QED BY <2>3 DEF Sound
<1>4. IndexIsRight' /\ indexFault' \in BOOLEAN
  BY <1>1, <1>2, <1>3, KeepsEntries DEF IndexIsRight
<1>5. Forget \/ Spoiled => CachedIsRight'
  BY DEF Forget, Spoiled, CachedIsRight
<1>6. CASE c.outcome # "ok" /\ LookupFails(c) /\ Forget
  BY <1>1, <1>2, <1>3, <1>5, <1>6, LookupFailed
<1>7. CASE Broken /\ Spoiled
  <2>1. Finish("error") /\ fault' = TRUE /\ UNCHANGED call
    BY <1>7 DEF Broken
  <2>2. QED BY <1>1, <1>4, <1>5, <1>7, <2>1, Failed
<1>8. CASE Refuses(blk) /\ Fails("error") /\ Spoiled
  <2>1. Finish("error") /\ UNCHANGED call
    BY <1>8 DEF Fails
  <2>2. ~Tidy
    BY <1>1, <1>8, InBlock
  <2>3. QED BY <1>1, <1>4, <1>5, <1>8, <2>1, <2>2, Failed
<1>9. CASE Cached(blk) /\ CopyCached
  <2>1. cachedBlock' = blk /\ CachedIsRight'
    BY <1>1, <1>9, InBlock DEF Cached, CachedIsRight, Block
  <2>2. QED BY <1>1, <1>4, <1>9, <2>1, CopyCachedKeeps
<1>10. QED BY <1>2, <1>6, <1>7, <1>8, <1>9

LEMMA FullKeeps ==
  ASSUME CsoInv, Full
  PROVE  CsoInv'
<1>1. /\ UNCHANGED <<entry, last, index, cached, indexFault>> /\ Finish("ok")
         /\ UNCHANGED <<length, buf, n, blk, rest>>
      /\ pc = "decode" /\ n = length
  BY DEF Full, call
<1>2. CachedIsRight' /\ IndexIsRight' /\ indexFault' \in BOOLEAN
  BY <1>1, SameCaches
<1>3. Sizes /\ offset \in Nat /\ CallType /\ length > 0 /\ Reading
  BY <1>1 DEF CsoInv, OffsetInBlocks, InCall
<1>4. CallType' /\ n' > 0 /\ offset + n' <= Blocks * BlockSize
  BY <1>1, <1>3 DEF CallType, Entry, Byte, Reading
<1>5. \A i \in 1..n' : offset + i <= ImageSize => buf'[i] = ImageByte(offset + i - 1)
  BY <1>1, <1>3 DEF Reading, Filled
<1>6. QED BY <1>1, <1>2, <1>3, <1>4, <1>5, Succeeded

LEMMA SeekKeeps ==
  ASSUME CsoInv, Seek
  PROVE  CsoInv'
<1>1. /\ UNCHANGED <<entry, last, index, cached, indexFault, pc>>
         /\ UNCHANGED <<length, buf, n, blk, rest>>
      /\ pc = "idle" /\ offset' \in 0..ImageSize /\ result' = "none"
  BY DEF Seek, call
<1>2. Sizes' /\ CachedIsRight' /\ IndexIsRight' /\ indexFault' \in BOOLEAN
  BY <1>1, SameCaches
<1>3. CallType'
  BY <1>1 DEF CsoInv, CallType, Entry, Byte
<1>4. OffsetInBlocks'
  <2>. DEFINE t == Blocks * BlockSize
  <2>1. ImageSize \in Nat /\ ImageSize <= t /\ t \in Int
    BY ImageInBlocks DEF CsoInv, Sizes
  <2>. HIDE DEF t
  <2>2. offset' \in Nat /\ offset' <= t
    BY <1>1, <2>1
  <2>3. QED BY <2>2 DEF t, OffsetInBlocks
<1>5. InCall' /\ Started' /\ Reading' /\ TidyCompressed' /\ TidyDecode' /\ ReadsTheImage'
      /\ TidyReadsSucceed'
  BY <1>1 DEF InCall, Started, Reading, TidyCompressed, TidyDecode, ReadsTheImage, TidyReadsSucceed
<1>6. QED BY <1>1, <1>2, <1>3, <1>4, <1>5, Zenon DEF CsoInv
-----------------------------------------------------------------------------
(* Whole blocks.                                                           *)

\* A tidy read that begins at a block: all its blocks, or a part of one that has
\* room for the compressed block.
LEMMA TidyShape ==
  ASSUME Sizes, offset \in Nat, offset < ImageSize, length \in Nat \ {0}, Tidy, offset % BlockSize = 0
  PROVE  /\ entry[endBlock] - entry[firstBlock] <= length
         /\ offset = firstBlock * BlockSize /\ offset + length <= ImageSize
         /\ \/ length < BlockSize /\ endBlock = firstBlock + 1
            \/ length >= BlockSize /\ length = (endBlock - firstBlock) * BlockSize
<1>. DEFINE p == firstBlock * BlockSize
<1>1. /\ BlockSize \in Nat \ {0} /\ Blocks \in Nat \ {0} /\ entry \in [Entry -> Nat]
      /\ firstBlock \in Block /\ firstBlock \in Nat /\ offset = p + (offset % BlockSize)
  BY FirstBlock DEF Sizes
<1>2. endBlock \in Entry /\ firstBlock < endBlock /\ endBlock \in Nat /\ firstBlock \in Entry
  BY <1>1, EndBlock DEF Block, Entry
<1>3. /\ ~(offset % BlockSize > 0)
      /\ length <= ImageSize - offset
      /\ length % BlockSize = 0 \/ (length < BlockSize /\ SizeOf(firstBlock) <= length)
  BY DEF Tidy, firstBlock
<1>4. offset = p
  <2>1. p \in Int
    BY <1>1
  <2>. HIDE DEF p
  <2>2. QED BY <1>1, <2>1
<1>5. offset + length <= ImageSize /\ ImageSize \in Nat
  BY <1>3, ImageInBlocks
<1>6. CASE length < BlockSize
  <2>1. endBlock = firstBlock + 1
    BY <1>1, <1>6, FirstBlock DEF endBlock
  <2>2. SizeOf(firstBlock) <= length
    <3>1. CASE length % BlockSize = 0
      BY <1>1, <1>6, <3>1
    <3>2. QED BY <1>3, <3>1
  <2>3. QED BY <1>4, <1>5, <1>6, <2>1, <2>2 DEF SizeOf
<1>7. CASE length >= BlockSize
  <2>. DEFINE q == length \div BlockSize
  <2>1. length % BlockSize = 0
    BY <1>1, <1>3, <1>7
  <2>2. q \in Nat /\ length = q * BlockSize
    <3>1. length = q * BlockSize + (length % BlockSize) /\ q \in Nat
      BY <1>1, Quotient
    <3>2. q * BlockSize \in Int
      BY <1>1, <3>1
    <3>3. QED BY <2>1, <3>1, <3>2
  <2>3. BlocksToRead(length) = Smaller(q, Blocks - firstBlock)
    BY <1>7, FirstBlock
  <2>. HIDE DEF q
  <2>4. q <= Blocks - firstBlock
    <3>1. q * BlockSize <= (Blocks - firstBlock) * BlockSize
      <4>. DEFINE t == Blocks * BlockSize
                  d == (Blocks - firstBlock) * BlockSize
      <4>1. d = t - p /\ t \in Int /\ p \in Int /\ d \in Int
        BY <1>1, Product
      <4>2. ImageSize <= t
        BY ImageInBlocks
      <4>. HIDE DEF t, d, p
      <4>3. length <= d
        BY <1>4, <1>5, <4>1, <4>2
      <4>4. QED BY <2>2, <4>3 DEF d
    <3>2. ASSUME Blocks - firstBlock < q PROVE FALSE
      <4>1. Blocks - firstBlock \in Int /\ q \in Int
        BY <1>1, <2>2
      <4>. DEFINE d == (Blocks - firstBlock) * BlockSize
      <4>2. d + BlockSize <= q * BlockSize /\ d \in Int /\ q * BlockSize \in Int
        BY <1>1, <3>2, <4>1, Product
      <4>3. q * BlockSize <= d
        BY <3>1
      <4>. HIDE DEF d
      <4>4. QED BY <1>1, <4>2, <4>3
    <3>3. QED BY <1>1, <2>2, <3>2
  <2>5. endBlock - firstBlock = q
    <3>1. BlocksToRead(length) = q
      BY <1>1, <2>2, <2>3, <2>4, SmallerOf
    <3>2. QED BY <1>1, <2>2, <3>1 DEF endBlock
  <2>6. length = (endBlock - firstBlock) * BlockSize
    BY <2>2, <2>5
  <2>7. entry[endBlock] - entry[firstBlock] <= (endBlock - firstBlock) * BlockSize
    BY <1>2, EntriesGrow
  <2>8. QED BY <1>4, <1>5, <1>7, <2>6, <2>7
<1>8. QED BY <1>1, <1>6, <1>7

LEMMA ReadCompressedKeeps ==
  ASSUME CsoInv, ReadCompressed
  PROVE  CsoInv'
<1>. DEFINE size == entry[endBlock] - entry[blk]
            bytes == [i \in 1..size |-> FileByte(entry[blk] + i - 1)]
<1>1. /\ pc = "compressed" /\ UNCHANGED <<entry, last, cached>>
      /\ indexFault \in BOOLEAN /\ IndexIsRight /\ CachedIsRight
  BY DEF ReadCompressed, CsoInv
<1>2. PICK c \in Lookups(blk, endBlock) :
        /\ Keep(c)
        /\ \/ c.outcome # "ok" /\ LookupFails(c)
           \/ c.outcome = "ok" /\ size > length - n /\ Fails("overflow")
           \/ c.outcome = "ok" /\ size <= length - n /\ Broken
           \/ /\ c.outcome = "ok" /\ size <= length - n
              /\ pc' = "decode" /\ rest' = length - size
              /\ buf' = Put(rest', bytes)
              /\ UNCHANGED <<length, n, blk, result, offset, fault>>
  BY DEF ReadCompressed, endBlock, firstBlock
<1>3. /\ Sizes /\ CallType /\ OffsetInBlocks /\ offset \in Nat /\ offset < ImageSize
         /\ length \in Nat \ {0}
      /\ blk \in Entry /\ result = "none" /\ Reading /\ TidyCompressed
  BY <1>1 DEF CsoInv, OffsetInBlocks, InCall, CallType
<1>4. endBlock \in Entry /\ endBlock \in 0..(Blocks + 1) /\ firstBlock < endBlock /\ endBlock \in Nat
      /\ firstBlock \in Entry
  <2>1. endBlock \in Entry /\ firstBlock < endBlock /\ endBlock \in Nat /\ firstBlock \in Block
    BY <1>3, EndBlock, FirstBlock
  <2>2. QED BY <1>3, <2>1 DEF Entry, Block, Sizes
<1>5. size \in Int /\ entry[blk] \in Nat /\ entry[endBlock] \in Nat /\ length \in Nat /\ n \in 0..length
  BY <1>3, <1>4 DEF Sizes, CallType
<1>6. Tidy => n = 0 /\ blk = firstBlock /\ offset % BlockSize = 0 /\ size <= length
  BY <1>1, <1>3, TidyShape DEF TidyCompressed
<1>7. indexFault \/ (Sane(c) /\ Sound(c))
  BY <1>1, <1>3, <1>4, LookupsAreSound DEF IndexIsRight
<1>8. IndexIsRight' /\ indexFault' \in BOOLEAN
  BY <1>1, <1>2, <1>7, KeepsEntries DEF IndexIsRight
<1>9. CachedIsRight'
  BY <1>1 DEF cached, CachedIsRight, Block
<1>. HIDE DEF size
<1>10. CASE c.outcome # "ok" /\ LookupFails(c)
  BY <1>1, <1>2, <1>7, <1>9, <1>10, LookupFailed
<1>11. CASE size > length - n /\ Fails("overflow")
  <2>1. Finish("overflow") /\ UNCHANGED call
    BY <1>11 DEF Fails
  <2>2. ~Tidy
    BY <1>5, <1>6, <1>11
  <2>3. QED BY <1>1, <1>8, <1>9, <2>1, <2>2, Failed
<1>12. CASE Broken
  <2>1. Finish("error") /\ fault' = TRUE /\ UNCHANGED call
    BY <1>12 DEF Broken
  <2>2. QED BY <1>1, <1>8, <1>9, <2>1, Failed
<1>13. CASE /\ size <= length - n
            /\ pc' = "decode" /\ rest' = length - size
            /\ buf' = Put(rest', bytes)
            /\ UNCHANGED <<length, n, blk, result, offset, fault>>
  <2>1. /\ Sizes' /\ ImageSize' = ImageSize /\ Tidy' = Tidy
        /\ firstBlock' = firstBlock /\ endBlock' = endBlock
    BY <1>1, <1>3, <1>13, SameImage
  <2>2. bytes \in Seq(Byte) /\ (size >= 0 => Len(bytes) = size)
        /\ \A i \in 1..size : bytes[i] = FileByte(entry[blk] + i - 1)
    <3>1. \A i \in 1..size : FileByte(entry[blk] + i - 1) \in Byte
      BY <1>5 DEF FileByte, Byte
    <3>2. CASE size >= 0
      <4>1. size \in Nat
        BY <1>5, <3>2
      <4>2. QED BY <3>1, <4>1
    <3>3. CASE ~(size >= 0)
      <4>1. 1..size = {}
        BY <1>5, <3>3
      <4>2. bytes = [i \in 1..0 |-> FileByte(entry[blk] + i - 1)]
        BY <4>1
      <4>3. [i \in 1..0 |-> FileByte(entry[blk] + i - 1)] \in Seq(Byte)
        OBVIOUS
      <4>4. QED BY <3>3, <4>1, <4>2, <4>3
    <3>4. QED BY <3>2, <3>3
  <2>. HIDE DEF bytes
  <2>3. rest' \in Nat /\ n <= rest' /\ n \in Nat
    BY <1>5, <1>13
  <2>4. /\ buf' \in Seq(Byte) /\ Len(buf') = Len(buf) /\ Len(buf) \in Nat /\ length <= Len(buf)
        /\ \A i \in 1..Len(buf) :
             buf'[i] = IF i > rest' /\ i <= rest' + Len(bytes) THEN bytes[i - rest'] ELSE buf[i]
    BY <1>3, <1>13, <2>2, <2>3, PutBytes DEF CallType
  <2>5. CallType' /\ OffsetInBlocks' /\ InCall'
    BY <1>3, <1>13, <2>1, <2>3, <2>4 DEF CallType, Entry, Byte, OffsetInBlocks, InCall
  <2>6. Reading'
    <3>1. ASSUME NEW i \in 1..n PROVE buf'[i] = buf[i]
      <4>1. i \in 1..Len(buf) /\ ~(i > rest')
        BY <1>5, <2>3, <2>4
      <4>2. QED BY <2>4, <4>1
    <3>2. Filled(n)'
      BY <1>1, <1>3, <1>13, <2>1, <3>1 DEF Reading, Filled, ImageByte
    <3>3. QED BY <1>1, <1>3, <1>13, <3>2 DEF Reading
  <2>7. TidyDecode'
    <3>1. SUFFICES ASSUME Tidy PROVE TidyDecode'
      BY <2>1 DEF TidyDecode
    <3>2. n = 0 /\ blk = firstBlock /\ offset % BlockSize = 0 /\ size >= 0
      <4>1. entry[firstBlock] <= entry[endBlock]
        <5>1. firstBlock <= endBlock
          BY <1>3, <1>4, FirstBlock
        <5>2. QED BY <1>3, <1>4, <5>1, EntriesGrow
      <4>2. QED BY <1>5, <1>6, <3>1, <4>1 DEF size
    <3>3. ASSUME NEW i \in 1..length, i > rest' PROVE buf'[i] = FileByte(entry[blk] + i - rest' - 1)
      <4>1. Len(bytes) = size
        BY <2>2, <3>2
      <4>2. i \in 1..Len(buf) /\ i <= rest' + Len(bytes) /\ i - rest' \in 1..size
            /\ entry[blk] + (i - rest') - 1 = entry[blk] + i - rest' - 1
        BY <1>5, <1>13, <2>3, <2>4, <3>3, <4>1
      <4>3. buf'[i] = bytes[i - rest']
        BY <2>4, <3>3, <4>2
      <4>4. QED BY <2>2, <4>2, <4>3
    <3>4. n = (blk - firstBlock) * BlockSize
      <4>1. blk - firstBlock = 0 /\ BlockSize \in Nat
        BY <1>3, <3>2, FirstBlock DEF Sizes
      <4>2. 0 * BlockSize = 0
        BY <4>1
      <4>3. QED BY <3>2, <4>1, <4>2
    <3>5. firstBlock <= blk /\ blk <= endBlock /\ rest' = length - (entry[endBlock] - entry[blk])
      BY <1>3, <1>4, <1>13, <3>2, FirstBlock DEF size
    <3>6. QED BY <1>1, <1>13, <2>1, <3>2, <3>3, <3>4, <3>5 DEF TidyDecode, FileByte
  <2>8. Started' /\ TidyCompressed' /\ ReadsTheImage' /\ TidyReadsSucceed'
    BY <1>3, <1>13 DEF Started, TidyCompressed, ReadsTheImage, TidyReadsSucceed
  <2>9. QED BY <1>8, <1>9, <1>13, <2>1, <2>5, <2>6, <2>7, <2>8, Zenon DEF CsoInv
<1>14. QED BY <1>2, <1>10, <1>11, <1>12, <1>13

\* The state of a call that decodes.
LEMMA Decoding ==
  ASSUME CsoInv, pc = "decode"
  PROVE  /\ Sizes /\ CallType /\ OffsetInBlocks /\ offset \in Nat /\ offset < ImageSize
            /\ length \in Nat \ {0}
         /\ n \in 0..length /\ n \in Nat /\ rest \in Nat /\ blk \in Entry /\ blk \in Nat
            /\ blk <= Blocks
         /\ buf \in Seq(Byte) /\ Len(buf) \in Nat /\ length <= Len(buf)
         /\ BlockSize \in Nat \ {0} /\ Blocks \in Nat \ {0} /\ entry \in [Entry -> Nat]
         /\ result = "none" /\ Filled(n) /\ offset + n <= Blocks * BlockSize
         /\ blk < Blocks => offset + n = blk * BlockSize /\ blk \in Block
         /\ indexFault \in BOOLEAN /\ IndexIsRight /\ CachedIsRight /\ TidyDecode
<1>1. /\ Sizes /\ CallType /\ OffsetInBlocks /\ offset \in Nat /\ offset < ImageSize /\ length > 0
      /\ result = "none" /\ Filled(n) /\ offset + n <= Blocks * BlockSize
      /\ blk < Blocks => offset + n = blk * BlockSize
      /\ indexFault \in BOOLEAN /\ IndexIsRight /\ CachedIsRight /\ TidyDecode
  BY DEF CsoInv, OffsetInBlocks, InCall, Reading
<1>2. BlockSize \in Nat \ {0} /\ Blocks \in Nat \ {0} /\ entry \in [Entry -> Nat]
  BY <1>1 DEF Sizes
<1>3. /\ length \in Nat \ {0} /\ n \in 0..length /\ rest \in Nat /\ blk \in Entry
      /\ buf \in Seq(Byte) /\ length <= Len(buf)
  BY <1>1 DEF CallType
<1>4. blk \in Nat /\ blk <= Blocks /\ (blk < Blocks => blk \in Block)
  BY <1>2, <1>3 DEF Entry, Block
<1>5. n \in Nat /\ Len(buf) \in Nat
  BY <1>3
<1>6. QED BY <1>1, <1>2, <1>3, <1>4, <1>5

\* Where a tidy read is: before the end of its blocks, and the compressed ones do
\* not begin before what is decoded ends.
LEMMA TidyPlace ==
  ASSUME CsoInv, pc = "decode", Tidy
  PROVE  /\ rest >= n /\ endBlock \in Entry /\ endBlock \in Nat /\ endBlock <= Blocks
         /\ offset + length <= ImageSize /\ offset % BlockSize = 0
         /\ firstBlock \in Nat /\ firstBlock <= blk /\ blk <= endBlock
         /\ n = (blk - firstBlock) * BlockSize
         /\ rest = length - (entry[endBlock] - entry[blk])
         /\ n < length => blk < endBlock
         /\ \/ length < BlockSize /\ blk = firstBlock
            \/ length >= BlockSize /\ length = (endBlock - firstBlock) * BlockSize
<1>1. /\ offset % BlockSize = 0 /\ firstBlock <= blk /\ blk <= endBlock
      /\ rest = length - (entry[endBlock] - entry[blk])
      /\ n = (blk - firstBlock) * BlockSize
      /\ length < BlockSize => blk = firstBlock
  BY Decoding DEF TidyDecode
<1>2. /\ endBlock \in Entry /\ endBlock \in Nat /\ firstBlock < endBlock /\ firstBlock \in Nat
      /\ firstBlock \in Entry /\ endBlock <= Blocks
  <2>1. endBlock \in Entry /\ firstBlock < endBlock /\ endBlock \in Nat /\ firstBlock \in Block
        /\ firstBlock \in Nat
    BY Decoding, EndBlock, FirstBlock
  <2>2. QED BY <2>1, Decoding DEF Block, Entry
<1>3. /\ entry[endBlock] - entry[firstBlock] <= length /\ offset + length <= ImageSize
      /\ \/ length < BlockSize /\ endBlock = firstBlock + 1
         \/ length >= BlockSize /\ length = (endBlock - firstBlock) * BlockSize
  BY <1>1, Decoding, TidyShape
<1>4. entry[endBlock] \in Nat /\ entry[blk] \in Nat /\ entry[firstBlock] \in Nat
  BY <1>2, Decoding
<1>5. CASE length < BlockSize
  <2>1. blk = firstBlock /\ n = 0
    <3>1. blk - firstBlock = 0
      BY <1>1, <1>2, <1>5
    <3>2. 0 * BlockSize = 0
      BY Decoding
    <3>3. QED BY <1>1, <1>5, <3>1, <3>2
  <2>2. rest >= n
    BY <1>1, <1>3, <1>4, <2>1, Decoding
  <2>3. QED BY <1>1, <1>2, <1>3, <1>5, <2>1, <2>2
<1>6. CASE length >= BlockSize
  <2>. DEFINE p == firstBlock * BlockSize
              b == blk * BlockSize
              e == endBlock * BlockSize
  <2>1. length = (endBlock - firstBlock) * BlockSize
    BY <1>3, <1>6, Decoding
  <2>2. /\ p \in Int /\ b \in Int /\ e \in Int /\ length = e - p /\ n = b - p
        /\ (endBlock - blk) * BlockSize = e - b
    <3>1. firstBlock \in Int /\ endBlock \in Int /\ blk \in Int /\ BlockSize \in Nat \ {0}
      BY <1>2, Decoding
    <3>2. p \in Int /\ b \in Int /\ e \in Int
      BY <3>1
    <3>3. /\ (endBlock - firstBlock) * BlockSize = e - p
          /\ (blk - firstBlock) * BlockSize = b - p
          /\ (endBlock - blk) * BlockSize = e - b
      BY <3>1, Product
    <3>4. QED BY <1>1, <2>1, <3>2, <3>3
  <2>3. entry[endBlock] - entry[blk] <= e - b
    BY <1>1, <1>2, <2>2, Decoding, EntriesGrow
  <2>. HIDE DEF p, b, e
  <2>4. rest >= n
    BY <1>1, <1>4, <2>2, <2>3
  <2>5. n < length => blk < endBlock
    <3>1. blk = endBlock => b = e
      BY DEF b, e
    <3>2. blk \in Nat
      BY Decoding
    <3>3. QED BY <1>1, <1>2, <2>2, <3>1, <3>2
  <2>6. QED BY <1>1, <1>2, <1>3, <1>6, <2>1, <2>4, <2>5
<1>7. BlockSize \in Nat /\ length \in Nat
  BY Decoding
<1>8. QED BY <1>5, <1>6, <1>7

\* So it finds the next block, all of it.
LEMMA TidyFinds ==
  ASSUME CsoInv, pc = "decode", Tidy, n < length
  PROVE  blk \in Block /\ blk < endBlock /\ Fits /\ Genuine /\ rest + SizeOf(blk) <= length
<1>1. /\ rest >= n /\ endBlock \in Entry /\ endBlock \in Nat /\ endBlock <= Blocks /\ blk < endBlock
      /\ rest = length - (entry[endBlock] - entry[blk])
  BY TidyPlace
<1>2. blk \in Block /\ blk \in Nat /\ blk + 1 \in Entry /\ blk \in Entry /\ blk + 1 <= endBlock
  <2>1. blk \in Nat /\ Blocks \in Nat
    BY Decoding
  <2>2. QED BY <1>1, <2>1 DEF Block, Entry
<1>3. /\ entry[blk + 1] <= entry[endBlock] /\ entry[blk] \in Nat /\ entry[blk + 1] \in Nat
         /\ entry[endBlock] \in Nat
      /\ SizeOf(blk) = entry[blk + 1] - entry[blk]
  BY <1>1, <1>2, Decoding, EntriesGrow DEF SizeOf
<1>4. n \in Nat /\ length \in Nat /\ Len(buf) \in Nat /\ length <= Len(buf) /\ rest \in Nat
  BY Decoding
<1>. DEFINE size == SizeOf(blk)
<1>5. size = entry[blk + 1] - entry[blk]
  BY <1>3
<1>. HIDE DEF size
<1>6. rest + size <= length /\ size \in Int
  <2>. DEFINE b == entry[blk]
              c == entry[blk + 1]
              e == entry[endBlock]
  <2>1. /\ b \in Int /\ c \in Int /\ e \in Int /\ c <= e
        /\ size = c - b /\ rest = length - (e - b)
    BY <1>1, <1>3, <1>5
  <2>2. length \in Int
    BY <1>4
  <2>. HIDE DEF b, c, e
  <2>3. QED BY <2>1, <2>2
<1>7. Fits
  BY <1>4, <1>6 DEF Fits, size
<1>8. ASSUME NEW i \in 1..size PROVE buf[rest + i] = FileByte(entry[blk] + i - 1)
  <2>1. \A p \in 1..length : p > rest => buf[p] = FileByte(entry[blk] + p - rest - 1)
    BY Decoding DEF TidyDecode
  <2>2. rest + i \in 1..length /\ rest + i > rest
        /\ entry[blk] + (rest + i) - rest - 1 = entry[blk] + i - 1
    <3>1. /\ rest \in Int /\ rest >= 0 /\ i \in Int /\ i >= 1 /\ i <= size /\ length \in Int
          /\ rest + size <= length /\ size \in Int /\ entry[blk] \in Int
      BY <1>1, <1>3, <1>4, <1>6
    <3>2. QED BY <3>1
  <2>3. QED BY <2>1, <2>2
<1>9. QED BY <1>1, <1>2, <1>6, <1>7, <1>8 DEF Genuine, size

\* The lookups of a turn of the loop, with the second one of its block or without.
LEMMA DecodingLookups ==
  ASSUME CsoInv, pc = "decode"
  PROVE  /\ \A c \in Lookups(blk, blk + 1) : indexFault \/ Sane(c)
         /\ \A c \in After(Lookups(blk, blk + 1), blk) : indexFault \/ Sane(c)
         /\ blk \in Block => /\ \A c \in Lookups(blk, blk + 1) : indexFault \/ Sound(c)
                             /\ \A c \in After(Lookups(blk, blk + 1), blk) : indexFault \/ Sound(c)
<1>1. Sizes /\ blk \in Entry /\ blk \in 0..(Blocks + 1) /\ blk + 1 \in 0..(Blocks + 1)
  <2>1. Sizes /\ blk \in Entry /\ blk \in Nat /\ blk <= Blocks /\ Blocks \in Nat
    BY Decoding
  <2>2. QED BY <2>1
<1>2. SUFFICES ASSUME RightEntries(Cache)
      PROVE  /\ \A c \in Lookups(blk, blk + 1) : Sane(c)
             /\ \A c \in After(Lookups(blk, blk + 1), blk) : Sane(c)
             /\ blk \in Block => /\ \A c \in Lookups(blk, blk + 1) : Sound(c)
                                 /\ \A c \in After(Lookups(blk, blk + 1), blk) : Sound(c)
  <2>1. indexFault \/ RightEntries(Cache)
    BY Decoding DEF IndexIsRight
  <2>2. QED BY <2>1
<1>3. \A c \in Lookups(blk, blk + 1) : Sane(c)
  BY <1>1, <1>2, LookupsAreSound
<1>4. \A c \in After(Lookups(blk, blk + 1), blk) : Sane(c)
  BY <1>1, <1>3, AfterIsSane
<1>5. ASSUME blk \in Block
      PROVE  /\ \A c \in Lookups(blk, blk + 1) : Sound(c)
             /\ \A c \in After(Lookups(blk, blk + 1), blk) : Sound(c)
  <2>1. blk + 1 \in Entry
    BY <1>5, Decoding DEF Block, Entry
  <2>2. \A c \in Lookups(blk, blk + 1) : Sound(c)
    BY <1>1, <1>2, <2>1, LookupsAreSound
  <2>3. QED BY <1>1, <2>2, AfterIsSound
<1>6. QED BY <1>3, <1>4, <1>5

LEMMA DecodeFailsKeeps ==
  ASSUME CsoInv, DecodeFails
  PROVE  CsoInv'
<1>1. /\ pc = "decode" /\ n < length /\ UNCHANGED <<entry, last, cached>>
      /\ indexFault \in BOOLEAN /\ CachedIsRight
  BY DEF DecodeFails, CsoInv
<1>2. PICK c \in (IF Fits THEN After(Lookups(blk, blk + 1), blk) ELSE Lookups(blk, blk + 1)) :
        /\ Keep(c)
        /\ \/ c.outcome # "ok" /\ LookupFails(c)
           \/ c.outcome = "ok" /\ ~Fits /\ Fails("overflow")
           \/ c.outcome = "ok" /\ Fits /\ ~Genuine /\ Fails("astray")
  BY DEF DecodeFails
<1>3. (indexFault \/ Sane(c)) /\ (blk \in Block => indexFault \/ Sound(c))
  BY <1>1, <1>2, DecodingLookups
<1>4. Tidy => blk \in Block /\ Fits /\ Genuine
  BY <1>1, TidyFinds
<1>5. IndexIsRight' /\ indexFault' \in BOOLEAN
  BY <1>1, <1>2, <1>3, KeepsEntries DEF IndexIsRight
<1>6. CachedIsRight'
  BY <1>1 DEF cached, CachedIsRight, Block
<1>7. CASE c.outcome # "ok" /\ LookupFails(c)
  BY <1>1, <1>2, <1>3, <1>4, <1>6, <1>7, LookupFailed
<1>8. ASSUME NEW r, r # "ok", Fails(r), ~Fits \/ ~Genuine PROVE CsoInv'
  <2>1. Finish(r) /\ UNCHANGED call
    BY <1>8 DEF Fails
  <2>2. QED BY <1>1, <1>4, <1>5, <1>6, <1>8, <2>1, Failed
<1>9. QED BY <1>2, <1>7, <1>8

LEMMA DecodePartKeeps ==
  ASSUME CsoInv, DecodePart
  PROVE  CsoInv'
<1>. DEFINE bytes == [i \in 1..(length - n) |-> CachedByte(i - 1)]
<1>1. /\ pc = "decode" /\ n < length /\ length - n < BlockSize /\ blk < Blocks /\ Fits /\ Genuine
      /\ UNCHANGED <<entry, last>>
  BY DEF DecodePart
<1>2. PICK c \in After(Lookups(blk, blk + 1), blk) :
        /\ c.outcome = "ok" /\ Keep(c)
        /\ \/ ~Raw(blk) /\ Broken /\ Spoiled
           \/ Refuses(blk) /\ Fails("error") /\ Spoiled
           \/ /\ ~Refuses(blk) /\ Cached(blk)
              /\ buf' = Put(n, bytes) /\ n' = length /\ Finish("ok")
              /\ UNCHANGED <<length, blk, rest, fault>>
  BY DEF DecodePart
<1>3. indexFault \/ Sane(c)
  BY <1>1, <1>2, DecodingLookups
<1>4. IndexIsRight' /\ indexFault' \in BOOLEAN
  BY <1>1, <1>2, <1>3, Decoding, KeepsEntries DEF IndexIsRight
<1>5. Spoiled => CachedIsRight'
  BY DEF Forget, Spoiled, CachedIsRight
<1>6. CASE Broken /\ Spoiled
  <2>1. Finish("error") /\ fault' = TRUE /\ UNCHANGED call
    BY <1>6 DEF Broken
  <2>2. QED BY <1>1, <1>4, <1>5, <1>6, <2>1, Failed
<1>7. CASE Refuses(blk) /\ Fails("error") /\ Spoiled
  <2>1. Finish("error") /\ UNCHANGED call
    BY <1>7 DEF Fails
  <2>2. ASSUME Tidy PROVE FALSE
    <3>1. CASE length < BlockSize /\ blk = firstBlock
      BY <1>7, <2>2, <3>1 DEF Tidy, firstBlock
    <3>2. CASE length >= BlockSize /\ length = (endBlock - firstBlock) * BlockSize
      <4>. DEFINE p == firstBlock * BlockSize
                  b == blk * BlockSize
                  e == endBlock * BlockSize
      <4>1. /\ p \in Int /\ b \in Int /\ e \in Int /\ length = e - p /\ n = b - p /\ b + BlockSize <= e
        <5>1. n = (blk - firstBlock) * BlockSize /\ blk < endBlock /\ firstBlock \in Nat
              /\ endBlock \in Nat
          BY <1>1, <2>2, TidyPlace
        <5>2. firstBlock \in Int /\ endBlock \in Int /\ blk \in Int /\ BlockSize \in Nat \ {0}
          BY <1>1, <5>1, Decoding
        <5>3. /\ (endBlock - firstBlock) * BlockSize = e - p
              /\ (blk - firstBlock) * BlockSize = b - p
              /\ b + BlockSize <= e
          BY <5>1, <5>2, Product
        <5>4. p \in Int /\ b \in Int /\ e \in Int
          BY <5>2
        <5>5. QED BY <3>2, <5>1, <5>3, <5>4
      <4>. HIDE DEF p, b, e
      <4>2. BlockSize \in Nat
        BY <1>1, Decoding
      <4>3. QED BY <1>1, <4>1, <4>2
    <3>3. QED BY <1>1, <2>2, <3>1, <3>2, TidyPlace
  <2>3. QED BY <1>1, <1>4, <1>5, <1>7, <2>1, <2>2, Failed
<1>8. CASE /\ Cached(blk)
           /\ buf' = Put(n, bytes) /\ n' = length /\ Finish("ok")
           /\ UNCHANGED <<length, blk, rest, fault>>
  <2>1. cachedBlock' = blk /\ CachedIsRight' /\ blk \in Block
    BY <1>1, <1>8, Decoding DEF Cached, CachedIsRight, Block
  <2>. DEFINE p == blk * BlockSize
              t == Blocks * BlockSize
  <2>2. /\ offset + n = p /\ p \in Int /\ p + BlockSize <= t /\ t \in Int /\ ImageSize \in Nat
        /\ n \in Nat /\ length \in Nat /\ BlockSize \in Nat \ {0} /\ offset \in Nat
    <3>1. /\ offset + n = blk * BlockSize /\ blk \in Int /\ Blocks \in Int /\ BlockSize \in Nat \ {0}
          /\ n \in Nat /\ length \in Nat /\ offset \in Nat /\ ImageSize \in Nat
      BY <1>1, Decoding, ImageInBlocks
    <3>2. p \in Int /\ t \in Int
      BY <3>1
    <3>3. p + BlockSize <= t
      BY <1>1, <3>1, Product
    <3>4. QED BY <3>1, <3>2, <3>3
  <2>3. ASSUME NEW i \in 1..(length - n)
        PROVE  /\ CachedByte(i - 1) \in Byte
               /\ offset + n + i <= ImageSize => CachedByte(i - 1) = ImageByte(offset + n + i - 1)
    <3>. DEFINE k == i - 1
    <3>1. k \in 0..(BlockSize - 1) /\ k \in Int /\ offset + n + i - 1 = p + k
          /\ offset + n + i = p + k + 1
      <4>. HIDE DEF p
      <4>1. QED BY <1>1, <2>2
    <3>. HIDE DEF k
    <3>2. CachedByte(k) \in Byte /\ (p + k < ImageSize => CachedByte(k) = ImageByte(p + k))
      BY <1>1, <2>1, <3>1, Decoding, CachedByteIsRight
    <3>. HIDE DEF p
    <3>3. offset + n + i <= ImageSize => p + k < ImageSize
      BY <2>2, <3>1
    <3>4. QED BY <3>1, <3>2, <3>3, Zenon DEF k
  <2>4. bytes \in Seq(Byte) /\ Len(bytes) = length - n
        /\ \A i \in 1..(length - n) : bytes[i] = CachedByte(i - 1)
    <3>1. length - n \in Nat
      BY <1>1, <2>2
    <3>2. QED BY <2>3, <3>1
  <2>. HIDE DEF bytes
  <2>5. /\ buf' \in Seq(Byte) /\ Len(buf') = Len(buf) /\ Len(buf) \in Nat /\ length <= Len(buf)
        /\ \A i \in 1..Len(buf) :
             buf'[i] = IF i > n /\ i <= n + Len(bytes) THEN bytes[i - n] ELSE buf[i]
    <3>1. buf \in Seq(Byte) /\ Len(buf) \in Nat /\ length <= Len(buf) /\ n \in Int
      BY <1>1, Decoding
    <3>2. buf' = Put(n, bytes)
      BY <1>8
    <3>3. /\ Put(n, bytes) \in Seq(Byte) /\ Len(Put(n, bytes)) = Len(buf)
          /\ \A i \in 1..Len(buf) :
               Put(n, bytes)[i] = IF i > n /\ i <= n + Len(bytes) THEN bytes[i - n] ELSE buf[i]
      BY <2>4, <3>1, PutBytes
    <3>4. QED BY <3>1, <3>2, <3>3
  <2>6. ASSUME NEW i \in 1..n', offset + i <= ImageSize PROVE buf'[i] = ImageByte(offset + i - 1)
    <3>. HIDE DEF p, t
    <3>1. i \in 1..Len(buf) /\ i \in Nat
      BY <1>8, <2>2, <2>5
    <3>2. CASE i <= n
      <4>1. i \in 1..n /\ ~(i > n)
        BY <2>2, <3>1, <3>2
      <4>2. buf'[i] = buf[i]
        BY <2>5, <3>1, <4>1
      <4>3. buf[i] = ImageByte(offset + i - 1)
        BY <1>1, <2>6, <4>1, Decoding DEF Filled
      <4>4. QED BY <4>2, <4>3
    <3>3. CASE ~(i <= n)
      <4>. DEFINE k == i - n
      <4>1. k \in 1..(length - n) /\ i > n /\ i <= n + Len(bytes) /\ offset + n + k = offset + i
        BY <1>8, <2>2, <2>4, <3>1, <3>3
      <4>2. buf'[i] = bytes[k]
        BY <2>5, <3>1, <4>1
      <4>. HIDE DEF k
      <4>3. offset + n + k <= ImageSize /\ offset + n + k - 1 = offset + i - 1
        BY <2>2, <2>6, <3>1, <4>1
      <4>4. CachedByte(k - 1) = ImageByte(offset + i - 1)
        BY <2>3, <4>1, <4>3
      <4>5. QED BY <2>4, <4>1, <4>2, <4>4
    <3>4. QED BY <3>2, <3>3
  <2>7. CallType' /\ n' > 0
    BY <1>1, <1>8, <2>2, <2>5, Decoding DEF CallType, Entry, Byte
  <2>8. offset + n' <= Blocks * BlockSize
    <3>. HIDE DEF p, t
    <3>1. offset + n' <= t
      BY <1>1, <1>8, <2>2
    <3>2. QED BY <3>1 DEF t
  <2>9. QED BY <1>1, <1>4, <1>8, <2>1, <2>2, <2>6, <2>7, <2>8, Decoding, Succeeded
<1>9. QED BY <1>2, <1>6, <1>7, <1>8

\* Only a block that is short is refused, and a tidy read has no room for it.
LEMMA TidyWhole ==
  ASSUME CsoInv, pc = "decode", Tidy, length - n >= BlockSize, blk < Blocks
  PROVE  DecodedSize(blk) = BlockSize /\ ~Refuses(blk) /\ blk < endBlock /\ length >= BlockSize
<1>1. /\ n \in Nat /\ length \in Nat /\ BlockSize \in Nat \ {0} /\ Blocks \in Nat \ {0}
         /\ offset \in Nat
      /\ blk \in Block /\ blk \in Nat /\ offset + n = blk * BlockSize /\ Sizes
  BY Decoding
<1>2. offset + length <= ImageSize /\ (n < length => blk < endBlock)
  BY TidyPlace
<1>3. n < length /\ length >= BlockSize
  BY <1>1
<1>4. DecodedSize(blk) = BlockSize
  <2>1. CASE blk # Blocks - 1
    BY <1>1, <2>1, DecodedSizes
  <2>2. CASE blk = Blocks - 1
    <3>. DEFINE p == blk * BlockSize
    <3>1. ImageSize = p + last.size /\ p \in Nat /\ last.size \in 1..BlockSize /\ offset + n = p
      BY <1>1, <2>2, ImageInBlocks DEF Sizes
    <3>2. last.decoded \in {last.size, BlockSize} /\ DecodedSize(blk) = last.decoded
      BY <1>1, <2>2, DecodedSizes DEF Sizes
    <3>. HIDE DEF p
    <3>3. last.size = BlockSize
      BY <1>1, <1>2, <3>1
    <3>4. QED BY <3>2, <3>3
  <2>3. QED BY <2>1, <2>2
<1>5. ~Refuses(blk)
  BY <1>1, <1>4 DEF Refuses
<1>6. QED BY <1>2, <1>3, <1>4, <1>5

LEMMA DecodeWholeKeeps ==
  ASSUME CsoInv, DecodeWhole
  PROVE  CsoInv'
<1>. DEFINE size == DecodedSize(blk)
<1>1. /\ pc = "decode" /\ length - n >= BlockSize /\ blk < Blocks /\ Fits /\ Genuine
      /\ UNCHANGED <<entry, last, cached>>
  BY DEF DecodeWhole
<1>2. PICK c \in After(Lookups(blk, blk + 1), blk) :
        /\ c.outcome = "ok" /\ Keep(c)
        /\ \/ ~Raw(blk) /\ Broken
           \/ Refuses(blk) /\ Fails("error")
           \/ /\ ~Refuses(blk) /\ buf' = Put(n, ImageBytes(blk))
              /\ n' = n + size /\ blk' = blk + 1 /\ rest' = rest + SizeOf(blk)
              /\ UNCHANGED <<pc, length, result, offset, fault>>
  BY DEF DecodeWhole
<1>3. indexFault \/ Sane(c)
  BY <1>1, <1>2, DecodingLookups
<1>4. IndexIsRight' /\ indexFault' \in BOOLEAN
  BY <1>1, <1>2, <1>3, Decoding, KeepsEntries DEF IndexIsRight
<1>5. CachedIsRight'
  BY <1>1, Decoding DEF cached, CachedIsRight, Block
<1>6. CASE Broken
  <2>1. Finish("error") /\ fault' = TRUE /\ UNCHANGED call
    BY <1>6 DEF Broken
  <2>2. QED BY <1>1, <1>4, <1>5, <2>1, Failed
<1>7. CASE Refuses(blk) /\ Fails("error")
  <2>1. Finish("error") /\ UNCHANGED call
    BY <1>7 DEF Fails
  <2>2. ~Tidy
    BY <1>1, <1>7, TidyWhole
  <2>3. QED BY <1>1, <1>4, <1>5, <2>1, <2>2, Failed
<1>8. CASE /\ buf' = Put(n, ImageBytes(blk))
           /\ n' = n + size /\ blk' = blk + 1 /\ rest' = rest + SizeOf(blk)
           /\ UNCHANGED <<pc, length, result, offset, fault>>
  <2>. DEFINE p == blk * BlockSize
              q == (blk + 1) * BlockSize
              t == Blocks * BlockSize
              bytes == ImageBytes(blk)
  <2>1. /\ offset + n = p /\ n \in Nat /\ length \in Nat /\ offset \in Nat /\ rest \in Nat
        /\ BlockSize \in Nat \ {0} /\ blk \in Block /\ blk \in Nat /\ Blocks \in Nat \ {0}
        /\ offset < ImageSize /\ result = "none" /\ Sizes
    BY <1>1, Decoding
  <2>2. p \in Int /\ q \in Int /\ t \in Int /\ q = p + BlockSize /\ p + BlockSize <= t
    <3>1. p \in Int /\ t \in Int /\ q \in Int
      BY <2>1
    <3>2. p + BlockSize <= t /\ q = p + BlockSize
      BY <1>1, <2>1, Product
    <3>3. QED BY <3>1, <3>2
  <2>3. size \in 1..BlockSize /\ (blk # Blocks - 1 => size = BlockSize)
    BY <2>1, DecodedSizes
  <2>4. /\ bytes \in Seq(Byte) /\ Len(bytes) = size
        /\ \A i \in 1..size : bytes[i] = ImageByte(p + i - 1)
    <3>. HIDE DEF p, size
    <3>1. bytes = [i \in 1..size |-> ImageByte(p + i - 1)]
      BY DEF ImageBytes, p, size
    <3>2. p \in Nat /\ size \in Nat
      BY <2>1, <2>2, <2>3
    <3>3. \A i \in 1..size : ImageByte(p + i - 1) \in Byte
      BY <3>2 DEF ImageByte, Byte
    <3>. HIDE DEF bytes
    <3>4. QED BY <3>1, <3>2, <3>3
  <2>. HIDE DEF bytes, p, q, t, size
  <2>5. /\ buf' \in Seq(Byte) /\ Len(buf') = Len(buf) /\ Len(buf) \in Nat /\ length <= Len(buf)
        /\ \A i \in 1..Len(buf) :
             buf'[i] = IF i > n /\ i <= n + size THEN bytes[i - n] ELSE buf[i]
    <3>1. buf \in Seq(Byte) /\ Len(buf) \in Nat /\ length <= Len(buf) /\ n \in Int
      BY <1>1, Decoding
    <3>2. buf' = Put(n, bytes)
      BY <1>8 DEF bytes
    <3>3. /\ Put(n, bytes) \in Seq(Byte) /\ Len(Put(n, bytes)) = Len(buf)
          /\ \A i \in 1..Len(buf) :
               Put(n, bytes)[i] = IF i > n /\ i <= n + Len(bytes) THEN bytes[i - n] ELSE buf[i]
      BY <2>4, <3>1, PutBytes
    <3>4. QED BY <2>4, <3>1, <3>2, <3>3
  <2>6. n' \in 0..length /\ n' \in Nat
    BY <1>1, <1>8, <2>1, <2>3
  <2>7. ASSUME NEW i \in 1..n', offset + i <= ImageSize PROVE buf'[i] = ImageByte(offset + i - 1)
    <3>1. i \in 1..Len(buf) /\ i \in Nat
      BY <2>1, <2>5, <2>6
    <3>2. CASE i <= n
      <4>1. i \in 1..n /\ ~(i > n)
        BY <2>1, <3>1, <3>2
      <4>2. buf'[i] = buf[i]
        BY <2>5, <3>1, <4>1
      <4>3. buf[i] = ImageByte(offset + i - 1)
        BY <1>1, <2>7, <4>1, Decoding DEF Filled
      <4>4. QED BY <4>2, <4>3
    <3>3. CASE ~(i <= n)
      <4>. DEFINE k == i - n
      <4>1. k \in 1..size /\ i > n /\ i <= n + size /\ p + k - 1 = offset + i - 1
        BY <1>8, <2>1, <2>2, <2>3, <3>1, <3>3
      <4>2. buf'[i] = bytes[k]
        BY <2>5, <3>1, <4>1
      <4>. HIDE DEF k
      <4>3. QED BY <2>4, <4>1, <4>2
    <3>4. QED BY <3>2, <3>3
  <2>8. /\ Sizes' /\ ImageSize' = ImageSize /\ Tidy' = Tidy
        /\ firstBlock' = firstBlock /\ endBlock' = endBlock
    BY <1>1, <1>8, <2>1, SameImage
  <2>9. blk' \in Entry /\ rest' \in Nat /\ SizeOf(blk) = entry[blk + 1] - entry[blk]
        /\ entry[blk + 1] \in Nat /\ entry[blk] \in Nat /\ SizeOf(blk) \in Int
    <3>1. blk + 1 \in Entry /\ blk \in Entry
      BY <1>1, <2>1 DEF Entry
    <3>2. entry[blk + 1] \in Nat /\ entry[blk] \in Nat
      BY <1>1, <3>1, Decoding
    <3>3. SizeOf(blk) \in Nat
      BY <2>1 DEF Sizes
    <3>4. rest' \in Nat
      BY <1>8, <2>1, <3>3
    <3>5. QED BY <1>8, <2>1, <3>1, <3>2, <3>3, <3>4 DEF SizeOf
  <2>10. CallType' /\ OffsetInBlocks' /\ InCall'
    <3>1. CallType'
      BY <1>8, <2>1, <2>5, <2>6, <2>9 DEF CallType, Entry, Byte
    <3>2. OffsetInBlocks' /\ InCall'
      BY <1>1, <1>8, <2>1, <2>8, Decoding DEF OffsetInBlocks, InCall
    <3>3. QED BY <3>1, <3>2
  <2>11. Reading'
    <3>1. Filled(n)'
      BY <1>8, <2>7, <2>8 DEF Filled, ImageByte
    <3>2. offset + n' <= t /\ (blk + 1 < Blocks => offset + n' = q)
      BY <1>8, <2>1, <2>2, <2>3
    <3>3. QED BY <1>8, <3>1, <3>2 DEF Reading, q, t
  <2>12. TidyDecode'
    <3>1. SUFFICES ASSUME Tidy PROVE TidyDecode'
      BY <2>8 DEF TidyDecode
    <3>2. size = BlockSize /\ blk < endBlock /\ length >= BlockSize
      BY <1>1, <3>1, TidyWhole DEF size
    <3>3. /\ endBlock \in Entry /\ endBlock \in Nat /\ endBlock <= Blocks
          /\ offset % BlockSize = 0 /\ firstBlock \in Nat /\ firstBlock <= blk
          /\ n = (blk - firstBlock) * BlockSize
          /\ rest = length - (entry[endBlock] - entry[blk])
      BY <1>1, <3>1, TidyPlace
    <3>4. length = (endBlock - firstBlock) * BlockSize
      BY <1>1, <2>1, <3>1, <3>2, TidyPlace
    <3>. DEFINE f == firstBlock * BlockSize
                e == endBlock * BlockSize
                n1 == (blk + 1 - firstBlock) * BlockSize
    <3>5. /\ f \in Int /\ e \in Int /\ length = e - f /\ n = p - f /\ n1 = q - f
          /\ (endBlock - (blk + 1)) * BlockSize = e - q
      <4>1. /\ firstBlock \in Int /\ endBlock \in Int /\ blk \in Int /\ blk + 1 \in Int
               /\ BlockSize \in Nat \ {0}
        BY <2>1, <3>3
      <4>2. f \in Int /\ e \in Int
        BY <4>1
      <4>3. /\ (endBlock - firstBlock) * BlockSize = e - f
            /\ (blk - firstBlock) * BlockSize = blk * BlockSize - f
            /\ n1 = (blk + 1) * BlockSize - f
            /\ (endBlock - (blk + 1)) * BlockSize = e - (blk + 1) * BlockSize
        BY <4>1, Product
      <4>4. QED BY <3>3, <3>4, <4>2, <4>3 DEF p, q
    <3>6. entry[endBlock] - entry[blk + 1] <= e - q
      <4>1. blk + 1 <= endBlock
        BY <2>1, <3>2, <3>3
      <4>2. entry[endBlock] - entry[blk + 1] <= (endBlock - (blk + 1)) * BlockSize
        BY <1>8, <2>1, <2>9, <3>3, <4>1, EntriesGrow
      <4>3. QED BY <3>5, <4>2
    <3>. HIDE DEF f, e, n1
    <3>7. entry[endBlock] \in Nat
      BY <1>1, <3>3, Decoding
    <3>8. rest' = length - (entry[endBlock] - entry[blk + 1])
      BY <1>8, <2>1, <2>9, <3>3, <3>7
    <3>. DEFINE b0 == entry[blk]
                b1 == entry[blk + 1]
                b2 == entry[endBlock]
    <3>8a. /\ b0 \in Int /\ b1 \in Int /\ b2 \in Int /\ b2 - b1 <= e - q
           /\ rest' = length - (b2 - b1) /\ rest' = rest + (b1 - b0)
      BY <1>8, <2>9, <3>6, <3>7, <3>8
    <3>. HIDE DEF b0, b1, b2
    <3>9. n' = n1 /\ rest' >= n'
      <4>1. n' = n + size /\ size = BlockSize /\ n = p - f /\ n1 = q - f /\ length = e - f
            /\ q = p + BlockSize
        BY <1>8, <2>2, <3>2, <3>5
      <4>2. p \in Int /\ q \in Int /\ f \in Int /\ e \in Int /\ BlockSize \in Int
        BY <2>1, <2>2, <3>5
      <4>3. QED BY <3>8a, <4>1, <4>2
    <3>10. ASSUME NEW i \in 1..length, i > rest'
                    PROVE buf'[i] = FileByte(entry[blk + 1] + i - rest' - 1)
      <4>1. i \in 1..Len(buf) /\ ~(i <= n + size) /\ i > rest
        <5>1. SizeOf(blk) \in Nat
          BY <2>1 DEF Sizes
        <5>2. n' = n + size /\ rest' = rest + SizeOf(blk)
          BY <1>8
        <5>3. n' \in Nat /\ n \in Nat /\ rest \in Nat /\ length \in Nat /\ size \in Nat
          BY <2>1, <2>3, <2>6
        <5>4. Len(buf) \in Nat /\ length <= Len(buf)
          BY <2>5
        <5>5. i \in Nat /\ 1 <= i /\ i <= length /\ i > rest' /\ rest' >= n'
          BY <2>1, <3>9, <3>10
        <5>6. QED BY <5>1, <5>2, <5>3, <5>4, <5>5
      <4>2. buf'[i] = buf[i]
        BY <2>5, <4>1
      <4>3. buf[i] = FileByte(entry[blk] + i - rest - 1)
        BY <1>1, <3>1, <4>1, Decoding DEF TidyDecode
      <4>4. entry[blk] + i - rest - 1 = entry[blk + 1] + i - rest' - 1
        BY <1>8, <2>1, <2>9
      <4>5. QED BY <4>2, <4>3, <4>4
    <3>11. firstBlock <= blk + 1 /\ blk + 1 <= endBlock /\ ~(length < BlockSize)
      BY <2>1, <3>2, <3>3
    <3>12. /\ offset' % BlockSize = 0 /\ firstBlock' <= blk' /\ blk' <= endBlock'
           /\ ~(length' < BlockSize) /\ rest' = length' - (entry'[endBlock'] - entry'[blk'])
      BY <1>1, <1>8, <2>8, <3>3, <3>8, <3>11
    <3>13. \A i \in 1..length' : i > rest' => buf'[i] = FileByte(entry'[blk'] + i - rest' - 1)
      BY <1>1, <1>8, <3>10
    <3>14. n' = (blk' - firstBlock') * BlockSize
      <4>1. blk' = blk + 1 /\ firstBlock' = firstBlock /\ n' = n1
        BY <1>8, <2>8, <3>9
      <4>2. blk' - firstBlock' = blk + 1 - firstBlock
        BY <2>1, <3>3, <4>1
      <4>3. n1 = (blk + 1 - firstBlock) * BlockSize
        BY Zenon DEF n1
      <4>4. (blk' - firstBlock') * BlockSize = n1
        BY <4>2, <4>3, Zenon
      <4>5. QED BY <4>1, <4>4, Zenon
    <3>15. QED BY <3>12, <3>13, <3>14 DEF TidyDecode, FileByte
  <2>13. Started' /\ TidyCompressed' /\ ReadsTheImage' /\ TidyReadsSucceed'
    BY <1>1, <1>8, <2>1 DEF Started, TidyCompressed, ReadsTheImage, TidyReadsSucceed
  <2>14. QED BY <1>1, <1>4, <1>5, <1>8, <2>8, <2>10, <2>11, <2>12, <2>13, Zenon DEF CsoInv
<1>9. QED BY <1>2, <1>6, <1>7, <1>8

LEMMA StutterKeeps ==
  ASSUME CsoInv, UNCHANGED vars
  PROVE  CsoInv'
<1>1. /\ UNCHANGED <<entry, last, index, cached, offset, pc, result, fault, indexFault>>
      /\ UNCHANGED <<length, buf, n, blk, rest>>
  BY DEF vars, call
<1>2. Sizes' /\ CachedIsRight' /\ IndexIsRight' /\ indexFault' \in BOOLEAN
  BY <1>1, SameCaches
<1>3. ImageSize' = ImageSize /\ Tidy' = Tidy /\ firstBlock' = firstBlock /\ endBlock' = endBlock
  BY <1>1, SameImage
<1>4. CallType' /\ OffsetInBlocks' /\ InCall' /\ Started'
  BY <1>1, <1>3 DEF CsoInv, CallType, Entry, Byte, OffsetInBlocks, InCall, Started
<1>5. Reading' /\ TidyCompressed' /\ TidyDecode'
  BY <1>1, <1>3 DEF CsoInv, Reading, Filled, ImageByte, FileByte, TidyCompressed, TidyDecode
<1>6. ReadsTheImage' /\ TidyReadsSucceed'
  BY <1>1, <1>3 DEF CsoInv, ReadsTheImage, ImageByte, TidyReadsSucceed
<1>7. pc' \in {"idle", "start", "compressed", "decode"}
  BY <1>1 DEF CsoInv
<1>8. QED BY <1>2, <1>4, <1>5, <1>6, <1>7, Zenon DEF CsoInv
-----------------------------------------------------------------------------
LEMMA InitCsoInv ==
  ASSUME SizesAssumption, Init
  PROVE  CsoInv
<1>1. BlockSize \in Nat \ {0} /\ Blocks \in Nat \ {0} /\ MaxEntries \in Nat \ {0}
  BY DEF SizesAssumption
<1>2. Sizes
  <2>1. Blocks * BlockSize \in Nat
    BY <1>1
  <2>2. entry \in [Entry -> 0..(Blocks * BlockSize)]
        /\ \A j \in Block : entry[j + 1] - entry[j] \in 1..BlockSize
    BY DEF Init
  <2>3. entry \in [Entry -> Nat]
    BY <2>1, <2>2
  <2>4. last \in [size : 1..BlockSize, decoded : 1..BlockSize, strict : BOOLEAN]
        /\ last.decoded \in {last.size, BlockSize}
    BY DEF Init
  <2>5. last.size \in 1..BlockSize
    BY <2>4
  <2>6. QED BY <1>1, <2>2, <2>3, <2>4, <2>5 DEF Sizes, SizeOf
<1>3. /\ length = 0 /\ buf = <<>> /\ n = 0 /\ blk = 0 /\ rest = 0 /\ offset = 0 /\ pc = "idle"
      /\ result = "none" /\ indexFault = FALSE /\ cachedBlockNum = -1
      /\ start = -1 /\ held = 0 /\ array = [i \in 1..MaxEntries |-> -1]
  BY DEF Init
<1>4. CallType /\ OffsetInBlocks
  <2>1. buf \in Seq(Byte) /\ Len(buf) = 0
    BY <1>3
  <2>2. 0 \in Entry /\ 0 <= Blocks * BlockSize
    BY <1>1 DEF Entry
  <2>3. QED BY <1>3, <2>1, <2>2 DEF CallType, OffsetInBlocks
<1>5. IndexIsRight
  <2>1. array \in [1..MaxEntries -> Int] /\ held \in 0..MaxEntries /\ start \in Int
    BY <1>1, <1>3
  <2>2. Cache \in CacheState /\ Cache.held = 0
    BY <1>3, <2>1 DEF Cache, CacheState
  <2>3. RightEntries(Cache)
    BY <2>2 DEF RightEntries
  <2>4. QED BY <2>3 DEF IndexIsRight
<1>6. CachedIsRight /\ InCall /\ Started /\ Reading /\ TidyCompressed /\ TidyDecode /\ ReadsTheImage
      /\ TidyReadsSucceed
  BY <1>3 DEF CachedIsRight, InCall, Started, Reading, TidyCompressed, TidyDecode, ReadsTheImage,
     TidyReadsSucceed
<1>7. indexFault \in BOOLEAN /\ pc \in {"idle", "start", "compressed", "decode"}
  BY <1>3
<1>8. QED BY <1>2, <1>4, <1>5, <1>6, <1>7, Zenon DEF CsoInv

LEMMA NextCsoInv ==
  ASSUME SizesAssumption, CsoInv, [Next]_vars
  PROVE  CsoInv'
<1>1. ASSUME NEW l \in 1..MaxLen, NEW s \in Spare, Begin(l, s) PROVE CsoInv'
  BY <1>1, BeginKeeps
<1>2. CASE StartAligned
  BY <1>2, StartAlignedKeeps
<1>3. CASE StartCached
  BY <1>3, StartCachedKeeps
<1>4. CASE StartUncachedFails
  BY <1>4, StartUncachedFailsKeeps
<1>5. CASE StartUncached
  BY <1>5, StartUncachedKeeps
<1>6. CASE ReadCompressed
  BY <1>6, ReadCompressedKeeps
<1>7. CASE Full
  BY <1>7, FullKeeps
<1>8. CASE DecodeFails
  BY <1>8, DecodeFailsKeeps
<1>9. CASE DecodeWhole
  BY <1>9, DecodeWholeKeeps
<1>10. CASE DecodePart
  BY <1>10, DecodePartKeeps
<1>11. CASE Seek
  BY <1>11, SeekKeeps
<1>12. CASE UNCHANGED vars
  BY <1>12, StutterKeeps
<1>13. QED
  BY <1>1, <1>2, <1>3, <1>4, <1>5, <1>6, <1>7, <1>8, <1>9, <1>10, <1>11, <1>12 DEF Next

LEMMA AlwaysCsoInv == SizesAssumption => (Spec => []CsoInv)
<1>1. SUFFICES ASSUME SizesAssumption PROVE Spec => []CsoInv
  OBVIOUS
<1>2. Init => CsoInv
  BY <1>1, InitCsoInv
<1>3. CsoInv /\ [Next]_vars => CsoInv'
  BY <1>1, NextCsoInv
<1>4. QED BY <1>2, <1>3, PTL DEF Spec

\* A read of a compressed image that succeeds gives the bytes of the image, for all
\* sizes of it, of its blocks, of the index cache and of buffers.
THEOREM CsoReadsItsImage == SizesAssumption => (Spec => []ReadsTheImage)
<1>1. SUFFICES ASSUME SizesAssumption PROVE Spec => []ReadsTheImage
  OBVIOUS
<1>2. Spec => []CsoInv
  BY <1>1, AlwaysCsoInv
<1>3. CsoInv => ReadsTheImage
  BY DEF CsoInv
<1>4. QED BY <1>2, <1>3, PTL

\* The reads that Read is made for overflow no buffer and find all of their blocks.
THEOREM CsoTidyReadsDoSucceed == SizesAssumption => (Spec => []TidyReadsSucceed)
<1>1. SUFFICES ASSUME SizesAssumption PROVE Spec => []TidyReadsSucceed
  OBVIOUS
<1>2. Spec => []CsoInv
  BY <1>1, AlwaysCsoInv
<1>3. CsoInv => TidyReadsSucceed
  BY DEF CsoInv
<1>4. QED BY <1>2, <1>3, PTL
-----------------------------------------------------------------------------
(* Types.                                                                  *)

\* A cache whatever its entries are: after a fill has failed they may be any.
TypedCaches ==
  [start : -1..(Blocks + 1), held : 0..MaxEntries, array : [1..MaxEntries -> -1..Blocks], broken :
    BOOLEAN,
   outcome : {"ok", "astray", "fault", "error", "panic"}]

\* A refill puts entries of the image into the cache.
LEMMA RefilledIsTyped ==
  ASSUME Sizes, NEW c \in TypedCaches, NEW e \in 0..(Blocks + 1),
         NEW k \in Int, k <= Smaller(MaxEntries, Blocks + 1 - e)
  PROVE  Refilled(c, e, k) \in TypedCaches
<1>. DEFINE m == Smaller(MaxEntries, Blocks + 1 - e)
            arr == [i \in 1..MaxEntries |-> IF i <= k THEN e + i - 1 ELSE c.array[i]]
<1>1. e \in Nat /\ e <= Blocks + 1 /\ Blocks \in Nat /\ MaxEntries \in Nat \ {0}
  BY DEF Sizes
<1>2. m \in 0..MaxEntries /\ m <= Blocks + 1 - e
  BY <1>1 DEF Smaller
<1>3. k <= m
  OBVIOUS
<1>4. Refilled(c, e, k) = [c EXCEPT !.held = m, !.array = arr]
  BY DEF Refilled
<1>. HIDE DEF m
<1>5. ASSUME NEW i \in 1..MaxEntries PROVE (IF i <= k THEN e + i - 1 ELSE c.array[i]) \in -1..Blocks
  <2>1. c.array[i] \in -1..Blocks
    BY DEF TypedCaches
  <2>2. i <= k => e + i - 1 \in -1..Blocks
    BY <1>1, <1>2, <1>3
  <2>3. QED BY <2>1, <2>2
<1>6. arr \in [1..MaxEntries -> -1..Blocks]
  BY <1>5
<1>. HIDE DEF arr
<1>7. QED BY <1>2, <1>4, <1>6 DEF TypedCaches

LEMMA LookupIsTyped ==
  ASSUME Sizes, NEW c \in TypedCaches, NEW e \in 0..(Blocks + 1), NEW d \in Lookup(c, e)
  PROVE  d \in TypedCaches
<1>. DEFINE m == Smaller(MaxEntries, Blocks + 1 - e)
            r == Refilled(c, e, m)
<1>1. e \in -1..(Blocks + 1) /\ Blocks \in Nat /\ MaxEntries \in Nat \ {0} /\ m \in Int
  BY DEF Sizes, Smaller
<1>2. r \in TypedCaches
  BY <1>1, RefilledIsTyped
<1>3. \/ \E o \in {"ok", "astray", "fault", "error"} : d = [c EXCEPT !.outcome = o]
      \/ \E o \in {"ok", "panic"} : d = [[r EXCEPT !.start = e] EXCEPT !.outcome = o]
      \/ \E k \in 0..(m - 1) : d = [Refilled(c, e, k) EXCEPT !.outcome = "fault", !.broken = TRUE]
  <2>. HIDE DEF m
  <2>1. CASE e > Blocks + 1
    BY <2>1 DEF Lookup
  <2>2. CASE ~(e > Blocks + 1) /\ Hit(c, e)
    <3>1. d = [c EXCEPT !.outcome = IF c.array[e - c.start + 1] = e THEN "ok" ELSE "astray"]
      BY <2>2 DEF Lookup
    <3>2. QED BY <3>1
  <2>3. CASE ~(e > Blocks + 1) /\ ~Hit(c, e)
    <3>1. d \in {[[r EXCEPT !.start = e] EXCEPT !.outcome = IF m > 0 THEN "ok" ELSE "panic"],
                 [c EXCEPT !.outcome = "fault"]}
                \cup {[Refilled(c, e, k) EXCEPT !.outcome = "fault", !.broken = TRUE] :
                  k \in 0..(m - 1)}
      BY <2>3 DEF Lookup, Moved, m
    <3>. HIDE DEF r
    <3>2. QED BY <3>1
  <2>4. QED BY <2>1, <2>2, <2>3
<1>4. ASSUME NEW o \in {"ok", "astray", "fault", "error"}, d = [c EXCEPT !.outcome = o]
      PROVE  d \in TypedCaches
  BY <1>4 DEF TypedCaches
<1>5. ASSUME NEW o \in {"ok", "panic"}, d = [[r EXCEPT !.start = e] EXCEPT !.outcome = o]
      PROVE  d \in TypedCaches
  <2>. HIDE DEF r
  <2>1. [r EXCEPT !.start = e] \in TypedCaches
    BY <1>1, <1>2 DEF TypedCaches
  <2>2. QED BY <1>5, <2>1 DEF TypedCaches
<1>6. ASSUME NEW k \in 0..(m - 1), d = [Refilled(c, e, k) EXCEPT !.outcome = "fault", !.broken = TRUE]
      PROVE  d \in TypedCaches
  <2>1. k \in Int /\ k <= m
    BY <1>1
  <2>2. Refilled(c, e, k) \in TypedCaches
    BY <2>1, RefilledIsTyped
  <2>3. QED BY <1>6, <2>2 DEF TypedCaches
<1>7. QED BY <1>3, <1>4, <1>5, <1>6

LEMMA AfterIsTyped ==
  ASSUME Sizes, NEW S \in SUBSET TypedCaches, NEW e \in 0..(Blocks + 1)
  PROVE  After(S, e) \subseteq TypedCaches
<1>1. SUFFICES ASSUME NEW d \in After(S, e) PROVE d \in TypedCaches
  OBVIOUS
<1>2. PICK c \in S : d \in (IF c.outcome = "ok" THEN Lookup(c, e) ELSE {c})
  BY DEF After
<1>3. QED BY <1>2, LookupIsTyped

\* Every lookup that Read makes: of the next block and the one after it, or of the last.
LEMMA LookupsAreTyped ==
  ASSUME Sizes, Cache \in TypedCaches, NEW j \in Entry, NEW k \in 0..(Blocks + 1)
  PROVE  Lookups(j, k) \subseteq TypedCaches /\ After(Lookups(j, k), j) \subseteq TypedCaches
<1>1. j \in 0..(Blocks + 1)
  BY DEF Entry, Sizes
<1>2. After({Cache}, j) \subseteq TypedCaches
  BY <1>1, AfterIsTyped
<1>3. Lookups(j, k) \subseteq TypedCaches
  BY <1>2, AfterIsTyped DEF Lookups
<1>4. QED BY <1>1, <1>3, AfterIsTyped

\* What Read leaves of the cache, and how it ends.
LEMMA CacheLeft ==
  ASSUME CsoInv, TypeOK, [Next]_vars
  PROVE  /\ UNCHANGED index \/ \E c \in TypedCaches : Keep(c)
         /\ result' \in {"none", "eof", "ok", "error", "overflow", "panic", "astray"}
<1>. DEFINE Results == {"none", "eof", "ok", "error", "overflow", "panic", "astray"}
<1>1. Sizes /\ blk \in Entry /\ blk + 1 \in 0..(Blocks + 1) /\ result \in Results
  BY DEF CsoInv, CallType, Sizes, Entry, TypeOK
<1>2. Cache \in TypedCaches
  BY DEF TypeOK, Cache, TypedCaches
<1>3. Lookups(blk, blk + 1) \subseteq TypedCaches
      /\ After(Lookups(blk, blk + 1), blk) \subseteq TypedCaches
  BY <1>1, <1>2, LookupsAreTyped
<1>4. \A c \in TypedCaches : LookupFails(c) => result' \in Results
  BY DEF LookupFails, Broken, Fails, Finish, TypedCaches
<1>5. ASSUME NEW l \in 1..MaxLen, NEW s \in Spare, Begin(l, s)
               PROVE UNCHANGED index /\ result' \in Results
  BY <1>5 DEF Begin
<1>6. CASE StartAligned \/ StartCached \/ Full \/ Seek \/ UNCHANGED vars
  BY <1>1, <1>6 DEF StartAligned, StartCached, CopyCached, Full, Seek, Finish, vars
<1>7. CASE StartUncachedFails
  <2>1. PICK c \in Lookups(blk, blk + 1) :
          Keep(c) /\ (LookupFails(c) \/ Broken \/ Fails("error"))
    BY <1>7 DEF StartUncachedFails
  <2>2. QED BY <1>3, <1>4, <2>1 DEF Broken, Fails, Finish
<1>8. CASE StartUncached
  <2>1. PICK c \in After({d \in Lookups(blk, blk + 1) : d.outcome = "ok"}, blk) :
          Keep(c) /\ (LookupFails(c) \/ Broken \/ Fails("error") \/ CopyCached)
    BY <1>8 DEF StartUncached
  <2>2. c \in TypedCaches
    <3>1. {d \in Lookups(blk, blk + 1) : d.outcome = "ok"} \subseteq TypedCaches
      BY <1>3
    <3>2. blk \in 0..(Blocks + 1)
      BY <1>1 DEF Entry, Sizes
    <3>3. QED BY <1>1, <2>1, <3>1, <3>2, AfterIsTyped
  <2>3. CopyCached => result' \in {"ok", result}
    BY DEF CopyCached, Finish
  <2>4. QED BY <1>1, <1>4, <2>1, <2>2, <2>3 DEF Broken, Fails, Finish
<1>9. CASE ReadCompressed
  <2>1. PICK c \in Lookups(blk, endBlock) :
          Keep(c) /\ (LookupFails(c) \/ Broken \/ Fails("overflow") \/ result' = result)
    BY <1>9 DEF ReadCompressed, endBlock, firstBlock
  <2>2. endBlock \in 0..(Blocks + 1)
    <3>1. endBlock \in Entry
      BY <1>9, EndBlock DEF ReadCompressed, CsoInv, CallType, OffsetInBlocks, InCall
    <3>2. QED BY <1>1, <3>1 DEF Entry, Sizes
  <2>3. c \in TypedCaches
    BY <1>1, <1>2, <2>1, <2>2, LookupsAreTyped
  <2>4. QED BY <1>1, <1>4, <2>1, <2>3 DEF Broken, Fails, Finish
<1>10. CASE DecodeFails
  <2>1. PICK c \in (IF Fits THEN After(Lookups(blk, blk + 1), blk) ELSE Lookups(blk, blk + 1)) :
          Keep(c) /\ (LookupFails(c) \/ Fails("overflow") \/ Fails("astray"))
    BY <1>10 DEF DecodeFails
  <2>2. c \in TypedCaches
    BY <1>3, <2>1
  <2>3. QED BY <1>4, <2>1, <2>2 DEF Fails, Finish
<1>11. CASE DecodeWhole
  <2>1. PICK c \in After(Lookups(blk, blk + 1), blk) :
          Keep(c) /\ (Broken \/ Fails("error") \/ result' = result)
    BY <1>11 DEF DecodeWhole
  <2>2. QED BY <1>1, <1>3, <2>1 DEF Broken, Fails, Finish
<1>12. CASE DecodePart
  <2>1. PICK c \in After(Lookups(blk, blk + 1), blk) :
          Keep(c) /\ (Broken \/ Fails("error") \/ Finish("ok"))
    BY <1>12 DEF DecodePart
  <2>2. QED BY <1>3, <2>1 DEF Broken, Fails, Finish
<1>13. QED
  BY <1>5, <1>6, <1>7, <1>8, <1>9, <1>10, <1>11, <1>12 DEF Next

\* The block cached is one of the image's.
LEMMA CachedIsTyped ==
  ASSUME CsoInv, CsoInv', TypeOK, [Next]_vars
  PROVE  cachedBlockNum' \in -1..(Blocks - 1) /\ cachedBlock' \in -1..(Blocks - 1)
<1>1. Blocks \in Nat \ {0} /\ blk \in Entry /\ cachedBlock \in -1..(Blocks - 1)
  BY DEF CsoInv, CallType, Sizes, TypeOK
<1>2. cachedBlockNum' \in -1..(Blocks - 1)
  BY <1>1 DEF CsoInv, CachedIsRight, Block
<1>3. \/ cachedBlock' \in {cachedBlock, -1}
      \/ cachedBlock' = cachedBlockNum'
  BY DEF Next, Begin, StartAligned, StartCached, StartUncachedFails, StartUncached, ReadCompressed,
     Full,
     DecodeFails, DecodeWhole, DecodePart, Seek, Spoiled, Cached, cached, vars
<1>4. QED BY <1>1, <1>2, <1>3

LEMMA NextKeepsTypeOK ==
  ASSUME SizesAssumption, CsoInv, CsoInv', TypeOK, [Next]_vars
  PROVE  TypeOK'
<1>1. UNCHANGED <<entry, last>>
  BY DEF Next, Begin, StartAligned, StartCached, StartUncachedFails, StartUncached, ReadCompressed,
     Full,
     DecodeFails, DecodeWhole, DecodePart, Seek, vars
<1>2. entry' \in [Entry -> Nat] /\ last' \in [size : 1..BlockSize, decoded : 1..BlockSize, strict :
        BOOLEAN]
  BY <1>1 DEF TypeOK
<1>3. /\ start' \in -1..(Blocks + 1) /\ held' \in 0..MaxEntries
      /\ array' \in [1..MaxEntries -> -1..Blocks]
  BY CacheLeft DEF Keep, TypedCaches, TypeOK, index
<1>4. offset' \in 0..(Blocks * BlockSize)
  BY DEF CsoInv, Sizes, OffsetInBlocks
<1>5. length' \in 0..MaxLen
  <2>1. MaxLen \in Nat /\ length \in 0..MaxLen
    BY DEF SizesAssumption, TypeOK
  <2>2. length' = length \/ length' \in 1..MaxLen
    BY DEF Next, Begin, StartAligned, StartCached, StartUncachedFails, StartUncached,
       ReadCompressed, Full,
     DecodeFails, DecodeWhole, DecodePart, Seek, LookupFails, Broken, Fails, CopyCached, call, vars
  <2>3. QED BY <2>1, <2>2
<1>6. /\ pc' \in {"idle", "start", "compressed", "decode"} /\ indexFault' \in BOOLEAN
      /\ n' \in 0..length' /\ blk' \in Entry /\ rest' \in Nat
      /\ \A i \in 1..Len(buf') : buf'[i] \in [kind : {"image", "file", "old"}, at : Nat]
  <2>1. buf' \in Seq(Byte)
    BY DEF CsoInv, CallType, Byte
  <2>2. \A i \in 1..Len(buf') : buf'[i] \in Byte
    BY <2>1
  <2>3. QED BY <2>2 DEF CsoInv, CallType, Byte, Entry
<1>7. fault' \in BOOLEAN
  <2>1. fault' \in {fault, TRUE, FALSE}
    BY Zenon DEF Next, Begin, StartAligned, StartCached, StartUncachedFails, StartUncached,
       ReadCompressed, Full,
     DecodeFails, DecodeWhole, DecodePart, Seek, LookupFails, Broken, Fails, CopyCached, vars
  <2>2. QED BY <2>1, Zenon DEF TypeOK
<1>8. QED BY <1>2, <1>3, <1>4, <1>5, <1>6, <1>7, CacheLeft, CachedIsTyped, Zenon DEF TypeOK, Entry

LEMMA InitTypeOK ==
  ASSUME SizesAssumption, Init
  PROVE  TypeOK
<1>1. CsoInv
  BY InitCsoInv
<1>2. BlockSize \in Nat \ {0} /\ Blocks \in Nat \ {0} /\ MaxEntries \in Nat \ {0} /\ MaxLen \in Nat
  BY DEF SizesAssumption
<1>3. /\ entry \in [Entry -> Nat] /\ n \in 0..length /\ blk \in Entry /\ rest \in Nat
         /\ indexFault \in BOOLEAN
      /\ \A i \in 1..Len(buf) : buf[i] \in [kind : {"image", "file", "old"}, at : Nat]
      /\ offset \in 0..(Blocks * BlockSize)
  <2>1. CallType /\ Sizes /\ OffsetInBlocks /\ indexFault \in BOOLEAN
    BY <1>1, Zenon DEF CsoInv
  <2>2. \A i \in 1..Len(buf) : buf[i] \in Byte
    BY <2>1 DEF CallType
  <2>3. offset \in 0..(Blocks * BlockSize)
    BY <1>2, <2>1 DEF OffsetInBlocks
  <2>4. QED BY <2>1, <2>2, <2>3 DEF Sizes, CallType, Byte
<1>4. last \in [size : 1..BlockSize, decoded : 1..BlockSize, strict : BOOLEAN]
  BY DEF Init
<1>5. /\ start = -1 /\ held = 0 /\ array = [i \in 1..MaxEntries |-> -1] /\ cachedBlockNum = -1
      /\ cachedBlock = -1 /\ pc = "idle" /\ length = 0 /\ result = "none" /\ fault = FALSE
  BY DEF Init
<1>6. /\ start \in -1..(Blocks + 1) /\ held \in 0..MaxEntries /\ array \in [1..MaxEntries -> -1..Blocks]
      /\ cachedBlockNum \in -1..(Blocks - 1) /\ cachedBlock \in -1..(Blocks - 1) /\ length \in 0..MaxLen
  BY <1>2, <1>5
<1>7. /\ pc \in {"idle", "start", "compressed", "decode"}
      /\ result \in {"none", "eof", "ok", "error", "overflow", "panic", "astray"}
  BY <1>5
<1>8. fault \in BOOLEAN
  BY <1>5, Zenon
<1>9. QED BY <1>3, <1>4, <1>6, <1>7, <1>8, Zenon DEF TypeOK

\* The variables of a compressed image have their types: every entry the index cache
\* holds is one of the index or none, whatever a fill of it failed at, and the block
\* cached is one of the image's.
THEOREM CsoTypeCorrect == SizesAssumption => (Spec => []TypeOK)
<1>1. SUFFICES ASSUME SizesAssumption PROVE Spec => []TypeOK
  OBVIOUS
<1>2. Init => TypeOK
  BY <1>1, InitTypeOK
<1>3. Spec => []CsoInv
  BY <1>1, AlwaysCsoInv
<1>4. CsoInv /\ CsoInv' /\ TypeOK /\ [Next]_vars => TypeOK'
  BY <1>1, NextKeepsTypeOK
<1>5. QED BY <1>2, <1>3, <1>4, PTL DEF Spec
=============================================================================
