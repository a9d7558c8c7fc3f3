---------------------------- MODULE ImagesProofs ----------------------------
(***************************************************************************)
(* What the components of Images promise holds of the files a session has, *)
(* where what one component does leaves the variables of the others alone: *)
(* the behaviours of Images of a kind are behaviours of that component.    *)
(* The promises of EncryptedISO, VisoFile and FsChain are proved here,     *)
(* before that; those of the others in modules of their own.               *)
(***************************************************************************)
EXTENDS Images, Sequences, TLAPS
-----------------------------------------------------------------------------
(* What EncryptedISO promises, for every region map, every size of the     *)
(* file, of a sector and of a cipher block, and every length and capacity  *)
(* of the buffers.  The sectors decryptData finds, region by region, are   *)
(* those the map calls encrypted: that takes its order.                    *)

Regions == [start : Nat, end : Nat]

\* A file that is decrypted has a map that NewEncryptedISO accepts.
MapAccepted == pc = "open" /\ keyed => Iso!Accepts(map)

EncryptedInv ==
  /\ map \in Maps /\ offset \in 0..FileSize /\ read \in Nat /\ spilled \in BOOLEAN
  /\ MapAccepted
  /\ Iso!ReadsTheImage /\ Iso!TidyReadsSucceed
-----------------------------------------------------------------------------
(* Numbers.                                                                *)

LEMMA SectorOf ==
  ASSUME NEW p \in Nat
  PROVE  /\ Iso!FloorSectors(p) \in Nat /\ Iso!Sectors(p) \in Nat
         /\ Iso!Bytes(Iso!FloorSectors(p)) <= p /\ p < Iso!Bytes(Iso!FloorSectors(p) + 1)
         /\ Iso!AtSector(p) => Iso!Sectors(p) = Iso!FloorSectors(p)
            /\ Iso!Bytes(Iso!FloorSectors(p)) = p
         /\ ~Iso!AtSector(p) => Iso!Sectors(p) = Iso!FloorSectors(p) + 1
<1>1. SectorSize \in Nat \ {0}
  BY SectorSizeAssumption
<1>2. p = SectorSize * (p \div SectorSize) + (p % SectorSize)
  BY <1>1
<1>3. p \div SectorSize \in Nat /\ p % SectorSize \in 0..(SectorSize - 1)
  BY <1>1
<1>4. PICK q \in Nat, r \in 0..(SectorSize - 1) : q = p \div SectorSize /\ r = p % SectorSize
  BY <1>3
<1>5. p = SectorSize * q + r
  BY <1>2, <1>4, Zenon
<1>6. /\ Iso!FloorSectors(p) = q /\ (Iso!AtSector(p) <=> r = 0)
      /\ Iso!Sectors(p) = q + (IF r > 0 THEN 1 ELSE 0)
  BY <1>4 DEF Iso!FloorSectors, Iso!AtSector, Iso!Sectors
<1>7. SectorSize * q <= p /\ p < SectorSize * (q + 1)
  <2>1. SectorSize * (q + 1) = SectorSize * q + SectorSize
    BY <1>1
  <2>2. SectorSize * q \in Nat
    BY <1>1
  <2>3. QED BY <1>1, <1>5, <2>1, <2>2
<1>8. QED BY <1>1, <1>5, <1>6, <1>7 DEF Iso!Bytes

LEMMA BytesGrow ==
  ASSUME NEW s \in Nat, NEW t \in Nat, s <= t
  PROVE  Iso!Bytes(s) <= Iso!Bytes(t) /\ Iso!Bytes(s) \in Nat /\ Iso!Bytes(t) \in Nat
BY SectorSizeAssumption DEF Iso!Bytes

LEMMA FloorGrows ==
  ASSUME NEW p \in Nat, NEW q \in Nat, p <= q
  PROVE  Iso!FloorSectors(p) <= Iso!FloorSectors(q)
<1>1. SUFFICES ASSUME Iso!FloorSectors(q) + 1 <= Iso!FloorSectors(p) PROVE FALSE
  BY SectorOf
<1>2. Iso!Bytes(Iso!FloorSectors(q) + 1) <= Iso!Bytes(Iso!FloorSectors(p))
  <2>1. Iso!FloorSectors(q) + 1 \in Nat /\ Iso!FloorSectors(p) \in Nat
    BY SectorOf
  <2>2. QED BY <1>1, <2>1, BytesGrow
<1>3. q < Iso!Bytes(Iso!FloorSectors(q) + 1) /\ Iso!Bytes(Iso!FloorSectors(p)) <= p
  BY SectorOf
<1>4. Iso!Bytes(Iso!FloorSectors(q) + 1) \in Nat /\ Iso!Bytes(Iso!FloorSectors(p)) \in Nat
  <2>1. Iso!FloorSectors(q) + 1 \in Nat /\ Iso!FloorSectors(p) \in Nat
    BY SectorOf
  <2>2. QED BY <2>1, BytesGrow
<1>5. QED BY <1>2, <1>3, <1>4

LEMMA SmallerLarger ==
  ASSUME NEW a \in Int, NEW b \in Int
  PROVE  /\ Iso!Smaller(a, b) \in Int /\ Iso!Smaller(a, b) <= a /\ Iso!Smaller(a, b) <= b
         /\ Iso!Smaller(a, b) \in {a, b}
         /\ Iso!Larger(a, b) \in Int /\ a <= Iso!Larger(a, b) /\ b <= Iso!Larger(a, b)
         /\ Iso!Larger(a, b) \in {a, b}
BY DEF Iso!Smaller, Iso!Larger
-----------------------------------------------------------------------------
(* The map.                                                                *)

\* Each region of the map ends before any later one starts.
LEMMA MapOrdered ==
  ASSUME map \in Seq(Regions), Iso!Accepts(map), NEW i \in DOMAIN map, NEW j \in DOMAIN map, i < j
  PROVE  map[i].end <= map[j].start
<1>1. /\ DOMAIN map = 1..Len(map) /\ Len(map) \in Nat
      /\ \A k \in 1..Len(map) : map[k].start \in Nat /\ map[k].end \in Nat /\ map[k].start < map[k].end
      /\ \A k \in 2..Len(map) : map[k - 1].end <= map[k].start
  <2>1. \A k \in 1..Len(map) : map[k] \in Regions
    OBVIOUS
  <2>2. \A r \in Regions : r.start \in Nat /\ r.end \in Nat
    BY DEF Regions
  <2>3. DOMAIN map = 1..Len(map) /\ Len(map) \in Nat
    OBVIOUS
  <2>4. \A k \in 1..Len(map) : map[k].start < map[k].end
    BY <2>3 DEF Iso!Accepts
  <2>5. \A k \in 2..Len(map) : map[k - 1].end <= map[k].start
    BY <2>3 DEF Iso!Accepts
  <2>6. QED BY <2>1, <2>2, <2>3, <2>4, <2>5
<1>. DEFINE Bad == {k \in (i + 1)..Len(map) : ~(map[i].end <= map[k].start)}
<1>2. SUFFICES ASSUME Bad # {} PROVE FALSE
  BY <1>1
<1>3. Bad \in SUBSET Nat
  BY <1>1
<1>4. PICK m \in Bad : \A k \in Bad : m <= k
  BY <1>2, <1>3, Cso!LeastOf
<1>5. m \in 2..Len(map) /\ i \in 1..Len(map) /\ m \in (i + 1)..Len(map)
      /\ map[m - 1].end <= map[m].start
  BY <1>1
<1>6. CASE m = i + 1
  BY <1>1, <1>5, <1>6
<1>7. CASE m # i + 1
  <2>1. m - 1 \in (i + 1)..Len(map) /\ ~(m <= m - 1)
    BY <1>1, <1>5, <1>7
  <2>2. m - 1 \notin Bad
    BY <1>4, <2>1
  <2>3. map[i].end <= map[m - 1].start
    BY <2>1, <2>2
  <2>4. m - 1 \in 1..Len(map) /\ m \in 1..Len(map)
    BY <1>1, <1>5
  <2>5. QED BY <1>1, <1>5, <2>3, <2>4, SMTT(30)
<1>8. QED BY <1>6, <1>7

\* The sectors between two regions that follow each other are encrypted.
LEMMA BetweenIsEncrypted ==
  ASSUME map \in Seq(Regions), Iso!Accepts(map), keyed,
         NEW p \in Nat, NEW r \in Iso!EncryptedRegions,
         r.start <= Iso!FloorSectors(p), Iso!FloorSectors(p) < r.end
  PROVE  Iso!IsEncrypted(p)
<1>. DEFINE f == Iso!FloorSectors(p)
<1>1. f \in Nat /\ DOMAIN map = 1..Len(map) /\ Len(map) \in Nat
  <2>1. f \in Nat
    BY SectorOf
  <2>2. QED BY <2>1
<1>2. \A k \in 1..Len(map) : map[k].start \in Nat /\ map[k].end \in Nat /\ map[k].start < map[k].end
  <2>1. \A k \in 1..Len(map) : map[k] \in Regions
    OBVIOUS
  <2>2. QED BY <2>1 DEF Iso!Accepts, Regions
<1>3. PICK i \in 1..(Len(map) - 1) : r = [start |-> map[i].end, end |-> map[i + 1].start]
  BY DEF Iso!EncryptedRegions
<1>4. i \in 1..Len(map) /\ i + 1 \in 1..Len(map) /\ map[i].end <= f /\ f < map[i + 1].start
  BY <1>1, <1>3
<1>. HIDE DEF f
<1>5. \A k \in 1..Len(map) : k < i => map[k].end <= map[i].start
  BY <1>1, <1>4, MapOrdered
<1>6. \A k \in 1..Len(map) : i + 1 < k => map[i + 1].end <= map[k].start
  BY <1>1, <1>4, MapOrdered
<1>7. ASSUME NEW k \in 1..Len(map) PROVE f \notin map[k].start..(map[k].end - 1)
  <2>1. CASE k <= i
    <3>1. map[k].end <= map[i].end
      BY <1>1, <1>2, <1>4, <1>5, <2>1
    <3>2. QED BY <1>1, <1>2, <1>4, <3>1
  <2>2. CASE k >= i + 1
    <3>1. map[i + 1].start <= map[k].start
      BY <1>1, <1>2, <1>4, <1>6, <2>2, SMTT(30)
    <3>2. QED BY <1>1, <1>2, <1>4, <3>1
  <2>3. QED BY <1>1, <1>4, <2>1, <2>2
<1>8. f < map[Len(map)].end
  <2>1. Len(map) \in 1..Len(map) /\ i + 1 <= Len(map)
    BY <1>1, <1>4
  <2>2. map[i + 1].start <= map[Len(map)].start
    BY <1>1, <1>2, <1>4, <1>6, <2>1
  <2>3. QED BY <1>1, <1>2, <1>4, <2>1, <2>2
<1>9. QED BY <1>1, <1>7, <1>8 DEF Iso!IsEncrypted, f

\* And an encrypted sector is between two such regions.
LEMMA EncryptedIsBetween ==
  ASSUME map \in Seq(Regions), Iso!Accepts(map), NEW p \in Nat, Iso!IsEncrypted(p)
  PROVE  \E r \in Iso!EncryptedRegions : /\ r.start \in Nat /\ r.end \in Nat
                                     /\ r.start <= Iso!FloorSectors(p) /\ Iso!FloorSectors(p) < r.end
<1>. DEFINE f == Iso!FloorSectors(p)
            S == {j \in 1..Len(map) : f < map[j].end}
<1>1. f \in Nat /\ DOMAIN map = 1..Len(map) /\ Len(map) \in Nat /\ Len(map) >= 2 /\ map[1].start = 0
  BY SectorOf DEF Iso!Accepts
<1>2. \A k \in 1..Len(map) : map[k].start \in Nat /\ map[k].end \in Nat
  <2>1. \A k \in 1..Len(map) : map[k] \in Regions
    OBVIOUS
  <2>2. QED BY <2>1 DEF Regions
<1>3. (\A k \in 1..Len(map) : f \notin map[k].start..(map[k].end - 1)) /\ f < map[Len(map)].end
  BY <1>1 DEF Iso!IsEncrypted
<1>. HIDE DEF f
<1>4. Len(map) \in S /\ S \in SUBSET Nat
  BY <1>1, <1>3
<1>5. PICK k \in S : \A j \in S : k <= j
  BY <1>4, Cso!LeastOf
<1>6. k \in 1..Len(map) /\ f < map[k].end /\ f < map[k].start
  BY <1>1, <1>2, <1>3
<1>7. k # 1
  BY <1>1, <1>6
<1>8. k - 1 \in 1..(Len(map) - 1) /\ k - 1 \in 1..Len(map) /\ ~(k <= k - 1)
  BY <1>1, <1>6, <1>7
<1>9. map[k - 1].end <= f
  <2>1. k - 1 \notin S
    BY <1>5, <1>8
  <2>2. QED BY <1>1, <1>2, <1>8, <2>1
<1>10. (k - 1) + 1 = k
  BY <1>6
<1>. DEFINE r == [start |-> map[k - 1].end, end |-> map[k].start]
<1>11. r \in Iso!EncryptedRegions
  BY <1>8, <1>10 DEF Iso!EncryptedRegions
<1>12. r.start \in Nat /\ r.end \in Nat /\ r.start <= f /\ f < r.end
  BY <1>2, <1>6, <1>8, <1>9
<1>13. QED BY <1>11, <1>12 DEF f
-----------------------------------------------------------------------------
(* decryptData.                                                            *)

MapRead == map \in Seq(Regions) /\ (keyed => Iso!Accepts(map))

\* A sector that is decrypted is one of an encrypted region and of the buffer.
LEMMA DecryptedSector ==
  ASSUME MapRead, NEW begin \in Nat, NEW end \in Nat, NEW s \in Iso!Decrypted(begin, end)
  PROVE  /\ keyed /\ s \in Nat /\ Iso!FloorSectors(begin) <= s /\ s + 1 <= Iso!Sectors(end)
         /\ \E r \in Iso!EncryptedRegions : r.start <= s /\ s < r.end
<1>1. keyed
  BY DEF Iso!Decrypted
<1>2. PICK r \in Iso!EncryptedRegions :
        s \in Iso!Larger(r.start, Iso!FloorSectors(begin))..(Iso!Smaller(r.end, Iso!Sectors(end)) - 1)
  BY <1>1 DEF Iso!Decrypted
<1>3. r.start \in Nat /\ r.end \in Nat
  <2>1. PICK i \in 1..(Len(map) - 1) : r = [start |-> map[i].end, end |-> map[i + 1].start]
    BY DEF Iso!EncryptedRegions
  <2>2. map[i] \in Regions /\ map[i + 1] \in Regions
    BY DEF MapRead
  <2>3. QED BY <2>1, <2>2 DEF Regions
<1>4. Iso!FloorSectors(begin) \in Nat /\ Iso!Sectors(end) \in Nat
  BY SectorOf
<1>. DEFINE a == Iso!Larger(r.start, Iso!FloorSectors(begin))
            b == Iso!Smaller(r.end, Iso!Sectors(end))
<1>5. /\ a \in Int /\ r.start <= a /\ Iso!FloorSectors(begin) <= a
      /\ b \in Int /\ b <= r.end /\ b <= Iso!Sectors(end)
  <2>1. r.start \in Int /\ Iso!FloorSectors(begin) \in Int /\ r.end \in Int /\ Iso!Sectors(end) \in Int
    BY <1>3, <1>4
  <2>2. a \in Int /\ r.start <= a /\ Iso!FloorSectors(begin) <= a
    BY <2>1, SmallerLarger, Zenon
  <2>3. b \in Int /\ b <= r.end /\ b <= Iso!Sectors(end)
    BY <2>1, SmallerLarger, Zenon
  <2>4. QED BY <2>2, <2>3
<1>6. s \in a..(b - 1)
  BY <1>2
<1>. HIDE DEF a, b
<1>7. s \in Nat /\ Iso!FloorSectors(begin) <= s /\ s + 1 <= Iso!Sectors(end) /\ r.start <= s
      /\ s < r.end
  BY <1>3, <1>4, <1>5, <1>6
<1>8. QED BY <1>1, <1>7

\* So nothing is decrypted that the map does not call encrypted.
LEMMA DecryptedIsEncrypted ==
  ASSUME MapRead, NEW begin \in Nat, NEW end \in Nat,
         NEW p \in Nat, Iso!FloorSectors(p) \in Iso!Decrypted(begin, end)
  PROVE  Iso!IsEncrypted(p)
<1>1. /\ keyed
      /\ \E r \in Iso!EncryptedRegions : r.start <= Iso!FloorSectors(p) /\ Iso!FloorSectors(p) < r.end
  BY DecryptedSector
<1>2. QED BY <1>1, BetweenIsEncrypted DEF MapRead

\* Whether a byte is encrypted its sector says.
LEMMA OfOneSector ==
  ASSUME NEW p, NEW q, Iso!FloorSectors(p) = Iso!FloorSectors(q), Iso!IsEncrypted(p)
  PROVE  Iso!IsEncrypted(q)
BY DEF Iso!IsEncrypted

\* And what it calls encrypted is, unless the buffer begins in the midst of it.
LEMMA EncryptedIsDecrypted ==
  ASSUME MapRead, NEW begin \in Nat, NEW end \in Nat, Iso!CleanCut(begin),
         NEW p \in Nat, begin <= p, p < end, Iso!IsEncrypted(p)
  PROVE  Iso!FloorSectors(p) \in Iso!Decrypted(begin, end)
<1>. DEFINE f == Iso!FloorSectors(p)
            e == Iso!FloorSectors(end)
            b == Iso!FloorSectors(begin)
<1>1. keyed
  BY DEF Iso!IsEncrypted
<1>2. PICK r \in Iso!EncryptedRegions : r.start \in Nat /\ r.end \in Nat /\ r.start <= f /\ f < r.end
  BY <1>1, EncryptedIsBetween DEF MapRead
<1>3. /\ f \in Nat /\ e \in Nat /\ b \in Nat /\ Iso!Sectors(begin) \in Nat /\ Iso!Sectors(end) \in Nat
      /\ Iso!Bytes(f) <= p /\ b <= f /\ f <= e
  BY SectorOf, FloorGrows
<1>4. f < Iso!Sectors(end)
  <2>1. CASE Iso!AtSector(end)
    <3>1. Iso!Sectors(end) = e /\ Iso!Bytes(e) = end
      BY <2>1, SectorOf
    <3>2. f # e
      <4>1. Iso!Bytes(f) <= p /\ p < Iso!Bytes(e) /\ Iso!Bytes(e) \in Nat /\ Iso!Bytes(f) \in Nat
        BY <1>3, <3>1, BytesGrow
      <4>2. QED BY <4>1
    <3>3. QED BY <1>3, <3>1, <3>2
  <2>2. CASE ~Iso!AtSector(end)
    <3>1. Iso!Sectors(end) = e + 1
      BY <2>2, SectorOf
    <3>2. QED BY <1>3, <3>1
  <2>3. QED BY <2>1, <2>2
<1>5. Iso!Sectors(begin) <= f
  <2>1. CASE Iso!AtSector(begin)
    <3>1. Iso!Sectors(begin) = b
      BY <2>1, SectorOf
    <3>2. QED BY <1>3, <3>1
  <2>2. CASE ~Iso!AtSector(begin)
    <3>1. Iso!Sectors(begin) = b + 1
      BY <2>2, SectorOf
    <3>2. b # f
      BY <2>2, OfOneSector DEF Iso!CleanCut
    <3>3. QED BY <1>3, <3>1, <3>2
  <2>3. QED BY <2>1, <2>2
<1>. DEFINE lo == Iso!Larger(r.start, b)
            hi == Iso!Smaller(r.end, Iso!Sectors(end))
<1>6. lo \in {r.start, b} /\ hi \in {r.end, Iso!Sectors(end)}
  <2>1. r.start \in Int /\ b \in Int /\ r.end \in Int /\ Iso!Sectors(end) \in Int
    BY <1>2, <1>3
  <2>2. lo \in {r.start, b}
    BY <2>1, SmallerLarger, Zenon
  <2>3. hi \in {r.end, Iso!Sectors(end)}
    BY <2>1, SmallerLarger, Zenon
  <2>4. QED BY <2>2, <2>3
<1>7. ~(r.end <= Iso!Sectors(begin) \/ r.start > Iso!Sectors(end))
  <2>. HIDE DEF f
  <2>. QED BY <1>2, <1>3, <1>4, <1>5
<1>8. f \in lo..(hi - 1)
  <2>. HIDE DEF f, lo, hi, b
  <2>. QED BY <1>2, <1>3, <1>4, <1>6
<1>9. r \in {q \in Iso!EncryptedRegions : Iso!Covered(q, begin, end)}
  BY <1>7 DEF Iso!Covered
<1>10. QED BY <1>1, <1>8, <1>9 DEF Iso!Decrypted

\* A sector that is decrypted lies in the buffer, but for one that the buffer begins
\* or ends in.
LEMMA DecryptedInside ==
  ASSUME MapRead, NEW begin \in Nat, NEW end \in Nat, NEW s \in Iso!Decrypted(begin, end)
  PROVE  /\ Iso!Bytes(s) \in Nat /\ Iso!Bytes(s + 1) \in Nat
         /\ Iso!CleanCut(begin) => begin <= Iso!Bytes(s)
         /\ Iso!CleanCut(end) => Iso!Bytes(s + 1) <= end
<1>1. s \in Nat /\ Iso!FloorSectors(begin) <= s /\ s + 1 <= Iso!Sectors(end)
  BY DecryptedSector
<1>2. Iso!Bytes(s) \in Nat /\ Iso!Bytes(s + 1) \in Nat
  BY <1>1, BytesGrow
<1>3. /\ Iso!FloorSectors(begin) \in Nat /\ Iso!Sectors(end) \in Nat /\ Iso!FloorSectors(end) \in Nat
      /\ begin < Iso!Bytes(Iso!FloorSectors(begin) + 1) /\ Iso!Bytes(Iso!FloorSectors(end)) <= end
      /\ Iso!Bytes(Iso!FloorSectors(begin) + 1) \in Nat /\ Iso!Bytes(Iso!FloorSectors(end)) \in Nat
  <2>1. /\ Iso!FloorSectors(begin) \in Nat /\ Iso!Sectors(end) \in Nat /\ Iso!FloorSectors(end) \in Nat
        /\ begin < Iso!Bytes(Iso!FloorSectors(begin) + 1) /\ Iso!Bytes(Iso!FloorSectors(end)) <= end
    BY SectorOf
  <2>2. Iso!FloorSectors(begin) + 1 \in Nat
    BY <2>1
  <2>3. QED BY <2>1, <2>2, BytesGrow
<1>4. ASSUME Iso!CleanCut(begin) PROVE begin <= Iso!Bytes(s)
  <2>1. CASE Iso!AtSector(begin)
    <3>1. Iso!Bytes(Iso!FloorSectors(begin)) = begin
      BY <2>1, SectorOf
    <3>2. Iso!Bytes(Iso!FloorSectors(begin)) <= Iso!Bytes(s)
      BY <1>1, <1>3, BytesGrow
    <3>3. QED BY <3>1, <3>2
  <2>2. CASE ~Iso!AtSector(begin)
    <3>1. Iso!FloorSectors(begin) # s
      BY <1>4, <2>2, DecryptedIsEncrypted DEF Iso!CleanCut
    <3>2. Iso!FloorSectors(begin) + 1 <= s /\ Iso!FloorSectors(begin) + 1 \in Nat
      BY <1>1, <1>3, <3>1
    <3>3. Iso!Bytes(Iso!FloorSectors(begin) + 1) <= Iso!Bytes(s)
      BY <1>1, <3>2, BytesGrow
    <3>4. QED BY <1>2, <1>3, <3>3
  <2>3. QED BY <2>1, <2>2
<1>5. ASSUME Iso!CleanCut(end) PROVE Iso!Bytes(s + 1) <= end
  <2>1. s + 1 <= Iso!FloorSectors(end)
    <3>1. CASE Iso!AtSector(end)
      <4>1. Iso!Sectors(end) = Iso!FloorSectors(end)
        BY <3>1, SectorOf
      <4>2. QED BY <1>1, <4>1
    <3>2. CASE ~Iso!AtSector(end)
      <4>1. Iso!Sectors(end) = Iso!FloorSectors(end) + 1
        BY <3>2, SectorOf
      <4>2. Iso!FloorSectors(end) # s
        BY <1>5, <3>2, DecryptedIsEncrypted DEF Iso!CleanCut
      <4>3. QED BY <1>1, <1>3, <4>1, <4>2
    <3>3. QED BY <3>1, <3>2
  <2>2. Iso!Bytes(s + 1) <= Iso!Bytes(Iso!FloorSectors(end))
    BY <1>1, <1>3, <2>1, BytesGrow
  <2>3. QED BY <1>2, <1>3, <2>2
<1>6. QED BY <1>2, <1>4, <1>5
-----------------------------------------------------------------------------
(* Steps.                                                                  *)

LEMMA MapIsRead ==
  ASSUME Iso!SizesAssumption, EncryptedInv, pc = "open"
  PROVE  MapRead
BY DEF Iso!SizesAssumption, EncryptedInv, MapAccepted, MapRead, Regions

LEMMA SameMap ==
  ASSUME UNCHANGED <<map, keyed, masked, clearRegions>>
  PROVE  /\ \A p : Iso!IsEncrypted(p)' = Iso!IsEncrypted(p) /\ Iso!ImageByte(p)' = Iso!ImageByte(p)
         /\ \A p : Iso!CleanCut(p)' = Iso!CleanCut(p)
         /\ \A p, q : Iso!WholeBlock(p, q)' = Iso!WholeBlock(p, q)
BY DEF Iso!IsEncrypted, Iso!ImageByte, Iso!CleanCut, Iso!Masks, Iso!Clears, Iso!HeaderSize,
       Iso!WholeBlock, Iso!AtSector

\* A byte that is read is the image's, where what was read of its block is whole.
LEMMA ByteOfImage ==
  ASSUME MapRead, NEW begin \in Nat, NEW end \in Nat, Iso!CleanCut(begin),
         NEW p \in Nat, begin <= p, p < end, ~Iso!IsEncrypted(p) \/ Iso!WholeBlock(p, end)
  PROVE  Iso!ByteRead(p, begin, end) = Iso!ImageByte(p)
<1>1. Iso!IsEncrypted(p) => Iso!FloorSectors(p) \in Iso!Decrypted(begin, end)
  BY EncryptedIsDecrypted
<1>2. Iso!FloorSectors(p) \in Iso!Decrypted(begin, end) => Iso!IsEncrypted(p)
  BY DecryptedIsEncrypted
<1>3. QED BY <1>1, <1>2, Zenon DEF Iso!ByteRead, Iso!ImageByte

LEMMA ReadKeepsInv ==
  ASSUME Iso!SizesAssumption, EncryptedInv,
         NEW l \in 1..EncryptedMaxLen, NEW s \in EncryptedSpare, NEW m \in 1..EncryptedMaxLen,
         Iso!Read(l, s, m)
  PROVE  EncryptedInv'
<1>. DEFINE end == offset + m
<1>1. /\ UNCHANGED <<map, keyed, masked, clearRegions, pc>> /\ pc = "open"
      /\ m <= l /\ end <= FileSize /\ read' = m
      /\ IF Iso!DecryptPanics(offset, end, l + s) \/ Iso!MaskPanics(offset, end)
         THEN result' = "panic" /\ got' = <<>> /\ spilled' = FALSE /\ offset' = offset
         ELSE /\ result' = "ok" /\ offset' = end
              /\ got' = [i \in 1..m |-> Iso!ByteRead(offset + i - 1, offset, end)]
              /\ spilled' = \E t \in Iso!Decrypted(offset, end) : Iso!Bytes(t + 1) > end
  BY DEF Iso!Read
<1>2. /\ l \in Nat /\ s \in Nat /\ m \in Nat \ {0} /\ FileSize \in Nat
      /\ offset \in Nat /\ offset <= FileSize /\ end \in Nat
  <2>1. EncryptedMaxLen \in Nat /\ s \in Nat /\ FileSize \in Nat /\ offset \in 0..FileSize
    BY DEF Iso!SizesAssumption, EncryptedInv
  <2>2. QED BY <2>1
<1>3. MapRead
  BY <1>1, MapIsRead
<1>4. MapAccepted' /\ map' \in Maps /\ read' \in Nat
  BY <1>1, <1>2 DEF EncryptedInv, MapAccepted, Iso!Accepts
<1>5. CASE Iso!DecryptPanics(offset, end, l + s) \/ Iso!MaskPanics(offset, end)
  <2>1. result' = "panic" /\ got' = <<>> /\ spilled' = FALSE /\ offset' = offset
    BY <1>1, <1>5
  <2>2. Iso!Began' = offset /\ Iso!Ended' = end
    BY <1>1, <2>1 DEF Iso!Began, Iso!Ended
  <2>3. \/ ~Iso!CleanCut(offset) \/ ~Iso!CleanCut(end)
        \/ masked /\ offset > MaskBegin /\ offset < MaskEnd
    <3>1. SUFFICES ASSUME Iso!CleanCut(offset), Iso!CleanCut(end), Iso!DecryptPanics(offset, end, l + s)
                    PROVE  FALSE
      BY <1>5 DEF Iso!MaskPanics
    <3>2. PICK t \in Iso!Decrypted(offset, end) :
            Iso!Bytes(t) < offset \/ Iso!Bytes(t + 1) - offset > l + s
      BY <3>1 DEF Iso!DecryptPanics
    <3>3. /\ Iso!Bytes(t) \in Nat /\ Iso!Bytes(t + 1) \in Nat
          /\ offset <= Iso!Bytes(t) /\ Iso!Bytes(t + 1) <= end
      BY <1>2, <1>3, <3>1, DecryptedInside
    <3>4. QED BY <1>1, <1>2, <3>2, <3>3
  <2>4. Iso!TidyReadsSucceed'
    BY <1>1, <2>1, <2>2, <2>3, SameMap DEF Iso!TidyReadsSucceed
  <2>5. Iso!ReadsTheImage'
    BY <2>1 DEF Iso!ReadsTheImage
  <2>6. QED BY <1>4, <2>1, <2>4, <2>5 DEF EncryptedInv
<1>6. CASE ~(Iso!DecryptPanics(offset, end, l + s) \/ Iso!MaskPanics(offset, end))
  <2>1. /\ result' = "ok" /\ offset' = end
        /\ got' = [i \in 1..m |-> Iso!ByteRead(offset + i - 1, offset, end)]
        /\ spilled' = \E t \in Iso!Decrypted(offset, end) : Iso!Bytes(t + 1) > end
    BY <1>1, <1>6
  <2>2. Iso!Began' = offset /\ Iso!Ended' = end
    BY <1>1, <1>2, <2>1 DEF Iso!Began, Iso!Ended
  <2>3. ASSUME spilled', Iso!CleanCut(end) PROVE FALSE
    <3>1. PICK t \in Iso!Decrypted(offset, end) : Iso!Bytes(t + 1) > end
      BY <2>1, <2>3
    <3>2. Iso!Bytes(t + 1) \in Nat /\ Iso!Bytes(t + 1) <= end
      BY <1>2, <1>3, <2>3, DecryptedInside
    <3>3. QED BY <1>2, <3>1, <3>2
  <2>4. Iso!TidyReadsSucceed'
    BY <1>1, <2>1, <2>2, <2>3, SameMap DEF Iso!TidyReadsSucceed
  <2>5. ASSUME Iso!CleanCut(offset), NEW i \in 1..m,
               ~Iso!IsEncrypted(offset + i - 1) \/ Iso!WholeBlock(offset + i - 1, end)
        PROVE  got'[i] = Iso!ImageByte(offset + i - 1)
    <3>1. got'[i] = Iso!ByteRead(offset + i - 1, offset, end)
      BY <2>1
    <3>2. offset + i - 1 \in Nat /\ offset <= offset + i - 1 /\ offset + i - 1 < end
      BY <1>2
    <3>3. QED BY <1>2, <1>3, <2>5, <3>1, <3>2, ByteOfImage
  <2>6. Iso!ReadsTheImage'
    <3>1. DOMAIN got' = 1..m
      BY <2>1
    <3>2. QED BY <1>1, <2>2, <2>5, <3>1, SameMap DEF Iso!ReadsTheImage
  <2>7. QED BY <1>1, <1>2, <1>4, <2>1, <2>4, <2>6 DEF EncryptedInv
<1>7. QED BY <1>5, <1>6

\* A call that reads nothing shows nothing.
LEMMA IdleKeepsInv == Iso!SizesAssumption /\ EncryptedInv /\ (Iso!ReadFails \/ Iso!Seek)
  => EncryptedInv'
<1>. SUFFICES ASSUME Iso!SizesAssumption, EncryptedInv, Iso!ReadFails \/ Iso!Seek PROVE EncryptedInv'
  OBVIOUS
<1>1. /\ UNCHANGED <<map, keyed, masked, clearRegions, pc>> /\ offset' \in 0..FileSize
      /\ read' = 0 /\ got' = <<>> /\ spilled' = FALSE /\ result' \in {"eof", "error", "none"}
  BY DEF Iso!ReadFails, Iso!Seek, Iso!Idle, EncryptedInv
<1>2. MapAccepted' /\ map' \in Maps
  BY <1>1 DEF EncryptedInv, MapAccepted, Iso!Accepts
<1>3. Iso!ReadsTheImage' /\ Iso!TidyReadsSucceed'
  BY <1>1 DEF Iso!ReadsTheImage, Iso!TidyReadsSucceed
<1>4. QED BY <1>1, <1>2, <1>3 DEF EncryptedInv

LEMMA NewKeepsInv == EncryptedInv /\ (Iso!New \/ Iso!NewFails) => EncryptedInv'
<1>. SUFFICES ASSUME EncryptedInv, Iso!New \/ Iso!NewFails PROVE EncryptedInv'
  OBVIOUS
<1>1. UNCHANGED <<map, keyed, masked, clearRegions, offset, read, got, spilled, result>>
  BY DEF Iso!New, Iso!NewFails, Iso!call
<1>2. MapAccepted'
  BY <1>1 DEF Iso!New, Iso!NewFails, MapAccepted, Iso!Accepts
<1>3. Iso!ReadsTheImage' /\ Iso!TidyReadsSucceed'
  BY <1>1, SameMap DEF EncryptedInv, Iso!ReadsTheImage, Iso!TidyReadsSucceed, Iso!Began, Iso!Ended
<1>4. QED BY <1>1, <1>2, <1>3 DEF EncryptedInv

LEMMA StutterKeepsInv == EncryptedInv /\ UNCHANGED Iso!vars => EncryptedInv'
<1>. SUFFICES ASSUME EncryptedInv, UNCHANGED Iso!vars PROVE EncryptedInv'
  OBVIOUS
<1>1. UNCHANGED <<map, keyed, masked, clearRegions, pc, offset, read, got, spilled, result>>
  BY DEF Iso!vars, Iso!call
<1>2. MapAccepted'
  BY <1>1 DEF EncryptedInv, MapAccepted, Iso!Accepts
<1>3. Iso!ReadsTheImage' /\ Iso!TidyReadsSucceed'
  BY <1>1, SameMap DEF EncryptedInv, Iso!ReadsTheImage, Iso!TidyReadsSucceed, Iso!Began, Iso!Ended
<1>4. QED BY <1>1, <1>2, <1>3 DEF EncryptedInv

LEMMA InitEncryptedInv == Iso!SizesAssumption /\ Iso!Init => EncryptedInv
<1>. SUFFICES ASSUME Iso!SizesAssumption, Iso!Init PROVE EncryptedInv
  OBVIOUS
<1>1. /\ map \in Maps /\ offset = 0 /\ read = 0 /\ spilled = FALSE /\ got = <<>>
      /\ pc = "new" /\ result = "none" /\ FileSize \in Nat
  BY DEF Iso!Init, Iso!SizesAssumption
<1>2. Iso!ReadsTheImage
  BY <1>1 DEF Iso!ReadsTheImage
<1>3. Iso!TidyReadsSucceed
  BY <1>1, Zenon DEF Iso!TidyReadsSucceed
<1>4. MapAccepted
  BY <1>1 DEF MapAccepted
<1>5. offset \in 0..FileSize /\ read \in Nat
  BY <1>1
<1>6. spilled \in BOOLEAN
  BY <1>1, Zenon
<1>7. QED BY <1>1, <1>2, <1>3, <1>4, <1>5, <1>6, Zenon DEF EncryptedInv

LEMMA NextKeepsInv == Iso!SizesAssumption /\ EncryptedInv /\ [Iso!Next]_(Iso!vars) => EncryptedInv'
BY NewKeepsInv, ReadKeepsInv, IdleKeepsInv, StutterKeepsInv DEF Iso!Next

LEMMA AlwaysEncryptedInv == Iso!SizesAssumption => (Iso!Spec => []EncryptedInv)
<1>. SUFFICES ASSUME Iso!SizesAssumption PROVE Iso!Spec => []EncryptedInv
  OBVIOUS
<1>1. Iso!Init => EncryptedInv
  BY InitEncryptedInv
<1>2. EncryptedInv /\ [Iso!Next]_(Iso!vars) => EncryptedInv'
  BY NextKeepsInv
<1>3. QED BY <1>1, <1>2, PTL DEF Iso!Spec
-----------------------------------------------------------------------------
(* Its variables' types.                                                   *)

EncryptedBytes == [at : 0..FileSize, kind : {"plain", "cipher", "zero", "junk"}]

\* What a Read gave keeps its type while it is kept, or is nothing.
LEMMA EncryptedGot ==
  ASSUME Iso!SizesAssumption, EncryptedInv, Iso!TypeOK, [Iso!Next]_(Iso!vars)
  PROVE  /\ read' \in 0..EncryptedMaxLen /\ Len(got') \in {0, read'}
         /\ \A i \in DOMAIN got' : got'[i] \in EncryptedBytes
         /\ result' \in {"none", "ok", "eof", "error", "panic"}
<1>1. /\ read \in 0..EncryptedMaxLen /\ Len(got) \in {0, read}
      /\ \A i \in DOMAIN got : got[i] \in EncryptedBytes
      /\ result \in {"none", "ok", "eof", "error", "panic"}
  BY DEF Iso!TypeOK, EncryptedBytes
<1>2. EncryptedMaxLen \in Nat /\ FileSize \in Nat /\ offset \in 0..FileSize
  BY DEF Iso!SizesAssumption, EncryptedInv
<1>3. CASE UNCHANGED <<read, got, result>>
  BY <1>1, <1>3
<1>4. CASE read' = 0 /\ got' = <<>> /\ result' \in {"none", "eof", "error"}
  BY <1>2, <1>4
<1>5. ASSUME NEW l \in 1..EncryptedMaxLen, NEW s \in EncryptedSpare, NEW m \in 1..EncryptedMaxLen,
             Iso!Read(l, s, m)
      PROVE  /\ read' \in 0..EncryptedMaxLen /\ Len(got') \in {0, read'}
             /\ \A i \in DOMAIN got' : got'[i] \in EncryptedBytes
             /\ result' \in {"none", "ok", "eof", "error", "panic"}
  <2>. DEFINE end == offset + m
  <2>1. /\ end <= FileSize /\ read' = m
        /\ \/ result' = "panic" /\ got' = <<>>
           \/ result' = "ok" /\ got' = [i \in 1..m |-> Iso!ByteRead(offset + i - 1, offset, end)]
    BY <1>5 DEF Iso!Read
  <2>2. m \in Nat /\ m \in 0..EncryptedMaxLen
    BY <1>2
  <2>3. CASE result' = "panic" /\ got' = <<>>
    BY <2>1, <2>2, <2>3
  <2>4. CASE result' = "ok" /\ got' = [i \in 1..m |-> Iso!ByteRead(offset + i - 1, offset, end)]
    <3>1. Len(got') = m /\ DOMAIN got' = 1..m
      BY <2>2, <2>4
    <3>2. ASSUME NEW i \in 1..m PROVE got'[i] \in EncryptedBytes
      <4>1. got'[i] = Iso!ByteRead(offset + i - 1, offset, end)
        BY <2>4
      <4>2. offset + i - 1 \in 0..FileSize
        BY <1>2, <2>1, <2>2
      <4>3. \A p \in 0..FileSize : Iso!ByteRead(p, offset, end) \in EncryptedBytes
        BY DEF Iso!ByteRead, EncryptedBytes
      <4>4. QED BY <4>1, <4>2, <4>3, Zenon
    <3>3. QED BY <2>1, <2>2, <2>4, <3>1, <3>2
  <2>5. QED BY <2>1, <2>3, <2>4
<1>6. QED
  BY <1>3, <1>4, <1>5 DEF Iso!Next, Iso!New, Iso!NewFails, Iso!ReadFails, Iso!Seek, Iso!Idle,
     Iso!vars, Iso!call

LEMMA NextKeepsEncryptedType ==
  ASSUME Iso!SizesAssumption, EncryptedInv, EncryptedInv', Iso!TypeOK, [Iso!Next]_(Iso!vars)
  PROVE  Iso!TypeOK'
<1>1. UNCHANGED <<keyed, masked, clearRegions>>
  BY DEF Iso!Next, Iso!New, Iso!NewFails, Iso!Read, Iso!ReadFails, Iso!Seek, Iso!vars
<1>2. keyed' \in BOOLEAN /\ masked' \in BOOLEAN /\ clearRegions' \in BOOLEAN
  BY <1>1, Zenon DEF Iso!TypeOK
<1>3. map' \in Maps /\ offset' \in 0..FileSize /\ spilled' \in BOOLEAN
  BY DEF EncryptedInv
<1>4. pc' \in {"new", "open", "refused"}
  BY DEF Iso!TypeOK, Iso!Next, Iso!New, Iso!NewFails, Iso!Read, Iso!ReadFails, Iso!Seek, Iso!vars
<1>5. QED BY <1>2, <1>3, <1>4, EncryptedGot, Zenon DEF Iso!TypeOK, EncryptedBytes

LEMMA InitEncryptedType == Iso!SizesAssumption /\ Iso!Init => Iso!TypeOK
<1>. SUFFICES ASSUME Iso!SizesAssumption, Iso!Init PROVE Iso!TypeOK
  OBVIOUS
<1>1. /\ map \in Maps /\ keyed \in BOOLEAN /\ masked \in BOOLEAN /\ clearRegions \in BOOLEAN
      /\ pc = "new" /\ offset = 0 /\ read = 0 /\ got = <<>> /\ spilled = FALSE /\ result = "none"
  BY Zenon DEF Iso!Init
<1>2. FileSize \in Nat /\ EncryptedMaxLen \in Nat
  BY DEF Iso!SizesAssumption
<1>3. offset \in 0..FileSize /\ read \in 0..EncryptedMaxLen /\ Len(got) \in {0, read} /\ DOMAIN got = {}
  BY <1>1, <1>2
<1>4. pc \in {"new", "open", "refused"} /\ result \in {"none", "ok", "eof", "error", "panic"}
  BY <1>1
<1>5. spilled \in BOOLEAN
  BY <1>1, Zenon
<1>6. QED BY <1>1, <1>3, <1>4, <1>5, Zenon DEF Iso!TypeOK

LEMMA EncryptedTypeCorrect == Iso!SizesAssumption => (Iso!Spec => []Iso!TypeOK)
<1>. SUFFICES ASSUME Iso!SizesAssumption PROVE Iso!Spec => []Iso!TypeOK
  OBVIOUS
<1>1. Iso!Init => Iso!TypeOK
  BY InitEncryptedType
<1>2. EncryptedInv /\ EncryptedInv' /\ Iso!TypeOK /\ [Iso!Next]_(Iso!vars) => Iso!TypeOK'
  BY NextKeepsEncryptedType
<1>3. QED BY <1>1, <1>2, AlwaysEncryptedInv, PTL DEF Iso!Spec
-----------------------------------------------------------------------------
(* What VisoFile promises of Read, for every number and size of files, of  *)
(* sectors and of what is read.  filesToRead is where the buffer is filled *)
(* to, so that what is put next into it comes next in the image.           *)

\* A place is in a sector before another's where it is before that begins.
LEMMA BeforeSector ==
  ASSUME NEW p \in Nat, NEW s \in Nat
  PROVE  /\ Viso!Bytes(s) \in Nat /\ Viso!FloorSectors(p) \in Nat
            /\ Viso!FloorSectors(Viso!Bytes(s)) = s
         /\ Viso!FloorSectors(p) < s <=> p < Viso!Bytes(s)
<1>1. SectorSize \in Nat \ {0}
  BY SectorSizeAssumption
<1>2. Viso!Bytes(s) \in Nat /\ Viso!FloorSectors(p) \in Nat
  BY <1>1 DEF Viso!Bytes, Viso!FloorSectors
<1>3. PICK q \in Nat, r \in 0..(SectorSize - 1) :
        q = Viso!FloorSectors(p) /\ p = SectorSize * q + r
  BY <1>1 DEF Viso!FloorSectors
<1>4. ASSUME q < s PROVE p < SectorSize * s
  <2>1. PICK d \in Nat : s = (q + 1) + d
    BY <1>4
  <2>2. SectorSize * s = SectorSize * q + SectorSize + SectorSize * d
    BY <1>1, <2>1
  <2>3. SectorSize * d \in Nat /\ SectorSize * q \in Nat
    BY <1>1
  <2>4. QED BY <1>1, <1>3, <2>2, <2>3
<1>5. ASSUME s <= q PROVE SectorSize * s <= p
  <2>1. PICK d \in Nat : q = s + d
    BY <1>5
  <2>2. SectorSize * q = SectorSize * s + SectorSize * d
    BY <1>1, <2>1
  <2>3. SectorSize * d \in Nat /\ SectorSize * s \in Nat
    BY <1>1
  <2>4. QED BY <1>1, <1>3, <2>2, <2>3
<1>6. Viso!FloorSectors(p) < s <=> p < Viso!Bytes(s)
  <2>1. SectorSize * s \in Nat
    BY <1>1
  <2>2. QED BY <1>3, <1>4, <1>5, <2>1 DEF Viso!Bytes
<1>7. Viso!FloorSectors(Viso!Bytes(s)) = s
  BY <1>1 DEF Viso!FloorSectors, Viso!Bytes
<1>8. QED BY <1>2, <1>6, <1>7

LEMMA Concatenated ==
  ASSUME NEW S, NEW a \in Seq(S), NEW b \in Seq(S)
  PROVE  /\ a \o b \in Seq(S) /\ Len(a \o b) = Len(a) + Len(b)
         /\ \A i \in 1..Len(a) : (a \o b)[i] = a[i]
         /\ \A i \in 1..Len(b) : (a \o b)[Len(a) + i] = b[i]
<1>1. a \o b \in Seq(S) /\ Len(a \o b) = Len(a) + Len(b) /\ Len(a) \in Nat /\ Len(b) \in Nat
  OBVIOUS
<1>2. ASSUME NEW i \in 1..Len(a) PROVE (a \o b)[i] = a[i]
  BY <1>1
<1>3. ASSUME NEW i \in 1..Len(b) PROVE (a \o b)[Len(a) + i] = b[i]
  <2>1. Len(a) + i \in 1..(Len(a) + Len(b)) /\ Len(a) + i > Len(a)
    BY <1>1
  <2>2. QED BY <1>1, <2>1
<1>4. QED BY <1>1, <1>2, <1>3

LEMMA BytesAdd ==
  ASSUME NEW s \in Nat, NEW t \in Nat
  PROVE  Viso!Bytes(s + t) = Viso!Bytes(s) + Viso!Bytes(t) /\ Viso!Bytes(s) \in Nat
         /\ Viso!Bytes(t) \in Nat
BY SectorSizeAssumption DEF Viso!Bytes

\* A file and the zeros behind it are whole sectors.
LEMMA AlignedSize ==
  ASSUME NEW b \in Nat
  PROVE  /\ Viso!Sectors(b) \in Nat /\ Viso!AlignToSectors(b) = Viso!Bytes(Viso!Sectors(b))
            /\ Viso!AlignToSectors(b) \in Nat
         /\ Viso!AlignToSectors(b) = b + (IF b % SectorSize > 0 THEN SectorSize - (b % SectorSize)
              ELSE 0)
         /\ b % SectorSize \in 0..(SectorSize - 1)
         /\ b = 0 => Viso!AlignToSectors(b) = 0
<1>1. SectorSize \in Nat \ {0}
  BY SectorSizeAssumption
<1>2. PICK q \in Nat, r \in 0..(SectorSize - 1) :
        q = b \div SectorSize /\ r = b % SectorSize /\ b = SectorSize * q + r
  BY <1>1
<1>3. Viso!Sectors(b) = q + (IF r > 0 THEN 1 ELSE 0)
  BY <1>2 DEF Viso!Sectors, Viso!FloorSectors
<1>4. SectorSize * (q + 1) = SectorSize * q + SectorSize /\ SectorSize * q \in Nat
      /\ SectorSize * (q + 0) = SectorSize * q
  BY <1>1
<1>5. Viso!Bytes(Viso!Sectors(b)) = IF r > 0 THEN SectorSize * q + SectorSize ELSE SectorSize * q
  BY <1>1, <1>3, <1>4 DEF Viso!Bytes
<1>6. Viso!Bytes(Viso!Sectors(b)) = b + (IF r > 0 THEN SectorSize - r ELSE 0)
  BY <1>1, <1>2, <1>4, <1>5
<1>7. b = 0 => r = 0
  BY <1>1, <1>2
<1>8. QED BY <1>1, <1>2, <1>3, <1>6, <1>7 DEF Viso!AlignToSectors
-----------------------------------------------------------------------------
(* The layout.                                                             *)

\* Where the files begin is what the recursive function says.
LEMMA StartsFollow ==
  ASSUME HeadSectors \in Nat, NEW sizes \in Seq(Nat)
  PROVE  /\ Viso!Starts(sizes)[1] = Viso!HeadSize /\ Viso!HeadSize \in Nat
         /\ \A f \in 1..Len(sizes) :
              Viso!Starts(sizes)[f + 1] = Viso!Starts(sizes)[f] + Viso!AlignToSectors(sizes[f])
<1>. DEFINE N == Len(sizes) + 1
            Follows(g, len) == /\ g \in [1..len -> Nat]
                             /\ \A i \in 1..len : g[i] = IF i = 1 THEN Viso!HeadSize
                                                       ELSE g[i - 1] + Viso!AlignToSectors(sizes[i - 1])
            Missing == {len \in 1..N : ~\E g : Follows(g, len)}
            place[f \in 1..N] == IF f = 1 THEN Viso!HeadSize
              ELSE place[f - 1] + Viso!AlignToSectors(sizes[f - 1])
<1>0. Len(sizes) \in Nat
  OBVIOUS
<1>1. /\ N \in Nat \ {0} /\ Viso!HeadSize \in Nat
      /\ \A i \in 1..N : i # 1 => i - 1 \in 1..N /\ Viso!AlignToSectors(sizes[i - 1]) \in Nat
  <2>1. Viso!HeadSize \in Nat
    BY BytesAdd DEF Viso!HeadSize
  <2>2. ASSUME NEW i \in 1..N, i # 1 PROVE i - 1 \in 1..N /\ Viso!AlignToSectors(sizes[i - 1]) \in Nat
    <3>1. i - 1 \in 1..Len(sizes)
      BY <2>2
    <3>2. sizes[i - 1] \in Nat
      BY <3>1
    <3>3. Viso!AlignToSectors(sizes[i - 1]) \in Nat
      BY <3>2, AlignedSize, Zenon
    <3>4. QED BY <1>0, <2>2, <3>3
  <2>3. QED BY <1>0, <2>1, <2>2
<1>2. Missing = {}
  <2>1. SUFFICES ASSUME Missing # {} PROVE FALSE
    OBVIOUS
  <2>2. Missing \in SUBSET Nat
    BY <1>1
  <2>3. PICK m \in Missing : \A k \in Missing : m <= k
    BY <2>1, <2>2, Cso!LeastOf
  <2>4. m \in 1..N
    OBVIOUS
  <2>5. CASE m = 1
    <3>1. Follows([i \in 1..1 |-> Viso!HeadSize], 1)
      BY <1>1
    <3>2. QED BY <3>1, <2>5
  <2>6. CASE m # 1
    <3>1. m - 1 \in 1..N /\ m - 1 \notin Missing
      <4>1. m - 1 \in 1..N /\ ~(m <= m - 1)
        BY <1>1, <2>4, <2>6
      <4>. HIDE DEF Missing
      <4>2. QED BY <4>1, <2>3
    <3>2. PICK g : Follows(g, m - 1)
      BY <3>1
    <3>. DEFINE a == g[m - 1] + Viso!AlignToSectors(sizes[m - 1])
                h == [i \in 1..m |-> IF i = m THEN a ELSE g[i]]
    <3>3. a \in Nat /\ \A i \in 1..(m - 1) : g[i] \in Nat
      <4>1. \A i \in 1..(m - 1) : g[i] \in Nat
        BY <3>2
      <4>2. g[m - 1] \in Nat /\ Viso!AlignToSectors(sizes[m - 1]) \in Nat
        BY <1>1, <2>4, <2>6, <4>1
      <4>3. QED BY <4>1, <4>2
    <3>4. h \in [1..m -> Nat]
      BY <1>1, <2>4, <2>6, <3>3
    <3>5. ASSUME NEW i \in 1..m
          PROVE h[i] = IF i = 1 THEN Viso!HeadSize ELSE h[i - 1] + Viso!AlignToSectors(sizes[i - 1])
      <4>1. CASE i = m
        <5>1. h[m] = a /\ h[m - 1] = g[m - 1]
          BY <2>4, <2>6, <1>1
        <5>. HIDE DEF h
        <5>2. QED BY <2>6, <4>1, <5>1
      <4>2. CASE i # m
        <5>1. i \in 1..(m - 1) /\ (i # 1 => i - 1 \in 1..(m - 1))
          BY <4>2, <2>4, <1>1
        <5>2. \A j \in 1..(m - 1) : h[j] = g[j]
          BY <2>4, <1>1
        <5>. HIDE DEF h
        <5>3. g[i] = IF i = 1 THEN Viso!HeadSize ELSE g[i - 1] + Viso!AlignToSectors(sizes[i - 1])
          BY <3>2, <5>1
        <5>4. QED BY <5>1, <5>2, <5>3
      <4>3. QED BY <4>1, <4>2
    <3>6. Follows(h, m)
      BY <3>4, <3>5
    <3>7. QED BY <3>6
  <2>7. QED BY <2>5, <2>6
<1>3. PICK g : Follows(g, N)
  BY <1>1, <1>2, SMTT(30)
<1>4. g = [i \in 1..N |-> IF i = 1 THEN Viso!HeadSize ELSE g[i - 1] + Viso!AlignToSectors(sizes[i - 1])]
  BY <1>3
<1>5. place = [i \in 1..N |-> IF i = 1 THEN Viso!HeadSize
        ELSE place[i - 1] + Viso!AlignToSectors(sizes[i - 1])]
  <2>. HIDE DEF N
  <2>. QED BY <1>4
<1>6. Viso!Starts(sizes) = place
  BY DEF Viso!Starts
<1>7. 1 \in 1..N /\ \A f \in 1..Len(sizes) : f + 1 \in 1..N /\ f + 1 # 1 /\ (f + 1) - 1 = f
  BY <1>1
<1>. HIDE DEF place
<1>8. place[1] = Viso!HeadSize
  <2>. HIDE DEF N
  <2>. QED BY <1>5, <1>7
<1>9. ASSUME NEW f \in 1..Len(sizes) PROVE place[f + 1] = place[f] + Viso!AlignToSectors(sizes[f])
  <2>. HIDE DEF N
  <2>1. place[f + 1] = IF f + 1 = 1 THEN Viso!HeadSize
          ELSE place[(f + 1) - 1] + Viso!AlignToSectors(sizes[(f + 1) - 1])
    BY <1>5, <1>7
  <2>2. QED BY <1>7, <2>1
<1>10. QED BY <1>1, <1>6, <1>8, <1>9

VisoLaidOut == HeadSectors \in Nat /\ VisoPad \in Nat \ {0} /\ files \in Seq(Nat)

\* Every file begins at a sector, and before those after it end.
LEMMA StartsAtSector ==
  ASSUME VisoLaidOut, NEW f \in 1..(Len(files) + 1)
  PROVE  \E s \in Nat : Viso!Start(f) = Viso!Bytes(s)
<1>. DEFINE Bad == {i \in 1..(Len(files) + 1) : ~\E s \in Nat : Viso!Start(i) = Viso!Bytes(s)}
<1>0. Len(files) \in Nat
  BY DEF VisoLaidOut
<1>1. SUFFICES ASSUME Bad # {} PROVE FALSE
  OBVIOUS
<1>2. Bad \in SUBSET Nat
  BY <1>0
<1>3. PICK m \in Bad : \A k \in Bad : m <= k
  BY <1>1, <1>2, Cso!LeastOf
<1>4. m # 1
  BY StartsFollow DEF VisoLaidOut, Viso!Start, Viso!HeadSize
<1>5. m - 1 \in 1..Len(files) /\ m - 1 \in 1..(Len(files) + 1) /\ ~(m <= m - 1) /\ (m - 1) + 1 = m
  BY <1>0, <1>4
<1>6. PICK s \in Nat : Viso!Start(m - 1) = Viso!Bytes(s)
  BY <1>3, <1>5
<1>7. Viso!Start((m - 1) + 1) = Viso!Start(m - 1) + Viso!AlignToSectors(files[m - 1])
  BY <1>5, StartsFollow DEF VisoLaidOut, Viso!Start
<1>8. PICK t \in Nat : Viso!AlignToSectors(files[m - 1]) = Viso!Bytes(t)
  <2>1. files[m - 1] \in Nat
    BY <1>5 DEF VisoLaidOut
  <2>2. QED BY <2>1, AlignedSize
<1>9. Viso!Start(m) = Viso!Bytes(s + t)
  BY <1>5, <1>6, <1>7, <1>8, BytesAdd
<1>10. s + t \in Nat
  OBVIOUS
<1>11. QED BY <1>9, <1>10

LEMMA Places ==
  ASSUME VisoLaidOut
  PROVE  /\ Len(files) \in Nat /\ Viso!HeadSize \in Nat /\ Viso!Start(1) = Viso!HeadSize
         /\ \A f \in 1..(Len(files) + 1) : Viso!Start(f) \in Nat
         /\ \A f \in 1..Len(files) :
              /\ files[f] \in Nat /\ Viso!Aligned(f) \in Nat /\ files[f] <= Viso!Aligned(f)
              /\ Viso!Start(f + 1) = Viso!Start(f) + Viso!Aligned(f)
              /\ f + 1 \in 1..(Len(files) + 1) /\ f \in 1..(Len(files) + 1)
              /\ files[f] = 0 => Viso!Aligned(f) = 0
<1>1. Len(files) \in Nat /\ \A f \in 1..Len(files) : files[f] \in Nat
  BY DEF VisoLaidOut
<1>2. ASSUME NEW f \in 1..(Len(files) + 1) PROVE Viso!Start(f) \in Nat
  <2>1. PICK s \in Nat : Viso!Start(f) = Viso!Bytes(s)
    BY StartsAtSector
  <2>2. QED BY <2>1, BytesAdd
<1>3. ASSUME NEW f \in 1..Len(files)
      PROVE  /\ Viso!Aligned(f) \in Nat /\ files[f] <= Viso!Aligned(f)
             /\ files[f] = 0 => Viso!Aligned(f) = 0
  <2>1. SectorSize \in Nat /\ files[f] \in Nat
    BY <1>1, SectorSizeAssumption
  <2>2. PICK b \in Nat : b = files[f]
    BY <2>1
  <2>3. /\ Viso!AlignToSectors(b) \in Nat /\ b % SectorSize \in 0..(SectorSize - 1)
        /\ Viso!AlignToSectors(b) = b + (IF b % SectorSize > 0 THEN SectorSize - (b % SectorSize)
             ELSE 0)
        /\ b = 0 => Viso!AlignToSectors(b) = 0
    BY AlignedSize
  <2>4. PICK r \in 0..(SectorSize - 1) : r = b % SectorSize
    BY <2>3
  <2>5. b <= Viso!AlignToSectors(b)
    BY <2>1, <2>3, <2>4
  <2>6. QED BY <2>2, <2>3, <2>5, Zenon DEF Viso!Aligned
<1>4. /\ Viso!HeadSize \in Nat /\ Viso!Start(1) = Viso!HeadSize
      /\ \A f \in 1..Len(files) : Viso!Start(f + 1) = Viso!Start(f) + Viso!Aligned(f)
  BY StartsFollow DEF VisoLaidOut, Viso!Start, Viso!Aligned
<1>5. QED BY <1>1, <1>2, <1>3, <1>4

\* Files come one after the other.
LEMMA PlacesOrdered ==
  ASSUME VisoLaidOut, NEW f \in 1..Len(files), NEW g \in 1..(Len(files) + 1), f < g
  PROVE  Viso!Start(f) + Viso!Aligned(f) <= Viso!Start(g)
<1>. DEFINE Bad == {i \in (f + 1)..(Len(files) + 1) :
       ~(Viso!Start(f) + Viso!Aligned(f) <= Viso!Start(i))}
<1>0. g \in (f + 1)..(Len(files) + 1)
  BY DEF VisoLaidOut
<1>1. SUFFICES ASSUME Bad # {} PROVE FALSE
  BY <1>0
<1>2. Bad \in SUBSET Nat
  BY Places
<1>3. PICK m \in Bad : \A k \in Bad : m <= k
  BY <1>1, <1>2, Cso!LeastOf
<1>4. Len(files) \in Nat /\ m \in (f + 1)..(Len(files) + 1) /\ Viso!Start(f) \in Nat
      /\ Viso!Aligned(f) \in Nat
  BY Places
<1>5. m # f + 1
  <2>1. Viso!Start(f + 1) = Viso!Start(f) + Viso!Aligned(f)
    BY Places
  <2>2. QED BY <1>4, <2>1
<1>6. m - 1 \in (f + 1)..(Len(files) + 1) /\ m - 1 \in 1..Len(files) /\ ~(m <= m - 1) /\ (m - 1) + 1 = m
  BY <1>4, <1>5
<1>7. Viso!Start(f) + Viso!Aligned(f) <= Viso!Start(m - 1)
  BY <1>3, <1>6
<1>8. Viso!Start(m) = Viso!Start(m - 1) + Viso!Aligned(m - 1) /\ Viso!Start(m - 1) \in Nat
      /\ Viso!Aligned(m - 1) \in Nat
  BY <1>6, Places
<1>9. QED BY <1>4, <1>7, <1>8

LEMMA HeadFirst ==
  ASSUME VisoLaidOut, NEW f \in 1..(Len(files) + 1)
  PROVE  Viso!HeadSize <= Viso!Start(f)
<1>1. Len(files) \in Nat
  BY Places
<1>2. CASE f = 1
  BY <1>2, Places
<1>3. CASE f # 1
  <2>1. 1 \in 1..Len(files) /\ 1 < f
    BY <1>1, <1>3
  <2>2. Viso!Start(1) + Viso!Aligned(1) <= Viso!Start(f) /\ Viso!Start(1) = Viso!HeadSize
        /\ Viso!Aligned(1) \in Nat /\ Viso!Start(f) \in Nat /\ Viso!HeadSize \in Nat
    BY <2>1, PlacesOrdered, Places
  <2>3. QED BY <2>2
<1>4. QED BY <1>2, <1>3

\* The zeros begin at a sector, behind all files, and go on.
LEMMA PadArea ==
  ASSUME VisoLaidOut
  PROVE  /\ Viso!PadAreaStart \in Nat /\ Viso!TotalSize \in Nat
            /\ Viso!PadAreaStart < Viso!TotalSize /\ Viso!HeadSize <= Viso!PadAreaStart
         /\ \A f \in 1..Len(files) : Viso!Start(f) + Viso!Aligned(f) <= Viso!PadAreaStart
<1>1. Len(files) + 1 \in 1..(Len(files) + 1) /\ \A f \in 1..Len(files) : f < Len(files) + 1
  BY Places
<1>2. PICK s \in Nat : Viso!PadAreaStart = Viso!Bytes(s)
  BY <1>1, StartsAtSector DEF Viso!PadAreaStart
<1>3. Viso!FloorSectors(Viso!PadAreaStart) = s
  BY <1>2, BeforeSector
<1>4. PICK x \in Nat \ {0} : Viso!TotalSize = Viso!Bytes(s + x)
  <2>1. VisoPad \in Nat \ {0}
    BY DEF VisoLaidOut
  <2>2. s % VisoPad \in 0..(VisoPad - 1)
    BY <2>1
  <2>3. PICK r \in 0..(VisoPad - 1) : r = s % VisoPad
    BY <2>2
  <2>4. Viso!TotalSize = Viso!Bytes(s + VisoPad + (IF r > 0 THEN VisoPad - r ELSE 0))
    BY <1>3, <2>3 DEF Viso!TotalSize
  <2>. DEFINE x == VisoPad + (IF r > 0 THEN VisoPad - r ELSE 0)
  <2>5. x \in Nat \ {0} /\ s + VisoPad + (IF r > 0 THEN VisoPad - r ELSE 0) = s + x
    BY <2>1
  <2>6. QED BY <2>4, <2>5
<1>5. Viso!Bytes(x) \in Nat \ {0}
  BY SectorSizeAssumption DEF Viso!Bytes
<1>6. Viso!TotalSize = Viso!PadAreaStart + Viso!Bytes(x) /\ Viso!PadAreaStart \in Nat
  BY <1>2, <1>4, BytesAdd
<1>7. Viso!HeadSize <= Viso!PadAreaStart
  BY <1>1, HeadFirst DEF Viso!PadAreaStart
<1>8. \A f \in 1..Len(files) : Viso!Start(f) + Viso!Aligned(f) <= Viso!PadAreaStart
  BY <1>1, PlacesOrdered DEF Viso!PadAreaStart
<1>9. QED BY <1>5, <1>6, <1>7, <1>8
-----------------------------------------------------------------------------
(* The bytes of the image.                                                 *)

LEMMA HeadBytes ==
  ASSUME VisoLaidOut, NEW p \in Nat, p < Viso!HeadSize
  PROVE  Viso!ImageByte(p) = Viso!HeadByte(p)
BY DEF Viso!ImageByte

LEMMA FileBytes ==
  ASSUME VisoLaidOut, NEW f \in 1..Len(files), NEW p \in Nat, Viso!Start(f) <= p,
         p < Viso!Start(f) + files[f]
  PROVE  Viso!ImageByte(p) = Viso!FileByte(f, p - Viso!Start(f))
<1>1. DOMAIN files = 1..Len(files)
  BY DEF VisoLaidOut
<1>2. /\ Viso!Start(f) \in Nat /\ Viso!HeadSize \in Nat /\ Viso!HeadSize <= Viso!Start(f)
      /\ \A g \in 1..Len(files) : Viso!Start(g) \in Nat /\ files[g] \in Nat
         /\ Viso!Aligned(g) \in Nat /\ files[g] <= Viso!Aligned(g)
  <2>1. f \in 1..(Len(files) + 1)
    BY Places
  <2>2. Viso!HeadSize <= Viso!Start(f)
    BY <2>1, HeadFirst
  <2>3. QED BY <2>1, <2>2, Places
<1>3. p \in Viso!Start(f)..(Viso!Start(f) + files[f] - 1)
  BY <1>2
<1>4. ASSUME NEW g \in 1..Len(files), p \in Viso!Start(g)..(Viso!Start(g) + files[g] - 1) PROVE g = f
  <2>1. f \in 1..(Len(files) + 1) /\ g \in 1..(Len(files) + 1)
    BY Places
  <2>2. f < g => Viso!Start(f) + Viso!Aligned(f) <= Viso!Start(g)
    BY <2>1, PlacesOrdered
  <2>3. g < f => Viso!Start(g) + Viso!Aligned(g) <= Viso!Start(f)
    BY <2>1, PlacesOrdered
  <2>4. Viso!Start(g) <= p /\ p < Viso!Start(g) + files[g]
    BY <1>2, <1>4
  <2>5. ~(f < g) /\ ~(g < f)
    BY <1>2, <2>2, <2>3, <2>4, SMTT(30)
  <2>6. f \in Int /\ g \in Int
    OBVIOUS
  <2>7. QED BY <2>5, <2>6
<1>5. ~(p < Viso!HeadSize)
  BY <1>2
<1>6. (CHOOSE g \in DOMAIN files : p \in Viso!Start(g)..(Viso!Start(g) + files[g] - 1)) = f
  BY <1>1, <1>3, <1>4
<1>7. QED BY <1>1, <1>3, <1>5, <1>6 DEF Viso!ImageByte

LEMMA ZerosBetween ==
  ASSUME VisoLaidOut, NEW p \in Nat,
         \/ Viso!PadAreaStart <= p
         \/ \E f \in 1..Len(files) : Viso!Start(f) + files[f] <= p
            /\ p < Viso!Start(f) + Viso!Aligned(f)
  PROVE  Viso!ImageByte(p) = Viso!Zero
<1>1. DOMAIN files = 1..Len(files)
  BY DEF VisoLaidOut
<1>2. /\ Viso!HeadSize \in Nat /\ Viso!HeadSize <= Viso!PadAreaStart /\ Viso!PadAreaStart \in Nat
      /\ \A g \in 1..Len(files) : /\ Viso!Start(g) \in Nat /\ files[g] \in Nat /\ Viso!Aligned(g) \in Nat
                                  /\ files[g] <= Viso!Aligned(g) /\ Viso!HeadSize <= Viso!Start(g)
                                  /\ Viso!Start(g) + Viso!Aligned(g) <= Viso!PadAreaStart
  <2>1. \A g \in 1..Len(files) : g \in 1..(Len(files) + 1)
    BY Places
  <2>2. QED BY <2>1, HeadFirst, Places, PadArea
<1>3. ASSUME NEW g \in 1..Len(files) PROVE p \notin Viso!Start(g)..(Viso!Start(g) + files[g] - 1)
  <2>1. CASE Viso!PadAreaStart <= p
    BY <1>2, <2>1
  <2>2. ASSUME NEW f \in 1..Len(files), Viso!Start(f) + files[f] <= p,
               p < Viso!Start(f) + Viso!Aligned(f)
        PROVE p \notin Viso!Start(g)..(Viso!Start(g) + files[g] - 1)
    <3>1. f \in 1..(Len(files) + 1) /\ g \in 1..(Len(files) + 1)
      BY Places
    <3>2. f < g => Viso!Start(f) + Viso!Aligned(f) <= Viso!Start(g)
      BY <3>1, PlacesOrdered
    <3>3. g < f => Viso!Start(g) + Viso!Aligned(g) <= Viso!Start(f)
      BY <3>1, PlacesOrdered
    <3>4. f = g \/ f < g \/ g < f
      OBVIOUS
    <3>5. /\ Viso!Start(f) \in Nat /\ files[f] \in Nat /\ Viso!Aligned(f) \in Nat
             /\ files[f] <= Viso!Aligned(f)
          /\ Viso!Start(g) \in Nat /\ files[g] \in Nat /\ Viso!Aligned(g) \in Nat
             /\ files[g] <= Viso!Aligned(g)
      BY <1>2
    <3>6. CASE f = g
      BY <2>2, <3>5, <3>6
    <3>7. CASE f < g
      BY <2>2, <3>2, <3>5, <3>7
    <3>8. CASE g < f
      BY <2>2, <3>3, <3>5, <3>8, SMTT(30)
    <3>9. QED BY <3>4, <3>6, <3>7, <3>8
  <2>3. QED BY <2>1, <2>2
<1>4. ~(p < Viso!HeadSize)
  BY <1>2
<1>5. QED BY <1>1, <1>3, <1>4 DEF Viso!ImageByte

\* The binary search finds the file whose sectors a byte is in.
LEMMA FileFound ==
  ASSUME VisoLaidOut, NEW p \in Nat, Viso!HeadSize <= p, p < Viso!PadAreaStart
  PROVE  /\ Viso!FileAt(p) \in 1..Len(files)
         /\ Viso!Start(Viso!FileAt(p)) <= p
            /\ p < Viso!Start(Viso!FileAt(p)) + Viso!Aligned(Viso!FileAt(p))
<1>. DEFINE found == {f \in DOMAIN files : Viso!Holds(f, Viso!FloorSectors(p))}
            first == CHOOSE f \in found : \A g \in found : f <= g
<1>1. DOMAIN files = 1..Len(files) /\ Len(files) \in Nat
  BY DEF VisoLaidOut
<1>2. ASSUME NEW f \in 1..Len(files)
      PROVE  /\ Viso!Holds(f, Viso!FloorSectors(p)) <=> p < Viso!Start(f) + Viso!Aligned(f)
             /\ Viso!FloorSectors(p) >= Viso!FloorSectors(Viso!Start(f)) <=> p >= Viso!Start(f)
  <2>1. PICK s \in Nat : Viso!Start(f) = Viso!Bytes(s)
    BY StartsAtSector, Places
  <2>2. PICK b \in Nat : b = files[f]
    BY Places
  <2>3. Viso!Sectors(b) \in Nat /\ Viso!Aligned(f) = Viso!Bytes(Viso!Sectors(b))
    BY <2>2, AlignedSize, Zenon DEF Viso!Aligned
  <2>4. PICK t \in Nat : t = Viso!Sectors(b)
    BY <2>3
  <2>5. Viso!Start(f) + Viso!Aligned(f) = Viso!Bytes(s + t)
    BY <2>1, <2>3, <2>4, BytesAdd
  <2>6. Viso!FloorSectors(Viso!Start(f)) = s
    BY <2>1, BeforeSector
  <2>7. Viso!Holds(f, Viso!FloorSectors(p)) <=> Viso!FloorSectors(p) < s + t
    BY <2>2, <2>4, <2>6, Zenon DEF Viso!Holds
  <2>8. s + t \in Nat
    OBVIOUS
  <2>9. Viso!FloorSectors(p) < s + t <=> p < Viso!Bytes(s + t)
    BY <2>8, BeforeSector
  <2>10. Viso!FloorSectors(p) < s <=> p < Viso!Bytes(s)
    BY BeforeSector
  <2>11. Viso!FloorSectors(p) \in Nat /\ Viso!Bytes(s) \in Nat
    BY BeforeSector
  <2>12. Viso!FloorSectors(p) >= Viso!FloorSectors(Viso!Start(f)) <=> p >= Viso!Start(f)
    BY <2>1, <2>6, <2>10, <2>11
  <2>13. QED BY <2>5, <2>7, <2>9, <2>12
<1>3. found # {}
  <2>1. Len(files) # 0
    BY Places DEF Viso!PadAreaStart
  <2>2. Len(files) \in 1..Len(files)
    BY <1>1, <2>1
  <2>3. Viso!PadAreaStart = Viso!Start(Len(files)) + Viso!Aligned(Len(files))
    BY <2>2, Places DEF Viso!PadAreaStart
  <2>4. Len(files) \in found
    BY <1>1, <1>2, <2>2, <2>3
  <2>5. QED BY <2>4
<1>4. \E f \in found : \A g \in found : f <= g
  <2>1. found \in SUBSET Nat
    BY <1>1
  <2>2. QED BY <1>3, <2>1, Cso!LeastOf
<1>5. first \in found /\ \A g \in found : first <= g
  BY <1>4
<1>6. first \in 1..Len(files) /\ p < Viso!Start(first) + Viso!Aligned(first)
  BY <1>1, <1>2, <1>5
<1>7. p >= Viso!Start(first)
  <2>1. CASE first = 1
    BY <2>1, Places
  <2>2. CASE first # 1
    <3>. DEFINE f == first - 1
    <3>1. f \in 1..Len(files) /\ ~(first <= f) /\ f + 1 = first
      BY <1>1, <1>6, <2>2
    <3>2. f \notin found
      BY <1>5, <3>1
    <3>3. ~(p < Viso!Start(f) + Viso!Aligned(f))
      BY <1>1, <1>2, <3>1, <3>2
    <3>4. Viso!Start(f + 1) = Viso!Start(f) + Viso!Aligned(f) /\ Viso!Start(f) \in Nat
          /\ Viso!Aligned(f) \in Nat
      BY <3>1, Places
    <3>5. p >= Viso!Start(f + 1)
      <4>. HIDE DEF f
      <4>. QED BY <3>3, <3>4
    <3>6. QED BY <3>1, <3>5, Zenon
  <2>3. QED BY <2>1, <2>2
<1>8. Viso!FileAt(p) = first
  <2>1. Viso!FloorSectors(p) >= Viso!FloorSectors(Viso!Start(first))
    BY <1>2, <1>6, <1>7
  <2>2. QED BY <1>3, <2>1 DEF Viso!FileAt
<1>9. QED BY <1>6, <1>7, <1>8
-----------------------------------------------------------------------------
(* The invariant.                                                          *)

ImageBytes == [kind : {"head", "file", "zero"}, of : Nat, at : Int]

VisoCallType ==
  /\ files \in Seq(FileSizes) /\ offset \in Nat /\ length \in Nat
  /\ got \in Seq(ImageBytes) /\ Len(got) <= length

\* What was put into the buffer are the bytes of the image from p on.
BytesFrom(p) == \A i \in 1..Len(got) : got[i] = Viso!ImageByte(p + i - 1)

\* filesToRead is where the buffer is filled to, and its file is there; an empty file
\* can only be one that the read comes to.
OnFile ==
  /\ ahead \in Nat /\ quota = offset + length - ahead
  /\ IF Viso!remain > 0 THEN Viso!at = ahead ELSE Viso!at <= ahead
  /\ next = Len(files) + 1 => ahead = Viso!PadAreaStart
  /\ next <= Len(files) =>
       /\ Viso!Start(next) <= ahead /\ ahead <= Viso!Start(next) + files[next]
       /\ \/ ahead < Viso!Start(next) + Viso!Aligned(next)
          \/ files[next] = 0 /\ ahead > offset /\ ahead > Viso!HeadSize

\* Or all files have been read.
OnZeros == Viso!remain > 0 => Viso!at >= Viso!PadAreaStart /\ Viso!at < Viso!TotalSize

ReadSoFar ==
  pc # "idle" =>
    /\ pc \in {"files", "pad"} /\ result = "none" /\ length > 0 /\ offset < Viso!TotalSize
    /\ pc = "files" => next \in 1..(Len(files) + 1)
    /\ ~Viso!InsidePadding(offset) =>
         /\ BytesFrom(offset)
         /\ pc = "files" => OnFile
         /\ pc = "pad" => OnZeros

VisoInv == VisoCallType /\ ReadSoFar /\ Viso!ReadsTheImage /\ Viso!TidyReadsFill

LEMMA IsLaidOut ==
  ASSUME Viso!SizesAssumption, VisoCallType
  PROVE  VisoLaidOut
<1>1. FileSizes \subseteq Nat /\ files \in Seq(FileSizes)
  BY DEF Viso!SizesAssumption, VisoCallType
<1>2. files \in Seq(Nat)
  <2>1. Len(files) \in Nat /\ files \in [1..Len(files) -> FileSizes]
    BY <1>1
  <2>2. files \in [1..Len(files) -> Nat]
    BY <1>1, <2>1
  <2>3. QED BY <2>1, <2>2
<1>3. QED BY <1>2 DEF Viso!SizesAssumption, VisoLaidOut

LEMMA SameImage ==
  ASSUME files' = files
  PROVE  /\ \A f : Viso!Start(f)' = Viso!Start(f) /\ Viso!Aligned(f)' = Viso!Aligned(f)
         /\ Viso!PadAreaStart' = Viso!PadAreaStart /\ Viso!TotalSize' = Viso!TotalSize
            /\ Viso!HeadSize' = Viso!HeadSize
         /\ \A p : Viso!ImageByte(p)' = Viso!ImageByte(p)
            /\ Viso!InsidePadding(p)' = Viso!InsidePadding(p)
<1>1. Viso!HeadSize' = Viso!HeadSize
  BY DEF Viso!HeadSize, Viso!Bytes
<1>2. \A f : Viso!Start(f)' = Viso!Start(f) /\ Viso!Aligned(f)' = Viso!Aligned(f)
  BY DEF Viso!Start, Viso!Starts, Viso!Aligned, Viso!AlignToSectors, Viso!Bytes, Viso!Sectors,
     Viso!FloorSectors, Viso!HeadSize
<1>3. Viso!PadAreaStart' = Viso!PadAreaStart
  BY <1>2 DEF Viso!PadAreaStart
<1>4. Viso!TotalSize' = Viso!TotalSize
  BY <1>3 DEF Viso!TotalSize, Viso!Bytes, Viso!FloorSectors
<1>5. \A p : Viso!ImageByte(p)' = Viso!ImageByte(p)
  BY <1>1, <1>2 DEF Viso!ImageByte, Viso!HeadByte, Viso!FileByte, Viso!Zero
<1>6. \A p : Viso!InsidePadding(p)' = Viso!InsidePadding(p)
  BY <1>2 DEF Viso!InsidePadding
<1>7. QED BY <1>1, <1>2, <1>3, <1>4, <1>5, <1>6

LEMMA LargerOf ==
  ASSUME NEW a \in Int, NEW b \in Int
  PROVE  /\ Viso!Larger(a, b) \in Int /\ a <= Viso!Larger(a, b) /\ b <= Viso!Larger(a, b)
         /\ a <= b => Viso!Larger(a, b) = b
         /\ b <= a => Viso!Larger(a, b) = a
         /\ Viso!Smaller(a, b) \in Int /\ Viso!Smaller(a, b) <= a /\ Viso!Smaller(a, b) <= b
         /\ a <= b => Viso!Smaller(a, b) = a
         /\ b <= a => Viso!Smaller(a, b) = b
BY DEF Viso!Larger, Viso!Smaller
-----------------------------------------------------------------------------
(* Steps.                                                                  *)

\* Nothing is said of a call that reads nothing.
LEMMA NothingRead ==
  ASSUME VisoCallType, files' = files, offset' \in Nat, pc' = "idle",
         got' = <<>>, length' \in Nat, result' \in {"none", "closed", "eof"}
  PROVE  VisoInv'
<1>1. VisoCallType'
  BY DEF VisoCallType
<1>2. ReadSoFar' /\ Viso!ReadsTheImage' /\ Viso!TidyReadsFill'
  BY DEF ReadSoFar, Viso!ReadsTheImage, Viso!TidyReadsFill
<1>3. QED BY <1>1, <1>2 DEF VisoInv

\* A Read that is refused leaves everything where it was, and has to be excused.
LEMMA Refused ==
  ASSUME VisoCallType, UNCHANGED <<files, offset, length, got>>, pc' = "idle",
         result' \in {"error", "panic"},
         \/ result' = "error" /\ fault'
         \/ Viso!InsidePadding(offset)
         \/ Viso!InsidePadding(offset + length)
         \/ \E f \in 1..Len(files) : /\ files[f] = 0 /\ Viso!Start(f) > offset /\ Viso!Start(f) > Viso!HeadSize
                                     /\ Viso!Start(f) < offset + length /\ Viso!Start(f) \in Nat
                                     /\ Viso!HeadSize \in Nat
  PROVE  VisoInv'
<1>1. VisoCallType' /\ ReadSoFar' /\ Viso!ReadsTheImage'
  BY DEF VisoCallType, ReadSoFar, Viso!ReadsTheImage
<1>2. Viso!Began' = offset /\ length' = length
  BY DEF Viso!Began
<1>3. Viso!Tidy' => result' = "error" /\ fault'
  <2>1. CASE Viso!InsidePadding(offset)
    BY <1>2, <2>1, SameImage DEF Viso!Tidy
  <2>2. CASE Viso!InsidePadding(offset + length)
    BY <1>2, <2>2, SameImage DEF Viso!Tidy
  <2>3. ASSUME NEW f \in 1..Len(files), files[f] = 0, Viso!Start(f) > offset,
               Viso!Start(f) > Viso!HeadSize,
               Viso!Start(f) < offset + length, Viso!Start(f) \in Nat, Viso!HeadSize \in Nat, Viso!Tidy'
        PROVE FALSE
    <3>1. offset \in Nat /\ length \in Nat /\ f \in DOMAIN files
      BY DEF VisoCallType
    <3>2. Viso!Larger(offset, Viso!HeadSize) \in {offset, Viso!HeadSize}
      BY DEF Viso!Larger
    <3>3. Viso!Start(f) <= Viso!Larger(offset, Viso!HeadSize) \/ Viso!Start(f) >= offset + length
      BY <1>2, <2>3, <3>1, SameImage DEF Viso!Tidy, Viso!Larger
    <3>4. QED BY <2>3, <3>1, <3>2, <3>3
  <2>4. QED BY <2>1, <2>2, <2>3
<1>4. Viso!TidyReadsFill'
  BY <1>3 DEF Viso!TidyReadsFill
<1>5. QED BY <1>1, <1>4 DEF VisoInv

\* A Read that succeeds has to have filled the buffer with bytes of the image.
LEMMA Succeeded ==
  ASSUME VisoCallType, files' = files, pc' = "idle", result' = "ok",
         got' \in Seq(ImageBytes), length' \in Nat \ {0}, Len(got') <= length',
         offset' = offset + Len(got'),
         ~Viso!InsidePadding(offset) => /\ Len(got') = length'
                                   /\ \A i \in 1..Len(got') : got'[i] = Viso!ImageByte(offset + i - 1)
  PROVE  VisoInv'
<1>1. offset \in Nat /\ Len(got') \in Nat
  BY DEF VisoCallType
<1>2. VisoCallType' /\ ReadSoFar'
  BY <1>1 DEF VisoCallType, ReadSoFar
<1>3. Viso!Began' = offset
  BY <1>1 DEF Viso!Began
<1>4. Viso!ReadsTheImage'
  <2>1. SUFFICES ASSUME ~Viso!InsidePadding(offset)
                 PROVE  got' # <<>> /\ \A i \in 1..Len(got') : got'[i] = Viso!ImageByte(offset + i - 1)
    BY <1>3, SameImage DEF Viso!ReadsTheImage
  <2>2. Len(got') # 0
    BY <2>1
  <2>3. QED BY <2>1, <2>2
<1>5. Viso!TidyReadsFill'
  BY <1>3, SameImage DEF Viso!TidyReadsFill, Viso!Tidy
<1>6. QED BY <1>2, <1>4, <1>5 DEF VisoInv

LEMMA PiecesOfImage ==
  /\ \A x \in Int : Viso!HeadByte(x) \in ImageBytes
  /\ \A f \in Nat, x \in Int : Viso!FileByte(f, x) \in ImageBytes
  /\ Viso!Zero \in ImageBytes
BY DEF Viso!HeadByte, Viso!FileByte, Viso!Zero, ImageBytes

LEMMA BeginKeepsInv ==
  ASSUME Viso!SizesAssumption, VisoInv, NEW l \in 1..VisoMaxLen, Viso!Begin(l)
  PROVE  VisoInv'
<1>. DEFINE m == IF offset < Viso!HeadSize THEN Viso!Smaller(l, Viso!HeadSize - offset) ELSE 0
<1>1. VisoCallType /\ VisoLaidOut /\ l \in Nat \ {0} /\ offset \in Nat
  <2>1. VisoCallType
    BY DEF VisoInv
  <2>2. VisoMaxLen \in Nat
    BY DEF Viso!SizesAssumption
  <2>3. QED BY <2>1, <2>2, IsLaidOut DEF VisoCallType
<1>2. Viso!HeadSize \in Nat /\ Viso!HeadSize <= Viso!PadAreaStart /\ Viso!PadAreaStart \in Nat
      /\ Viso!TotalSize \in Nat /\ Viso!PadAreaStart < Viso!TotalSize
  BY <1>1, Places, PadArea
<1>3. m \in Nat /\ m <= l /\ (m > 0 => offset + m <= Viso!HeadSize)
      /\ (m < l /\ offset < Viso!HeadSize => offset + m = Viso!HeadSize)
      /\ (offset >= Viso!HeadSize => m = 0)
  <2>1. CASE offset < Viso!HeadSize
    <3>1. Viso!HeadSize - offset \in Nat \ {0}
      BY <1>1, <1>2, <2>1
    <3>2. /\ Viso!Smaller(l, Viso!HeadSize - offset) \in Int
          /\ Viso!Smaller(l, Viso!HeadSize - offset) \in {l, Viso!HeadSize - offset}
          /\ Viso!Smaller(l, Viso!HeadSize - offset) <= l
             /\ Viso!Smaller(l, Viso!HeadSize - offset) <= Viso!HeadSize - offset
      BY <1>1, <3>1 DEF Viso!Smaller
    <3>3. QED BY <1>1, <1>2, <2>1, <3>1, <3>2
  <2>2. CASE ~(offset < Viso!HeadSize)
    BY <1>1, <2>2
  <2>3. QED BY <2>1, <2>2
<1>4. /\ files' = files /\ length' = l /\ pc = "idle"
      /\ got' = [i \in 1..(IF offset >= Viso!TotalSize THEN 0 ELSE m) |-> Viso!HeadByte(offset + i - 1)]
      /\ IF offset >= Viso!TotalSize THEN pc' = "idle" /\ result' = "eof" /\ offset' = offset
         ELSE IF m = l THEN pc' = "idle" /\ result' = "ok" /\ offset' = offset + Len(got')
         ELSE /\ quota' = l - m /\ ahead' = offset + m
              /\ next' = IF ahead' < Viso!PadAreaStart THEN Viso!FileAt(ahead') ELSE 0
              /\ pc' = IF next' > 0 THEN "files" ELSE "pad"
              /\ result' = "none" /\ offset' = offset
  BY DEF Viso!Begin, Viso!Finish
<1>. HIDE DEF m
<1>5. CASE offset >= Viso!TotalSize
  <2>1. got' = <<>>
    BY <1>4, <1>5
  <2>2. QED BY <1>1, <1>4, <1>5, <2>1, NothingRead
<1>6. CASE offset < Viso!TotalSize
  <2>1. /\ got' = [i \in 1..m |-> Viso!HeadByte(offset + i - 1)] /\ got' \in Seq(ImageBytes)
           /\ Len(got') = m
        /\ \A i \in 1..m : got'[i] = Viso!HeadByte(offset + i - 1)
    <3>1. got' = [i \in 1..m |-> Viso!HeadByte(offset + i - 1)]
      BY <1>1, <1>2, <1>4, <1>6
    <3>2. \A i \in 1..m : Viso!HeadByte(offset + i - 1) \in ImageBytes
      BY <1>1, <1>3, PiecesOfImage
    <3>3. QED BY <1>3, <3>1, <3>2
  <2>2. ASSUME NEW i \in 1..m PROVE got'[i] = Viso!ImageByte(offset + i - 1)
    <3>1. offset + i - 1 \in Nat /\ offset + i - 1 < Viso!HeadSize
      BY <1>1, <1>2, <1>3
    <3>2. QED BY <1>1, <2>1, <3>1, HeadBytes
  <2>3. CASE m = l
    <3>1. /\ pc' = "idle" /\ result' = "ok" /\ offset' = offset + Len(got')
          /\ length' \in Nat \ {0} /\ Len(got') <= length' /\ Len(got') = length'
      BY <1>1, <1>2, <1>4, <1>6, <2>1, <2>3
    <3>2. QED BY <1>1, <1>4, <2>1, <2>2, <3>1, Succeeded
  <2>4. CASE m # l
    <3>1. /\ quota' = l - m /\ ahead' = offset + m
          /\ next' = IF ahead' < Viso!PadAreaStart THEN Viso!FileAt(ahead') ELSE 0
          /\ pc' = IF next' > 0 THEN "files" ELSE "pad"
          /\ result' = "none" /\ offset' = offset
      BY <1>1, <1>2, <1>4, <1>6, <2>4
    <3>2. /\ ahead' \in Nat /\ Viso!HeadSize <= ahead' /\ m < l
          /\ (ahead' = offset \/ ahead' = Viso!HeadSize) /\ ahead' < Viso!TotalSize
      BY <1>1, <1>2, <1>3, <1>6, <2>4, <3>1
    <3>3. Viso!at' = ahead' /\ Viso!remain' = l - m /\ Viso!remain' > 0
          /\ quota' = offset' + length' - ahead'
      <4>1. Viso!at' = offset' + Len(got') /\ Viso!remain' = length' - Len(got')
        BY DEF Viso!at, Viso!remain
      <4>2. QED BY <1>1, <1>3, <1>4, <2>1, <3>1, <3>2, <4>1
    <3>4. VisoCallType'
      BY <1>1, <1>3, <1>4, <2>1, <3>1 DEF VisoCallType
    <3>5. BytesFrom(offset)'
      BY <1>4, <2>1, <2>2, <3>1, SameImage DEF BytesFrom
    <3>6. Viso!ReadsTheImage' /\ Viso!TidyReadsFill'
      BY <3>1 DEF Viso!ReadsTheImage, Viso!TidyReadsFill
    <3>7. CASE ahead' < Viso!PadAreaStart
      <4>. DEFINE f == Viso!FileAt(ahead')
      <4>1. f \in 1..Len(files) /\ Viso!Start(f) <= ahead' /\ ahead' < Viso!Start(f) + Viso!Aligned(f)
        BY <1>1, <3>2, <3>7, FileFound
      <4>2. next' = f /\ pc' = "files"
        BY <3>1, <3>7, <4>1
      <4>. HIDE DEF f
      <4>3. Viso!Start(f) \in Nat /\ files[f] \in Nat /\ Viso!Aligned(f) \in Nat
            /\ Viso!HeadSize <= Viso!Start(f) /\ Len(files) \in Nat
        <5>1. f \in 1..(Len(files) + 1)
          BY <1>1, <4>1, Places
        <5>2. QED BY <1>1, <4>1, <5>1, Places, HeadFirst
      <4>4. ASSUME ~Viso!InsidePadding(offset) PROVE ahead' <= Viso!Start(f) + files[f]
        <5>1. CASE ahead' = Viso!HeadSize
          BY <4>3, <5>1, <1>2
        <5>2. CASE ahead' = offset
          <6>1. f \in DOMAIN files
            BY <1>1, <4>1 DEF VisoLaidOut
          <6>2. ~(offset > Viso!Start(f) + files[f] /\ offset < Viso!Start(f) + Viso!Aligned(f))
            BY <4>4, <6>1 DEF Viso!InsidePadding
          <6>3. QED BY <1>1, <4>1, <4>3, <5>2, <6>2
        <5>3. QED BY <3>2, <5>1, <5>2
      <4>5. next' \in 1..(Len(files') + 1) /\ next' # Len(files') + 1
        BY <1>4, <4>1, <4>2, <4>3
      <4>6. ASSUME ~Viso!InsidePadding(offset) PROVE OnFile'
        <5>1. Viso!Start(f) <= ahead' /\ ahead' <= Viso!Start(f) + files[f]
              /\ ahead' < Viso!Start(f) + Viso!Aligned(f)
          BY <4>1, <4>4, <4>6
        <5>2. /\ Viso!Start(next)' = Viso!Start(f) /\ Viso!Aligned(next)' = Viso!Aligned(f)
                 /\ files'[next'] = files[f]
          <6>1. Viso!Start(next)' = Viso!Starts(files')[next']
                /\ Viso!Aligned(next)' = Viso!AlignToSectors(files'[next'])
            BY DEF Viso!Start, Viso!Aligned, Viso!AlignToSectors, Viso!Bytes, Viso!Sectors,
               Viso!FloorSectors, Viso!Starts, Viso!HeadSize
          <6>2. QED BY <1>4, <4>2, <6>1 DEF Viso!Start, Viso!Aligned
        <5>3. QED BY <3>2, <3>3, <4>5, <5>1, <5>2, Zenon DEF OnFile
      <4>7. ReadSoFar'
        BY <1>1, <1>4, <1>6, <3>1, <3>5, <4>2, <4>5, <4>6, SameImage DEF ReadSoFar
      <4>8. QED BY <3>4, <3>6, <4>7 DEF VisoInv
    <3>8. CASE ~(ahead' < Viso!PadAreaStart)
      <4>1. pc' = "pad"
        BY <3>1, <3>8
      <4>2. OnZeros'
        BY <1>2, <1>4, <3>2, <3>3, <3>8, SameImage DEF OnZeros
      <4>3. ReadSoFar'
        BY <1>1, <1>4, <1>6, <3>1, <3>5, <4>1, <4>2, SameImage DEF ReadSoFar
      <4>4. QED BY <3>4, <3>6, <4>3 DEF VisoInv
    <3>9. QED BY <3>7, <3>8
  <2>5. QED BY <2>3, <2>4
<1>7. QED BY <1>1, <1>2, <1>5, <1>6

\* Where the file that is next lies, when filesToRead yields it.
LEMMA Yielded ==
  ASSUME VisoLaidOut, VisoCallType, ReadSoFar, Viso!Yields
  PROVE  /\ next \in 1..Len(files) /\ next \in DOMAIN files /\ Len(files) \in Nat
         /\ Viso!Start(next) \in Nat /\ files[next] \in Nat /\ Viso!Aligned(next) \in Nat
         /\ files[next] <= Viso!Aligned(next)
            /\ Viso!Start(next + 1) = Viso!Start(next) + Viso!Aligned(next)
         /\ Viso!HeadSize \in Nat /\ Viso!HeadSize <= Viso!Start(next)
         /\ files[next] % SectorSize \in 0..(SectorSize - 1) /\ SectorSize \in Nat \ {0}
         /\ Viso!Aligned(next) = files[next] + (IF files[next] % SectorSize > 0
                                           THEN SectorSize - (files[next] % SectorSize) ELSE 0)
         /\ offset \in Nat /\ length \in Nat /\ Len(got) \in Nat /\ Viso!at \in Nat
            /\ Viso!remain \in Nat
         /\ Viso!at + Viso!remain = offset + length /\ Viso!at = offset + Len(got)
            /\ Viso!remain = length - Len(got)
         /\ length > 0 /\ pc = "files" /\ offset < Viso!TotalSize
<1>1. Len(files) \in Nat /\ next \in 1..(Len(files) + 1) /\ next <= Len(files)
      /\ DOMAIN files = 1..Len(files)
  BY DEF VisoLaidOut, Viso!Yields, ReadSoFar
<1>2. next \in 1..Len(files)
  BY <1>1
<1>3. next \in 1..(Len(files) + 1) /\ files[next] \in Nat
  BY <1>1, <1>2 DEF VisoLaidOut
<1>4. /\ Viso!Start(next) \in Nat /\ Viso!Aligned(next) \in Nat /\ Viso!HeadSize \in Nat
         /\ Viso!HeadSize <= Viso!Start(next)
      /\ files[next] <= Viso!Aligned(next)
         /\ Viso!Start(next + 1) = Viso!Start(next) + Viso!Aligned(next)
  BY <1>2, <1>3, Places, HeadFirst
<1>5. /\ files[next] % SectorSize \in 0..(SectorSize - 1) /\ SectorSize \in Nat \ {0}
      /\ Viso!Aligned(next) = files[next] + (IF files[next] % SectorSize > 0
                                        THEN SectorSize - (files[next] % SectorSize) ELSE 0)
  BY <1>3, AlignedSize, SectorSizeAssumption, Zenon DEF Viso!Aligned
<1>6. /\ offset \in Nat /\ length \in Nat /\ Len(got) \in Nat /\ Len(got) <= length
      /\ length > 0 /\ pc = "files" /\ offset < Viso!TotalSize
  BY DEF VisoCallType, ReadSoFar, Viso!Yields
<1>7. /\ Viso!at \in Nat /\ Viso!remain \in Nat /\ Viso!at + Viso!remain = offset + length
      /\ Viso!at = offset + Len(got) /\ Viso!remain = length - Len(got)
  BY <1>6 DEF Viso!at, Viso!remain
<1>8. QED BY <1>1, <1>2, <1>3, <1>4, <1>5, <1>6, <1>7, Zenon

\* What is read of it and put behind, and that there is room for more when it is.
LEMMA YieldedPart ==
  ASSUME VisoLaidOut, VisoCallType, ReadSoFar, Viso!Yields
  PROVE  /\ Viso!Wanted \in Nat /\ Viso!Padding \in Nat
         /\ ~Viso!InsidePadding(offset) => OnFile /\ Viso!remain > 0 /\ Viso!at = ahead
         /\ ~Viso!InsidePadding(offset) /\ Viso!InFile =>
              /\ Viso!Start(next) <= Viso!at /\ Viso!at <= Viso!Start(next) + files[next]
              /\ IF Viso!remain <= Viso!Start(next) + files[next] - Viso!at
                 THEN Viso!Wanted = Viso!remain /\ Viso!Padding = 0
                 ELSE /\ Viso!Wanted = Viso!Start(next) + files[next] - Viso!at
                      /\ Viso!Padding = Viso!Aligned(next) - files[next]
<1>. DEFINE r == files[next] % SectorSize
            unread == files[next] - (Viso!at - Viso!Start(next))
<1>1. /\ Viso!Start(next) \in Nat /\ files[next] \in Nat /\ Viso!Aligned(next) \in Nat
      /\ r \in 0..(SectorSize - 1) /\ SectorSize \in Nat \ {0}
      /\ Viso!Aligned(next) = files[next] + (IF r > 0 THEN SectorSize - r ELSE 0)
      /\ Viso!at \in Nat /\ Viso!remain \in Nat /\ Viso!at + Viso!remain = offset + length
      /\ offset \in Nat /\ length \in Nat /\ pc = "files" /\ next <= Len(files)
  BY Yielded DEF Viso!Yields
<1>2. unread \in Int
  BY <1>1
<1>3. Viso!Wanted = Viso!Larger(0, Viso!Smaller(Viso!remain, unread)) /\ Viso!Padding = IF r > 0
      /\ Viso!remain > Viso!Wanted THEN SectorSize - r ELSE 0
  BY DEF Viso!Wanted, Viso!Padding
<1>. HIDE DEF r
<1>4. Viso!Wanted \in Nat /\ (unread >= 0 => Viso!Wanted = IF Viso!remain <= unread THEN Viso!remain
        ELSE unread)
  <2>. HIDE DEF unread
  <2>1. Viso!Smaller(Viso!remain, unread) = IF Viso!remain < unread THEN Viso!remain ELSE unread
    BY DEF Viso!Smaller
  <2>2. Viso!Smaller(Viso!remain, unread) \in Int
    BY <1>1, <1>2, <2>1
  <2>3. Viso!Larger(0, Viso!Smaller(Viso!remain, unread)) = IF 0 < Viso!Smaller(Viso!remain, unread)
          THEN Viso!Smaller(Viso!remain, unread) ELSE 0
    BY DEF Viso!Larger
  <2>4. QED BY <1>1, <1>2, <1>3, <2>1, <2>2, <2>3
<1>5. Viso!Padding \in Nat
  BY <1>1, <1>3
<1>6. ASSUME ~Viso!InsidePadding(offset) PROVE OnFile /\ Viso!remain > 0 /\ Viso!at = ahead
  <2>1. OnFile
    BY <1>1, <1>6 DEF ReadSoFar
  <2>2. quota > 0
    BY DEF Viso!Yields
  <2>3. ahead \in Nat /\ quota = offset + length - ahead
        /\ (IF Viso!remain > 0 THEN Viso!at = ahead ELSE Viso!at <= ahead)
    BY <2>1 DEF OnFile
  <2>4. QED BY <1>1, <2>1, <2>2, <2>3
<1>7. ASSUME ~Viso!InsidePadding(offset), Viso!InFile
      PROVE  /\ Viso!Start(next) <= Viso!at /\ Viso!at <= Viso!Start(next) + files[next]
             /\ IF Viso!remain <= Viso!Start(next) + files[next] - Viso!at
                THEN Viso!Wanted = Viso!remain /\ Viso!Padding = 0
                ELSE /\ Viso!Wanted = Viso!Start(next) + files[next] - Viso!at
                     /\ Viso!Padding = Viso!Aligned(next) - files[next]
  <2>1. Viso!at = ahead /\ OnFile
    BY <1>6, <1>7
  <2>2. Viso!Start(next) <= Viso!at /\ Viso!at <= Viso!Start(next) + files[next]
    BY <1>1, <2>1 DEF OnFile
  <2>3. unread >= 0 /\ unread = Viso!Start(next) + files[next] - Viso!at
    BY <1>1, <2>2
  <2>4. CASE Viso!remain <= unread
    <3>1. Viso!Wanted = Viso!remain
      BY <1>4, <2>3, <2>4
    <3>2. Viso!Padding = 0
      BY <1>1, <1>3, <3>1
    <3>3. QED BY <2>2, <2>3, <2>4, <3>1, <3>2
  <2>5. CASE ~(Viso!remain <= unread)
    <3>1. Viso!Wanted = unread
      BY <1>4, <2>3, <2>5
    <3>2. Viso!remain > Viso!Wanted
      BY <1>1, <1>2, <2>5, <3>1
    <3>3. Viso!Padding = Viso!Aligned(next) - files[next]
      BY <1>1, <1>3, <3>2
    <3>4. QED BY <2>2, <2>3, <2>5, <3>1, <3>3
  <2>6. QED BY <2>4, <2>5
<1>8. QED BY <1>4, <1>5, <1>6, <1>7

\* A file that is not where it is looked for is an empty one.
LEMMA NotInFileKeepsInv ==
  ASSUME Viso!SizesAssumption, VisoInv, Viso!NotInFile
  PROVE  VisoInv'
<1>1. VisoCallType /\ VisoLaidOut /\ ReadSoFar /\ Viso!Yields
  BY IsLaidOut DEF VisoInv, Viso!NotInFile
<1>2. /\ UNCHANGED <<files, offset, length, got>> /\ pc' = "idle" /\ result' = "error"
      /\ Viso!at < Viso!Start(next) \/ Viso!at >= Viso!Start(next) + Viso!Aligned(next)
  BY DEF Viso!NotInFile, Viso!Finish
<1>3. ASSUME ~Viso!InsidePadding(offset)
      PROVE  /\ next \in 1..Len(files) /\ files[next] = 0 /\ Viso!Start(next) > offset
                /\ Viso!Start(next) > Viso!HeadSize
             /\ Viso!Start(next) < offset + length /\ Viso!Start(next) \in Nat /\ Viso!HeadSize \in Nat
  <2>1. OnFile /\ Viso!remain > 0 /\ Viso!at = ahead
    BY <1>1, <1>3, YieldedPart
  <2>2. /\ next \in 1..Len(files) /\ Viso!Start(next) \in Nat /\ files[next] \in Nat
           /\ Viso!Aligned(next) \in Nat
        /\ Viso!at \in Nat /\ Viso!remain \in Nat /\ Viso!at + Viso!remain = offset + length
           /\ Viso!HeadSize \in Nat
        /\ next <= Len(files)
    BY <1>1, Yielded DEF Viso!Yields
  <2>3. /\ Viso!Start(next) <= ahead /\ ahead <= Viso!Start(next) + files[next]
        /\ \/ ahead < Viso!Start(next) + Viso!Aligned(next)
           \/ files[next] = 0 /\ ahead > offset /\ ahead > Viso!HeadSize
    BY <2>1, <2>2 DEF OnFile
  <2>4. QED BY <1>2, <2>1, <2>2, <2>3
<1>4. QED BY <1>1, <1>2, <1>3, Refused

LEMMA PaddingPanicsKeepsInv ==
  ASSUME Viso!SizesAssumption, VisoInv, Viso!PaddingPanics
  PROVE  VisoInv'
<1>1. VisoCallType /\ VisoLaidOut /\ ReadSoFar /\ Viso!Yields /\ Viso!InFile
  BY IsLaidOut DEF VisoInv, Viso!PaddingPanics, Viso!InFile
<1>2. /\ UNCHANGED <<files, offset, length, got>> /\ pc' = "idle" /\ result' = "panic"
      /\ Viso!remain < Viso!Wanted + Viso!Padding
  BY DEF Viso!PaddingPanics, Viso!Finish
<1>3. ASSUME ~Viso!InsidePadding(offset) PROVE Viso!InsidePadding(offset + length)
  <2>1. /\ next \in DOMAIN files /\ Viso!Start(next) \in Nat /\ files[next] \in Nat
           /\ Viso!Aligned(next) \in Nat
        /\ Viso!at \in Nat /\ Viso!remain \in Nat /\ Viso!at + Viso!remain = offset + length
    BY <1>1, Yielded
  <2>2. /\ Viso!Start(next) <= Viso!at /\ Viso!at <= Viso!Start(next) + files[next]
        /\ IF Viso!remain <= Viso!Start(next) + files[next] - Viso!at
           THEN Viso!Wanted = Viso!remain /\ Viso!Padding = 0
           ELSE /\ Viso!Wanted = Viso!Start(next) + files[next] - Viso!at
                /\ Viso!Padding = Viso!Aligned(next) - files[next]
    BY <1>1, <1>3, YieldedPart
  <2>3. offset + length > Viso!Start(next) + files[next]
        /\ offset + length < Viso!Start(next) + Viso!Aligned(next)
    BY <1>2, <2>1, <2>2
  <2>4. QED BY <2>1, <2>3 DEF Viso!InsidePadding
<1>4. QED BY <1>1, <1>2, <1>3, Refused

LEMMA FileFailsKeepsInv ==
  ASSUME Viso!SizesAssumption, VisoInv, Viso!FileFails
  PROVE  VisoInv'
<1>1. /\ UNCHANGED <<files, offset, length, got>> /\ pc' = "idle" /\ result' = "error" /\ fault' = TRUE
      /\ VisoCallType
  BY DEF Viso!FileFails, Viso!Finish, VisoInv
<1>2. QED BY <1>1, Refused

\* The bytes of a file and the zeros behind it are those of the image.
LEMMA ReadFileKeepsInv ==
  ASSUME Viso!SizesAssumption, VisoInv, Viso!ReadFile
  PROVE  VisoInv'
<1>. DEFINE into == Viso!at - Viso!Start(next)
            bytes == [i \in 1..Viso!Wanted |-> Viso!FileByte(next, into + i - 1)]
<1>1. VisoCallType /\ VisoLaidOut /\ ReadSoFar /\ Viso!Yields /\ Viso!InFile
  BY IsLaidOut DEF VisoInv, Viso!ReadFile, Viso!InFile
<1>2. /\ UNCHANGED <<files, offset, pc, length, result>>
      /\ Viso!remain >= Viso!Wanted + Viso!Padding
      /\ got' = got \o bytes \o Viso!ZeroBytes(Viso!Padding)
      /\ ahead' = Viso!Start(next) + Viso!Aligned(next) /\ quota' = quota - (ahead' - ahead)
      /\ next' = next + 1
  BY DEF Viso!ReadFile
<1>3. /\ next \in 1..Len(files) /\ Len(files) \in Nat
      /\ Viso!Start(next) \in Nat /\ files[next] \in Nat /\ Viso!Aligned(next) \in Nat
      /\ files[next] <= Viso!Aligned(next)
         /\ Viso!Start(next + 1) = Viso!Start(next) + Viso!Aligned(next)
      /\ Viso!HeadSize \in Nat /\ Viso!HeadSize <= Viso!Start(next)
      /\ offset \in Nat /\ length \in Nat /\ Len(got) \in Nat /\ Viso!at \in Nat /\ Viso!remain \in Nat
      /\ Viso!at + Viso!remain = offset + length /\ Viso!at = offset + Len(got)
         /\ Viso!remain = length - Len(got)
      /\ length > 0 /\ pc = "files" /\ offset < Viso!TotalSize
  BY <1>1, Yielded, Zenon
<1>4. Viso!Wanted \in Nat /\ Viso!Padding \in Nat
  BY <1>1, YieldedPart
<1>5. PICK w \in Nat, z \in Nat : w = Viso!Wanted /\ z = Viso!Padding
  BY <1>4
<1>6. /\ bytes \in Seq(ImageBytes) /\ Len(bytes) = w /\ Viso!ZeroBytes(z) \in Seq(ImageBytes)
         /\ Len(Viso!ZeroBytes(z)) = z
      /\ \A i \in 1..w : bytes[i] = Viso!FileByte(next, into + i - 1)
      /\ \A i \in 1..z : Viso!ZeroBytes(z)[i] = Viso!Zero
  <2>1. \A i \in 1..w : Viso!FileByte(next, into + i - 1) \in ImageBytes
    BY <1>3, PiecesOfImage
  <2>2. \A i \in 1..z : Viso!Zero \in ImageBytes
    BY PiecesOfImage
  <2>3. bytes = [i \in 1..w |-> Viso!FileByte(next, into + i - 1)]
    BY <1>5
  <2>4. Viso!ZeroBytes(z) = [i \in 1..z |-> Viso!Zero]
    BY DEF Viso!ZeroBytes
  <2>. HIDE DEF bytes
  <2>5. QED BY <2>1, <2>2, <2>3, <2>4
<1>. HIDE DEF bytes
<1>7. /\ got' \in Seq(ImageBytes) /\ Len(got') = Len(got) + w + z
      /\ \A i \in 1..Len(got) : got'[i] = got[i]
      /\ \A i \in 1..w : got'[Len(got) + i] = bytes[i]
      /\ \A i \in 1..z : got'[Len(got) + w + i] = Viso!Zero
  <2>1. got \in Seq(ImageBytes)
    BY <1>1 DEF VisoCallType
  <2>. DEFINE a == got \o bytes
  <2>2. /\ a \in Seq(ImageBytes) /\ Len(a) = Len(got) + w
        /\ \A i \in 1..Len(got) : a[i] = got[i]
        /\ \A i \in 1..w : a[Len(got) + i] = bytes[i]
    <3>1. bytes \in Seq(ImageBytes) /\ Len(bytes) = w
      BY <1>6
    <3>. HIDE DEF ImageBytes
    <3>2. got \o bytes \in Seq(ImageBytes) /\ Len(got \o bytes) = Len(got) + Len(bytes)
      BY <2>1, <3>1, Concatenated, Zenon
    <3>3. \A i \in 1..Len(got) : (got \o bytes)[i] = got[i]
      BY <2>1, <3>1, Concatenated, Zenon
    <3>4. \A i \in 1..Len(bytes) : (got \o bytes)[Len(got) + i] = bytes[i]
      BY <2>1, <3>1, Concatenated
    <3>5. QED BY <3>1, <3>2, <3>3, <3>4, Zenon
  <2>3. got' = a \o Viso!ZeroBytes(z)
    BY <1>2, <1>5
  <2>. HIDE DEF a
  <2>4. /\ got' \in Seq(ImageBytes) /\ Len(got') = Len(a) + z
        /\ \A i \in 1..Len(a) : got'[i] = a[i]
        /\ \A i \in 1..z : got'[Len(a) + i] = Viso!ZeroBytes(z)[i]
    <3>1. a \in Seq(ImageBytes) /\ Viso!ZeroBytes(z) \in Seq(ImageBytes) /\ Len(Viso!ZeroBytes(z)) = z
      BY <1>6, <2>2
    <3>. DEFINE zeros == Viso!ZeroBytes(z)
    <3>2. zeros \in Seq(ImageBytes) /\ Len(zeros) = z
      BY <3>1
    <3>. HIDE DEF zeros
    <3>3. a \o zeros \in Seq(ImageBytes) /\ Len(a \o zeros) = Len(a) + Len(zeros)
      BY <3>1, <3>2, Concatenated, Zenon
    <3>4. \A i \in 1..Len(a) : (a \o zeros)[i] = a[i]
      BY <3>1, <3>2, Concatenated, Zenon
    <3>5. \A i \in 1..Len(zeros) : (a \o zeros)[Len(a) + i] = zeros[i]
      BY <3>1, <3>2, Concatenated
    <3>6. got' = a \o zeros
      BY <2>3 DEF zeros
    <3>7. /\ got' \in Seq(ImageBytes) /\ Len(got') = Len(a) + z
          /\ \A i \in 1..Len(a) : got'[i] = a[i]
          /\ \A i \in 1..z : got'[Len(a) + i] = zeros[i]
      BY <3>2, <3>3, <3>4, <3>5, <3>6, Zenon
    <3>8. QED BY <3>7 DEF zeros
  <2>5. Len(got) \in Nat /\ Len(a) = Len(got) + w
    BY <1>3, <2>2
  <2>6. ASSUME NEW i \in 1..Len(got) PROVE got'[i] = got[i]
    <3>1. i \in 1..Len(a)
      BY <2>5
    <3>2. QED BY <2>2, <2>4, <3>1
  <2>7. ASSUME NEW i \in 1..w PROVE got'[Len(got) + i] = bytes[i]
    <3>1. Len(got) + i \in 1..Len(a)
      BY <2>5
    <3>2. QED BY <2>2, <2>4, <3>1
  <2>8. ASSUME NEW i \in 1..z PROVE got'[Len(got) + w + i] = Viso!Zero
    BY <1>6, <2>4, <2>5
  <2>9. QED BY <2>4, <2>5, <2>6, <2>7, <2>8
<1>8. VisoCallType'
  BY <1>1, <1>2, <1>3, <1>5, <1>7 DEF VisoCallType
<1>9. Viso!ReadsTheImage' /\ Viso!TidyReadsFill'
  <2>1. result' = "none"
    BY <1>1, <1>2, <1>3 DEF ReadSoFar
  <2>2. QED BY <2>1 DEF Viso!ReadsTheImage, Viso!TidyReadsFill
<1>10. Viso!at' = Viso!at + w + z /\ Viso!remain' = Viso!remain - w - z
  <2>1. Viso!at' = offset' + Len(got') /\ Viso!remain' = length' - Len(got')
    BY DEF Viso!at, Viso!remain
  <2>2. QED BY <1>2, <1>3, <1>5, <1>7, <2>1
<1>11. next' \in 1..(Len(files) + 1) /\ next' = next + 1
  BY <1>2, <1>3
<1>12. ASSUME ~Viso!InsidePadding(offset) PROVE BytesFrom(offset)' /\ OnFile'
  <2>1. OnFile /\ Viso!remain > 0 /\ Viso!at = ahead
    BY <1>1, <1>12, YieldedPart
  <2>2. /\ Viso!Start(next) <= Viso!at /\ Viso!at <= Viso!Start(next) + files[next]
        /\ IF Viso!remain <= Viso!Start(next) + files[next] - Viso!at
           THEN w = Viso!remain /\ z = 0
           ELSE /\ w = Viso!Start(next) + files[next] - Viso!at
                /\ z = Viso!Aligned(next) - files[next]
    BY <1>1, <1>5, <1>12, YieldedPart
  <2>3. Viso!at < Viso!Start(next) + Viso!Aligned(next)
    BY <1>1 DEF Viso!InFile
  <2>4. ASSUME NEW i \in 1..w PROVE bytes[i] = Viso!ImageByte(Viso!at + i - 1)
    <3>1. /\ Viso!at + i - 1 \in Nat /\ Viso!Start(next) <= Viso!at + i - 1
             /\ Viso!at + i - 1 < Viso!Start(next) + files[next]
      <4>1. Viso!at \in Nat /\ Viso!Start(next) \in Nat /\ files[next] \in Nat /\ Viso!remain \in Nat
        BY <1>3
      <4>2. CASE Viso!remain <= Viso!Start(next) + files[next] - Viso!at
        <5>1. w = Viso!remain /\ Viso!Start(next) <= Viso!at
          BY <2>2, <4>2
        <5>2. QED BY <4>1, <4>2, <5>1
      <4>3. CASE ~(Viso!remain <= Viso!Start(next) + files[next] - Viso!at)
        <5>1. w = Viso!Start(next) + files[next] - Viso!at /\ Viso!Start(next) <= Viso!at
          BY <2>2, <4>3
        <5>2. QED BY <4>1, <5>1
      <4>4. QED BY <4>2, <4>3
    <3>2. Viso!ImageByte(Viso!at + i - 1) = Viso!FileByte(next, (Viso!at + i - 1) - Viso!Start(next))
      <4>. DEFINE q == Viso!at + i - 1
      <4>1. q \in Nat /\ Viso!Start(next) <= q /\ q < Viso!Start(next) + files[next]
        BY <3>1
      <4>2. VisoLaidOut /\ next \in 1..Len(files)
        BY <1>1, <1>3
      <4>. HIDE DEF q
      <4>3. Viso!ImageByte(q) = Viso!FileByte(next, q - Viso!Start(next))
        BY <4>1, <4>2, FileBytes
      <4>4. QED BY <4>3, Zenon DEF q
    <3>3. into + i - 1 = (Viso!at + i - 1) - Viso!Start(next)
      BY <1>3
    <3>. HIDE DEF into
    <3>4. bytes[i] = Viso!FileByte(next, into + i - 1)
      BY <1>6
    <3>5. QED BY <3>2, <3>3, <3>4, Zenon
  <2>5. ASSUME NEW i \in 1..z PROVE Viso!ImageByte(Viso!at + w + i - 1) = Viso!Zero
    <3>1. /\ Viso!at + w + i - 1 \in Nat /\ Viso!Start(next) + files[next] <= Viso!at + w + i - 1
          /\ Viso!at + w + i - 1 < Viso!Start(next) + Viso!Aligned(next)
      <4>1. Viso!at \in Nat /\ Viso!Start(next) \in Nat /\ files[next] \in Nat
            /\ Viso!remain \in Nat /\ Viso!Aligned(next) \in Nat
        BY <1>3
      <4>2. CASE Viso!remain <= Viso!Start(next) + files[next] - Viso!at
        <5>1. z = 0
          BY <2>2, <4>2
        <5>2. QED BY <5>1
      <4>3. CASE ~(Viso!remain <= Viso!Start(next) + files[next] - Viso!at)
        <5>1. w = Viso!Start(next) + files[next] - Viso!at /\ z = Viso!Aligned(next) - files[next]
          BY <2>2, <4>3
        <5>2. QED BY <4>1, <5>1
      <4>4. QED BY <4>2, <4>3
    <3>2. QED BY <1>1, <1>3, <3>1, ZerosBetween
  <2>6. ASSUME NEW i \in 1..Len(got') PROVE got'[i] = Viso!ImageByte(offset + i - 1)
    <3>1. CASE i <= Len(got)
      <4>1. i \in 1..Len(got)
        BY <1>3, <3>1
      <4>2. got[i] = Viso!ImageByte(offset + i - 1)
        BY <1>1, <1>3, <1>12, <4>1 DEF ReadSoFar, BytesFrom
      <4>3. QED BY <1>7, <4>1, <4>2
    <3>2. CASE Len(got) < i /\ i <= Len(got) + w
      <4>. DEFINE j == i - Len(got)
      <4>1. j \in 1..w /\ i = Len(got) + j
        <5>1. i \in Nat /\ Len(got) \in Nat
          BY <1>3, <1>7
        <5>2. QED BY <3>2, <5>1
      <4>. HIDE DEF j
      <4>2. offset + i - 1 = Viso!at + j - 1
        BY <1>3, <4>1
      <4>3. got'[i] = bytes[j]
        BY <1>7, <4>1
      <4>4. bytes[j] = Viso!ImageByte(Viso!at + j - 1)
        BY <2>4, <4>1, Zenon
      <4>5. QED BY <4>2, <4>3, <4>4, Zenon
    <3>3. CASE Len(got) + w < i
      <4>. DEFINE j == i - Len(got) - w
      <4>1. j \in 1..z /\ i = Len(got) + w + j
        <5>1. i \in Nat /\ Len(got) \in Nat /\ i <= Len(got) + w + z
          BY <1>3, <1>7
        <5>2. QED BY <3>3, <5>1
      <4>. HIDE DEF j
      <4>2. offset + i - 1 = Viso!at + w + j - 1
        BY <1>3, <4>1
      <4>3. got'[i] = Viso!Zero
        BY <1>7, <4>1
      <4>4. Viso!ImageByte(Viso!at + w + j - 1) = Viso!Zero
        BY <2>5, <4>1, Zenon
      <4>5. QED BY <4>2, <4>3, <4>4, Zenon
    <3>4. QED BY <1>3, <3>1, <3>2, <3>3
  <2>7. BytesFrom(offset)'
    BY <1>2, <2>6, SameImage DEF BytesFrom
  <2>8. /\ ahead' \in Nat /\ ahead' = Viso!Start(next + 1) /\ ahead' > Viso!at /\ Viso!at >= offset
           /\ Viso!at >= Viso!Start(next)
        /\ ahead' > offset /\ ahead' > Viso!HeadSize
    <3>1. ahead' = Viso!Start(next) + Viso!Aligned(next)
          /\ Viso!Start(next + 1) = Viso!Start(next) + Viso!Aligned(next)
      BY <1>2, <1>3
    <3>2. /\ Viso!Start(next) \in Nat /\ Viso!Aligned(next) \in Nat /\ Viso!at \in Nat
             /\ offset \in Nat /\ Len(got) \in Nat
          /\ Viso!HeadSize \in Nat /\ Viso!HeadSize <= Viso!Start(next)
             /\ Viso!at = offset + Len(got) /\ Viso!Start(next) <= Viso!at
      BY <1>3, <2>2
    <3>3. QED BY <2>3, <3>1, <3>2
  <2>9. quota' = offset' + length' - ahead'
    <3>1. quota = offset + length - ahead /\ ahead \in Nat
      BY <2>1 DEF OnFile
    <3>2. QED BY <1>2, <1>3, <2>8, <3>1
  <2>10. IF Viso!remain' > 0 THEN Viso!at' = ahead' ELSE Viso!at' <= ahead'
    <3>1. ahead' = Viso!Start(next) + Viso!Aligned(next) /\ Viso!at' = Viso!at + w + z
          /\ Viso!remain' = Viso!remain - w - z
      BY <1>2, <1>10
    <3>2. /\ Viso!Start(next) \in Nat /\ files[next] \in Nat /\ Viso!Aligned(next) \in Nat
             /\ Viso!at \in Nat /\ Viso!remain \in Nat
          /\ files[next] <= Viso!Aligned(next)
      BY <1>3
    <3>3. CASE Viso!remain <= Viso!Start(next) + files[next] - Viso!at
      <4>1. w = Viso!remain /\ z = 0
        BY <2>2, <3>3
      <4>2. QED BY <3>1, <3>2, <3>3, <4>1
    <3>4. CASE ~(Viso!remain <= Viso!Start(next) + files[next] - Viso!at)
      <4>1. w = Viso!Start(next) + files[next] - Viso!at /\ z = Viso!Aligned(next) - files[next]
        BY <2>2, <3>4
      <4>2. QED BY <3>1, <3>2, <4>1
    <3>5. QED BY <3>3, <3>4
  <2>11. next' = Len(files) + 1 => ahead' = Viso!PadAreaStart
    BY <1>3, <1>11, <2>8 DEF Viso!PadAreaStart
  <2>12. ASSUME next' <= Len(files)
         PROVE /\ Viso!Start(next') <= ahead' /\ ahead' <= Viso!Start(next') + files[next']
               /\ \/ ahead' < Viso!Start(next') + Viso!Aligned(next')
                  \/ files[next'] = 0 /\ ahead' > offset /\ ahead' > Viso!HeadSize
    <3>1. next' \in 1..Len(files)
      BY <1>3, <1>11, <2>12
    <3>2. files[next'] \in Nat /\ Viso!Start(next') \in Nat /\ Viso!Aligned(next') \in Nat
          /\ files[next'] <= Viso!Aligned(next')
      BY <1>1, <3>1, Places
    <3>3. Viso!Start(next') = ahead'
      BY <1>11, <2>8
    <3>4. QED BY <2>8, <3>2, <3>3
  <2>13. /\ Viso!Start(next)' = Viso!Start(next') /\ Viso!Aligned(next)' = Viso!Aligned(next')
         /\ Viso!PadAreaStart' = Viso!PadAreaStart /\ Viso!HeadSize' = Viso!HeadSize
    <3>1. Viso!Start(next)' = Viso!Starts(files')[next']
          /\ Viso!Aligned(next)' = Viso!AlignToSectors(files'[next'])
      BY DEF Viso!Start, Viso!Aligned, Viso!AlignToSectors, Viso!Bytes, Viso!Sectors,
         Viso!FloorSectors, Viso!Starts, Viso!HeadSize
    <3>2. QED BY <1>2, <3>1, SameImage DEF Viso!Start, Viso!Aligned
  <2>14. OnFile'
    BY <1>2, <2>8, <2>9, <2>10, <2>11, <2>12, <2>13, Zenon DEF OnFile
  <2>15. QED BY <2>7, <2>14
<1>13. ReadSoFar'
  <2>1. result' = "none" /\ pc' = "files" /\ length' > 0
    BY <1>1, <1>2, <1>3 DEF ReadSoFar
  <2>2. QED BY <1>2, <1>3, <1>11, <1>12, <2>1, SameImage DEF ReadSoFar
<1>14. QED BY <1>8, <1>9, <1>13 DEF VisoInv

LEMMA FilesEndKeepsInv ==
  ASSUME Viso!SizesAssumption, VisoInv, Viso!FilesEnd
  PROVE  VisoInv'
<1>1. VisoCallType /\ VisoLaidOut /\ ReadSoFar
  BY IsLaidOut DEF VisoInv
<1>2. /\ UNCHANGED <<files, offset, length, got, result, quota, ahead, next, fault>>
      /\ pc = "files" /\ ~Viso!Yields /\ pc' = "pad"
  BY DEF Viso!FilesEnd, Viso!call
<1>3. VisoCallType' /\ Viso!ReadsTheImage' /\ Viso!TidyReadsFill'
  <2>1. result' = "none"
    BY <1>1, <1>2 DEF ReadSoFar
  <2>2. QED BY <1>1, <1>2, <2>1 DEF VisoCallType, Viso!ReadsTheImage, Viso!TidyReadsFill
<1>4. Viso!at' = Viso!at /\ Viso!remain' = Viso!remain
  BY <1>2 DEF Viso!at, Viso!remain
<1>5. ASSUME ~Viso!InsidePadding(offset) PROVE BytesFrom(offset)' /\ OnZeros'
  <2>1. OnFile /\ BytesFrom(offset)
    BY <1>1, <1>2, <1>5 DEF ReadSoFar
  <2>2. BytesFrom(offset)'
    BY <1>2, <2>1, SameImage DEF BytesFrom
  <2>3. ASSUME Viso!remain > 0 PROVE Viso!at = Viso!PadAreaStart
    <3>1. /\ Viso!at = ahead /\ quota = offset + length - ahead /\ ahead \in Nat
             /\ next \in 1..(Len(files) + 1)
          /\ next = Len(files) + 1 => ahead = Viso!PadAreaStart
      BY <1>1, <1>2, <2>1, <2>3 DEF OnFile, ReadSoFar
    <3>2. offset \in Nat /\ length \in Nat /\ Len(got) \in Nat /\ Len(files) \in Nat
      BY <1>1 DEF VisoCallType, VisoLaidOut
    <3>3. quota > 0
      BY <2>3, <3>1, <3>2 DEF Viso!at, Viso!remain
    <3>4. ~(next <= Len(files))
      BY <1>2, <3>3 DEF Viso!Yields
    <3>5. QED BY <3>1, <3>2, <3>4
  <2>4. Viso!PadAreaStart < Viso!TotalSize /\ Viso!PadAreaStart \in Nat
    BY <1>1, PadArea
  <2>5. OnZeros'
    BY <1>2, <1>4, <2>3, <2>4, SameImage DEF OnZeros
  <2>6. QED BY <2>2, <2>5
<1>6. ReadSoFar'
  BY <1>1, <1>2, <1>5, SameImage DEF ReadSoFar
<1>7. QED BY <1>3, <1>6 DEF VisoInv

LEMMA ReadPadKeepsInv ==
  ASSUME Viso!SizesAssumption, VisoInv, Viso!ReadPad
  PROVE  VisoInv'
<1>1. VisoCallType /\ VisoLaidOut /\ ReadSoFar
  BY IsLaidOut DEF VisoInv
<1>2. /\ files' = files /\ length' = length /\ pc = "pad" /\ pc' = "idle" /\ result' = "ok"
      /\ got' = IF Viso!at >= Viso!PadAreaStart /\ Viso!at < Viso!TotalSize
           THEN got \o Viso!ZeroBytes(Viso!remain) ELSE got
      /\ offset' = offset + Len(got')
  BY DEF Viso!ReadPad, Viso!Finish
<1>3. /\ offset \in Nat /\ length \in Nat \ {0} /\ got \in Seq(ImageBytes) /\ Len(got) \in Nat
         /\ Len(got) <= length
      /\ Viso!remain \in Nat /\ Viso!remain = length - Len(got) /\ Viso!at = offset + Len(got)
      /\ Viso!PadAreaStart \in Nat
  <2>1. /\ offset \in Nat /\ length \in Nat \ {0} /\ got \in Seq(ImageBytes) /\ Len(got) \in Nat
           /\ Len(got) <= length
    BY <1>1, <1>2 DEF VisoCallType, ReadSoFar
  <2>2. Viso!remain \in Nat /\ Viso!remain = length - Len(got) /\ Viso!at = offset + Len(got)
    BY <2>1 DEF Viso!at, Viso!remain
  <2>3. QED BY <1>1, <2>1, <2>2, PadArea
<1>4. CASE Viso!at >= Viso!PadAreaStart /\ Viso!at < Viso!TotalSize
  <2>. DEFINE zeros == Viso!ZeroBytes(Viso!remain)
  <2>1. zeros \in Seq(ImageBytes) /\ Len(zeros) = Viso!remain
        /\ \A i \in 1..Viso!remain : zeros[i] = Viso!Zero
    BY <1>3, PiecesOfImage DEF Viso!ZeroBytes
  <2>. HIDE DEF zeros
  <2>2. got' = got \o zeros
    BY <1>2, <1>4 DEF zeros
  <2>3. /\ got' \in Seq(ImageBytes) /\ Len(got') = length
        /\ \A i \in 1..Len(got) : got'[i] = got[i]
        /\ \A i \in 1..Viso!remain : got'[Len(got) + i] = Viso!Zero
    <3>1. got \in Seq(ImageBytes) /\ zeros \in Seq(ImageBytes)
      BY <1>3, <2>1
    <3>2. got' \in Seq(ImageBytes) /\ Len(got') = Len(got) + Len(zeros)
      BY <2>2, <3>1, Concatenated, Zenon
    <3>3. \A i \in 1..Len(got) : (got \o zeros)[i] = got[i]
      BY <3>1, Concatenated, Zenon
    <3>4. \A i \in 1..Len(zeros) : (got \o zeros)[Len(got) + i] = zeros[i]
      BY <3>1, Concatenated
    <3>5. Len(got') = length
      BY <1>3, <2>1, <3>2
    <3>6. \A i \in 1..Viso!remain : got'[Len(got) + i] = Viso!Zero
      BY <2>1, <2>2, <3>4, Zenon
    <3>7. QED BY <2>2, <3>2, <3>3, <3>5, <3>6, Zenon
  <2>4. ASSUME ~Viso!InsidePadding(offset), NEW i \in 1..Len(got')
                 PROVE got'[i] = Viso!ImageByte(offset + i - 1)
    <3>1. CASE i <= Len(got)
      <4>1. i \in 1..Len(got)
        BY <1>3, <3>1
      <4>2. got[i] = Viso!ImageByte(offset + i - 1)
        BY <1>1, <1>2, <2>4, <4>1 DEF ReadSoFar, BytesFrom
      <4>3. QED BY <2>3, <4>1, <4>2
    <3>2. CASE Len(got) < i
      <4>. DEFINE j == i - Len(got)
      <4>1. j \in 1..Viso!remain /\ i = Len(got) + j
        <5>1. i \in Nat /\ Len(got) \in Nat /\ i <= length /\ Viso!remain = length - Len(got)
              /\ length \in Nat
          BY <1>3, <2>3
        <5>2. QED BY <3>2, <5>1
      <4>. HIDE DEF j
      <4>2. offset + i - 1 \in Nat /\ Viso!PadAreaStart <= offset + i - 1
        BY <1>3, <1>4, <4>1
      <4>3. Viso!ImageByte(offset + i - 1) = Viso!Zero
        BY <1>1, <4>2, ZerosBetween
      <4>4. QED BY <2>3, <4>1, <4>3
    <3>3. QED BY <1>3, <2>3, <3>1, <3>2
  <2>5. QED BY <1>1, <1>2, <1>3, <2>3, <2>4, Succeeded
<1>5. CASE ~(Viso!at >= Viso!PadAreaStart /\ Viso!at < Viso!TotalSize)
  <2>1. got' = got
    BY <1>2, <1>5
  <2>2. ASSUME ~Viso!InsidePadding(offset)
        PROVE Len(got') = length' /\ \A i \in 1..Len(got') : got'[i] = Viso!ImageByte(offset + i - 1)
    <3>1. BytesFrom(offset) /\ OnZeros
      BY <1>1, <1>2, <2>2 DEF ReadSoFar
    <3>2. ~(Viso!remain > 0)
      BY <1>5, <3>1 DEF OnZeros
    <3>3. Len(got') = length'
      BY <1>2, <1>3, <2>1, <3>2
    <3>4. QED BY <2>1, <3>1, <3>3 DEF BytesFrom
  <2>3. QED BY <1>1, <1>2, <1>3, <2>1, <2>2, Succeeded
<1>6. QED BY <1>4, <1>5

\* Calls that read nothing.
LEMMA VisoIdleKeepsInv ==
  ASSUME Viso!SizesAssumption, VisoInv, Viso!ReadClosed \/ Viso!Seek \/ Viso!Close
  PROVE  VisoInv'
<1>1. VisoCallType /\ VisoLaidOut
  BY IsLaidOut DEF VisoInv
<1>2. Viso!TotalSize \in Nat
  BY <1>1, PadArea
<1>3. /\ files' = files /\ offset' \in {offset} \cup 0..Viso!TotalSize /\ pc' = "idle"
      /\ got' = <<>> /\ length' = 0 /\ result' \in {"none", "closed"}
  BY DEF Viso!ReadClosed, Viso!Seek, Viso!Close, Viso!NoRead
<1>4. offset' \in Nat
  BY <1>1, <1>2, <1>3 DEF VisoCallType
<1>5. QED BY <1>1, <1>3, <1>4, NothingRead

LEMMA VisoStutterKeepsInv ==
  ASSUME VisoInv, UNCHANGED Viso!vars
  PROVE  VisoInv'
<1>1. /\ UNCHANGED <<files, offset, pc, length, got, quota, ahead, next, result, fault>>
      /\ VisoCallType /\ ReadSoFar /\ Viso!ReadsTheImage /\ Viso!TidyReadsFill
  BY DEF Viso!vars, Viso!call, VisoInv
<1>2. VisoCallType'
  BY <1>1 DEF VisoCallType
<1>3. Viso!at' = Viso!at /\ Viso!remain' = Viso!remain /\ Viso!Began' = Viso!Began
      /\ BytesFrom(offset)' = BytesFrom(offset)
  BY <1>1, SameImage DEF Viso!at, Viso!remain, Viso!Began, BytesFrom
<1>4. OnFile' = OnFile /\ OnZeros' = OnZeros
  BY <1>1, <1>3, SameImage DEF OnFile, OnZeros
<1>5. ReadSoFar'
  BY <1>1, <1>3, <1>4, SameImage DEF ReadSoFar
<1>6. Viso!ReadsTheImage' /\ Viso!TidyReadsFill'
  BY <1>1, <1>3, SameImage DEF Viso!ReadsTheImage, Viso!TidyReadsFill, Viso!Tidy, Viso!Larger
<1>7. QED BY <1>2, <1>5, <1>6 DEF VisoInv

LEMMA InitVisoInv ==
  ASSUME Viso!SizesAssumption, Viso!Init
  PROVE  VisoInv
<1>1. files \in Seq(FileSizes)
  <2>1. PICK k \in 0..MaxFiles : files \in [1..k -> FileSizes]
    BY DEF Viso!Init
  <2>2. k \in Nat
    BY DEF Viso!SizesAssumption
  <2>3. QED BY <2>1, <2>2
<1>2. VisoCallType
  BY <1>1 DEF Viso!Init, VisoCallType
<1>3. QED BY <1>2 DEF Viso!Init, ReadSoFar, Viso!ReadsTheImage, Viso!TidyReadsFill, VisoInv

LEMMA VisoNextKeepsInv == Viso!SizesAssumption /\ VisoInv /\ [Viso!Next]_(Viso!vars) => VisoInv'
BY BeginKeepsInv, NotInFileKeepsInv, FileFailsKeepsInv, ReadFileKeepsInv, PaddingPanicsKeepsInv,
   FilesEndKeepsInv, ReadPadKeepsInv, VisoIdleKeepsInv, VisoStutterKeepsInv DEF Viso!Next

LEMMA AlwaysVisoInv == Viso!SizesAssumption => (Viso!Spec => []VisoInv)
<1>. SUFFICES ASSUME Viso!SizesAssumption PROVE Viso!Spec => []VisoInv
  OBVIOUS
<1>1. Viso!Init => VisoInv
  BY InitVisoInv
<1>2. VisoInv /\ [Viso!Next]_(Viso!vars) => VisoInv'
  BY VisoNextKeepsInv
<1>3. QED BY <1>1, <1>2, PTL DEF Viso!Spec
-----------------------------------------------------------------------------
(* Its variables' types.                                                   *)

\* Read moves the offset to where it has read to, which is no further behind the end
\* than the buffer is long; the files opened are files of the image.
LEMMA VisoOffset ==
  ASSUME Viso!SizesAssumption, VisoInv, VisoInv', Viso!TypeOK, [Viso!Next]_(Viso!vars)
  PROVE  /\ length' \in 0..VisoMaxLen
         /\ offset' \in 0..(Viso!TotalSize' + VisoMaxLen) /\ opened' \subseteq DOMAIN files'
<1>1. /\ VisoMaxLen \in Nat /\ length \in 0..VisoMaxLen
      /\ offset \in 0..(Viso!TotalSize + VisoMaxLen) /\ opened \subseteq DOMAIN files
      /\ VisoCallType /\ ReadSoFar /\ offset \in Nat
  BY DEF Viso!SizesAssumption, Viso!TypeOK, VisoInv, VisoCallType
<1>2. files' = files
  BY DEF Viso!Next, Viso!Begin, Viso!ReadClosed, Viso!NotInFile, Viso!FileFails, Viso!ReadFile,
     Viso!PaddingPanics, Viso!FilesEnd, Viso!ReadPad, Viso!Seek, Viso!Close, Viso!vars
<1>3. Viso!TotalSize' = Viso!TotalSize /\ VisoLaidOut
  BY <1>1, <1>2, SameImage, IsLaidOut
<1>4. Viso!TotalSize \in Nat
  BY <1>3, PadArea
<1>5. length' \in 0..VisoMaxLen
  <2>1. length' \in {length, 0} \cup 1..VisoMaxLen
    BY DEF Viso!Next, Viso!Begin, Viso!ReadClosed, Viso!NotInFile, Viso!FileFails, Viso!ReadFile,
       Viso!PaddingPanics, Viso!FilesEnd, Viso!ReadPad, Viso!Seek, Viso!Close, Viso!NoRead,
       Viso!vars, Viso!call
  <2>2. QED BY <1>1, <2>1
<1>6. offset' \in 0..(Viso!TotalSize + VisoMaxLen)
  <2>1. \/ offset' = offset
        \/ offset' \in 0..Viso!TotalSize
        \/ offset' = offset + Len(got') /\ ~(offset >= Viso!TotalSize)
    <3>1. ASSUME NEW l \in 1..VisoMaxLen, Viso!Begin(l)
          PROVE  \/ offset' = offset
                 \/ offset' = offset + Len(got') /\ ~(offset >= Viso!TotalSize)
      BY <3>1 DEF Viso!Begin, Viso!Finish
    <3>2. CASE Viso!ReadPad
      <4>1. pc # "idle" /\ offset' = offset + Len(got')
        BY <3>2 DEF Viso!ReadPad, Viso!Finish
      <4>2. offset < Viso!TotalSize
        BY <1>1, <4>1 DEF ReadSoFar
      <4>3. QED BY <1>1, <1>4, <4>1, <4>2
    <3>3. CASE Viso!Seek
      BY <3>3 DEF Viso!Seek
    <3>4. QED
      BY <3>1, <3>2, <3>3 DEF Viso!Next, Viso!ReadClosed, Viso!NotInFile, Viso!FileFails,
         Viso!ReadFile,
         Viso!PaddingPanics, Viso!FilesEnd, Viso!Close, Viso!Finish, Viso!vars
  <2>2. Len(got') \in Nat /\ Len(got') <= length'
    BY DEF VisoInv, VisoCallType
  <2>3. QED BY <1>1, <1>4, <1>5, <2>1, <2>2
<1>7. opened' \subseteq DOMAIN files'
  <2>1. opened' \subseteq opened \cup {next} /\ (opened' # opened => opened' = {} \/ Viso!InFile)
    BY DEF Viso!Next, Viso!Begin, Viso!ReadClosed, Viso!NotInFile, Viso!FileFails, Viso!ReadFile,
       Viso!PaddingPanics, Viso!FilesEnd, Viso!ReadPad, Viso!Seek, Viso!Close, Viso!vars
  <2>2. Viso!InFile => next \in DOMAIN files
    BY <1>1, <1>3, Yielded DEF Viso!InFile
  <2>3. QED BY <1>1, <1>2, <2>1, <2>2
<1>8. QED BY <1>3, <1>5, <1>6, <1>7

\* The iterator's counters are numbers, and its file one of the image or behind the last.
LEMMA VisoIterator ==
  ASSUME Viso!SizesAssumption, VisoInv, Viso!TypeOK, [Viso!Next]_(Viso!vars)
  PROVE  quota' \in Int /\ ahead' \in Nat /\ next' \in 0..(Len(files') + 1)
<1>1. /\ quota \in Int /\ ahead \in Nat /\ next \in 0..(Len(files) + 1)
      /\ VisoCallType /\ ReadSoFar /\ VisoLaidOut
  BY IsLaidOut DEF Viso!TypeOK, VisoInv
<1>2. files' = files /\ Len(files) \in Nat
  BY <1>1, Places DEF Viso!Next, Viso!Begin, Viso!ReadClosed, Viso!NotInFile, Viso!FileFails,
     Viso!ReadFile,
     Viso!PaddingPanics, Viso!FilesEnd, Viso!ReadPad, Viso!Seek, Viso!Close, Viso!vars
<1>3. CASE UNCHANGED <<quota, ahead, next>>
  BY <1>1, <1>2, <1>3
<1>4. CASE quota' = 0 /\ ahead' = 0 /\ next' = 0
  BY <1>2, <1>4
<1>5. ASSUME NEW l \in 1..VisoMaxLen, Viso!Begin(l), ~(quota' = 0 /\ ahead' = 0 /\ next' = 0)
      PROVE  quota' \in Int /\ ahead' \in Nat /\ next' \in 0..(Len(files) + 1)
  <2>. DEFINE m == IF offset < Viso!HeadSize THEN Viso!Smaller(l, Viso!HeadSize - offset) ELSE 0
  <2>1. /\ quota' = l - m /\ ahead' = offset + m /\ m # l
        /\ next' = IF ahead' < Viso!PadAreaStart THEN Viso!FileAt(ahead') ELSE 0
    BY <1>5 DEF Viso!Begin, Viso!Finish
  <2>2. l \in Nat /\ offset \in Nat /\ Viso!HeadSize \in Nat
    BY <1>1, Places DEF Viso!SizesAssumption, VisoCallType
  <2>3. m \in Nat /\ ahead' \in Nat /\ Viso!HeadSize <= ahead'
    <3>1. CASE offset < Viso!HeadSize
      <4>1. m \in {l, Viso!HeadSize - offset}
        BY <3>1 DEF Viso!Smaller
      <4>2. m = Viso!HeadSize - offset
        BY <2>1, <4>1
      <4>3. QED BY <2>1, <2>2, <3>1, <4>2
    <3>2. CASE ~(offset < Viso!HeadSize)
      BY <2>1, <2>2, <3>2
    <3>3. QED BY <3>1, <3>2
  <2>. HIDE DEF m
  <2>4. ahead' < Viso!PadAreaStart => Viso!FileAt(ahead') \in 1..Len(files)
    BY <1>1, <2>3, FileFound
  <2>5. QED BY <1>2, <2>1, <2>2, <2>3, <2>4
<1>6. CASE Viso!ReadFile
  <2>1. /\ ahead' = Viso!Start(next) + Viso!Aligned(next) /\ quota' = quota - (ahead' - ahead)
        /\ next' = next + 1 /\ Viso!Yields
    BY <1>6 DEF Viso!ReadFile, Viso!InFile
  <2>2. next \in 1..Len(files) /\ Viso!Start(next) \in Nat /\ Viso!Aligned(next) \in Nat
    BY <1>1, <2>1, Yielded
  <2>3. QED BY <1>1, <1>2, <2>1, <2>2
<1>7. QED
  BY <1>2, <1>3, <1>4, <1>5, <1>6 DEF Viso!Next, Viso!ReadClosed, Viso!NotInFile, Viso!FileFails,
     Viso!PaddingPanics, Viso!FilesEnd, Viso!ReadPad, Viso!Seek, Viso!Close, Viso!Finish, Viso!NoRead,
     Viso!vars, Viso!call

LEMMA NextKeepsVisoType ==
  ASSUME Viso!SizesAssumption, VisoInv, VisoInv', Viso!TypeOK, [Viso!Next]_(Viso!vars)
  PROVE  Viso!TypeOK'
<1>1. isClosed' \in BOOLEAN /\ fault' \in BOOLEAN
  <2>1. isClosed \in BOOLEAN /\ fault \in BOOLEAN
    BY Zenon DEF Viso!TypeOK
  <2>2. isClosed' \in {isClosed, TRUE} /\ fault' \in {fault, TRUE, FALSE}
    BY Zenon DEF Viso!Next, Viso!Begin, Viso!ReadClosed, Viso!NotInFile, Viso!FileFails,
       Viso!ReadFile,
       Viso!PaddingPanics, Viso!FilesEnd, Viso!ReadPad, Viso!Seek, Viso!Close, Viso!NoRead, Viso!vars
  <2>3. QED BY <2>1, <2>2, Zenon
<1>2. pc' \in {"idle", "files", "pad"} /\ result' \in {"none", "ok", "eof", "error", "closed", "panic"}
  BY DEF Viso!TypeOK, Viso!Next, Viso!Begin, Viso!ReadClosed, Viso!NotInFile, Viso!FileFails,
     Viso!ReadFile,
     Viso!PaddingPanics, Viso!FilesEnd, Viso!ReadPad, Viso!Seek, Viso!Close, Viso!NoRead,
     Viso!Finish, Viso!vars
<1>3. files' \in Seq(FileSizes) /\ Len(got') <= length'
  BY DEF VisoInv, VisoCallType
<1>4. QED BY <1>1, <1>2, <1>3, VisoOffset, VisoIterator, Zenon DEF Viso!TypeOK

LEMMA InitVisoType ==
  ASSUME Viso!SizesAssumption, Viso!Init
  PROVE  Viso!TypeOK
<1>1. VisoInv
  BY InitVisoInv
<1>2. /\ opened = {} /\ isClosed = FALSE /\ offset = 0 /\ pc = "idle" /\ length = 0 /\ got = <<>>
      /\ quota = 0 /\ ahead = 0 /\ next = 0 /\ result = "none" /\ fault = FALSE
  BY DEF Viso!Init
<1>3. files \in Seq(FileSizes) /\ VisoLaidOut
  BY <1>1, IsLaidOut DEF VisoInv, VisoCallType
<1>4. Len(files) \in Nat /\ Viso!TotalSize \in Nat /\ VisoMaxLen \in Nat
  BY <1>3, Places, PadArea DEF Viso!SizesAssumption
<1>5. /\ offset \in 0..(Viso!TotalSize + VisoMaxLen) /\ length \in 0..VisoMaxLen /\ Len(got) <= length
      /\ quota \in Int /\ ahead \in Nat /\ next \in 0..(Len(files) + 1)
  BY <1>2, <1>4
<1>6. pc \in {"idle", "files", "pad"} /\ result \in {"none", "ok", "eof", "error", "closed", "panic"}
  BY <1>2
<1>7. isClosed \in BOOLEAN /\ fault \in BOOLEAN /\ opened \subseteq DOMAIN files
  BY <1>2, Zenon
<1>8. QED BY <1>3, <1>5, <1>6, <1>7, Zenon DEF Viso!TypeOK

LEMMA VisoTypeCorrect == Viso!SizesAssumption => (Viso!Spec => []Viso!TypeOK)
<1>. SUFFICES ASSUME Viso!SizesAssumption PROVE Viso!Spec => []Viso!TypeOK
  OBVIOUS
<1>1. Viso!Init => Viso!TypeOK
  BY InitVisoType
<1>2. VisoInv /\ VisoInv' /\ Viso!TypeOK /\ [Viso!Next]_(Viso!vars) => Viso!TypeOK'
  BY NextKeepsVisoType
<1>3. QED BY <1>1, <1>2, AlwaysVisoInv, PTL DEF Viso!Spec
-----------------------------------------------------------------------------
(* What FsChain promises, for every served directory and every name: where *)
(* FS.Open and FS.Stat may lose a handle, which files they decrypt and     *)
(* mask, and that a file opens as it was announced.  What a layer stands   *)
(* for depends on the file it was put around, that on the opener which     *)
(* gave it, and that on those before, which have left the name to it as    *)
(* they did when Stat asked.                                               *)

LayerNames == {"viso", "native", "chd", "cso", "zst", "dir", "times", "keyed", "masked", "decrypted"}

LayersType == layers \in Seq(LayerNames)
KeyType == redumpKey \in {"none", "good", "bad"}

\* Before an opener has given a file, and after it is gone, there are no layers.
NoFile ==
  pc \in {"idle", "viso", "chd", "cso", "zst", "native", "failed", "closed"} => layers = <<>> /\ ~held

\* A handle is that of the file asked for, or of the image it is listed for.
HandleOfName == held => from \in {name, Chain!Plain(name)} /\ Chain!Has(from) /\ ~Chain!IsLayer("viso")

\* The key of a file is in it, and is found before the file is decrypted.
KeyInFile == Chain!IsLayer("keyed") => Chain!Mark = "enc" /\ pc \in {"redump", "mask", "open"}

\* A file is decrypted with a key that fits its map.
KeyFits == Chain!IsLayer("decrypted") => pc \in {"mask", "open"} /\ Chain!HasMap /\ Chain!Key = "good"

ChainInv ==
  /\ LayersType /\ KeyType /\ NoFile /\ HandleOfName /\ KeyInFile /\ KeyFits
  /\ Chain!NothingElseLost

-----------------------------------------------------------------------------
(* Layers.                                                                 *)

\* The layers of a wrapped file are those it had and the new ones.
LEMMA ContainsConcat ==
  ASSUME NEW S, NEW s \in Seq(S), NEW t \in Seq(S), NEW e
  PROVE  Chain!Contains(s \o t, e) <=> Chain!Contains(s, e) \/ Chain!Contains(t, e)
<1>1. ASSUME NEW i \in 1..Len(s \o t), (s \o t)[i] = e
      PROVE  Chain!Contains(s, e) \/ Chain!Contains(t, e)
  <2>1. CASE i \in 1..Len(s)
    BY <1>1, <2>1 DEF Chain!Contains
  <2>2. CASE i \notin 1..Len(s)
    <3>1. i - Len(s) \in 1..Len(t) /\ t[i - Len(s)] = e
      BY <1>1, <2>2
    <3>2. QED BY <3>1 DEF Chain!Contains
  <2>3. QED BY <2>1, <2>2
<1>2. ASSUME NEW i \in 1..Len(s), s[i] = e
      PROVE  Chain!Contains(s \o t, e)
  <2>1. i \in 1..Len(s \o t) /\ (s \o t)[i] = e
    BY <1>2
  <2>2. QED BY <2>1 DEF Chain!Contains
<1>3. ASSUME NEW i \in 1..Len(t), t[i] = e
      PROVE  Chain!Contains(s \o t, e)
  <2>1. Len(s) + i \in 1..Len(s \o t) /\ (s \o t)[Len(s) + i] = e
    BY <1>3
  <2>2. QED BY <2>1 DEF Chain!Contains
<1>4. QED BY <1>1, <1>2, <1>3 DEF Chain!Contains

LEMMA NoLayers == ASSUME NEW e PROVE ~Chain!Contains(<<>>, e)
BY DEF Chain!Contains

LEMMA OneLayer == ASSUME NEW a, NEW e PROVE Chain!Contains(<<a>>, e) <=> e = a
BY DEF Chain!Contains

LEMMA TwoLayers == ASSUME NEW a, NEW b, NEW e PROVE Chain!Contains(<<a, b>>, e) <=> e \in {a, b}
<1>1. Len(<<a, b>>) = 2 /\ <<a, b>>[1] = a /\ <<a, b>>[2] = b
  OBVIOUS
<1>2. QED BY <1>1 DEF Chain!Contains

\* Wrapping leaves what is known of the file below.
LEMMA WrapLayers ==
  ASSUME LayersType, NEW ls \in Seq(LayerNames), NEW to, Chain!Wrap(ls, to)
  PROVE  /\ LayersType'
         /\ \A e : Chain!IsLayer(e)' <=> Chain!IsLayer(e) \/ Chain!Contains(ls, e)
         /\ UNCHANGED <<disk, redumpKey, chdEnabled, virtual, name, announced, held, from, lost, fault>>
         /\ pc' = to
<1>1. layers' = layers \o ls
  BY DEF Chain!Wrap
<1>2. \A e : Chain!Contains(layers \o ls, e) <=> Chain!Contains(layers, e) \/ Chain!Contains(ls, e)
  BY ContainsConcat DEF LayersType
<1>3. QED BY <1>1, <1>2 DEF Chain!Wrap, LayersType, Chain!IsLayer, Chain!request

\* So it is the same file, by the layers the later ones look at.
LEMMA WrapKeepsFile ==
  ASSUME LayersType, NEW ls \in Seq(LayerNames), NEW to, Chain!Wrap(ls, to),
         \A e \in {"viso", "cso", "zst"} : ~Chain!Contains(ls, e)
  PROVE  /\ Chain!IsLayer("viso")' <=> Chain!IsLayer("viso")
         /\ Chain!Mark' = Chain!Mark
         /\ Chain!HasMap' <=> Chain!HasMap
         /\ Chain!NameIsIso' <=> Chain!NameIsIso
<1>1. \A e \in {"viso", "cso", "zst"} : Chain!IsLayer(e)' <=> Chain!IsLayer(e)
  BY WrapLayers
<1>2. disk' = disk /\ from' = from
  BY WrapLayers
<1>3. Chain!IsDir' <=> Chain!IsDir
  BY <1>1, <1>2 DEF Chain!IsDir, Chain!Form, Chain!Has
<1>4. QED BY <1>1, <1>2, <1>3 DEF Chain!Mark, Chain!HasMap, Chain!NameIsIso

\* A step that gives no handle up leaves what was lost accounted for.
LEMMA NothingLost ==
  ASSUME Chain!NothingElseLost, UNCHANGED Chain!request, lost' = lost, fault => fault'
  PROVE  Chain!NothingElseLost'
<1>1. Chain!FalseImage' = Chain!FalseImage /\ Chain!FalseKey' = Chain!FalseKey
  BY DEF Chain!request, Chain!FalseImage, Chain!FalseKey, Chain!Has, Chain!Form, Chain!Chd
<1>2. QED BY <1>1 DEF Chain!NothingElseLost

\* One that gives up a handle where it may.
LEMMA LostWithReason ==
  ASSUME Chain!NothingElseLost, UNCHANGED Chain!request, fault => fault', NEW w,
         lost' \subseteq lost \cup {w},
         \/ w \in {"cso", "zst"} /\ (fault' \/ Chain!FalseImage)
         \/ w = "zstClose"
         \/ w = "stat" /\ fault'
         \/ w = "wrapper" /\ (fault' \/ Chain!FalseKey)
  PROVE  Chain!NothingElseLost'
<1>1. Chain!FalseImage' = Chain!FalseImage /\ Chain!FalseKey' = Chain!FalseKey
  BY DEF Chain!request, Chain!FalseImage, Chain!FalseKey, Chain!Has, Chain!Form, Chain!Chd
<1>2. QED BY <1>1 DEF Chain!NothingElseLost

\* An Open that has failed has neither layers nor a handle.
LEMMA FailedHasNoFile ==
  ASSUME KeyType, Chain!Fail
  PROVE  (LayersType /\ KeyType /\ NoFile /\ HandleOfName /\ KeyInFile /\ KeyFits)'
<1>1. layers' = <<>> /\ ~held' /\ pc' = "failed"
  BY DEF Chain!Fail
<1>2. \A e : ~Chain!IsLayer(e)'
  BY <1>1, NoLayers DEF Chain!IsLayer
<1>3. KeyType'
  BY DEF Chain!Fail, Chain!request, KeyType
<1>4. QED
  BY <1>1, <1>2, <1>3 DEF LayersType, NoFile, HandleOfName, KeyInFile, KeyFits
-----------------------------------------------------------------------------
LEMMA InitChainInv == Chain!Init => ChainInv
<1>. SUFFICES ASSUME Chain!Init PROVE ChainInv
  OBVIOUS
<1>1. \A e : ~Chain!IsLayer(e)
  BY NoLayers DEF Chain!Init, Chain!IsLayer
<1>2. LayersType /\ KeyType
  BY DEF Chain!Init, LayersType, KeyType
<1>3. QED
  BY <1>1, <1>2 DEF Chain!Init, ChainInv, NoFile, HandleOfName, KeyInFile, KeyFits,
     Chain!NothingElseLost

\* Asking what there is opens nothing; an image of zstd is opened on the way.
LEMMA StatKeepsChainInv == ChainInv /\ (Chain!Stat \/ Chain!StatFails) => ChainInv'
<1>. SUFFICES ASSUME ChainInv, Chain!Stat \/ Chain!StatFails PROVE ChainInv'
  OBVIOUS
<1>1. UNCHANGED <<Chain!request, pc, held, from, layers>> /\ (fault => fault')
  BY DEF Chain!Stat, Chain!StatFails
<1>2. (LayersType /\ KeyType /\ NoFile /\ HandleOfName /\ KeyInFile /\ KeyFits)'
  BY <1>1 DEF ChainInv, LayersType, KeyType, NoFile, HandleOfName, KeyInFile, KeyFits,
     Chain!request,
              Chain!IsLayer, Chain!Mark, Chain!IsDir, Chain!HasMap, Chain!Key, Chain!NameIsIso,
              Chain!Has, Chain!Form
<1>3. Chain!NothingElseLost'
  <2>1. PICK l : /\ lost' = lost \cup l
                 /\ \/ l = {} \/ l = {"zstClose"}
                    \/ l = {"zst"} /\ (fault' \/ Chain!FalseImage)
    <3>1. CASE Chain!Stat
      BY <3>1 DEF Chain!Stat, Chain!StatLoses, Chain!FalseImage
    <3>2. CASE Chain!StatFails
      BY <3>2 DEF Chain!StatFails, Chain!StatLoses
    <3>3. QED BY <3>1, <3>2
  <2>2. Chain!NothingElseLost
    BY DEF ChainInv
  <2>3. CASE l = {}
    BY <1>1, <2>1, <2>2, <2>3, NothingLost
  <2>4. CASE l = {"zstClose"}
    BY <1>1, <2>1, <2>2, <2>4, LostWithReason
  <2>5. CASE l = {"zst"}
    BY <1>1, <2>1, <2>2, <2>5, LostWithReason
  <2>6. QED BY <2>1, <2>3, <2>4, <2>5
<1>4. QED BY <1>2, <1>3 DEF ChainInv

\* The next opener starts with nothing.
LEMMA SkipKeepsChainInv == ChainInv /\ (Chain!Begin \/ Chain!NextOpener) => ChainInv'
<1>. SUFFICES ASSUME ChainInv, Chain!Begin \/ Chain!NextOpener PROVE ChainInv'
  OBVIOUS
<1>1. /\ UNCHANGED <<Chain!request, announced, held, from, layers, lost, fault>>
      /\ pc \in {"idle", "viso", "chd", "cso", "zst"}
      /\ pc' \in {"viso", "chd", "cso", "zst", "native"}
  BY DEF Chain!Begin, Chain!NextOpener, Chain!Skip
<1>2. layers' = <<>> /\ ~held'
  BY <1>1 DEF ChainInv, NoFile
<1>3. \A e : ~Chain!IsLayer(e)'
  BY <1>2, NoLayers DEF Chain!IsLayer
<1>4. (LayersType /\ KeyType /\ NoFile /\ HandleOfName /\ KeyInFile /\ KeyFits)'
  BY <1>1, <1>2, <1>3 DEF ChainInv, LayersType, KeyType, Chain!request, NoFile, HandleOfName,
     KeyInFile, KeyFits
<1>5. Chain!NothingElseLost'
  BY <1>1, NothingLost DEF ChainInv
<1>6. QED BY <1>4, <1>5 DEF ChainInv

\* What an opener gives: the handle of a file by one of its names, and no key yet.
LEMMA OpenedHasFile ==
  ASSUME ChainInv, NEW nm \in {name, Chain!Plain(name)}, Chain!Has(nm), NEW ls, Chain!Opened(nm, ls),
         \/ ls = <<"native">>
         \/ \E f \in {"chd", "cso", "zst"} : ls = <<"native", f>>
  PROVE  ChainInv'
<1>1. layers' = ls /\ from' = nm /\ pc' = "stat" /\ UNCHANGED <<Chain!request, lost, fault>>
  BY DEF Chain!Opened
<1>2. \A e : Chain!Contains(ls, e) => e \in {"native", "chd", "cso", "zst"}
  BY OneLayer, TwoLayers
<1>3. \A e \in {"viso", "keyed", "decrypted"} : ~Chain!IsLayer(e)'
  BY <1>1, <1>2 DEF Chain!IsLayer
<1>4. LayersType' /\ KeyType'
  <2>1. \A a \in LayerNames : <<"native", a>> \in Seq(LayerNames) /\ <<"native">> \in Seq(LayerNames)
    BY DEF LayerNames
  <2>2. ls \in Seq(LayerNames)
    BY <2>1 DEF LayerNames
  <2>3. QED BY <1>1, <2>2 DEF LayersType, ChainInv, KeyType, Chain!request
<1>5. NoFile' /\ KeyInFile' /\ KeyFits'
  BY <1>1, <1>3 DEF NoFile, KeyInFile, KeyFits
<1>6. HandleOfName'
  BY <1>1, <1>3 DEF HandleOfName, Chain!Has, Chain!request
<1>7. Chain!NothingElseLost'
  BY <1>1, NothingLost DEF ChainInv
<1>8. QED BY <1>4, <1>5, <1>6, <1>7 DEF ChainInv

\* A virtual image has no handle of its own.
LEMMA OpenVisoKeepsChainInv == ChainInv /\ Chain!OpenViso => ChainInv'
<1>. SUFFICES ASSUME ChainInv, Chain!OpenViso PROVE ChainInv'
  OBVIOUS
<1>1. /\ layers' = <<"viso">> /\ pc' = "stat" /\ ~held'
      /\ UNCHANGED <<Chain!request, lost, fault>>
  BY DEF Chain!OpenViso, ChainInv, NoFile
<1>2. \A e \in {"keyed", "decrypted"} : ~Chain!IsLayer(e)'
  BY <1>1, OneLayer DEF Chain!IsLayer
<1>3. LayersType' /\ KeyType'
  BY <1>1 DEF LayersType, LayerNames, ChainInv, KeyType, Chain!request
<1>4. (NoFile /\ HandleOfName /\ KeyInFile /\ KeyFits)'
  BY <1>1, <1>2 DEF NoFile, HandleOfName, KeyInFile, KeyFits
<1>5. Chain!NothingElseLost'
  BY <1>1, NothingLost DEF ChainInv
<1>6. QED BY <1>3, <1>4, <1>5 DEF ChainInv

\* An opener that takes the file takes it by one of its names.
LEMMA OpenKeepsChainInv == ChainInv
/\ (Chain!OpenChd \/ Chain!OpenCso \/ Chain!OpenZst \/ Chain!OpenNative) => ChainInv'
<1>. SUFFICES ASSUME ChainInv PROVE Chain!OpenChd \/ Chain!OpenCso \/ Chain!OpenZst
                     \/ Chain!OpenNative => ChainInv'
  OBVIOUS
<1>1. \A nm : Chain!Form(nm) \in {"chd", "cso", "zst"} => Chain!Has(nm)
  BY DEF Chain!Form
<1>2. CASE Chain!OpenChd
  BY <1>1, <1>2, OpenedHasFile DEF Chain!OpenChd
<1>3. CASE Chain!OpenCso
  BY <1>1, <1>3, OpenedHasFile DEF Chain!OpenCso, Chain!OpenAs
<1>4. CASE Chain!OpenZst
  BY <1>1, <1>4, OpenedHasFile DEF Chain!OpenZst, Chain!OpenAs
<1>5. CASE Chain!OpenNative
  BY <1>5, OpenedHasFile DEF Chain!OpenNative
<1>6. QED BY <1>2, <1>3, <1>4, <1>5

\* An opener that fails loses its handle only over what is not the image it says.
LEMMA OpenFailsKeepsChainInv ==
  ChainInv /\ (Chain!VisoFails \/ Chain!ChdFails \/ Chain!CsoFails \/ Chain!ZstFails
  \/ Chain!NativeFails) => ChainInv'
<1>. SUFFICES ASSUME ChainInv, Chain!VisoFails \/ Chain!ChdFails \/ Chain!CsoFails \/ Chain!ZstFails
                     \/ Chain!NativeFails
     PROVE ChainInv'
  OBVIOUS
<1>1. Chain!Fail
  BY DEF Chain!VisoFails, Chain!ChdFails, Chain!CsoFails, Chain!ZstFails, Chain!NativeFails,
     Chain!FailsAs
<1>2. UNCHANGED Chain!request /\ Chain!NothingElseLost
  BY <1>1 DEF Chain!Fail, ChainInv
<1>3. \/ lost' = lost /\ (fault => fault')
      \/ \E f \in {"cso", "zst"} :
           lost' \subseteq lost \cup {f} /\ (fault => fault') /\ (fault' \/ Chain!FalseImage)
  <2>1. CASE Chain!VisoFails
    BY <2>1 DEF Chain!VisoFails
  <2>2. CASE Chain!ChdFails
    BY <2>2 DEF Chain!ChdFails
  <2>3. CASE Chain!CsoFails
    BY <2>3 DEF Chain!CsoFails, Chain!FailsAs, Chain!FalseImage
  <2>4. CASE Chain!ZstFails
    BY <2>4 DEF Chain!ZstFails, Chain!FailsAs, Chain!FalseImage
  <2>5. CASE Chain!NativeFails
    BY <2>5 DEF Chain!NativeFails
  <2>6. QED BY <2>1, <2>2, <2>3, <2>4, <2>5
<1>4. Chain!NothingElseLost'
  BY <1>2, <1>3, NothingLost, LostWithReason
<1>5. QED BY <1>1, <1>4, FailedHasNoFile DEF ChainInv

\* Without a failure of the system only a key that does not fit stops a wrapper.
LEMMA BadKeyIsFalse ==
  ASSUME ChainInv, held, Chain!DecryptFails, ~fault'
  PROVE  Chain!FalseKey
<1>1. from \in {name, Chain!Plain(name)} /\ Chain!Has(from) /\ ~Chain!IsLayer("viso")
  BY DEF ChainInv, HandleOfName
<1>2. Chain!Key # "none" /\ (Chain!Key = "bad" \/ ~Chain!HasMap)
  BY DEF Chain!DecryptFails
<1>3. CASE Chain!Key = "bad"
  BY <1>1, <1>3 DEF Chain!Key, Chain!FalseKey
<1>4. CASE Chain!Key # "bad" /\ ~Chain!HasMap
  <2>1. ~disk[from].map \/ disk[from].form = "dir"
    BY <1>1, <1>4 DEF Chain!HasMap, Chain!IsDir, Chain!Form
  <2>2. CASE Chain!IsLayer("keyed")
    BY <1>1, <2>1, <2>2 DEF ChainInv, KeyInFile, Chain!Mark, Chain!FalseKey
  <2>3. CASE ~Chain!IsLayer("keyed")
    BY <1>1, <1>2, <1>4, <2>1, <2>3 DEF ChainInv, KeyType, Chain!Key, Chain!FalseKey
  <2>4. QED BY <2>2, <2>3
<1>5. QED BY <1>2, <1>3, <1>4

LEMMA WrapFailsKeepsChainInv ==
  ChainInv /\ (Chain!StatOpenedFails \/ Chain!ExtractKeyFails \/ Chain!DecryptFails
  \/ Chain!MaskFails) => ChainInv'
<1>. SUFFICES ASSUME ChainInv, Chain!StatOpenedFails \/ Chain!ExtractKeyFails \/ Chain!DecryptFails
                     \/ Chain!MaskFails
     PROVE ChainInv'
  OBVIOUS
<1>1. PICK w \in {"stat", "wrapper"} : Chain!FailLosing(w) /\ (w = "stat" => fault')
  BY DEF Chain!StatOpenedFails, Chain!ExtractKeyFails, Chain!DecryptFails, Chain!MaskFails
<1>2. Chain!Fail /\ UNCHANGED Chain!request /\ Chain!NothingElseLost
  BY <1>1 DEF Chain!FailLosing, Chain!Fail, ChainInv
<1>3. fault => fault'
  BY DEF Chain!StatOpenedFails, Chain!ExtractKeyFails, Chain!DecryptFails, Chain!MaskFails
<1>4. held => fault' \/ Chain!FalseKey
  BY BadKeyIsFalse DEF Chain!StatOpenedFails, Chain!ExtractKeyFails, Chain!MaskFails
<1>5. lost' \subseteq lost \cup {w} /\ (~held => lost' = lost)
  BY <1>1 DEF Chain!FailLosing
<1>6. Chain!NothingElseLost'
  <2>1. CASE held
    BY <1>1, <1>2, <1>3, <1>4, <1>5, <2>1, LostWithReason
  <2>2. CASE ~held
    BY <1>2, <1>3, <1>5, <2>2, NothingLost
  <2>3. QED BY <2>1, <2>2
<1>7. QED BY <1>2, <1>6, FailedHasNoFile DEF ChainInv

\* A wrapper finds the key of a file before another decrypts it with that key.
LEMMA WrapKeepsChainInv ==
  ChainInv /\ (Chain!StatOpened \/ Chain!WrapTimes \/ Chain!ExtractKey \/ Chain!Decrypt
  \/ Chain!Mask) => ChainInv'
<1>. SUFFICES ASSUME ChainInv, Chain!StatOpened \/ Chain!WrapTimes \/ Chain!ExtractKey
                     \/ Chain!Decrypt \/ Chain!Mask
     PROVE ChainInv'
  OBVIOUS
<1>1. PICK ls, to :
        /\ Chain!Wrap(ls, to)
        /\ \/ ls \in {<<>>, <<"dir">>} /\ pc = "stat" /\ to = "times"
           \/ ls = <<"times">> /\ pc = "times" /\ to = "key"
           \/ /\ ls \in {<<>>, <<"keyed">>, <<"masked">>} /\ pc = "key" /\ to = "redump"
              /\ ls = <<"keyed">> => Chain!Mark = "enc"
           \/ /\ ls \in {<<>>, <<"decrypted">>} /\ pc = "redump" /\ to = "mask"
              /\ ls = <<"decrypted">> => Chain!Key = "good" /\ Chain!HasMap
           \/ ls \in {<<>>, <<"masked">>} /\ pc = "mask" /\ to = "open"
  <2>1. CASE Chain!StatOpened
    BY <2>1 DEF Chain!StatOpened
  <2>2. CASE Chain!WrapTimes
    BY <2>2 DEF Chain!WrapTimes
  <2>3. CASE Chain!ExtractKey
    BY <2>3 DEF Chain!ExtractKey
  <2>4. CASE Chain!Decrypt
    BY <2>4 DEF Chain!Decrypt
  <2>5. CASE Chain!Mask
    BY <2>5 DEF Chain!Mask
  <2>6. QED BY <2>1, <2>2, <2>3, <2>4, <2>5
<1>2. \/ ls = <<>>
      \/ \E a \in {"dir", "times", "keyed", "masked", "decrypted"} : ls = <<a>>
  BY <1>1
<1>3. ls \in Seq(LayerNames)
  <2>1. \A a \in LayerNames : <<a>> \in Seq(LayerNames)
    OBVIOUS
  <2>2. CASE ls = <<>>
    BY <2>2
  <2>3. CASE \E a \in {"dir", "times", "keyed", "masked", "decrypted"} : ls = <<a>>
    <3>1. PICK a \in LayerNames : ls = <<a>>
      BY <2>3 DEF LayerNames
    <3>2. QED BY <2>1, <3>1, Zenon
  <2>4. QED BY <1>2, <2>2, <2>3
<1>4. \A e : Chain!Contains(ls, e) => /\ ls = <<e>>
                                /\ e \in {"dir", "times", "keyed", "masked", "decrypted"}
  BY <1>2, NoLayers, OneLayer
<1>5. LayersType /\ \A e \in {"viso", "cso", "zst"} : ~Chain!Contains(ls, e)
  BY <1>4 DEF ChainInv
<1>6. /\ \A e : Chain!IsLayer(e)' <=> Chain!IsLayer(e) \/ Chain!Contains(ls, e)
      /\ LayersType' /\ pc' = to
      /\ UNCHANGED <<disk, redumpKey, chdEnabled, virtual, name, announced, held, from, lost, fault>>
  BY <1>1, <1>3, <1>5, WrapLayers
<1>7. /\ Chain!IsLayer("viso")' <=> Chain!IsLayer("viso")
      /\ Chain!Mark' = Chain!Mark
      /\ Chain!HasMap' <=> Chain!HasMap
      /\ Chain!NameIsIso' <=> Chain!NameIsIso
  BY <1>1, <1>3, <1>5, WrapKeepsFile
<1>8. NoFile'
  BY <1>1, <1>6 DEF NoFile
<1>9. HandleOfName'
  BY <1>6, <1>7 DEF ChainInv, HandleOfName, Chain!Has
<1>10. KeyInFile'
  <2>1. SUFFICES ASSUME Chain!IsLayer("keyed")'
        PROVE Chain!Mark = "enc" /\ to \in {"redump", "mask", "open"}
    BY <1>6, <1>7 DEF KeyInFile
  <2>2. CASE Chain!IsLayer("keyed")
    BY <1>1, <2>2 DEF ChainInv, KeyInFile
  <2>3. CASE Chain!Contains(ls, "keyed")
    <3>1. ls = <<"keyed">>
      BY <1>4, <2>3
    <3>2. pc = "key" /\ to = "redump" /\ Chain!Mark = "enc"
      BY <1>1, <3>1
    <3>3. QED BY <3>2
  <2>4. QED BY <1>6, <2>1, <2>2, <2>3
<1>11. KeyFits'
  <2>1. SUFFICES ASSUME Chain!IsLayer("decrypted")'
        PROVE to \in {"mask", "open"} /\ Chain!HasMap /\ Chain!Key' = "good"
    BY <1>6, <1>7 DEF KeyFits
  <2>2. pc \in {"redump", "mask"} /\ to \in {"mask", "open"} /\ Chain!HasMap /\ Chain!Key = "good"
    <3>1. CASE Chain!IsLayer("decrypted")
      BY <1>1, <3>1 DEF ChainInv, KeyFits
    <3>2. CASE Chain!Contains(ls, "decrypted")
      <4>1. ls = <<"decrypted">>
        BY <1>4, <3>2
      <4>2. QED BY <1>1, <4>1
    <3>3. QED BY <1>6, <2>1, <3>1, <3>2
  <2>3. ~Chain!Contains(ls, "keyed")
    <3>1. ls # <<"keyed">>
      BY <1>1, <2>2
    <3>2. QED BY <1>4, <3>1
  <2>4. Chain!Key' = Chain!Key
    BY <1>6, <1>7, <2>3 DEF Chain!Key
  <2>5. QED BY <2>2, <2>4
<1>12. Chain!NothingElseLost' /\ KeyType'
  BY <1>6, NothingLost DEF ChainInv, KeyType, Chain!request
<1>13. QED BY <1>6, <1>8, <1>9, <1>10, <1>11, <1>12 DEF ChainInv

\* A session that closes a file keeps nothing of it but what the reader of zstd does.
LEMMA CloseKeepsChainInv == ChainInv /\ Chain!Close => ChainInv'
<1>. SUFFICES ASSUME ChainInv, Chain!Close PROVE ChainInv'
  OBVIOUS
<1>1. /\ UNCHANGED <<Chain!request, announced, from, fault>>
      /\ pc' = "closed" /\ ~held' /\ layers' = <<>>
      /\ lost' \subseteq lost \cup {"zstClose"}
  BY DEF Chain!Close
<1>2. \A e : ~Chain!IsLayer(e)'
  BY <1>1, NoLayers DEF Chain!IsLayer
<1>3. (LayersType /\ KeyType /\ NoFile /\ HandleOfName /\ KeyInFile /\ KeyFits)'
  BY <1>1, <1>2 DEF ChainInv, LayersType, KeyType, Chain!request, NoFile, HandleOfName, KeyInFile,
     KeyFits
<1>4. Chain!NothingElseLost'
  BY <1>1, LostWithReason DEF ChainInv
<1>5. QED BY <1>3, <1>4 DEF ChainInv

LEMMA StutterKeepsChainInv == ChainInv /\ UNCHANGED Chain!vars => ChainInv'
BY DEF ChainInv, Chain!vars, Chain!request, LayersType, KeyType, NoFile, HandleOfName, KeyInFile,
   KeyFits,
       Chain!NothingElseLost, Chain!FalseImage, Chain!FalseKey, Chain!Chd, Chain!IsLayer,
       Chain!Mark, Chain!IsDir, Chain!HasMap, Chain!Key, Chain!NameIsIso,
       Chain!Has, Chain!Form

LEMMA NextKeepsChainInv == ChainInv /\ [Chain!Next]_(Chain!vars) => ChainInv'
BY StatKeepsChainInv, SkipKeepsChainInv, OpenVisoKeepsChainInv, OpenKeepsChainInv,
   OpenFailsKeepsChainInv,
   WrapFailsKeepsChainInv, WrapKeepsChainInv, CloseKeepsChainInv, StutterKeepsChainInv DEF Chain!Next

LEMMA AlwaysChainInv == Chain!Spec => []ChainInv
BY InitChainInv, NextKeepsChainInv, PTL DEF Chain!Spec
-----------------------------------------------------------------------------
\* For every served directory and every name, FS.Open and FS.Stat give up a handle
\* without a Close only where an opener cannot read what it opened, where Stat or a
\* wrapper fails in FS.Open, or in an image of zstd; and, where the system does not
\* fail, only over a name that says image and is none or a key that does not fit.
THEOREM ChainLosesNothingElse == Chain!Spec => []Chain!NothingElseLost
<1>1. ChainInv => Chain!NothingElseLost
  BY DEF ChainInv
<1>2. QED BY <1>1, AlwaysChainInv, PTL

\* For every served directory and every name, an open file is decrypted only if it
\* has a region map and a key: the one in it, or the one found beside it; and an
\* .iso that says it was decrypted already is left as it is.
THEOREM ChainDecryptsByKey == Chain!Spec => []Chain!DecryptedByItsKey
<1>1. ChainInv => Chain!DecryptedByItsKey
  <2>1. SUFFICES ASSUME ChainInv, Chain!IsLayer("decrypted") PROVE
          /\ Chain!HasMap
          /\ IF Chain!IsLayer("keyed") THEN Chain!Mark = "enc" ELSE redumpKey = "good"
          /\ Chain!NameIsIso => Chain!Mark # "dec"
    BY DEF Chain!DecryptedByItsKey
  <2>2. Chain!HasMap /\ Chain!Key = "good"
    BY <2>1 DEF ChainInv, KeyFits
  <2>3. Chain!IsLayer("keyed") => Chain!Mark = "enc"
    BY <2>1 DEF ChainInv, KeyInFile
  <2>4. ~Chain!IsLayer("keyed") => ~Chain!NameIsIso /\ redumpKey = "good"
    BY <2>2 DEF Chain!Key
  <2>5. QED BY <2>2, <2>3, <2>4
<1>2. QED BY <1>1, AlwaysChainInv, PTL
-----------------------------------------------------------------------------
(* Announcing and masking.  Both need what the openers that were passed by *)
(* said of the name, and which of the wrappers has met a mark.             *)

WrapPcs == {"stat", "times", "key", "redump", "mask", "open"}

\* A file has a handle, or is a virtual image.
FileThere ==
  pc \in WrapPcs => (held \/ Chain!IsLayer("viso")) /\ (Chain!IsLayer("viso") <=> virtual)

\* An opener is asked when those before it have left the name to it.
OpenersPassed ==
  /\ pc \in {"chd", "cso", "zst", "native"} => ~virtual
  /\ pc \in {"cso", "zst", "native"} => ~Chain!Chd
  /\ pc \in {"zst", "native"} => ~Chain!IsImage(name, Chain!Cso)
  /\ pc = "native" => ~Chain!IsImage(name, Chain!Zst)

Told == ~fault => announced \in {"unasked", Chain!StatAnswer}

OpenedAsTold == pc \in WrapPcs /\ ~virtual => Chain!OpenedAs = Chain!StatAnswer

FailedForReason == pc = "failed" /\ ~virtual /\ ~fault => Chain!StatAnswer = "error"
\/ Chain!FalseImage \/ Chain!FalseKey

\* Which layers a mark has led to so far.
MarkMet ==
  /\ pc \in {"stat", "times", "key"} => ~Chain!IsLayer("masked") /\ ~Chain!IsLayer("keyed")
  /\ pc \in {"redump", "mask"} =>
       /\ Chain!IsLayer("masked") <=> Chain!NameIsIso /\ Chain!Mark = "dec"
       /\ Chain!IsLayer("keyed") <=> Chain!NameIsIso /\ Chain!Mark = "enc"
  /\ pc \in {"mask", "open"} => (Chain!IsLayer("keyed") => Chain!IsLayer("decrypted"))
  /\ pc = "open" =>
       /\ Chain!IsLayer("masked") <=> IF Chain!NameIsIso THEN Chain!Mark = "dec"
            ELSE Chain!Mark # "none"
       /\ Chain!NameIsIso /\ Chain!Mark = "enc" => Chain!IsLayer("keyed")

MaskedOnce == \A i, j \in DOMAIN layers : layers[i] = "masked" /\ layers[j] = "masked" => i = j

ChainAskedInv ==
  /\ disk \in Disks
  /\ FileThere /\ OpenersPassed /\ Told /\ OpenedAsTold /\ FailedForReason /\ MarkMet /\ MaskedOnce

\* What is asked for stays the same, and what follows from that alone.
LEMMA SameRequest ==
  ASSUME UNCHANGED Chain!request
  PROVE  /\ Chain!StatAnswer' = Chain!StatAnswer /\ Chain!FalseImage' = Chain!FalseImage
            /\ Chain!FalseKey' = Chain!FalseKey
         /\ Chain!Chd' = Chain!Chd /\ UNCHANGED <<disk, name, virtual>>
BY DEF Chain!request, Chain!StatAnswer, Chain!FalseImage, Chain!FalseKey, Chain!Chd, Chain!Has,
   Chain!Form

LEMMA SameLayers ==
  ASSUME UNCHANGED <<Chain!request, from, layers>>
  PROVE  /\ Chain!OpenedAs' = Chain!OpenedAs /\ Chain!NameIsIso' = Chain!NameIsIso
            /\ Chain!Mark' = Chain!Mark
         /\ \A e : Chain!IsLayer(e)' = Chain!IsLayer(e)
BY DEF Chain!request, Chain!OpenedAs, Chain!NameIsIso, Chain!Mark, Chain!IsDir, Chain!IsLayer,
   Chain!Has, Chain!Form

\* A step without a file, before or after which there is none.
LEMMA NoFileKeepsChainAskedInv ==
  ASSUME ChainAskedInv, UNCHANGED Chain!request, pc' \notin WrapPcs, layers' = <<>>, fault => fault',
         OpenersPassed', Told', FailedForReason'
  PROVE  ChainAskedInv'
<1>1. FileThere' /\ OpenedAsTold'
  BY DEF FileThere, OpenedAsTold
<1>2. MarkMet'
  BY DEF MarkMet, WrapPcs
<1>3. MaskedOnce'
  BY DEF MaskedOnce
<1>4. QED BY <1>1, <1>2, <1>3, SameRequest DEF ChainAskedInv

LEMMA InitChainAskedInv == Chain!Init => ChainAskedInv
<1>. SUFFICES ASSUME Chain!Init PROVE ChainAskedInv
  OBVIOUS
<1>1. pc = "idle" /\ layers = <<>> /\ announced = "unasked" /\ disk \in Disks
  BY DEF Chain!Init
<1>2. FileThere /\ OpenersPassed /\ Told /\ OpenedAsTold /\ FailedForReason /\ MarkMet
  BY <1>1 DEF FileThere, OpenersPassed, Told, OpenedAsTold, FailedForReason, MarkMet, WrapPcs
<1>3. MaskedOnce
  BY <1>1 DEF MaskedOnce
<1>4. QED BY <1>1, <1>2, <1>3 DEF ChainAskedInv

LEMMA StatKeepsChainAskedInv == ChainInv /\ ChainAskedInv
/\ (Chain!Stat \/ Chain!StatFails \/ Chain!Begin) => ChainAskedInv'
<1>. SUFFICES ASSUME ChainInv, ChainAskedInv, Chain!Stat \/ Chain!StatFails \/ Chain!Begin
                       PROVE ChainAskedInv'
  OBVIOUS
<1>1. /\ UNCHANGED <<Chain!request, layers>> /\ pc = "idle" /\ pc' \in {"idle", "viso"}
         /\ (fault => fault')
      /\ \/ announced' = announced /\ fault' = fault
         \/ fault' = TRUE
         \/ announced' = Chain!StatAnswer
  BY DEF Chain!Stat, Chain!StatFails, Chain!Begin
<1>2. layers' = <<>>
  BY <1>1 DEF ChainInv, NoFile
<1>3. Told'
  BY <1>1, SameRequest DEF ChainAskedInv, Told
<1>4. OpenersPassed' /\ FailedForReason' /\ pc' \notin WrapPcs
  BY <1>1 DEF OpenersPassed, FailedForReason, WrapPcs
<1>5. QED BY <1>1, <1>2, <1>3, <1>4, NoFileKeepsChainAskedInv

LEMMA SkipKeepsChainAskedInv == ChainInv /\ ChainAskedInv /\ Chain!NextOpener => ChainAskedInv'
<1>. SUFFICES ASSUME ChainInv, ChainAskedInv, Chain!NextOpener PROVE ChainAskedInv'
  OBVIOUS
<1>1. /\ UNCHANGED <<Chain!request, announced, layers, fault>>
      /\ \/ pc = "viso" /\ ~virtual /\ pc' = "chd"
         \/ pc = "chd" /\ ~Chain!Chd /\ pc' = "cso"
         \/ pc = "cso" /\ ~Chain!IsImage(name, Chain!Cso) /\ pc' = "zst"
         \/ pc = "zst" /\ ~Chain!IsImage(name, Chain!Zst) /\ pc' = "native"
  BY DEF Chain!NextOpener, Chain!Skip
<1>2. layers' = <<>>
  BY <1>1 DEF ChainInv, NoFile
<1>3. OpenersPassed'
  BY <1>1, SameRequest DEF ChainAskedInv, OpenersPassed
<1>4. Told' /\ FailedForReason' /\ pc' \notin WrapPcs
  BY <1>1, SameRequest DEF ChainAskedInv, Told, FailedForReason, WrapPcs
<1>5. QED BY <1>1, <1>2, <1>3, <1>4, NoFileKeepsChainAskedInv

\* An opener gives the file that Stat has told of, since both pass the same ones by.
LEMMA OpenKeepsChainAskedInv == ChainAskedInv
/\ (Chain!OpenViso \/ Chain!OpenChd \/ Chain!OpenCso \/ Chain!OpenZst \/ Chain!OpenNative)
  => ChainAskedInv'
<1>. SUFFICES ASSUME ChainAskedInv, Chain!OpenViso \/ Chain!OpenChd \/ Chain!OpenCso
                     \/ Chain!OpenZst \/ Chain!OpenNative PROVE ChainAskedInv'
  OBVIOUS
<1>1. PICK ls :
        /\ UNCHANGED <<Chain!request, announced, fault>> /\ pc' = "stat" /\ layers' = ls
        /\ \/ ls = <<"viso">> /\ virtual
           \/ ls = <<"native">> /\ held' /\ ~virtual /\ Chain!StatAnswer = "native"
           \/ \E f \in {"chd", "cso", "zst"} :
                ls = <<"native", f>> /\ held' /\ ~virtual /\ Chain!StatAnswer = f
  <2>1. \A nm : Chain!Form(nm) \in {"chd", "cso", "zst"} => Chain!Has(nm)
    BY DEF Chain!Form
  <2>2. CASE Chain!OpenViso
    BY <2>2 DEF Chain!OpenViso
  <2>3. CASE Chain!OpenChd
    BY <2>1, <2>3 DEF Chain!OpenChd, Chain!Opened, Chain!Chd, Chain!StatAnswer
  <2>4. CASE Chain!OpenCso
    <3>1. ~virtual /\ ~Chain!Chd /\ Chain!IsImage(name, Chain!Cso)
          /\ Chain!Form(Chain!Plain(name)) = "cso"
      BY <2>4 DEF Chain!OpenCso, Chain!OpenAs, ChainAskedInv, OpenersPassed
    <3>2. Chain!StatAnswer = "cso"
      BY <3>1 DEF Chain!StatAnswer, Chain!Chd
    <3>3. QED BY <2>4, <3>1, <3>2 DEF Chain!OpenCso, Chain!OpenAs, Chain!Opened
  <2>5. CASE Chain!OpenZst
    <3>1. ~virtual /\ ~Chain!Chd /\ ~Chain!IsImage(name, Chain!Cso)
          /\ Chain!IsImage(name, Chain!Zst) /\ Chain!Form(Chain!Plain(name)) = "zst"
      BY <2>5 DEF Chain!OpenZst, Chain!OpenAs, ChainAskedInv, OpenersPassed
    <3>2. Chain!StatAnswer = "zst"
      BY <3>1 DEF Chain!StatAnswer, Chain!Chd
    <3>3. QED BY <2>5, <3>1, <3>2 DEF Chain!OpenZst, Chain!OpenAs, Chain!Opened
  <2>6. CASE Chain!OpenNative
    <3>1. ~virtual /\ ~Chain!Chd /\ ~Chain!IsImage(name, Chain!Cso)
          /\ ~Chain!IsImage(name, Chain!Zst) /\ Chain!Has(name)
      BY <2>6 DEF Chain!OpenNative, ChainAskedInv, OpenersPassed
    <3>2. Chain!StatAnswer = "native"
      BY <3>1 DEF Chain!StatAnswer, Chain!Chd
    <3>3. QED BY <2>6, <3>1, <3>2 DEF Chain!OpenNative, Chain!Opened
  <2>7. QED BY <2>2, <2>3, <2>4, <2>5, <2>6
<1>2. \A e : Chain!IsLayer(e)' <=> Chain!Contains(ls, e)
  BY <1>1 DEF Chain!IsLayer
<1>3. \/ ls = <<"viso">> /\ \A e : Chain!IsLayer(e)' <=> e = "viso"
      \/ ls = <<"native">> /\ \A e : Chain!IsLayer(e)' <=> e = "native"
      \/ \E f \in {"chd", "cso", "zst"} : ls = <<"native", f>>
         /\ \A e : Chain!IsLayer(e)' <=> e \in {"native", f}
  BY <1>1, <1>2, OneLayer, TwoLayers
<1>4. FileThere'
  BY <1>1, <1>3, SameRequest DEF FileThere, WrapPcs
<1>5. OpenedAsTold'
  BY <1>1, <1>3, SameRequest DEF OpenedAsTold, Chain!OpenedAs
<1>6. MarkMet'
  BY <1>1, <1>3 DEF MarkMet
<1>7. OpenersPassed' /\ Told' /\ FailedForReason'
  BY <1>1, SameRequest DEF ChainAskedInv, OpenersPassed, Told, FailedForReason
<1>8. MaskedOnce'
  BY <1>1 DEF MaskedOnce
<1>9. QED BY <1>1, <1>4, <1>5, <1>6, <1>7, <1>8, SameRequest DEF ChainAskedInv

\* An opener that fails without a failure of the system was told by a name that
\* says image, or Stat has found nothing either.
LEMMA OpenFailsKeepsChainAskedInv ==
  ChainAskedInv /\ (Chain!VisoFails \/ Chain!ChdFails \/ Chain!CsoFails \/ Chain!ZstFails
  \/ Chain!NativeFails) => ChainAskedInv'
<1>. SUFFICES ASSUME ChainAskedInv, Chain!VisoFails \/ Chain!ChdFails \/ Chain!CsoFails
                     \/ Chain!ZstFails \/ Chain!NativeFails
     PROVE ChainAskedInv'
  OBVIOUS
<1>1. Chain!Fail /\ (fault => fault')
  BY DEF Chain!VisoFails, Chain!ChdFails, Chain!CsoFails, Chain!ZstFails, Chain!NativeFails,
     Chain!FailsAs
<1>2. UNCHANGED <<Chain!request, announced>> /\ layers' = <<>> /\ pc' = "failed"
  BY <1>1 DEF Chain!Fail
<1>3. virtual \/ fault' \/ Chain!StatAnswer = "error" \/ Chain!FalseImage
  <2>1. CASE Chain!VisoFails
    BY <2>1 DEF Chain!VisoFails
  <2>2. CASE Chain!ChdFails
    <3>1. SUFFICES ASSUME Chain!Chd, Chain!Form(name) # "chd", ~Chain!Has(name)
                            PROVE Chain!StatAnswer = "error"
      BY <2>2 DEF Chain!ChdFails, Chain!FalseImage
    <3>2. ~Chain!IsImage(name, Chain!Cso) /\ ~Chain!IsImage(name, Chain!Zst)
      BY <3>1 DEF Chain!Chd, Chain!IsImage, Chain!Cso, Chain!Zst
    <3>3. QED BY <3>1, <3>2 DEF Chain!StatAnswer
  <2>3. CASE Chain!CsoFails
    BY <2>3 DEF Chain!CsoFails, Chain!FailsAs, Chain!FalseImage, Chain!Form
  <2>4. CASE Chain!ZstFails
    BY <2>4 DEF Chain!ZstFails, Chain!FailsAs, Chain!FalseImage, Chain!Form
  <2>5. CASE Chain!NativeFails
    <3>1. SUFFICES ASSUME ~Chain!Has(name), ~virtual PROVE Chain!StatAnswer = "error"
      BY <2>5 DEF Chain!NativeFails
    <3>2. ~Chain!IsImage(name, Chain!Cso) /\ ~Chain!IsImage(name, Chain!Zst)
      BY <2>5 DEF Chain!NativeFails, ChainAskedInv, OpenersPassed
    <3>3. Chain!Form(name) # "chd"
      BY <3>1 DEF Chain!Form
    <3>4. QED BY <3>1, <3>2, <3>3 DEF Chain!StatAnswer
  <2>6. QED BY <2>1, <2>2, <2>3, <2>4, <2>5
<1>4. FailedForReason'
  BY <1>2, <1>3, SameRequest DEF FailedForReason
<1>5. OpenersPassed' /\ Told' /\ pc' \notin WrapPcs
  BY <1>1, <1>2, SameRequest DEF ChainAskedInv, OpenersPassed, Told, WrapPcs
<1>6. QED BY <1>1, <1>2, <1>4, <1>5, NoFileKeepsChainAskedInv

\* And so a wrapper, of a key that does not fit.
LEMMA WrapFailsKeepsChainAskedInv ==
  ChainInv /\ ChainAskedInv /\ (Chain!StatOpenedFails \/ Chain!ExtractKeyFails \/ Chain!DecryptFails
  \/ Chain!MaskFails) => ChainAskedInv'
<1>. SUFFICES ASSUME ChainInv, ChainAskedInv, Chain!StatOpenedFails \/ Chain!ExtractKeyFails
                     \/ Chain!DecryptFails \/ Chain!MaskFails
     PROVE ChainAskedInv'
  OBVIOUS
<1>1. Chain!Fail /\ (fault => fault')
  BY DEF Chain!StatOpenedFails, Chain!ExtractKeyFails, Chain!DecryptFails, Chain!MaskFails,
     Chain!FailLosing
<1>2. UNCHANGED <<Chain!request, announced>> /\ layers' = <<>> /\ pc' = "failed"
  BY <1>1 DEF Chain!Fail
<1>3. virtual \/ fault' \/ Chain!FalseKey
  <2>1. SUFFICES ASSUME ~virtual, ~fault', Chain!DecryptFails PROVE Chain!FalseKey
    BY DEF Chain!StatOpenedFails, Chain!ExtractKeyFails, Chain!MaskFails
  <2>2. held
    BY <2>1 DEF ChainAskedInv, FileThere, WrapPcs, Chain!DecryptFails
  <2>3. QED BY <2>1, <2>2, BadKeyIsFalse
<1>4. FailedForReason'
  BY <1>2, <1>3, SameRequest DEF FailedForReason
<1>5. OpenersPassed' /\ Told' /\ pc' \notin WrapPcs
  BY <1>1, <1>2, SameRequest DEF ChainAskedInv, OpenersPassed, Told, WrapPcs
<1>6. QED BY <1>1, <1>2, <1>4, <1>5, NoFileKeepsChainAskedInv

\* One more layer, which masks only what is not masked yet.
LEMMA LayerAdded ==
  ASSUME LayersType, MaskedOnce, NEW a \in LayerNames, layers' = layers \o <<a>>,
         a = "masked" => ~Chain!IsLayer("masked")
  PROVE  MaskedOnce'
<1>1. layers \in Seq(LayerNames) /\ <<a>> \in Seq(LayerNames) /\ Len(<<a>>) = 1 /\ <<a>>[1] = a
  BY DEF LayersType
<1>2. /\ DOMAIN layers' = 1..(Len(layers) + 1) /\ DOMAIN layers = 1..Len(layers) /\ Len(layers) \in Nat
      /\ layers'[Len(layers) + 1] = a
      /\ \A i \in 1..Len(layers) : layers'[i] = layers[i]
  BY <1>1
<1>3. a = "masked" => \A i \in 1..Len(layers) : layers[i] # "masked"
  BY DEF Chain!IsLayer, Chain!Contains
<1>4. ASSUME NEW i \in 1..(Len(layers) + 1), NEW j \in 1..(Len(layers) + 1),
             layers'[i] = "masked", layers'[j] = "masked"
      PROVE  i = j
  <2>1. CASE i <= Len(layers) /\ j <= Len(layers)
    <3>1. i \in DOMAIN layers /\ j \in DOMAIN layers
      BY <1>2, <2>1
    <3>2. QED BY <1>2, <1>4, <3>1 DEF MaskedOnce
  <2>2. CASE i = Len(layers) + 1 /\ j <= Len(layers)
    BY <1>2, <1>3, <1>4, <2>2
  <2>3. CASE i <= Len(layers) /\ j = Len(layers) + 1
    BY <1>2, <1>3, <1>4, <2>3
  <2>4. QED BY <1>2, <2>1, <2>2, <2>3
<1>5. QED BY <1>2, <1>4 DEF MaskedOnce

\* The wrappers add the layers that the mark asks for, each once.
LEMMA WrapKeepsChainAskedInv ==
  ChainInv /\ ChainAskedInv /\ (Chain!StatOpened \/ Chain!WrapTimes \/ Chain!ExtractKey
  \/ Chain!Decrypt \/ Chain!Mask) => ChainAskedInv'
<1>. SUFFICES ASSUME ChainInv, ChainAskedInv, Chain!StatOpened \/ Chain!WrapTimes
                     \/ Chain!ExtractKey \/ Chain!Decrypt \/ Chain!Mask
     PROVE ChainAskedInv'
  OBVIOUS
<1>1. PICK ls, to :
        /\ Chain!Wrap(ls, to)
        /\ \/ pc = "stat" /\ to = "times" /\ ls \in {<<>>, <<"dir">>}
           \/ pc = "times" /\ to = "key" /\ ls = <<"times">>
           \/ /\ pc = "key" /\ to = "redump" /\ ls \in {<<>>, <<"keyed">>, <<"masked">>}
              /\ ls = <<"keyed">> <=> Chain!NameIsIso /\ Chain!Mark = "enc"
              /\ ls = <<"masked">> <=> Chain!NameIsIso /\ Chain!Mark = "dec"
           \/ /\ pc = "redump" /\ to = "mask" /\ ls \in {<<>>, <<"decrypted">>}
              /\ ls = <<>> => Chain!Key = "none"
           \/ /\ pc = "mask" /\ to = "open" /\ ls \in {<<>>, <<"masked">>}
              /\ ls = <<"masked">> <=> ~(Chain!IsLayer("masked") \/ Chain!NameIsIso
                 \/ Chain!Mark = "none")
  <2>1. CASE Chain!StatOpened
    BY <2>1 DEF Chain!StatOpened
  <2>2. CASE Chain!WrapTimes
    BY <2>2 DEF Chain!WrapTimes
  <2>3. CASE Chain!ExtractKey
    BY <2>3 DEF Chain!ExtractKey
  <2>4. CASE Chain!Decrypt
    BY <2>4 DEF Chain!Decrypt
  <2>5. CASE Chain!Mask
    BY <2>5 DEF Chain!Mask
  <2>6. QED BY <2>1, <2>2, <2>3, <2>4, <2>5
<1>2. ls = <<>> \/ \E a \in {"dir", "times", "keyed", "masked", "decrypted"} : ls = <<a>>
  BY <1>1
<1>3. ls \in Seq(LayerNames)
  <2>1. \A a \in LayerNames : <<a>> \in Seq(LayerNames)
    OBVIOUS
  <2>2. CASE ls = <<>>
    BY <2>2
  <2>3. CASE ls # <<>>
    <3>1. PICK a \in LayerNames : ls = <<a>>
      BY <1>2, <2>3 DEF LayerNames
    <3>2. QED BY <2>1, <3>1, Zenon
  <2>4. QED BY <2>2, <2>3
<1>4. \A e : Chain!Contains(ls, e) <=> ls = <<e>>
  <2>1. \A e : <<e>> # <<>>
    OBVIOUS
  <2>2. CASE ls = <<>>
    BY <2>1, <2>2, NoLayers
  <2>3. CASE ls # <<>>
    <3>1. PICK a : ls = <<a>>
      BY <1>2, <2>3
    <3>2. \A e : <<a>> = <<e>> <=> e = a
      OBVIOUS
    <3>3. QED BY <3>1, <3>2, OneLayer
  <2>4. QED BY <2>2, <2>3
<1>5. \A e \in {"viso", "cso", "zst", "chd"} : ls # <<e>>
  BY <1>1
<1>6. /\ \A e : Chain!IsLayer(e)' <=> Chain!IsLayer(e) \/ ls = <<e>>
      /\ pc' = to /\ UNCHANGED <<Chain!request, announced, held, from, fault>>
  BY <1>1, <1>3, <1>4, WrapLayers DEF ChainInv, Chain!request
<1>7. (Chain!Mark' = Chain!Mark) /\ (Chain!NameIsIso' <=> Chain!NameIsIso)
  <2>1. LayersType /\ \A e \in {"viso", "cso", "zst"} : ~Chain!Contains(ls, e)
    BY <1>4, <1>5 DEF ChainInv
  <2>2. QED BY <1>1, <1>3, <2>1, WrapKeepsFile
<1>8. pc \in WrapPcs /\ pc' \in WrapPcs /\ pc # "open" /\ pc' # "stat"
  BY <1>1, <1>6 DEF WrapPcs
<1>9. FileThere' /\ OpenersPassed' /\ Told' /\ FailedForReason' /\ OpenedAsTold'
  <2>1. \A e \in {"viso", "cso", "zst", "chd"} : Chain!IsLayer(e)' <=> Chain!IsLayer(e)
    BY <1>5, <1>6
  <2>2. Chain!OpenedAs' = Chain!OpenedAs
    BY <2>1 DEF Chain!OpenedAs
  <2>3. FileThere' /\ OpenedAsTold'
    BY <1>6, <1>8, <2>1, <2>2, SameRequest DEF ChainAskedInv, FileThere, OpenedAsTold
  <2>4. Told'
    BY <1>6, SameRequest DEF ChainAskedInv, Told
  <2>5. QED BY <1>6, <1>8, <2>3, <2>4 DEF OpenersPassed, FailedForReason, WrapPcs
<1>10. MaskedOnce'
  <2>1. CASE ls = <<>>
    <3>1. layers' = layers
      BY <1>1, <2>1 DEF Chain!Wrap, ChainInv, LayersType
    <3>2. QED BY <3>1 DEF ChainAskedInv, MaskedOnce
  <2>2. CASE ls # <<>>
    <3>1. PICK a \in LayerNames : ls = <<a>>
      BY <1>2, <2>2 DEF LayerNames
    <3>2. ls = <<"masked">> => ~Chain!IsLayer("masked")
      BY <1>1 DEF ChainAskedInv, MarkMet
    <3>3. layers' = layers \o <<a>>
      BY <1>1, <3>1 DEF Chain!Wrap
    <3>4. QED BY <3>1, <3>2, <3>3, LayerAdded DEF ChainAskedInv, ChainInv
  <2>3. QED BY <2>1, <2>2
<1>11. MarkMet'
  <2>1. CASE pc = "stat" \/ pc = "times"
    BY <1>1, <1>6, <2>1 DEF ChainAskedInv, MarkMet
  <2>2. CASE pc = "key"
    <3>1. /\ pc' = "redump" /\ ~Chain!IsLayer("masked") /\ ~Chain!IsLayer("keyed")
          /\ ls = <<"keyed">> <=> Chain!NameIsIso /\ Chain!Mark = "enc"
          /\ ls = <<"masked">> <=> Chain!NameIsIso /\ Chain!Mark = "dec"
      BY <1>1, <1>6, <2>2 DEF ChainAskedInv, MarkMet
    <3>2. QED BY <1>6, <1>7, <3>1 DEF MarkMet
  <2>3. CASE pc = "redump"
    <3>1. /\ pc' = "mask" /\ ls # <<"masked">> /\ ls # <<"keyed">>
          /\ Chain!IsLayer("masked") <=> Chain!NameIsIso /\ Chain!Mark = "dec"
          /\ Chain!IsLayer("keyed") <=> Chain!NameIsIso /\ Chain!Mark = "enc"
          /\ Chain!IsLayer("keyed") => ls = <<"decrypted">>
      BY <1>1, <1>6, <2>3 DEF ChainAskedInv, MarkMet, Chain!Key
    <3>2. QED BY <1>6, <1>7, <3>1 DEF MarkMet
  <2>4. CASE pc = "mask"
    <3>1. /\ pc' = "open" /\ ls # <<"keyed">>
          /\ ls = <<"masked">> <=> ~(Chain!IsLayer("masked") \/ Chain!NameIsIso \/ Chain!Mark = "none")
          /\ Chain!IsLayer("masked") <=> Chain!NameIsIso /\ Chain!Mark = "dec"
          /\ Chain!IsLayer("keyed") <=> Chain!NameIsIso /\ Chain!Mark = "enc"
          /\ Chain!IsLayer("keyed") => Chain!IsLayer("decrypted")
      BY <1>1, <1>6, <2>4 DEF ChainAskedInv, MarkMet
    <3>2. Chain!IsLayer("masked")' <=> IF Chain!NameIsIso THEN Chain!Mark = "dec"
            ELSE Chain!Mark # "none"
      BY <1>6, <3>1
    <3>3. QED BY <1>6, <1>7, <3>1, <3>2 DEF MarkMet
  <2>5. QED BY <1>1, <2>1, <2>2, <2>3, <2>4
<1>12. QED BY <1>6, <1>9, <1>10, <1>11, SameRequest DEF ChainAskedInv

LEMMA CloseKeepsChainAskedInv == ChainAskedInv /\ Chain!Close => ChainAskedInv'
<1>. SUFFICES ASSUME ChainAskedInv, Chain!Close PROVE ChainAskedInv'
  OBVIOUS
<1>1. UNCHANGED <<Chain!request, announced, fault>> /\ layers' = <<>> /\ pc' = "closed"
  BY DEF Chain!Close
<1>2. OpenersPassed' /\ Told' /\ FailedForReason' /\ pc' \notin WrapPcs
  BY <1>1, SameRequest DEF ChainAskedInv, OpenersPassed, Told, FailedForReason, WrapPcs
<1>3. QED BY <1>1, <1>2, NoFileKeepsChainAskedInv

LEMMA StutterKeepsChainAskedInv == ChainAskedInv /\ UNCHANGED Chain!vars => ChainAskedInv'
<1>. SUFFICES ASSUME ChainAskedInv, UNCHANGED Chain!vars PROVE ChainAskedInv'
  OBVIOUS
<1>1. UNCHANGED <<Chain!request, announced, pc, held, from, layers, fault>>
  BY DEF Chain!vars
<1>2. (FileThere /\ OpenersPassed /\ Told /\ OpenedAsTold /\ FailedForReason /\ MarkMet /\ MaskedOnce)'
  BY <1>1, SameRequest, SameLayers DEF ChainAskedInv, FileThere, OpenersPassed, Told, OpenedAsTold,
     FailedForReason, MarkMet, MaskedOnce
<1>3. QED BY <1>1, <1>2, SameRequest DEF ChainAskedInv

LEMMA NextKeepsChainAskedInv == ChainInv /\ ChainAskedInv /\ [Chain!Next]_(Chain!vars) => ChainAskedInv'
BY StatKeepsChainAskedInv, SkipKeepsChainAskedInv, OpenKeepsChainAskedInv,
   OpenFailsKeepsChainAskedInv, WrapFailsKeepsChainAskedInv,
   WrapKeepsChainAskedInv, CloseKeepsChainAskedInv, StutterKeepsChainAskedInv DEF Chain!Next

LEMMA AlwaysChainAskedInv == Chain!Spec => [](ChainInv /\ ChainAskedInv)
<1>1. Chain!Init => ChainInv /\ ChainAskedInv
  BY InitChainInv, InitChainAskedInv
<1>2. ChainInv /\ ChainAskedInv /\ [Chain!Next]_(Chain!vars) => ChainInv' /\ ChainAskedInv'
  BY NextKeepsChainInv, NextKeepsChainAskedInv
<1>3. QED BY <1>1, <1>2, PTL DEF Chain!Spec

\* For every served directory and every name: what FS.Stat and a listing announce is
\* what FS.Open gives, where the system does not fail; it refuses what was announced
\* only for a name that says image and is none, or a key that does not fit.
THEOREM ChainOpensWhatItAnnounces == Chain!Spec => []Chain!OpensAsAnnounced
<1>1. ChainAskedInv => Chain!OpensAsAnnounced
  BY DEF ChainAskedInv, Chain!OpensAsAnnounced, Told, OpenedAsTold, FailedForReason, WrapPcs
<1>2. QED BY <1>1, AlwaysChainAskedInv, PTL

\* For every served directory and every name: a file with a 3k3y mark is masked by
\* exactly one of the two wrappers that may, but for an encrypted .iso, which is
\* decrypted.
THEOREM ChainMasksOnce == Chain!DisksAssumption => (Chain!Spec => []Chain!MarkMaskedOnce)
<1>. SUFFICES ASSUME Chain!DisksAssumption PROVE Chain!Spec => []Chain!MarkMaskedOnce
  OBVIOUS
<1>1. ChainInv /\ ChainAskedInv => Chain!MarkMaskedOnce
  <2>1. SUFFICES ASSUME ChainInv, ChainAskedInv, pc = "open" PROVE Chain!MarkMaskedOnce
    BY DEF Chain!MarkMaskedOnce
  <2>2. /\ Chain!IsLayer("masked") <=> IF Chain!NameIsIso THEN Chain!Mark = "dec"
             ELSE Chain!Mark # "none"
        /\ Chain!NameIsIso /\ Chain!Mark = "enc" => Chain!IsLayer("decrypted")
    BY <2>1 DEF ChainAskedInv, MarkMet
  <2>3. Chain!Mark \in {"none", "enc", "dec"}
    <3>1. CASE Chain!IsDir \/ Chain!IsLayer("viso")
      BY <3>1 DEF Chain!Mark
    <3>2. CASE ~(Chain!IsDir \/ Chain!IsLayer("viso"))
      <4>1. Chain!Has(from) /\ disk \in Disks
        BY <2>1, <3>2 DEF ChainAskedInv, FileThere, WrapPcs, ChainInv, HandleOfName
      <4>2. QED BY <3>2, <4>1 DEF Chain!Mark, Chain!Has, Chain!DisksAssumption
    <3>3. QED BY <3>1, <3>2
  <2>4. Chain!IsLayer("masked") <=> Chain!Mark # "none" /\ ~(Chain!Mark = "enc" /\ Chain!NameIsIso)
    BY <2>2, <2>3
  <2>5. QED BY <2>1, <2>2, <2>4 DEF ChainAskedInv, MaskedOnce, Chain!MarkMaskedOnce
<1>2. QED BY <1>1, AlwaysChainAskedInv, PTL
-----------------------------------------------------------------------------
(* Its variables' types.                                                   *)

ChainPcs ==
  {"idle", "viso", "chd", "cso", "zst", "native", "stat", "times", "key", "redump", "mask",
   "open", "failed", "closed"}
FileNames == ChainNames \cup {Chain!Plain(m) : m \in ChainNames} \cup {<<>>}

\* What a step does to each variable but the layers and what was lost.
LEMMA ChainStep ==
  ASSUME [Chain!Next]_(Chain!vars)
  PROVE  /\ disk' = disk /\ name' = name /\ from' \in {from, name, Chain!Plain(name)}
         /\ held' \in {held, TRUE, FALSE} /\ fault' \in {fault, TRUE}
         /\ announced' \in {announced, "unasked", "chd", "cso", "zst", "native", "error"}
         /\ pc' \in {pc} \cup ChainPcs
<1>. USE DEF Chain!Next, Chain!Stat, Chain!StatFails, Chain!Begin, Chain!OpenViso, Chain!VisoFails,
    Chain!OpenChd, Chain!ChdFails, Chain!OpenCso, Chain!CsoFails, Chain!OpenZst, Chain!ZstFails,
    Chain!NextOpener, Chain!OpenNative, Chain!NativeFails, Chain!StatOpened, Chain!StatOpenedFails,
    Chain!WrapTimes, Chain!ExtractKey, Chain!ExtractKeyFails, Chain!Decrypt, Chain!DecryptFails,
    Chain!Mask, Chain!MaskFails, Chain!Close, Chain!OpenAs, Chain!FailsAs, Chain!Opened, Chain!Fail,
    Chain!FailLosing, Chain!Skip, Chain!Wrap, Chain!vars
<1>1. disk' = disk /\ name' = name
  BY DEF Chain!request
<1>2. from' \in {from, name, Chain!Plain(name)}
  OBVIOUS
<1>3. held' \in {held, TRUE, FALSE} /\ fault' \in {fault, TRUE}
  BY Zenon
<1>4. announced' \in {announced, "unasked", "chd", "cso", "zst", "native", "error"}
  BY DEF Chain!StatAnswer
<1>5. pc' \in {pc} \cup ChainPcs
  BY DEF ChainPcs
<1>6. QED BY ONLY <1>1, <1>2, <1>3, <1>4, <1>5

LEMMA NextKeepsChainType ==
  ASSUME ChainInv, ChainInv', Chain!TypeOK, [Chain!Next]_(Chain!vars)
  PROVE  Chain!TypeOK'
<1>1. disk \in Disks /\ name \in ChainNames /\ from \in FileNames
  BY Zenon DEF Chain!TypeOK, FileNames
<1>2. disk' \in Disks /\ name' \in ChainNames /\ from' \in FileNames
  BY <1>1, ChainStep, Zenon DEF FileNames
<1>3. held' \in BOOLEAN /\ fault' \in BOOLEAN
  <2>1. held \in BOOLEAN /\ fault \in BOOLEAN
    BY Zenon DEF Chain!TypeOK
  <2>2. QED BY <2>1, ChainStep, Zenon
<1>4. announced' \in {"unasked", "chd", "cso", "zst", "native", "error"} /\ pc' \in ChainPcs
  BY ChainStep DEF Chain!TypeOK, ChainPcs
<1>5. layers' \in Seq(LayerNames)
  BY DEF ChainInv, LayersType
<1>6. QED BY <1>2, <1>3, <1>4, <1>5, Zenon DEF Chain!TypeOK, LayerNames, ChainPcs, FileNames

LEMMA InitChainType == Chain!Init => Chain!TypeOK
<1>. SUFFICES ASSUME Chain!Init PROVE Chain!TypeOK
  OBVIOUS
<1>1. disk \in Disks /\ name \in ChainNames /\ from = <<>> /\ layers = <<>>
      /\ announced = "unasked" /\ pc = "idle" /\ held = FALSE /\ fault = FALSE
  BY DEF Chain!Init
<1>2. layers \in Seq(LayerNames)
  BY <1>1
<1>3. from \in FileNames
  BY <1>1, Zenon DEF FileNames
<1>4. QED BY <1>1, <1>2, <1>3, Zenon DEF Chain!TypeOK, LayerNames, FileNames

LEMMA ChainTypeCorrect == Chain!Spec => []Chain!TypeOK
<1>1. ChainInv /\ ChainInv' /\ Chain!TypeOK /\ [Chain!Next]_(Chain!vars) => Chain!TypeOK'
  BY NextKeepsChainType
<1>2. QED BY <1>1, InitChainType, AlwaysChainInv, PTL DEF Chain!Spec
-----------------------------------------------------------------------------
(* Each component behaves in Images as its own specification says.         *)

\* A virtual image, as it was laid out.
LEMMA VisoBehaves == Spec => ([]~IsViso \/ Viso!Spec)
<1>1. Init => (IsViso => Viso!Init)
  BY DEF Init, InitViso, InitLayout, InitChd, InitChain, InitEncrypted, InitCso,
         IsViso, IsLayout, IsChd, IsChain, IsEncrypted, IsCso
<1>2. IsViso /\ [Next]_vars => IsViso' /\ [Viso!Next]_(Viso!vars)
  <2>1. SUFFICES ASSUME IsViso, [Next]_vars PROVE IsViso' /\ [Viso!Next]_(Viso!vars)
    OBVIOUS
  <2>2. CASE Next
    BY <2>1, <2>2 DEF Next, NextViso, NextLayout, NextChd, NextChain, NextEncrypted, NextCso,
                      IsViso, IsLayout, IsChd, IsChain, IsEncrypted, IsCso
  <2>3. CASE UNCHANGED vars
    BY <2>1, <2>3 DEF vars, ofViso, IsViso, Viso!vars, Viso!call
  <2>4. QED BY <2>1, <2>2, <2>3
<1>3. ~IsViso /\ [Next]_vars => ~IsViso'
  BY DEF Next, vars, IsViso
<1>4. QED BY <1>1, <1>2, <1>3, PTL DEF Spec, Viso!Spec

\* The layout of a virtual image.
LEMMA LayoutBehaves == Spec => ([]~IsLayout \/ Layout!Spec)
<1>1. Init => (IsLayout => Layout!Init)
  BY DEF Init, InitViso, InitLayout, InitChd, InitChain, InitEncrypted, InitCso,
         IsViso, IsLayout, IsChd, IsChain, IsEncrypted, IsCso
<1>2. IsLayout /\ [Next]_vars => IsLayout' /\ [Layout!Next]_(Layout!vars)
  <2>1. SUFFICES ASSUME IsLayout, [Next]_vars PROVE IsLayout' /\ [Layout!Next]_(Layout!vars)
    OBVIOUS
  <2>2. CASE Next
    BY <2>1, <2>2 DEF Next, NextViso, NextLayout, NextChd, NextChain, NextEncrypted, NextCso,
                      IsViso, IsLayout, IsChd, IsChain, IsEncrypted, IsCso
  <2>3. CASE UNCHANGED vars
    BY <2>1, <2>3 DEF vars, ofLayout, IsLayout, Layout!vars, Layout!input, Layout!scanned,
       Layout!placed, Layout!encoded
  <2>4. QED BY <2>1, <2>2, <2>3
<1>3. ~IsLayout /\ [Next]_vars => ~IsLayout'
  BY DEF Next, vars, IsLayout
<1>4. QED BY <1>1, <1>2, <1>3, PTL DEF Spec, Layout!Spec

\* A CHD image, of those that libchdr takes.
LEMMA ChdBehaves == Spec => ([]~IsChd \/ Chd!Spec)
<1>1. Init => (IsChd => Chd!Init)
  BY DEF Init, InitViso, InitLayout, InitChd, InitChain, InitEncrypted, InitCso,
         IsViso, IsLayout, IsChd, IsChain, IsEncrypted, IsCso
<1>2. IsChd /\ [Next]_vars => IsChd' /\ [Chd!Next]_(Chd!vars)
  <2>1. SUFFICES ASSUME IsChd, [Next]_vars PROVE IsChd' /\ [Chd!Next]_(Chd!vars)
    OBVIOUS
  <2>2. CASE Next
    BY <2>1, <2>2 DEF Next, NextViso, NextLayout, NextChd, NextChain, NextEncrypted, NextCso,
                      IsViso, IsLayout, IsChd, IsChain, IsEncrypted, IsCso
  <2>3. CASE UNCHANGED vars
    BY <2>1, <2>3 DEF vars, ofChd, IsChd, Chd!vars, Chd!cache, Chd!call
  <2>4. QED BY <2>1, <2>2, <2>3
<1>3. ~IsChd /\ [Next]_vars => ~IsChd'
  BY DEF Next, vars, IsChd
<1>4. QED BY <1>1, <1>2, <1>3, PTL DEF Spec, Chd!Spec

\* Opening a name on a disk.
LEMMA ChainBehaves == Spec => ([]~IsChain \/ Chain!Spec)
<1>1. Init => (IsChain => Chain!Init)
  BY DEF Init, InitViso, InitLayout, InitChd, InitChain, InitEncrypted, InitCso,
         IsViso, IsLayout, IsChd, IsChain, IsEncrypted, IsCso
<1>2. IsChain /\ [Next]_vars => IsChain' /\ [Chain!Next]_(Chain!vars)
  <2>1. SUFFICES ASSUME IsChain, [Next]_vars PROVE IsChain' /\ [Chain!Next]_(Chain!vars)
    OBVIOUS
  <2>2. CASE Next
    BY <2>1, <2>2 DEF Next, NextViso, NextLayout, NextChd, NextChain, NextEncrypted, NextCso,
                      IsViso, IsLayout, IsChd, IsChain, IsEncrypted, IsCso
  <2>3. CASE UNCHANGED vars
    BY <2>1, <2>3 DEF vars, ofChain, IsChain, Chain!vars, Chain!request
  <2>4. QED BY <2>1, <2>2, <2>3
<1>3. ~IsChain /\ [Next]_vars => ~IsChain'
  BY DEF Next, vars, IsChain
<1>4. QED BY <1>1, <1>2, <1>3, PTL DEF Spec, Chain!Spec

\* An image that is decrypted or masked, whatever its map.
LEMMA EncryptedBehaves == Spec => ([]~IsEncrypted \/ Iso!Spec)
<1>1. Init => (IsEncrypted => Iso!Init)
  BY DEF Init, InitViso, InitLayout, InitChd, InitChain, InitEncrypted, InitCso,
         IsViso, IsLayout, IsChd, IsChain, IsEncrypted, IsCso
<1>2. IsEncrypted /\ [Next]_vars => IsEncrypted' /\ [Iso!Next]_(Iso!vars)
  <2>1. SUFFICES ASSUME IsEncrypted, [Next]_vars PROVE IsEncrypted' /\ [Iso!Next]_(Iso!vars)
    OBVIOUS
  <2>2. CASE Next
    BY <2>1, <2>2 DEF Next, NextViso, NextLayout, NextChd, NextChain, NextEncrypted, NextCso,
                      IsViso, IsLayout, IsChd, IsChain, IsEncrypted, IsCso
  <2>3. CASE UNCHANGED vars
    BY <2>1, <2>3 DEF vars, ofEncrypted, IsEncrypted, Iso!vars, Iso!call
  <2>4. QED BY <2>1, <2>2, <2>3
<1>3. ~IsEncrypted /\ [Next]_vars => ~IsEncrypted'
  BY DEF Next, vars, IsEncrypted
<1>4. QED BY <1>1, <1>2, <1>3, PTL DEF Spec, Iso!Spec

\* A compressed image, whatever its index.
LEMMA CsoBehaves == Spec => ([]~IsCso \/ Cso!Spec)
<1>1. Init => (IsCso => Cso!Init)
  BY DEF Init, InitViso, InitLayout, InitChd, InitChain, InitEncrypted, InitCso,
         IsViso, IsLayout, IsChd, IsChain, IsEncrypted, IsCso
<1>2. IsCso /\ [Next]_vars => IsCso' /\ [Cso!Next]_(Cso!vars)
  <2>1. SUFFICES ASSUME IsCso, [Next]_vars PROVE IsCso' /\ [Cso!Next]_(Cso!vars)
    OBVIOUS
  <2>2. CASE Next
    BY <2>1, <2>2 DEF Next, NextViso, NextLayout, NextChd, NextChain, NextEncrypted, NextCso,
                      IsViso, IsLayout, IsChd, IsChain, IsEncrypted, IsCso
  <2>3. CASE UNCHANGED vars
    BY <2>1, <2>3 DEF vars, ofCso, IsCso, Cso!vars, Cso!index, Cso!cached, Cso!call
  <2>4. QED BY <2>1, <2>2, <2>3
<1>3. ~IsCso /\ [Next]_vars => ~IsCso'
  BY DEF Next, vars, IsCso
<1>4. QED BY <1>1, <1>2, <1>3, PTL DEF Spec, Cso!Spec
-----------------------------------------------------------------------------

\* What a session reads of a virtual image are the bytes of its structures, files and
\* zeros, in their places.
THEOREM ImagesVisoReadsTheImage == Spec => []VisoReadsTheImage
<1>1. Viso!Spec => []Viso!ReadsTheImage
  <2>1. VisoInv => Viso!ReadsTheImage
    BY DEF VisoInv
  <2>2. QED BY <2>1, VisoAssumption, AlwaysVisoInv, PTL
<1>2. (~IsViso => VisoReadsTheImage) /\ (Viso!ReadsTheImage => VisoReadsTheImage)
  BY DEF VisoReadsTheImage
<1>3. QED BY <1>1, <1>2, VisoBehaves, PTL

\* The reads it is made for fill the buffer, unless a file fails.
THEOREM ImagesVisoTidyReadsFill == Spec => []VisoTidyReadsFill
<1>1. Viso!Spec => []Viso!TidyReadsFill
  <2>1. VisoInv => Viso!TidyReadsFill
    BY DEF VisoInv
  <2>2. QED BY <2>1, VisoAssumption, AlwaysVisoInv, PTL
<1>2. (~IsViso => VisoTidyReadsFill) /\ (Viso!TidyReadsFill => VisoTidyReadsFill)
  BY DEF VisoTidyReadsFill
<1>3. QED BY <1>1, <1>2, VisoBehaves, PTL

\* The directory records of a virtual image point to where its directories are.
THEOREM ImagesVisoDirectoriesFound == Spec => []VisoDirectoriesFound
<1>1. Layout!Spec => []Layout!DirectoriesFound
  BY LayoutAssumption, Layout!LayoutDirectories DEF Layout!SizesAssumption
<1>2. (~IsLayout => VisoDirectoriesFound) /\ (Layout!DirectoriesFound => VisoDirectoriesFound)
  BY DEF VisoDirectoriesFound
<1>3. QED BY <1>1, <1>2, LayoutBehaves, PTL

\* Its file records point to its files, in as many extents as each needs, where
\* nothing else is.
THEOREM ImagesVisoFilesFound == Spec => []VisoFilesFound
<1>1. Layout!Spec => []Layout!FilesFound
  BY LayoutAssumption, Layout!LayoutFiles DEF Layout!SizesAssumption
<1>2. (~IsLayout => VisoFilesFound) /\ (Layout!FilesFound => VisoFilesFound)
  BY DEF VisoFilesFound
<1>3. QED BY <1>1, <1>2, LayoutBehaves, PTL

\* Its descriptors and path tables lead to its directories.
THEOREM ImagesVisoPathTablesLead == Spec => []VisoPathTablesLead
<1>1. Layout!Spec => []Layout!PathTablesLead
  BY LayoutAssumption, Layout!LayoutPathTables DEF Layout!SizesAssumption
<1>2. (~IsLayout => VisoPathTablesLead) /\ (Layout!PathTablesLead => VisoPathTablesLead)
  BY DEF VisoPathTablesLead
<1>3. QED BY <1>1, <1>2, LayoutBehaves, PTL

\* Reading a CHD image of a session gives its bytes, across hunks and after failures.
THEOREM ImagesChdReadsTheImage == Spec => []ChdReadsTheImage
<1>1. Chd!Spec => []Chd!ReadsTheImage
  BY ChdAssumption, Chd!ChdReadsItsImage
<1>2. (~IsChd => ChdReadsTheImage) /\ (Chd!ReadsTheImage => ChdReadsTheImage)
  BY DEF ChdReadsTheImage
<1>3. QED BY <1>1, <1>2, ChdBehaves, PTL

\* And it comes to the end.
THEOREM ImagesChdReadsOn == Spec => []ChdReadsOn
<1>1. Chd!Spec => []Chd!ReadsOn
  BY ChdAssumption, Chd!ChdComesToItsEnd
<1>2. (~IsChd => ChdReadsOn) /\ (Chd!ReadsOn => ChdReadsOn)
  BY DEF ChdReadsOn
<1>3. QED BY <1>1, <1>2, ChdBehaves, PTL

\* It is as large as was announced.
THEOREM ImagesChdSizeAsAnnounced == Spec => []ChdSizeAsAnnounced
<1>1. Chd!Spec => []Chd!SizeAsAnnounced
  BY ChdAssumption, Chd!ChdHasAnnouncedSize
<1>2. (~IsChd => ChdSizeAsAnnounced) /\ (Chd!SizeAsAnnounced => ChdSizeAsAnnounced)
  BY DEF ChdSizeAsAnnounced
<1>3. QED BY <1>1, <1>2, ChdBehaves, PTL

\* The chain of openers gives what it announced, on every disk.
THEOREM ImagesChainOpensAsAnnounced == Spec => []ChainOpensAsAnnounced
<1>1. Chain!Spec => []Chain!OpensAsAnnounced
  BY ChainOpensWhatItAnnounces
<1>2. (~IsChain => ChainOpensAsAnnounced) /\ (Chain!OpensAsAnnounced => ChainOpensAsAnnounced)
  BY DEF ChainOpensAsAnnounced
<1>3. QED BY <1>1, <1>2, ChainBehaves, PTL

\* It loses no handle but where it is known to.
THEOREM ImagesChainNothingElseLost == Spec => []ChainNothingElseLost
<1>1. Chain!Spec => []Chain!NothingElseLost
  BY ChainLosesNothingElse
<1>2. (~IsChain => ChainNothingElseLost) /\ (Chain!NothingElseLost => ChainNothingElseLost)
  BY DEF ChainNothingElseLost
<1>3. QED BY <1>1, <1>2, ChainBehaves, PTL

\* It masks the 3k3y area once.
THEOREM ImagesChainMarkMaskedOnce == Spec => []ChainMarkMaskedOnce
<1>1. Chain!Spec => []Chain!MarkMaskedOnce
  BY ChainAssumption, ChainMasksOnce
<1>2. (~IsChain => ChainMarkMaskedOnce) /\ (Chain!MarkMaskedOnce => ChainMarkMaskedOnce)
  BY DEF ChainMarkMaskedOnce
<1>3. QED BY <1>1, <1>2, ChainBehaves, PTL

\* It decrypts with the right key, and what is not decrypted yet.
THEOREM ImagesChainDecryptedByItsKey == Spec => []ChainDecryptedByItsKey
<1>1. Chain!Spec => []Chain!DecryptedByItsKey
  BY ChainDecryptsByKey
<1>2. (~IsChain => ChainDecryptedByItsKey) /\ (Chain!DecryptedByItsKey => ChainDecryptedByItsKey)
  BY DEF ChainDecryptedByItsKey
<1>3. QED BY <1>1, <1>2, ChainBehaves, PTL

\* What a session reads of an encrypted image is decrypted, and nothing else is.
THEOREM ImagesEncryptedReadsTheImage == Spec => []EncryptedReadsTheImage
<1>1. Iso!Spec => []Iso!ReadsTheImage
  <2>1. EncryptedInv => Iso!ReadsTheImage
    BY DEF EncryptedInv
  <2>2. QED BY <2>1, EncryptedAssumption, AlwaysEncryptedInv, PTL
<1>2. (~IsEncrypted => EncryptedReadsTheImage) /\ (Iso!ReadsTheImage => EncryptedReadsTheImage)
  BY DEF EncryptedReadsTheImage
<1>3. QED BY <1>1, <1>2, EncryptedBehaves, PTL

\* Reading it panics only where that is known.
THEOREM ImagesEncryptedTidyReadsSucceed == Spec => []EncryptedTidyReadsSucceed
<1>1. Iso!Spec => []Iso!TidyReadsSucceed
  <2>1. EncryptedInv => Iso!TidyReadsSucceed
    BY DEF EncryptedInv
  <2>2. QED BY <2>1, EncryptedAssumption, AlwaysEncryptedInv, PTL
<1>2. (~IsEncrypted => EncryptedTidyReadsSucceed) /\ (Iso!TidyReadsSucceed => EncryptedTidyReadsSucceed)
  BY DEF EncryptedTidyReadsSucceed
<1>3. QED BY <1>1, <1>2, EncryptedBehaves, PTL

\* What a session reads of a compressed image are the bytes of the image.
THEOREM ImagesCsoReadsTheImage == Spec => []CsoReadsTheImage
<1>1. Cso!Spec => []Cso!ReadsTheImage
  BY CsoAssumption, Cso!CsoReadsItsImage
<1>2. (~IsCso => CsoReadsTheImage) /\ (Cso!ReadsTheImage => CsoReadsTheImage)
  BY DEF CsoReadsTheImage
<1>3. QED BY <1>1, <1>2, CsoBehaves, PTL

\* The reads it is made for overflow nothing and find their blocks.
THEOREM ImagesCsoTidyReadsSucceed == Spec => []CsoTidyReadsSucceed
<1>1. Cso!Spec => []Cso!TidyReadsSucceed
  BY CsoAssumption, Cso!CsoTidyReadsDoSucceed
<1>2. (~IsCso => CsoTidyReadsSucceed) /\ (Cso!TidyReadsSucceed => CsoTidyReadsSucceed)
  BY DEF CsoTidyReadsSucceed
<1>3. QED BY <1>1, <1>2, CsoBehaves, PTL

\* Whatever a session has open, and whatever fails, the component's variables have
\* their types: an index cache holds entries of the index, the hunk in memory is one
\* of the image's, a file is opened under one of its names, and an offset stays within
\* a buffer's length of the image.
THEOREM ImagesTypeOK == Spec => []TypeOK
<1>1. Spec => [](IsViso => Viso!TypeOK)
  <2>1. Viso!Spec => []Viso!TypeOK
    BY VisoAssumption, VisoTypeCorrect
  <2>2. QED BY <2>1, VisoBehaves, PTL
<1>2. Spec => [](IsLayout => Layout!TypeOK)
  <2>1. Layout!Spec => []Layout!TypeOK
    BY LayoutAssumption, Layout!LayoutTypeCorrect DEF Layout!SizesAssumption
  <2>2. QED BY <2>1, LayoutBehaves, PTL
<1>3. Spec => [](IsChd => Chd!TypeOK)
  <2>1. Chd!Spec => []Chd!TypeOK
    BY ChdAssumption, Chd!ChdTypeCorrect
  <2>2. QED BY <2>1, ChdBehaves, PTL
<1>4. Spec => [](IsChain => Chain!TypeOK)
  BY ChainTypeCorrect, ChainBehaves, PTL
<1>5. Spec => [](IsEncrypted => Iso!TypeOK)
  <2>1. Iso!Spec => []Iso!TypeOK
    BY EncryptedAssumption, EncryptedTypeCorrect
  <2>2. QED BY <2>1, EncryptedBehaves, PTL
<1>6. Spec => [](IsCso => Cso!TypeOK)
  <2>1. Cso!Spec => []Cso!TypeOK
    BY CsoAssumption, Cso!CsoTypeCorrect
  <2>2. QED BY <2>1, CsoBehaves, PTL
<1>7. QED BY <1>1, <1>2, <1>3, <1>4, <1>5, <1>6, PTL DEF TypeOK
=============================================================================
