---------------------------- MODULE EncryptedISO ----------------------------
(***************************************************************************)
(* Reading an image through the layers that change what is read:           *)
(* EncryptedISO (pkg/fs/encryptediso), which decrypts the sectors between  *)
(* the unencrypted regions of the image's map, and ISO3k3y                 *)
(* (pkg/fs/iso3k3y), which masks the 3k3y area.  Both work on what was     *)
(* just put into the buffer, by the position it came from.                 *)
(*                                                                         *)
(* A byte is what it is an image of: "plain", "cipher", "zero", or "junk"  *)
(* where a cipher block was decrypted that was not all there.  The map     *)
(* lies before the first encrypted sector.  The model ends where Read      *)
(* panics.  A file belongs to one session, so one call runs at a time.     *)
(***************************************************************************)
EXTENDS Iso9660, Sequences

CONSTANTS
  Maps,         \* the region maps an image may begin with: sequences of [start, end]
  FileSize,     \* in bytes
  CipherBlock,  \* aes.BlockSize (16)
  CountSize, RegionSize,    \* of the map's count and of each of its regions (8)
  MaskBegin, MaskEnd,       \* of the 3k3y area (0xF70 and 0x1070)
  MaxLen,       \* bound: length of the buffers Read is given
  Spare         \* capacities that buffers have beyond their length

VARIABLES
  map,          \* the unencrypted regions, in sectors
  keyed, masked,    \* which of the two layers the file has
  clearRegions,
  pc,           \* "new", "open", "refused"
  offset,       \* EncryptedISO.offset, ISO3k3y.offset
  read,         \* the number of bytes this Read was given by the file
  got,          \* what it made of them
  spilled,      \* it wrote behind them
  result        \* of the last call: "none", "ok", "eof", "error", "panic"

call == <<read, got, spilled, result>>
vars == <<map, keyed, masked, clearRegions, pc, offset, call>>

SizesAssumption ==
  /\ Maps \subseteq Seq([start : Nat, end : Nat])
  /\ FileSize \in Nat /\ CipherBlock \in Nat \ {0} /\ MaxLen \in Nat /\ Spare \subseteq Nat

HeaderSize == CountSize + RegionSize * Len(map)
-----------------------------------------------------------------------------
(* NewEncryptedISO.                                                        *)

Init ==
  /\ map \in Maps /\ keyed \in BOOLEAN /\ masked \in BOOLEAN /\ clearRegions \in BOOLEAN
  /\ (keyed \/ masked) /\ (clearRegions => keyed)
  /\ pc = "new" /\ offset = 0
  /\ read = 0 /\ got = <<>> /\ spilled = FALSE /\ result = "none"

\* Each region ends after it starts, and starts no sooner than the one before ends.
Accepts(m) ==
  /\ Len(m) >= 2 /\ m[1].start = 0
  /\ \A i \in DOMAIN m : m[i].start < m[i].end
  /\ \A i \in 2..Len(m) : m[i - 1].end <= m[i].start

New ==
  /\ pc = "new" /\ (keyed => Accepts(map)) /\ pc' = "open"
  /\ UNCHANGED <<map, keyed, masked, clearRegions, offset, call>>

\* The map is refused, or cannot be read, or the position not be asked for.
NewFails ==
  /\ pc = "new" /\ pc' = "refused"
  /\ UNCHANGED <<map, keyed, masked, clearRegions, offset, call>>

\* Between two unencrypted regions.  The slice also begins with as many regions of
\* no sectors, which cover nothing.
EncryptedRegions == {[start |-> map[i].end, end |-> map[i + 1].start] : i \in 1..(Len(map) - 1)}
-----------------------------------------------------------------------------
(* What Read does to the n bytes it was given from byte `start` on, in a   *)
(* buffer with room for `cap`.                                             *)

\* Mutant: a region is passed by when it begins at the end's sector or later, that
\* rounded down.
ShortCovered(r, start, end) == ~(r.end <= Sectors(start) \/ r.start >= FloorSectors(end))

Covered(r, start, end) == ~(r.end <= Sectors(start) \/ r.start > Sectors(end))

\* Mutant: the last sector is counted in.
LongDecrypted(start, end) ==
  IF ~keyed THEN {}
  ELSE UNION {Larger(r.start, FloorSectors(start))..Smaller(r.end, Sectors(end)) :
                r \in {q \in EncryptedRegions : Covered(q, start, end)}}

\* decryptData: the sectors it decrypts.
Decrypted(start, end) ==
  IF ~keyed THEN {}
  ELSE UNION {Larger(r.start, FloorSectors(start))..(Smaller(r.end, Sectors(end)) - 1) :
                r \in {q \in EncryptedRegions : Covered(q, start, end)}}

\* Their bytes are cut out of the buffer, up to its capacity.
DecryptPanics(start, end, cap) ==
  \E s \in Decrypted(start, end) : Bytes(s) < start \/ Bytes(s + 1) - start > cap

\* clear3k3yData begins at the area's first byte, be it before the buffer.
MaskPanics(start, end) == masked /\ start > MaskBegin /\ start < MaskEnd

Masks(p) == masked /\ p >= MaskBegin /\ p < MaskEnd
Clears(p) == clearRegions /\ p < HeaderSize

\* The cipher block of byte p ends inside what was read.
WholeBlock(p, end) == p - (p % CipherBlock) + CipherBlock <= end

\* What the map says of byte p: it is in no region of it, nor behind the last.
IsEncrypted(p) ==
  /\ keyed
  /\ \A i \in DOMAIN map : FloorSectors(p) \notin map[i].start..(map[i].end - 1)
  /\ FloorSectors(p) < map[Len(map)].end

ByteRead(p, start, end) ==
  [at |-> p,
   kind |-> IF Masks(p) \/ Clears(p) THEN "zero"
            ELSE IF FloorSectors(p) \in Decrypted(start, end)
            THEN IF IsEncrypted(p) /\ WholeBlock(p, end) THEN "plain" ELSE "junk"
            ELSE IF IsEncrypted(p) THEN "cipher" ELSE "plain"]

\* Read with a buffer of l bytes and s more of capacity, of which the file fills n.
Read(l, s, n) ==
  /\ pc = "open" /\ result # "panic" /\ offset < FileSize
  /\ n <= l /\ offset + n <= FileSize
  /\ read' = n
  /\ LET end == offset + n
     IN IF DecryptPanics(offset, end, l + s) \/ MaskPanics(offset, end)
        THEN result' = "panic" /\ got' = <<>> /\ spilled' = FALSE /\ UNCHANGED offset
        ELSE /\ result' = "ok" /\ offset' = end
             /\ got' = [i \in 1..n |-> ByteRead(offset + i - 1, offset, end)]
             /\ spilled' = \E t \in Decrypted(offset, end) : Bytes(t + 1) > end
  /\ UNCHANGED <<map, keyed, masked, clearRegions, pc>>

Idle == read' = 0 /\ got' = <<>> /\ spilled' = FALSE

ReadFails ==
  /\ pc = "open" /\ result # "panic"
  /\ result' = (IF offset >= FileSize THEN "eof" ELSE "error") /\ Idle
  /\ UNCHANGED <<map, keyed, masked, clearRegions, pc, offset>>

\* Seek of the file, whose position is kept.
Seek ==
  /\ pc = "open" /\ result # "panic"
  /\ offset' \in 0..FileSize /\ result' = "none" /\ Idle
  /\ UNCHANGED <<map, keyed, masked, clearRegions, pc>>

Next == \/ New \/ NewFails
        \/ \E l \in 1..MaxLen, s \in Spare, n \in 1..MaxLen : Read(l, s, n)
        \/ ReadFails \/ Seek

Spec == Init /\ [][Next]_vars
-----------------------------------------------------------------------------
TypeOK ==
  /\ map \in Maps /\ keyed \in BOOLEAN /\ masked \in BOOLEAN /\ clearRegions \in BOOLEAN
  /\ pc \in {"new", "open", "refused"} /\ offset \in 0..FileSize
  /\ read \in 0..MaxLen /\ Len(got) \in {0, read} /\ spilled \in BOOLEAN
  /\ \A i \in DOMAIN got : got[i] \in [at : 0..FileSize, kind : {"plain", "cipher", "zero", "junk"}]
  /\ result \in {"none", "ok", "eof", "error", "panic"}

Began == IF result = "ok" THEN offset - read ELSE offset
Ended == Began + read

AtSector(p) == p % SectorSize = 0

\* The byte the image has at p.
ImageByte(p) == [at |-> p, kind |-> IF Masks(p) \/ Clears(p) THEN "zero" ELSE "plain"]

\* A cut at p does not go through an encrypted sector.
CleanCut(p) == AtSector(p) \/ ~IsEncrypted(p)

\* What the map calls encrypted is decrypted, and nothing else, wherever a Read
\* begins but inside an encrypted sector, and up to the last whole cipher block
\* wherever it ends.
ReadsTheImage ==
  result = "ok" /\ CleanCut(Began)
    => \A i \in DOMAIN got :
         LET p == Began + i - 1
         IN ~IsEncrypted(p) \/ WholeBlock(p, Ended) => got[i] = ImageByte(p)

\* A Read panics, or writes behind what it was given, only if it begins or ends
\* inside an encrypted sector, or begins inside the 3k3y area, which the second of
\* its sectors does.
TidyReadsSucceed ==
  /\ result = "panic" => \/ ~CleanCut(Began) \/ ~CleanCut(Ended)
                         \/ masked /\ Began > MaskBegin /\ Began < MaskEnd
  /\ spilled => ~CleanCut(Ended)
=============================================================================
