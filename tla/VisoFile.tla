------------------------------ MODULE VisoFile ------------------------------
(***************************************************************************)
(* Reading a virtual image: Read, Seek and Close of VirtualISO             *)
(* (virtual_iso.go) over the list of its files (virtual_iso_items.go).     *)
(* The image is its structures, kept in memory, then the files one after   *)
(* the other, each padded to a sector, then an area of zeros.  The layout  *)
(* itself is built in VisoLayout.                                          *)
(*                                                                         *)
(* A file belongs to one session, so one call runs at a time; Read is a    *)
(* step for the structures, one for each file and one for the zeros, since *)
(* the files are opened and read on the way and may fail.  The model ends  *)
(* where Read panics.                                                      *)
(***************************************************************************)
EXTENDS Iso9660, Sequences

CONSTANTS
  HeadSectors,  \* of fsBuf
  BasePad,      \* basePadSectors (32)
  FileSizes,    \* sizes a file may have
  MaxFiles,     \* bound: files of the image
  MaxLen        \* bound: length of the buffers Read is given

VARIABLES
  files,        \* VirtualISO.files: their sizes, ordered by location
  opened,       \* the files that hold a handle (fileItem.file)
  isClosed,
  offset,       \* VirtualISO.offset
  pc,           \* "idle", "files", "pad"
  length,       \* of the buffer of this Read
  got,          \* the bytes put into it
  quota, ahead, \* toRead and offset of filesToRead, which keeps its own
  next,         \* the file it yields next, 0 for none
  result,       \* of the last call: "none", "ok", "eof", "error", "closed", "panic"
  fault         \* history: this Read could not open or read a file

call == <<length, got, quota, ahead, next>>
vars == <<files, opened, isClosed, offset, pc, call, result, fault>>

SizesAssumption ==
  /\ HeadSectors \in Nat /\ BasePad \in Nat \ {0} /\ FileSizes \subseteq Nat
  /\ MaxFiles \in Nat /\ MaxLen \in Nat

HeadByte(i) == [kind |-> "head", of |-> 0, at |-> i]
FileByte(f, i) == [kind |-> "file", of |-> f, at |-> i]
Zero == [kind |-> "zero", of |-> 0, at |-> 0]
ZeroBytes(k) == [i \in 1..k |-> Zero]
-----------------------------------------------------------------------------
(* The layout, as VisoLayout leaves it.                                    *)

HeadSize == Bytes(HeadSectors)

\* Where files of these sizes begin, and the last ends.
Starts(sizes) ==
  LET place[f \in 1..(Len(sizes) + 1)] == IF f = 1 THEN HeadSize ELSE place[f - 1] + AlignToSectors(sizes[f - 1])
  IN place

\* fileItem.rLBA, in bytes.
Start(f) == Starts(files)[f]
Aligned(f) == AlignToSectors(files[f])

PadAreaStart == Start(Len(files) + 1)

\* calculateSizes: BasePad sectors of zeros, and more up to a multiple of as many.
TotalSize ==
  LET volume == FloorSectors(PadAreaStart)
      extra == volume % BasePad
  IN Bytes(volume + BasePad + (IF extra > 0 THEN BasePad - extra ELSE 0))

ImageByte(p) ==
  IF p < HeadSize THEN HeadByte(p)
  ELSE IF \E f \in DOMAIN files : p \in Start(f)..(Start(f) + files[f] - 1)
  THEN LET f == CHOOSE g \in DOMAIN files : p \in Start(g)..(Start(g) + files[g] - 1)
       IN FileByte(f, p - Start(f))
  ELSE Zero

Init ==
  /\ files \in UNION {[1..k -> FileSizes] : k \in 0..MaxFiles}
  /\ opened = {} /\ isClosed = FALSE /\ offset = 0
  /\ pc = "idle" /\ length = 0 /\ got = <<>> /\ quota = 0 /\ ahead = 0 /\ next = 0
  /\ result = "none" /\ fault = FALSE
-----------------------------------------------------------------------------
(* Where Read is and how it ends.                                          *)

at == offset + Len(got)
remain == length - Len(got)

\* The offset moves only when Read succeeds.
Finish(r) ==
  /\ pc' = "idle" /\ result' = r
  /\ quota' = 0 /\ ahead' = 0 /\ next' = 0
  /\ offset' = IF r = "ok" THEN offset + Len(got') ELSE offset

\* Mutant: a file of no sectors is found too, where it is.
WideHolds(f, sector) == sector <= FloorSectors(Start(f)) + Sectors(files[f])

\* The comparison of the binary search does not call f too early.
Holds(f, sector) == sector < FloorSectors(Start(f)) + Sectors(files[f])

\* The binary search of filesToRead, for the sector that byte p is in: 0 when no
\* file holds it.
FileAt(p) ==
  LET found == {f \in DOMAIN files : Holds(f, FloorSectors(p))}
      first == CHOOSE f \in found : \A g \in found : f <= g
  IN IF found # {} /\ FloorSectors(p) >= FloorSectors(Start(first)) THEN first ELSE 0

\* Read is called on a buffer of l bytes: what is in the structures is copied.
Begin(l) ==
  LET m == IF offset < HeadSize THEN Smaller(l, HeadSize - offset) ELSE 0
  IN /\ pc = "idle" /\ result # "panic" /\ ~isClosed
     /\ fault' = FALSE /\ length' = l
     /\ got' = [i \in 1..(IF offset >= TotalSize THEN 0 ELSE m) |-> HeadByte(offset + i - 1)]
     /\ IF offset >= TotalSize THEN Finish("eof")
        ELSE IF m = l THEN Finish("ok")
        ELSE /\ quota' = l - m /\ ahead' = offset + m
             /\ next' = IF ahead' < PadAreaStart THEN FileAt(ahead') ELSE 0
             /\ pc' = IF next' > 0 THEN "files" ELSE "pad"
             /\ result' = "none" /\ UNCHANGED offset
     /\ UNCHANGED <<files, opened, isClosed>>

\* Nothing is left of the Read before.
NoRead == length' = 0 /\ got' = <<>> /\ fault' = FALSE /\ UNCHANGED <<pc, quota, ahead, next>>

ReadClosed ==
  /\ pc = "idle" /\ isClosed
  /\ result' = "closed" /\ NoRead
  /\ UNCHANGED <<files, opened, isClosed, offset>>

Yields == pc = "files" /\ quota > 0 /\ next <= Len(files)

\* The offset is not in the padded file.
NotInFile ==
  /\ Yields /\ (at < Start(next) \/ at >= Start(next) + Aligned(next))
  /\ Finish("error")
  /\ UNCHANGED <<files, opened, isClosed, length, got, fault>>

InFile == Yields /\ at >= Start(next) /\ at < Start(next) + Aligned(next)

\* openOnDemand fails, or Seek or ReadFull of a file that has become shorter.
FileFails ==
  /\ InFile /\ Finish("error") /\ fault' = TRUE
  /\ \/ next \notin opened /\ UNCHANGED opened
     \/ at - Start(next) < files[next] /\ opened' = opened \cup {next}
  /\ UNCHANGED <<files, isClosed, length, got>>

\* What is left of the file to read, and the zeros after it: all of them, from
\* wherever in them the read begins.
Wanted == Larger(0, Smaller(remain, files[next] - (at - Start(next))))
Padding == IF files[next] % SectorSize > 0 /\ remain > Wanted
           THEN SectorSize - (files[next] % SectorSize) ELSE 0

\* Mutant: the zeros after a file are left out.
UnpaddedReadFile ==
  /\ InFile /\ remain >= Wanted + Padding
  /\ opened' = opened \cup {next}
  /\ got' = got \o [i \in 1..Wanted |-> FileByte(next, at - Start(next) + i - 1)]
  /\ ahead' = Start(next) + Aligned(next) /\ quota' = quota - (ahead' - ahead)
  /\ next' = next + 1
  /\ UNCHANGED <<files, isClosed, offset, pc, length, result, fault>>

\* A file is read as far as the buffer goes.
ReadFile ==
  /\ InFile /\ remain >= Wanted + Padding
  /\ opened' = opened \cup {next}
  /\ got' = got \o [i \in 1..Wanted |-> FileByte(next, at - Start(next) + i - 1)] \o ZeroBytes(Padding)
  /\ ahead' = Start(next) + Aligned(next) /\ quota' = quota - (ahead' - ahead)
  /\ next' = next + 1
  /\ UNCHANGED <<files, isClosed, offset, pc, length, result, fault>>

\* The zeros go beyond the end of the buffer.
PaddingPanics ==
  /\ InFile /\ remain < Wanted + Padding
  /\ opened' = opened \cup {next} /\ Finish("panic")
  /\ UNCHANGED <<files, isClosed, length, got, fault>>

FilesEnd ==
  /\ pc = "files" /\ ~Yields /\ pc' = "pad"
  /\ UNCHANGED <<files, opened, isClosed, offset, call, result, fault>>

\* Zeros for the rest of the buffer, whether or not the image goes on for as long.
ReadPad ==
  /\ pc = "pad"
  /\ got' = IF at >= PadAreaStart /\ at < TotalSize THEN got \o ZeroBytes(remain) ELSE got
  /\ Finish("ok")
  /\ UNCHANGED <<files, opened, isClosed, length, fault>>

\* Seek; an offset outside the image is refused.
Seek ==
  /\ pc = "idle" /\ result # "panic" /\ ~isClosed
  /\ offset' \in 0..TotalSize /\ result' = "none" /\ NoRead
  /\ UNCHANGED <<files, opened, isClosed>>

\* Close; the files that were opened are closed, whatever that returns.
Close ==
  /\ pc = "idle" /\ result # "panic"
  /\ isClosed' = TRUE /\ opened' = {} /\ result' = "none" /\ NoRead
  /\ UNCHANGED <<files, offset>>

Next == \/ \E l \in 1..MaxLen : Begin(l)
        \/ ReadClosed \/ NotInFile \/ FileFails \/ ReadFile \/ PaddingPanics
        \/ FilesEnd \/ ReadPad \/ Seek \/ Close

Spec == Init /\ [][Next]_vars
-----------------------------------------------------------------------------
TypeOK ==
  /\ files \in Seq(FileSizes) /\ opened \subseteq DOMAIN files /\ isClosed \in BOOLEAN
  /\ offset \in 0..(TotalSize + MaxLen)
  /\ pc \in {"idle", "files", "pad"}
  /\ length \in 0..MaxLen /\ Len(got) <= length
  /\ quota \in Int /\ ahead \in Nat /\ next \in 0..(Len(files) + 1)
  /\ result \in {"none", "ok", "eof", "error", "closed", "panic"} /\ fault \in BOOLEAN

\* Byte p comes after the first and before the last of the zeros behind a file.
InsidePadding(p) ==
  \E f \in DOMAIN files : p > Start(f) + files[f] /\ p < Start(f) + Aligned(f)

\* Where this Read began.
Began == IF result = "ok" THEN offset - Len(got) ELSE offset

\* A Read that succeeds gives the bytes of the image from where it began, across
\* structures, files and zeros, unless it begins inside the zeros of a file.
ReadsTheImage ==
  result = "ok" /\ ~InsidePadding(Began)
    => /\ got # <<>>
       /\ \A i \in 1..Len(got) : got[i] = ImageByte(Began + i - 1)

\* The Reads that Read is made for begin and end anywhere but inside the zeros of
\* a file, and meet no empty file on the way.
Tidy ==
  /\ ~InsidePadding(Began) /\ ~InsidePadding(Began + length)
  /\ \A f \in DOMAIN files :
       files[f] = 0 => Start(f) <= Larger(Began, HeadSize) \/ Start(f) >= Began + length

\* Such a Read fills the buffer, or a file could not be opened or read.
TidyReadsFill ==
  /\ result \in {"error", "panic"} /\ Tidy => result = "error" /\ fault
  /\ result = "ok" /\ Tidy => Len(got) = length
=============================================================================
