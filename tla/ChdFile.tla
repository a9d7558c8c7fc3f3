------------------------------ MODULE ChdFile ------------------------------
(***************************************************************************)
(* CHD images (pkg/fs/chd): what Opener announces for one in Stat, which   *)
(* reads the file by itself, what it opens, with libchdr, and the Read and *)
(* Seek of File and of CDFile.  An image is a number of hunks that libchdr *)
(* decodes; of the hunks of a CD image a CDFile gives the data of each     *)
(* sector and leaves out what a unit holds behind it.                      *)
(*                                                                         *)
(* A file belongs to one session, so one call runs at a time; Read is a    *)
(* step for each hunk, since decoding one may fail, and then leaves        *)
(* anything in the buffer it was to be decoded to.                         *)
(***************************************************************************)
EXTENDS Integers, Sequences, SequencesExt, FiniteSetsExt

CONSTANTS
  Images,       \* the CHD files: [valid, version, codecs, logical, hunks, tracks], where
                \* tracks has the metadata of each tag, by index
  HunkBytes, UnitBytes,
  SecLen, HeaderLen,  \* of an image of version 1 or 2 (512 and 76)
  MaxLen        \* bound: length of the buffers Read is given

VARIABLES
  image,        \* the file on disk
  announced,    \* the size Stat gave, or None: the next one to ask
  pc,           \* "unopened", "open", "read", "closed"
  libHandle,    \* chd_file of libchdr: "none", "held", "dropped" to the collector, "leaked"
  tracks,       \* File.CDMetadata
  offset,
  currentHunkNum,
  data,         \* File.currentHunkData: the hunk in it, Garbage, or None
  length,       \* of the buffer of this Read
  got,          \* the bytes put into it
  result,       \* of the last call: "none", "ok", "eof", "error"
  spoiled       \* history: the buffer held garbage when this Read began

cache == <<currentHunkNum, data>>
call == <<length, got, result, spoiled>>
vars == <<image, announced, pc, libHandle, tracks, offset, cache, call>>

Track == [size : Nat \ {0}, frames : Nat]

\* What libchdr says of the images it takes: a hunk is of whole units; an image of
\* version 5, which one of a CD is, has as many hunks as its size needs.
ImagesAssumption ==
  /\ HunkBytes \in Nat \ {0} /\ UnitBytes \in 1..HunkBytes /\ HunkBytes % UnitBytes = 0
  /\ SecLen \in Nat \ {0} /\ HeaderLen \in Nat /\ MaxLen \in Nat
  /\ \A im \in Images :
       /\ im.valid \in BOOLEAN /\ im.codecs \in {"plain", "cd", "mixed"} /\ im.version \in 1..5
       /\ im.logical \in Nat /\ im.hunks \in Nat /\ im.tracks \in [1..3 -> Seq(Track)]
       /\ im.version = 5 => im.hunks * HunkBytes >= im.logical
       /\ im.codecs = "cd" => im.version = 5

None == -1
Garbage == -2

TotalFrames(ts) ==
  LET sum[i \in 0..Len(ts)] == IF i = 0 THEN 0 ELSE sum[i - 1] + ts[i].frames
  IN sum[Len(ts)]
OneSectorSize(ts) == \A i, j \in DOMAIN ts : ts[i].size = ts[j].size
CdSize(ts) == IF ts = <<>> THEN 0 ELSE ts[1].size * TotalFrames(ts)
-----------------------------------------------------------------------------
Init ==
  /\ image \in Images /\ announced = None /\ pc = "unopened" /\ libHandle = "none"
  /\ tracks = <<>> /\ offset = 0 /\ currentHunkNum = 0 /\ data = None
  /\ length = 0 /\ got = <<>> /\ result = "none" /\ spoiled = FALSE

\* ReadHeader: libchdr counts sectors of a version 1 or 2 as what they are long.
HeaderLogicalBytes ==
  IF image.version < 3 THEN (image.logical \div SecLen) * HeaderLen ELSE image.logical

\* IterateMetadata: whatever the tag, and in an order that does not matter.
AllTracks == image.tracks[1] \o image.tracks[2] \o image.tracks[3]

\* Mutant: the frames of the last track stand for all.
LastTrackStatSize ==
  IF ~image.valid THEN None
  ELSE IF image.codecs # "cd" THEN HeaderLogicalBytes
  ELSE IF AllTracks # <<>> /\ OneSectorSize(AllTracks) THEN CdSize(<<Last(AllTracks)>>)
  ELSE None

\* Opener.Stat, where nothing fails: a CD image is as large as its metadata say,
\* that with any of the three tags.
StatSize ==
  IF ~image.valid THEN None
  ELSE IF image.codecs # "cd" THEN HeaderLogicalBytes
  ELSE IF OneSectorSize(AllTracks) THEN CdSize(AllTracks)
  ELSE None

\* The file may be impossible to open or to read.
Stat ==
  /\ pc = "unopened" /\ announced' \in {StatSize, None}
  /\ UNCHANGED <<image, pc, libHandle, tracks, offset, cache, call>>

\* readMeatadata: one entry for each index, from the first tag that has as many;
\* the tags are numbered in the order they are asked for.
HasTrack(g, i) == Len(image.tracks[g]) >= i
Metadata ==
  [i \in 1..Max({Len(image.tracks[g]) : g \in 1..3}) |->
    image.tracks[CHOOSE g \in 1..3 : HasTrack(g, i) /\ \A h \in 1..(g - 1) : ~HasTrack(h, i)][i]]

UnitCount == (image.logical + UnitBytes - 1) \div UnitBytes

\* Mutant: NewFile takes the frames of the metadata for what they are.
UncheckedConsistent(ts) == UnitBytes * UnitCount = image.logical

\* What NewFile checks of a CD image.
Consistent(ts) == UnitBytes * UnitCount = image.logical /\ TotalFrames(ts) <= UnitCount

Refuse(handle) ==
  /\ libHandle' = handle /\ result' = "error" /\ pc' = "closed"
  /\ UNCHANGED <<image, announced, tracks, offset, cache, length, got, spoiled>>

\* libchdr does not take the file, or it cannot be read.
OpenFails == pc = "unopened" /\ Refuse("none")

\* NewFile gives up with libchdr's file open, the codecs being mixed, the data
\* inconsistent or the metadata unreadable; nobody closes that.
NewFileRefuses ==
  /\ pc = "unopened" /\ image.valid /\ image.codecs # "plain"
  /\ Refuse("leaked")

\* AsCD gives up: the opener closes the file, libchdr's is left to the collector.
AsCDRefuses ==
  /\ pc = "unopened" /\ image.valid /\ image.codecs = "cd" /\ Consistent(Metadata)
  /\ Metadata = <<>> \/ ~OneSectorSize(Metadata)
  /\ Refuse("dropped")

Open ==
  /\ pc = "unopened" /\ image.valid
  /\ IF image.codecs = "cd"
     THEN /\ Consistent(Metadata) /\ Metadata # <<>> /\ OneSectorSize(Metadata)
          /\ tracks' = Metadata
     ELSE image.codecs = "plain" /\ tracks' = <<>>
  /\ pc' = "open" /\ libHandle' = "held" /\ result' = "ok"
  /\ UNCHANGED <<image, announced, offset, cache, length, got, spoiled>>
-----------------------------------------------------------------------------
(* Reading.  Byte i of hunk h is <<h, i>>.                                 *)

IsCd == image.codecs = "cd"
Size == IF IsCd THEN CdSize(tracks) ELSE image.logical

\* offsetToPosition of a CDFile.
CdPosition(p) ==
  LET unit == p \div tracks[1].size
      perHunk == HunkBytes \div UnitBytes
      start == (unit % perHunk) * UnitBytes
  IN [hunk |-> unit \div perHunk, first |-> start + (p % tracks[1].size), end |-> start + tracks[1].size]

\* The hunk that byte p of the image is in, where it is there, and where what can
\* be copied from there ends.
Position(p) ==
  IF IsCd THEN CdPosition(p)
  ELSE [hunk |-> p \div HunkBytes, first |-> p % HunkBytes, end |-> HunkBytes]

ImageByte(p) == <<Position(p).hunk, Position(p).first>>

at == offset + Len(got)
remain == length - Len(got)
More == pc = "read" /\ remain > 0 /\ at < Size /\ Position(at).hunk < image.hunks

\* The offset moves only when Read succeeds.
Finish(r) ==
  /\ pc' = "open" /\ result' = r
  /\ offset' = IF r = "ok" THEN at ELSE offset

Begin(l) ==
  /\ pc = "open" /\ length' = l /\ got' = <<>> /\ spoiled' = (data = Garbage)
  /\ IF offset >= Size THEN pc' = "open" /\ result' = "eof" ELSE pc' = "read" /\ result' = "none"
  /\ UNCHANGED <<image, announced, libHandle, tracks, offset, cache>>

\* A whole hunk goes into the buffer as it is.
Whole == ~IsCd /\ Position(at).first = 0 /\ remain >= HunkBytes

DirectRead ==
  /\ More /\ Whole
  /\ got' = got \o [i \in 1..HunkBytes |-> <<Position(at).hunk, i - 1>>]
  /\ UNCHANGED <<image, announced, pc, libHandle, tracks, offset, cache, length, result, spoiled>>

DirectReadFails ==
  /\ More /\ Whole /\ Finish("error")
  /\ UNCHANGED <<image, announced, libHandle, tracks, cache, length, got, spoiled>>

\* Mutant: any hunk will do.
AnyLoaded == data # None

\* loadHunk takes the hunk for loaded.
Loaded == data # None /\ currentHunkNum = Position(at).hunk

\* The number of the hunk before stays, what was decoded of it does not.
LoadHunkFails ==
  /\ More /\ ~Whole /\ ~Loaded
  /\ data' = Garbage /\ Finish("error")
  /\ UNCHANGED <<image, announced, libHandle, tracks, currentHunkNum, length, got, spoiled>>

LoadHunk ==
  /\ More /\ ~Whole /\ ~Loaded
  /\ data' = Position(at).hunk /\ currentHunkNum' = Position(at).hunk
  /\ UNCHANGED <<image, announced, pc, libHandle, tracks, offset, call>>

Copy ==
  LET from == Position(at)
      n == Min({remain, from.end - from.first})
  IN /\ More /\ ~Whole /\ Loaded
     /\ got' = got \o [i \in 1..n |-> IF data = Garbage THEN <<Garbage, 0>> ELSE <<data, from.first + i - 1>>]
     /\ UNCHANGED <<image, announced, pc, libHandle, tracks, offset, cache, length, result, spoiled>>

\* The buffer is full or the image has ended, or its hunks have.
ReadEnds ==
  /\ pc = "read" /\ ~More /\ Finish("ok")
  /\ UNCHANGED <<image, announced, libHandle, tracks, cache, length, got, spoiled>>

\* An offset outside the image is refused.
Seek ==
  /\ pc = "open" /\ offset' \in 0..Size
  /\ length' = 0 /\ got' = <<>> /\ result' = "none"
  /\ UNCHANGED <<image, announced, pc, libHandle, tracks, cache, spoiled>>

\* libchdr closes the file with its own.  A session closes a file once.
Close ==
  /\ pc = "open" /\ pc' = "closed" /\ libHandle' = "none"
  /\ length' = 0 /\ got' = <<>> /\ result' = "none"
  /\ UNCHANGED <<image, announced, tracks, offset, cache, spoiled>>

Next == \/ Stat \/ OpenFails \/ NewFileRefuses \/ AsCDRefuses \/ Open
        \/ \E l \in 1..MaxLen : Begin(l)
        \/ DirectRead \/ DirectReadFails \/ LoadHunk \/ LoadHunkFails \/ Copy \/ ReadEnds
        \/ Seek \/ Close

Spec == Init /\ [][Next]_vars
-----------------------------------------------------------------------------
TypeOK ==
  /\ image \in Images /\ announced \in Nat \cup {None}
  /\ pc \in {"unopened", "open", "read", "closed"}
  /\ libHandle \in {"none", "held", "dropped", "leaked"}
  /\ offset \in Nat /\ currentHunkNum \in 0..image.hunks
  /\ data \in {None, Garbage} \cup 0..image.hunks
  /\ length \in 0..MaxLen /\ result \in {"none", "ok", "eof", "error"} /\ spoiled \in BOOLEAN

\* Where this Read began.
Began == IF result = "ok" THEN offset - Len(got) ELSE offset

\* A Read that succeeds gives the bytes of the image from where it began, up to
\* the hunk the image ends in, whatever failed before: or, where a hunk failed to
\* decode before it began, the remains of that, taken for the hunk before it.
ReadsTheImage ==
  pc = "open" /\ result = "ok"
    => \A i \in 1..Len(got) :
         got[i] = ImageByte(Began + i - 1) \/ (spoiled /\ got[i] = <<Garbage, 0>>)

\* It makes progress, and stops short of the end only when the buffer is full, where
\* the image has as many hunks as its size needs, so that whoever reads until the
\* end comes there.
ReadsOn ==
  pc = "open" /\ result = "ok" /\ length > 0 /\ (image.version < 5 => image.hunks * HunkBytes >= image.logical)
    => got # <<>> /\ (Len(got) = length \/ offset >= Size)

SameTag == \E g \in 1..3 : \A h \in (1..3) \ {g} : image.tracks[h] = <<>>

\* The size a directory listing or a STAT announces is that of the file which is
\* opened then: but for versions 1 and 2, and for tracks under more than one tag.
SizeAsAnnounced ==
  pc = "open" /\ announced # None /\ image.version >= 3 /\ SameTag => announced = Size
=============================================================================
