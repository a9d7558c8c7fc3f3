------------------------------- MODULE Images -------------------------------
(***************************************************************************)
(* The files a session may have open, put together: what the chain of      *)
(* openers and wrappers makes of a name, the layout of a virtual image,    *)
(* and reading one, a CHD or a compressed image, or one that is decrypted  *)
(* and masked.  A behaviour is that of one of these components, `kind`;    *)
(* variables that more than one of the modules has are shared, and those   *)
(* the component does not have stay empty.                                 *)
(*                                                                         *)
(* Where the proofs of a component are a module, it is taken from that, so *)
(* that ImagesProofs can cite its theorems.                                *)
(***************************************************************************)
EXTENDS Iso9660

CONSTANTS
  HeadSectors, VisoPad, FileSizes, MaxFiles, VisoMaxLen,            \* VisoFile
  LayoutSectorSize, Trees, NameOrder, Upper, NameLen,               \* VisoLayout
  MaxPart, PartSize, LayoutPad, ItemsLimit, NumberLimit,
  ByteLimit, IdWidth, VolumeNames, GameCodes,
  Chds, HunkBytes, UnitBytes, SecLen, HeaderLen, ChdMaxLen,         \* ChdFile
  Disks, ChainNames,                                                \* FsChain
  Maps, FileSize, CipherBlock, CountSize, RegionSize,               \* EncryptedISO
  MaskBegin, MaskEnd, EncryptedMaxLen, EncryptedSpare,
  BlockSize, Blocks, MaxEntries, CsoMaxLen, CsoSpare                \* CsoFile

VARIABLES
  kind,         \* "viso", "layout", "chd", "chain", "encrypted", "cso"
  pc, offset, length, got, result, fault, announced, held,          \* of more than one
  files, opened, isClosed, quota, ahead, next,                      \* VisoFile
  tree, ps3Mode, volumeName, gameCode, queue, rootDir,              \* VisoLayout
  entries, filesSizeSectors, current, pathTable, lba, padAreaStart,
  totalSize, descriptors, written, fsSize,
  image, libHandle, tracks, currentHunkNum, data, spoiled,          \* ChdFile
  disk, redumpKey, chdEnabled, virtual, name, from, layers, lost,   \* FsChain
  map, keyed, masked, clearRegions, read, spilled,                  \* EncryptedISO
  entry, last, start, array, cachedBlockNum, cachedBlock, buf, n,   \* CsoFile
  blk, rest, indexFault

ofViso == <<files, opened, isClosed, quota, ahead, next>>
ofLayout == <<tree, ps3Mode, volumeName, gameCode, queue, rootDir, entries, filesSizeSectors, current,
              pathTable, lba, padAreaStart, totalSize, descriptors, written, fsSize>>
ofChd == <<image, libHandle, tracks, currentHunkNum, data, spoiled>>
ofChain == <<disk, redumpKey, chdEnabled, virtual, name, from, layers, lost>>
ofEncrypted == <<map, keyed, masked, clearRegions, read, spilled>>
ofCso == <<entry, last, start, array, cachedBlockNum, cachedBlock, buf, n, blk, rest, indexFault>>
vars == <<kind, pc, offset, length, got, result, fault, announced, held,
          ofViso, ofLayout, ofChd, ofChain, ofEncrypted, ofCso>>
-----------------------------------------------------------------------------
Viso == INSTANCE VisoFile WITH BasePad <- VisoPad, MaxLen <- VisoMaxLen

Layout == INSTANCE VisoLayoutProofs WITH SectorSize <- LayoutSectorSize, BasePad <- LayoutPad

Chd == INSTANCE ChdFileProofs WITH Images <- Chds, MaxLen <- ChdMaxLen

Chain == INSTANCE FsChain WITH Names <- ChainNames

Iso == INSTANCE EncryptedISO WITH MaxLen <- EncryptedMaxLen, Spare <- EncryptedSpare

Cso == INSTANCE CsoFileProofs WITH MaxLen <- CsoMaxLen, Spare <- CsoSpare

\* What the components whose theorems ImagesProofs cites assume of their constants.
ASSUME VisoAssumption == Viso!SizesAssumption
ASSUME LayoutAssumption == Layout!SizesAssumption
ASSUME ChdAssumption == Chd!ImagesAssumption
ASSUME ChainAssumption == Chain!DisksAssumption
ASSUME EncryptedAssumption == Iso!SizesAssumption
ASSUME CsoAssumption == Cso!SizesAssumption
-----------------------------------------------------------------------------
IsViso == kind = "viso"
IsLayout == kind = "layout"
IsChd == kind = "chd"
IsChain == kind = "chain"
IsEncrypted == kind = "encrypted"
IsCso == kind = "cso"

NoViso == files = {} /\ opened = {} /\ isClosed = {} /\ quota = {} /\ ahead = {} /\ next = {}
NoLayout ==
  /\ tree = {} /\ ps3Mode = {} /\ volumeName = {} /\ gameCode = {} /\ queue = {} /\ rootDir = {}
  /\ entries = {} /\ filesSizeSectors = {} /\ current = {} /\ pathTable = {} /\ lba = {} /\ padAreaStart = {}
  /\ totalSize = {} /\ descriptors = {} /\ written = {} /\ fsSize = {}
NoChd == image = {} /\ libHandle = {} /\ tracks = {} /\ currentHunkNum = {} /\ data = {} /\ spoiled = {}
NoChain ==
  /\ disk = {} /\ redumpKey = {} /\ chdEnabled = {} /\ virtual = {}
  /\ name = {} /\ from = {} /\ layers = {} /\ lost = {}
NoEncrypted == map = {} /\ keyed = {} /\ masked = {} /\ clearRegions = {} /\ read = {} /\ spilled = {}
NoCso ==
  /\ entry = {} /\ last = {} /\ start = {} /\ array = {} /\ cachedBlockNum = {} /\ cachedBlock = {}
  /\ buf = {} /\ n = {} /\ blk = {} /\ rest = {} /\ indexFault = {}

InitViso ==
  /\ IsViso /\ Viso!Init /\ announced = {} /\ held = {}
  /\ NoLayout /\ NoChd /\ NoChain /\ NoEncrypted /\ NoCso
InitLayout ==
  /\ IsLayout /\ Layout!Init
  /\ offset = {} /\ length = {} /\ got = {} /\ result = {} /\ fault = {} /\ announced = {} /\ held = {}
  /\ NoViso /\ NoChd /\ NoChain /\ NoEncrypted /\ NoCso
InitChd ==
  /\ IsChd /\ Chd!Init /\ fault = {} /\ held = {}
  /\ NoViso /\ NoLayout /\ NoChain /\ NoEncrypted /\ NoCso
InitChain ==
  /\ IsChain /\ Chain!Init /\ offset = {} /\ length = {} /\ got = {} /\ result = {}
  /\ NoViso /\ NoLayout /\ NoChd /\ NoEncrypted /\ NoCso
InitEncrypted ==
  /\ IsEncrypted /\ Iso!Init /\ length = {} /\ fault = {} /\ announced = {} /\ held = {}
  /\ NoViso /\ NoLayout /\ NoChd /\ NoChain /\ NoCso
InitCso ==
  /\ IsCso /\ Cso!Init /\ got = {} /\ announced = {}
  /\ NoViso /\ NoLayout /\ NoChd /\ NoChain /\ NoEncrypted

Init == InitViso \/ InitLayout \/ InitChd \/ InitChain \/ InitEncrypted \/ InitCso

NextViso ==
  /\ IsViso /\ Viso!Next
  /\ UNCHANGED <<announced, held, ofLayout, ofChd, ofChain, ofEncrypted, ofCso>>
NextLayout ==
  /\ IsLayout /\ Layout!Next
  /\ UNCHANGED <<offset, length, got, result, fault, announced, held, ofViso, ofChd, ofChain, ofEncrypted, ofCso>>
NextChd ==
  /\ IsChd /\ Chd!Next
  /\ UNCHANGED <<fault, held, ofViso, ofLayout, ofChain, ofEncrypted, ofCso>>
NextChain ==
  /\ IsChain /\ Chain!Next
  /\ UNCHANGED <<offset, length, got, result, ofViso, ofLayout, ofChd, ofEncrypted, ofCso>>
NextEncrypted ==
  /\ IsEncrypted /\ Iso!Next
  /\ UNCHANGED <<length, fault, announced, held, ofViso, ofLayout, ofChd, ofChain, ofCso>>
NextCso ==
  /\ IsCso /\ Cso!Next
  /\ UNCHANGED <<got, announced, ofViso, ofLayout, ofChd, ofChain, ofEncrypted>>

Next ==
  /\ NextViso \/ NextLayout \/ NextChd \/ NextChain \/ NextEncrypted \/ NextCso
  /\ UNCHANGED kind

Spec == Init /\ [][Next]_vars
-----------------------------------------------------------------------------
(* Each is stated, and explained, in the module of the component.          *)

\* Every component's variables have their types: VisoFile, VisoLayout, ChdFile,
\* FsChain, EncryptedISO and CsoFile.
TypeOK ==
  /\ IsViso => Viso!TypeOK
  /\ IsLayout => Layout!TypeOK
  /\ IsChd => Chd!TypeOK
  /\ IsChain => Chain!TypeOK
  /\ IsEncrypted => Iso!TypeOK
  /\ IsCso => Cso!TypeOK

\* VirtualISO.Read gives the bytes of the image, across structures, files and zeros.
VisoReadsTheImage == IsViso => Viso!ReadsTheImage

\* VirtualISO.Read fills the buffers it is made for.
VisoTidyReadsFill == IsViso => Viso!TidyReadsFill

\* The directory records of a virtual image point to where its directories are.
VisoDirectoriesFound == IsLayout => Layout!DirectoriesFound

\* And every file, in as many extents as it needs, where nothing else is.
VisoFilesFound == IsLayout => Layout!FilesFound

\* The path tables and descriptors of a virtual image lead to its directories.
VisoPathTablesLead == IsLayout => Layout!PathTablesLead

\* What the encoders of a virtual image check about what they append holds.
VisoEncoderAssertionsHold == IsLayout => Layout!EncoderAssertionsHold

\* Read of a CHD image gives its bytes, whatever failed before.
ChdReadsTheImage == IsChd => Chd!ReadsTheImage

\* Read of a CHD image makes progress up to its end.
ChdReadsOn == IsChd => Chd!ReadsOn

\* A CHD image has the size that was announced for it.
ChdSizeAsAnnounced == IsChd => Chd!SizeAsAnnounced

\* FS.Open gives what FS.Stat announced.
ChainOpensAsAnnounced == IsChain => Chain!OpensAsAnnounced

\* FS.Open and FS.Stat lose handles only where it is known that they do.
ChainNothingElseLost == IsChain => Chain!NothingElseLost

\* The 3k3y area is masked once, if at all.
ChainMarkMaskedOnce == IsChain => Chain!MarkMaskedOnce

\* A file is decrypted by its own key or a key file, and not one that already was.
ChainDecryptedByItsKey == IsChain => Chain!DecryptedByItsKey

\* A Redump image with its key file is decrypted.
ChainRedumpIsoDecrypted == IsChain => Chain!RedumpIsoDecrypted

\* EncryptedISO and ISO3k3y decrypt and mask what they should and nothing else.
EncryptedReadsTheImage == IsEncrypted => Iso!ReadsTheImage

\* They panic only on reads that do not begin and end at sectors, or begin in the
\* 3k3y area.
EncryptedTidyReadsSucceed == IsEncrypted => Iso!TidyReadsSucceed

\* Read of a compressed image gives its bytes, through both caches.
CsoReadsTheImage == IsCso => Cso!ReadsTheImage

\* Read of a compressed image succeeds where it is made for it.
CsoTidyReadsSucceed == IsCso => Cso!TidyReadsSucceed
=============================================================================
