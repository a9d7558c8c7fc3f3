\* The encoders' own assertions, on the layouts of Images.
SPECIFICATION Spec
CONSTANTS
  SectorSize = 4
  \* Virtual images of up to three files, which are empty, of a sector, and longer.
  HeadSectors = 1  VisoPad = 2  FileSizes = {0, 4, 5}  MaxFiles = 3  VisoMaxLen = 9
  \* Their layouts.
  LayoutSectorSize = 512  Trees <- MCTrees  NameOrder <- MCNameOrder  Upper <- MCUpper  NameLen <- MCNameLen
  MaxPart = 1023  PartSize = 512  LayoutPad = 32  ItemsLimit = 4  NumberLimit = 4
  ByteLimit = 256  IdWidth = 32  VolumeNames = {16, 17}  GameCodes = {3, 4, 31, 32}
  \* CHD images.
  Chds <- MCChds  HunkBytes = 6  UnitBytes = 3  SecLen = 6  HeaderLen = 4  ChdMaxLen = 8
  \* The chain.
  Disks <- MCDisks  ChainNames <- MCNames
  \* Encrypted and masked images.
  Maps <- MCMaps  FileSize = 23  CipherBlock = 2  CountSize = 1  RegionSize = 1
  MaskBegin = 3  MaskEnd = 6  EncryptedMaxLen = 9  EncryptedSpare = {0, 3}
  \* Compressed images of three blocks, the last whole, padded or short; an index
  \* cache of two entries.
  BlockSize = 2  Blocks = 3  MaxEntries = 2  CsoMaxLen = 6  CsoSpare = {1}
INVARIANT VisoEncoderAssertionsHold
CHECK_DEADLOCK FALSE
