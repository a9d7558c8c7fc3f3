CONSTANTS
  i1 = i1
  i2 = i2
  i3 = i3
  i4 = i4
  f1 = f1
  d1 = d1
  NoHandle = NoHandle
  Id <- MCFewIds
  Files <- MCFiles
  Dirs <- MCDirs
  SectorOf <- MCSectorOf
  EntriesOf <- MCEntriesOf
  HasTimeout = TRUE
  MaxPayload = 1
  MaxBacklog = 2
  PayloadOps <- MCPayloadOps
CHECK_DEADLOCK FALSE
SPECIFICATION Spec
INVARIANT PayloadBelongsToWrite
