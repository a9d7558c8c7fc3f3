SPECIFICATION Spec
CONSTANTS
  BlockSize = 2
  Blocks = 3
  MaxEntries = 2
  MaxLen = 7
  Spare = {0, 2}
INVARIANT BufferSuffices
CHECK_DEADLOCK FALSE
