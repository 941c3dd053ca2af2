SPECIFICATION Spec
CONSTANTS
  Bytes <- MCBytes
  Capacity = 4
  MaxChunk = 3
  MaxRead = 3
  MaxIndex = 9
INVARIANT SizeBounded
PROPERTY ImplementsFifo
