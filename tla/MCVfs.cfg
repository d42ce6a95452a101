CONSTANTS
  Root = root
  Names = {root, a, b}
  MaxNodes = 4
  MaxOpen = 2
  DataBytes = 5
  Region = 2
  WordSize = 16
  Bytes = {"x", "y"}
  Garbage = garbage
  Buffers <- MCBuffers
  ReadSizes = {1, 3}
  SeekOffsets <- MCSeekOffsets
  Closed = closed
SYMMETRY Symmetry
SPECIFICATION Spec
INVARIANTS RegionsDisjoint OffsetInFile
PROPERTY ImplementsFileStore
