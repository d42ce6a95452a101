CONSTANTS
  LongName = long
  Names = {a, b, long}
  MaxFiles = 3
  DataSize = 2
  Bytes = {"x", "y"}
  Garbage = garbage
  Buffers <- MCBuffers
  ReadSizes = {0, 1, 3}
SPECIFICATION Spec
PROPERTY ImplementsNameStore
