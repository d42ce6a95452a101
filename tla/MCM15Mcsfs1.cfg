CONSTANTS
  Names = {a, b}
  MaxFiles = 2
  DataSize = 6
  Garbage = garbage
  Buffers <- MCBuffers
  ReadSizes = {1, 3}
SPECIFICATION Spec
PROPERTY ReadsBackLastWrite
