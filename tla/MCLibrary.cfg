CONSTANTS
  SlotCount = 3
  VmmPageSize = 2
  Span = 8
  Upper = 3
  Virts <- MCVirts
  Physs = {2, 4, 5}
  Flags <- MCFlags
  Present = "P"
  WordSize = 16
  EhdrSize = 3
  PhdrSize = 2
  UserBase = 4
  Images <- MCImages
  MCS_BLOCK_SIZE = 2
  AreaBlocks <- MCAreaBlocks
  BaseOf <- MCBaseOf
  MemoryEnd = 7
  Ramdevs = {"r"}
  Devs = {"d1", "d2"}
  Buffers <- MCBuffers
  MaxLba = 2
  MemSize = 5
  FillValues <- MCFillValues
  Vectors <- MCVectors
SPECIFICATION LibSpec
INVARIANTS  AcceptsExactlyValid  CopiesAsIfAtOnce FrameAsDeclared
PROPERTIES  ImplementsBlockStore ReturnsTransparently
CHECK_DEADLOCK FALSE
