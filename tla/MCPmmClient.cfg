CONSTANTS
  FrameCount = 5
  ByteBits = 2
  PageSize = 2
  WordSize = 16
  Phys = {0, 1, 2, 4, 6, 8, 10, 12}
  Ranges <- AllRanges
  Owners = {o1, o2}
  Maps <- AllMaps
SPECIFICATION ClientSpec
INVARIANTS FreeCountTracksBitmap FramesPartitioned NonUsableNeverHeld
