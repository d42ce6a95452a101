CONSTANTS
  Arena = 14
  Header = 2
  Sizes = {0, 1, 2, 3, 5}
SPECIFICATION StatsSpec
INVARIANTS Tiled InUseIsLive FirstFit BytesConserved
PROPERTY KmallocReturns
