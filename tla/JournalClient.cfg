CONSTANTS
  MaxEntries = 3
  DiskBlocks = 2
  Targets = {0, 1}
  Zero = z
  Data = {z, x}
  Torn = torn
  NoWrite = nowrite
  MaxCrashes = 2
SPECIFICATION FairClientSpec
INVARIANT WholeWithoutLog
PROPERTIES AtomicSpec RecoveryCompletes CommittedLands
