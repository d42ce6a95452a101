\* Any caller: targets reach one past the disk.
CONSTANTS
  MaxEntries = 3
  DiskBlocks = 2
  Targets = {0, 1, 2}
  Zero = z
  Data = {z, x}
  Torn = torn
SPECIFICATION Spec
INVARIANTS CountedEntriesWhole ReplayedPrefix
PROPERTY OnlyCommittedReachesDisk
