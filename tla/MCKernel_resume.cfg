CONSTANTS
  Arena = 65536
  Header = 24
  Sizes = {64, 128, 4096}
  Entries <- MCEntries
  Work <- MCWork
  MaxThreads = 16
  StackSize = 4096
  ProbeSize = 128
  StackFrames = 12
SPECIFICATION KSpec
INVARIANT ThreadsResume
