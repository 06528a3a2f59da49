SPECIFICATION FairSpec
CONSTANTS
  Sweepers = {s1}
  MaxFaults = 2
INVARIANT ArchiveInv
PROPERTY KeepsAudioDurable
PROPERTY SessionsSettle
