SPECIFICATION FairSpec
CONSTANTS
  MaxAudio = 2
  MaxFaults = 1
  MaxCrashes = 1
  MaxEpochs = 2
CHECK_DEADLOCK FALSE
INVARIANT ReceiptsHold
INVARIANT ClaimsAreTrue
PROPERTY NothingAfterAnswer
PROPERTY WorkerEnds
