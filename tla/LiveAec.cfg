SPECIFICATION AecSpec
CONSTANTS
  Block = 2
  Delay = 1
  Queue = 1
  Retain = 6
  WaitCap = 4
  MaxWrites = 4
  MaxRoutes = 1
  MaxPanics = 1
CHECK_DEADLOCK FALSE
INVARIANT MicTiles
INVARIANT HealthyIsKept
PROPERTY StopSettles
