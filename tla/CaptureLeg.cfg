SPECIFICATION LegFairSpec
CONSTANTS
  NoBufferTimeout = 3
  SilenceTimeout = 2
  QuietNotice = 2
  EmitsSilence = TRUE
  DebounceQuiet = 1
  DebounceCeiling = 2
  RetryBackoff = 4
  MaxBackoff = 5
  MinInterval = 4
  MaxAttempts = 2
  MaxIneffective = 1
  RebuildOnChange = TRUE
  HealthyFor = 2
  MaxNow = 6
  MaxNative = 1
CHECK_DEADLOCK FALSE
PROPERTY RebuildsAreEarned
PROPERTY GapsAreTrue
PROPERTY RecoveryIsPrompt
