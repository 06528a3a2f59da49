\* One attempt against a user, a bridge and native calls that may never return.
SPECIFICATION FairSpec
CONSTANTS
  Attempts = {a1}
  None = None
  MaxTime = 2
INVARIANT RecorderInv
PROPERTY EndsAreFinal
PROPERTY RecorderProgresses
