SPECIFICATION FairSpec
CONSTANTS
  c1 = c1
  c2 = c2
  Callers = {c1, c2}
  OpsOf <- Split
  MaxAttempts = 1
  MaxFaults = 2
  MaxResets = 1
CHECK_DEADLOCK FALSE
INVARIANT HelpersAreBounded
INVARIANT NobodyWaitsOnTheDead
PROPERTY HandOverIsClean
PROPERTY CallsReturn
