SPECIFICATION Spec
CONSTANTS
  Meetings = {1, 2}
  Repos = {"private", "public"}
  Public = {"public"}
  Saveable <- MCSaveable
  MaxPerRound = 1
  MaxUpsets = 2
CHECK_DEADLOCK FALSE
INVARIANT ReceiptIsTrue
INVARIANT NoPublicByAccident
PROPERTY RoundTakesOnlyOwed
PROPERTY BacklogLands
