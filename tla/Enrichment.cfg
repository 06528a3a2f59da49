SPECIFICATION Spec
CONSTANTS
  MaxEdits = 1
  MaxCrashes = 1
CHECK_DEADLOCK FALSE
PROPERTY OutputsAreCurrent
PROPERTY HumanWorkStands
PROPERTY BacklogDrains
