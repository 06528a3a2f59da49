SPECIFICATION SweepFairSpec
CONSTANTS
  Meetings = {1, 2}
  Size <- Sizes
  Policies <- AllPolicies
  Budgets = {0, 2}
  DefaultBudget = 2
  DefaultDays = 1
  Interval = 1
  MaxNow = 3
  MaxBack = 1
  MaxEdits = 1
  MaxU64 = 8
  MaxI64 = 6
INVARIANT PlanIsRight
PROPERTY SweepsKeepTheirWord
PROPERTY ExpiredAudioGoes
