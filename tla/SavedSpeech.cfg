SPECIFICATION FairSpec
CONSTANTS
    Meetings = {1, 2}
    Sources = {1, 2}
    Unplanned <- MCUnplanned
    MaxPending = 1
    PrepareLimit = 1
    ProgressLimit = 1
    MaxJobs = 2
    MaxVisits = 1
CHECK_DEADLOCK FALSE
INVARIANT NativeIsOwned
PROPERTY JobsHaveCause
PROPERTY AliasOnlyGrows
PROPERTY JobsEnd
