SPECIFICATION PassFairSpec
CONSTANTS
    Window = 12
    Overlap = 8
    Guard = 1
    Tolerance = 2
    MaxMatch = 8
    Total = 16
    MergeGap = 1
    ShortGap = 3
    ShortVisible = 2
    LongTurn = 2
    SpanGap = 1
    Nearest = 1
    Sentences = {"."}
    Speeches <- MCSpeeches
    Talks <- MCTalks
    SpanSets <- MCSpanSets
    Wait = 1
    Tries = 2
    MaxUpgrades = 1
    PassCrashes = 1
    MaxFaults = 2
    MaxClicks = 2
    MaxMeetings = 1
CHECK_DEADLOCK FALSE
PROPERTY CleanedIsWhole
PROPERTY SettledIsKept
PROPERTY JobSettles
