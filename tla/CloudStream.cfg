SPECIFICATION FairSpec
CONSTANTS
    Text <- MCText
    Modes = {TRUE, FALSE}
    Offset = 1
    Window = 2
    Maximum = 2
    TailTokens = 3
    Attempts = 2
    MaxFailures = 3
CHECK_DEADLOCK FALSE
INVARIANT ConfirmedFinalsTile
INVARIANT ReplayIsExact
PROPERTY CloseIsAnswered
