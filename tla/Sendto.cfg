SPECIFICATION SenderSpec
CONSTANTS
    Files <- TwoFiles
    Other = Other
    NoSession = NoSession
    Fallbacks = {2}
    MaxSessions = 2
    MaxTransfers = 3
    MaxNoise = 1
    MaxQueue = 2
    MaxCalls = 2
CHECK_DEADLOCK FALSE
INVARIANT AttemptsExist
INVARIANT NeverStuck
INVARIANT ProgressIsTrue
