SPECIFICATION FairSpec
CONSTANTS
    Calls = {c1, c2}
    Ports = {0, 1}
    NoPort = NoPort
    Free = Free
    Commands = 2
    IdleLimit = 2
INVARIANT WaitsOnOpenFile
INVARIANT TrackedAreLive
PROPERTY CallEnds
PROPERTY FailedIsClosed
