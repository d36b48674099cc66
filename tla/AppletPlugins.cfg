SPECIFICATION Spec
CONSTANTS
    Minutes = 2
    MaxHeard = 2
    Controllers = {c1, c2}
    MaxTold = 3
    MaxLock = 3
    Peers = {p1, p2}
    Names = {n1, n2}
    MaxBytes = 2
    MaxMonitors = 2
    Nobody = Nobody
    HomeOf <- Homed
    r1 = r1
    r2 = r2
    h1 = h1
    h2 = h2
    MaxItems = 1
    MaxMessages = 3
    Headsets = {k1, k2}
    MaxCards = 2
    MaxLines = 2
    MaxSignals = 2
    MaxCalls = 3
SYMMETRY Symmetry
INVARIANT ProfilesOffered
INVARIANT ItemOffered
INVARIANT ConnectionsShown
INVARIANT ScreensaverReleased
INVARIANT UsageIsOwn
INVARIANT ReconnectOffered
INVARIANT NapIsKnown
