SPECIFICATION Spec
CONSTANTS
    Addresses = {a1, a2}
    Handlers = {h1, h2}
    None = None
    IdleLimit = 2
    MaxQueue = 2
INVARIANT LocksHold
INVARIANT OrphansAreKnown
SYMMETRY Symmetry
