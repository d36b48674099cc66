SPECIFICATION Spec
CONSTANTS
    Bars = {b1, b2, b3}
    Devices = {d1}
    NoDevice = NoDevice
    MaxPending = 2
INVARIANT BarPerJob
INVARIANT OpHasCall
PROPERTY OpEnds
