SPECIFICATION Spec
CONSTANTS
    a1 = a1
    a2 = a2
    d1 = d1
    d2 = d2
    Adapters <- MCAdapters
    Devices <- MCDevices
    AdapterOf <- MCAdapterOf
    NoAdapter = NoAdapter
    Keyboards <- MCKeyboards
    Audio <- MCAudio
    RowsPerDevice = 2
INVARIANT AdapterFollowsBluez
INVARIANT ListMirrorsBluez
INVARIANT MonitoredHasTimer
