SPECIFICATION Spec
CONSTANTS
    hci0 = hci0
    KillSwitch = KillSwitch
    OtherSwitch = OtherSwitch
    cb1 = cb1
    cb2 = cb2
    Adapters <- OneAdapter
    Handlers <- TwoHandlers
    Callbacks <- TwoCallbacks
    MaxSignals = 1
SYMMETRY Symmetric
INVARIANT RequestsAccounted
INVARIANT QuietAfterUnload
INVARIANT ItemMatchesState
PROPERTY AnsweredBeforeSwitched
