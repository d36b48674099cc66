SPECIFICATION Spec
CONSTANTS
    Transfers = {t1, t2}
    Devices = {phone, laptop}
    AutoTrusted = {laptop}
    NoNote = NoNote
    Unshown = Unshown
    MaxQueue = 2
    MaxCrashes = 1
 
INVARIANT AcceptedWithConsent
 
PROPERTY AllAreHeard
PROPERTY AnsweredOnce
