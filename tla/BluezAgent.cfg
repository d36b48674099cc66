SPECIFICATION AgentSpec
CONSTANTS
    Requests = {r1, r2}
    Devices = {phone, mouse}
    NoRequest = NoRequest
    Code = Code
    Unshown = Unshown
    MaxQueue = 2
    MaxStarts = 2
    MaxShown = 2
INVARIANT DialogIsTracked
INVARIANT AgentServes
PROPERTY CancelClears
PROPERTY AnsweredOnce
