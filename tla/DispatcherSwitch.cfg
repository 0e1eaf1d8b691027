\* Two controllers and switches between them; the loop runs forever.
CONSTANTS
    osc = osc
    pd = pd
    Channels = {osc, pd}
    UnknownNames = {}
    InitialActive = pd
    Second = 2
    MaxTime = 2
    SwitchTimes = {0, 2}
    EndTime = 9
    NoMessage = NoMessage
    MaxDelay = 1
    MinFails = 1
    Limit = NoLimit
    NoLimit = NoLimit
    EffortOf <- MCSameEffort
    Efforts = {1}
    Blends = {1}
    Scale = 1
    Speeding = {FALSE}
    Radio = {FALSE}
SPECIFICATION Spec
INVARIANTS
    GapShutsDown
PROPERTIES
    SwitchSeenFirst
