\* Excessive velocities while a blend is on.
CONSTANTS
    osc = osc
    pd = pd
    Channels = {osc, pd}
    UnknownNames = {}
    InitialActive = pd
    Second = 2
    MaxTime = 2
    SwitchTimes = {0, 1, 2}
    EndTime = 9
    NoMessage = NoMessage
    MaxDelay = 1
    MinFails = 1
    Limit = 1
    NoLimit = NoLimit
    EffortOf <- MCEffortOf
    Efforts <- MCEfforts
    Blends = {2}
    Scale = 2
    Speeding = {TRUE, FALSE}
    Radio = {FALSE}
SPECIFICATION Spec
INVARIANTS
    ErrorMeansZero
