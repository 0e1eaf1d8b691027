\* Velocity failures, the radio's e-stop, the limit, blends, late commands and
\* clocks that start again.
CONSTANTS
    MaxDelay = 1
    MinFails = 2
    Limit = 1
    NoLimit = NoLimit
    Efforts <- MCEffortBeyond
    Blends = {1}
    Scale = 1
    MaxTime = 2
SPECIFICATION SupervisorSpec
INVARIANTS
    SupervisorTypeOK
    FailsCountConsecutive
    LateIsForever
PROPERTIES
    StopIsForever
    SafeOutsideBlend
