\* Three input channels, a switch channel and a request for an unknown name.
\* MaxTime lets the clock jump by more than Second, forwards and backwards;
\* EndTime lets Simulate return, so the system may stop.
CONSTANTS
    Channels = {osc_walking, osc_standing, pd}
    UnknownNames = {typo}
    InitialActive = pd
    Second = 1
    MaxTime = 3
    EndTime = 3
    NoMessage = NoMessage
SPECIFICATION FairSpec
CHECK_DEADLOCK FALSE
INVARIANTS
    AdvanceInRange
    NoStaleCommand
PROPERTIES
    SwitchHonoured
    CommandHandled
    RefinesRouter
