\* Guards on contacts, which may chatter, or on time; restarts at any time.
CONSTANTS
    TransitionTimes <- MCTransitionTimes
    Configs <- MCConfigs
    MaxTime = 8
    None = None
    NoPhase = NoPhase
SPECIFICATION JumpSpec
INVARIANTS
    FollowsThePhase
    FollowsFreshTrajectories
    LandingOffset
PROPERTIES
    DelayIsExact
    PhasesInOrder
