\* Both branches; eps_ is lost on the last two messages' times.
CONSTANTS
    Eps = 1
    Vanish = 9
    TestModes <- MCTestModes
    MaxTime = 12
    Times <- MCTimes
    Second = 4
    PubPeriod = 3
    Sources = {TRUE, FALSE}
SPECIFICATION Spec
CHECK_DEADLOCK FALSE
INVARIANTS
    FreshAtPublish
    FailsOnlyOnSmallStepsBack
PROPERTIES
    PropagatesForward
