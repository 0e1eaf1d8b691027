\* Nearly two periods, a clock that starts again at any time, and gaps that
\* hide up to three changes of state.
CONSTANTS
    left_stance_state = left
    right_stance_state = right
    double_support_state = double
    States <- MCStates
    Durations <- MCDurations
    T0 = 0
    Initial = Initial
    g1 = g1
    g2 = g2
    Garbage <- MCGarbage
    AsInt <- MCAsInt
    NoState = NoState
    Interest <- MCLiftoff
    MaxTime = 17
    MaxGap = 6
    PeriodOfNoHeadingControl = 1
    Margin = 2
    Forever = 17
    n_publishes = 2
    n_period_delay = 1
    fsm_offset = 5
SPECIFICATION GaitSpec
INVARIANTS
    StaysForDuration
    WindowsFromStart
    CoversNow
    EndsTogether
    SwingFromLiftoff
PROPERTIES
    SwitchStartsState
