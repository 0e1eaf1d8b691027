SPECIFICATION Spec
CHECK_DEADLOCK FALSE
CONSTANTS
    foot = foot
    rod = rod
    num_full <- FullRows
    active_inds <- ActiveRows
    num_positions = 1
    num_velocities = 2
    num_actuators = 1
    Frictional = {foot}
    EvaluatorSets <- NoEvaluators
    Lengths = {4}
    kUInt = 65536
    MaxModes = 3
    MaxEdits = 1
INVARIANTS
    DividesPoses
