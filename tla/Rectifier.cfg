\* The copy may end up out of sequence by more than the buffer's length.
CONSTANTS
    kBufferLength = 3
    Logs <- MCLogs
SPECIFICATION Spec
CHECK_DEADLOCK FALSE
INVARIANTS
    SortedUnlessSaid
    FailsIfTooSmall
