\* Packets of every size, a socket buffer that overflows, and a clock far from
\* the end of its int.
CONSTANTS
    MaxPackets = 4
    Room = 2
    Sizes = {"short", "exact", "long"}
    MaxNow = 3
    HalfRange = 8
    StopTime = 3
    NoPacket = NoPacket
SPECIFICATION FairSpec
CHECK_DEADLOCK FALSE
INVARIANTS
    NeverFails
PROPERTIES
    RefinesMailbox
    DiagramKeepsUp
    StopIsSeen
