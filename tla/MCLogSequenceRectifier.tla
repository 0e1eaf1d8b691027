----------------------- MODULE MCLogSequenceRectifier -----------------------
(* All logs of up to six messages with four timestamps.                     *)
EXTENDS LogSequenceRectifier

MCLogs == UNION {[1 .. n -> 0 .. 3] : n \in 0 .. 6}
=============================================================================
