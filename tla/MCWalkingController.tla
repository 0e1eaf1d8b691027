------------------------ MODULE MCWalkingController ------------------------
(* The walking controller's four states, with short durations.              *)
EXTENDS GaitSwitch

CONSTANTS g1, g2

MCStates ==
    <<left_stance_state, double_support_state, right_stance_state, double_support_state>>
MCDurations == <<3, 2, 3, 2>>
MCGarbage == {g1, g2}
MCAsInt ==
    [g \in MCGarbage |-> IF g = g1 THEN right_stance_state ELSE g]
MCLiftoff == {left_stance_state, right_stance_state}
=============================================================================
