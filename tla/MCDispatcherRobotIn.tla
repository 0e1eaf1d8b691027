------------------------ MODULE MCDispatcherRobotIn ------------------------
(* Small instances of DispatcherRobotIn: two controllers whose efforts are  *)
(* within and beyond the limit of 1.                                        *)
EXTENDS DispatcherRobotIn, TLC

CONSTANTS osc, pd

MCEffortOf == (pd :> 1) @@ (osc :> -2)
MCSameEffort == (pd :> 1) @@ (osc :> 1)
MCEfforts == {-2, 1}
=============================================================================
