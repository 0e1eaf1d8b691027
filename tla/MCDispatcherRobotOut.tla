------------------------ MODULE MCDispatcherRobotOut ------------------------
(* Messages at even ticks, so that eps_ is less than what separates them.   *)
EXTENDS DispatcherRobotOut

MCTimes == {t \in 0 .. MaxTime : t % 2 = 0}
MCTestModes == {-1, 2}
=============================================================================
