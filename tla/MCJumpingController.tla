------------------------ MODULE MCJumpingController ------------------------
(* A short jump: as the program's flags have it by default, with a delay,    *)
(* with guards on time and crouched, and with a start in the air.            *)
EXTENDS JumpingController, TLC

MCTransitionTimes == (BALANCE :> 1) @@ (CROUCH :> 2) @@ (FLIGHT :> 4)
MCConfigs ==
    {[contact_based |-> TRUE, delay |-> 0, init_state |-> BALANCE],
     [contact_based |-> TRUE, delay |-> 2, init_state |-> BALANCE],
     [contact_based |-> FALSE, delay |-> 1, init_state |-> CROUCH],
     [contact_based |-> FALSE, delay |-> 0, init_state |-> FLIGHT]}
=============================================================================
