----------------------------- MODULE GaitSwitch -----------------------------
(***************************************************************************)
(* The walking controller and run_controller_switch.cc, which is to switch *)
(* to it at the moment when its state machine enters a state: two          *)
(* processes that hear the same state messages of the robot.  The switch   *)
(* program misses some of them.                                            *)
(***************************************************************************)
EXTENDS WalkingController

CONSTANTS n_publishes, n_period_delay, fsm_offset

VARIABLES
    started, t_threshold, pub_count,
    missed      \* ghost: a message was missed after the last one heard

Switch == INSTANCE ControllerSwitch WITH fsm_period <- Period

\* run_controller_switch.cc:78-80.  The operator gives an offset at which a state
\* of the machine begins.
ASSUME GaitAssumption ==
    /\ n_publishes \in Nat
    /\ n_period_delay \in Int
    /\ fsm_offset \in {Accumulated[i] : i \in 0 .. Len(Durations) - 1}

switchVars == <<started, t_threshold, pub_count, missed>>

GaitInit ==
    /\ WalkInit
    /\ Switch!SwitchInit
    /\ missed = FALSE

GaitMessage ==
    /\ WalkMessage
    /\ \/ /\ Switch!HandleState(timestamp')
          /\ missed' = FALSE
       \/ /\ missed' = TRUE
          /\ UNCHANGED <<started, t_threshold, pub_count>>

Alone ==
    /\ WalkTick \/ WalkRestart \/ Publish
    /\ UNCHANGED switchVars

GaitNext == GaitMessage \/ Alone

gaitVars == <<walkVars, switchVars>>

GaitSpec == GaitInit /\ [][GaitNext]_gaitVars

------------------------------------------------------------------------------
(* Properties. *)

\* "we want the string assigment starts at the moment when
\* TimeBasedFiniteStateMachine switches to a new state": the first message
\* that is told about is the one with which the controller sees its state
\* begin, although program and controller count periods each on its own.  Only
\* where a message comes at the very instant at which a state begins may both
\* round differently: then it is that message though the controller sees the
\* state with the next, or the one after it though the controller saw the state
\* with that one.  Or the program missed a message, or a restart or a gap
\* misleads the controller.
SwitchStartsState ==
    [][pub_count = 0 /\ pub_count' = 1 /\ n_period_delay > 0 /\ ~missed /\ ~misled'
           => \/ timestamp' = start'
              \/ timestamp' = entered
              \/ start' = timestamp /\ timestamp = entered]_gaitVars
=============================================================================
