------------------------- MODULE JumpingController -------------------------
(***************************************************************************)
(* examples/Cassie/run_osc_jumping_controller.cc: the phases of the jump,  *)
(* the trajectory generators and the operational space controller in one   *)
(* diagram, advanced and then force-published for every message of the     *)
(* robot (systems/framework/lcm_driven_loop.h).                            *)
(*                                                                         *)
(* One step of the simulator computes the updates of all three systems     *)
(* from the state before it, so the controller and the center of mass      *)
(* generator learn of a phase one update after the machine enters it.      *)
(***************************************************************************)
EXTENDS JumpingEventFsm

CONSTANTS NoPhase   \* -0.1, the controller's first prev_fsm_state

ASSUME ControllerAssumption == NoPhase \notin Int

VARIABLES
    stage,          \* what the loop has done for the last message
    prev_fsm_state, prev_event_time, forces, cones, tracked, costs, sol, debug,
    com_fsm_state,  \* COMTrajGenerator's prev_fsm_state
    com_x_offset,   \* when its offset was measured
    fresh,          \* the trajectories that were generated for this message
    restarted       \* ghost: the clock was restarted since prev_event_time
                    \* was recorded

oscVars == <<prev_fsm_state, prev_event_time, forces, cones, tracked, costs, sol, debug>>
comVars == <<com_fsm_state, com_x_offset>>
fsmVars == vars
jumpVars == <<fsmVars, stage, oscVars, comVars, fresh, restarted>>

------------------------------------------------------------------------------
(* The configuration of the controller. *)

Feet == {"left_toe", "left_heel", "right_toe", "right_heel"}

StanceModes == {BALANCE, CROUCH, LAND}

StanceContacts == [state : StanceModes, contact : Feet]

\* The names of the tracking data are those of the trajectories.
Names == {"com_traj", "pelvis_rot_tracking_data", "l_foot_traj", "r_foot_traj"}

InFlight == {"l_foot_traj", "r_foot_traj"}

\* AddStateToTrack, AddStateAndPointToTrack and AddStateAndFrameToTrack.
StatesToTrack == [d \in Names |-> IF d \in InFlight THEN {FLIGHT} ELSE StanceModes]

\* The default window is [0, infinity).
Osc == INSTANCE OperationalSpaceControl WITH
           ContactCalls <- StanceContacts,
           TrackedStates <- StatesToTrack,
           Lower <- [d \in Names |-> 0],
           Upper <- [d \in Names |-> MaxTime]

------------------------------------------------------------------------------
JumpInit ==
    /\ Init
    /\ stage = "published"
    /\ Osc!Start(NoPhase)
    /\ com_fsm_state = BALANCE
    /\ com_x_offset = 0
    /\ fresh = {}
    /\ restarted = FALSE

JumpMessage(t, touching) ==
    /\ stage = "published"
    /\ Message(t, touching)
    /\ stage' = "advanced"
    /\ restarted' = (restarted \/ t < timestamp)
    /\ fresh' = {}
    /\ UNCHANGED <<oscVars, comVars>>

\* Mutant: the offset is measured when the jump leaves the ground only.
ComUpdate_InFlight ==
    /\ com_fsm_state' = fsm_state
    /\ com_x_offset' =
          IF com_fsm_state # fsm_state /\ fsm_state = FLIGHT THEN timestamp ELSE com_x_offset

\* COMTrajGenerator::DiscreteVariableUpdate
ComUpdate ==
    /\ com_fsm_state' = fsm_state
    /\ com_x_offset' = IF com_fsm_state # fsm_state THEN timestamp ELSE com_x_offset

\* The per-step update of the diagram.
Update ==
    /\ stage = "advanced"
    /\ DiscreteVariableUpdate
    /\ Osc!DiscreteVariableUpdate(fsm_state, timestamp)
    /\ UNCHANGED <<forces, cones, tracked, costs, sol, debug>>
    /\ ComUpdate
    /\ restarted' = (restarted /\ fsm_state = prev_fsm_state)
    /\ UNCHANGED <<stage, fresh>>

\* Mutant: no trajectory of the center of mass for the landing.
Generates_NotLanding(d) ==
    CASE d \in InFlight -> fsm_state = FLIGHT
      [] d = "com_traj" -> fsm_state \in {BALANCE, CROUCH}
      [] OTHER -> TRUE

\* In which phases a generator assigns its output; in others the output keeps
\* the trajectory of an earlier message.
Generates(d) ==
    CASE d \in InFlight -> fsm_state = FLIGHT
      [] d = "com_traj" -> fsm_state \in StanceModes
      [] OTHER -> TRUE

\* Publishers run in the order in which they were added: first the command,
\* which is pulled through the controller and the generators, then the debug
\* message.
PublishCommand ==
    /\ stage = "advanced"
    /\ updated
    /\ stage' = "commanded"
    /\ fresh' = {d \in Names : Generates(d)}
    /\ Osc!CalcOptimalInput(fsm_state, timestamp)
    /\ UNCHANGED <<fsmVars, comVars, restarted>>

PublishDebug ==
    /\ stage = "commanded"
    /\ stage' = "published"
    /\ Osc!AssignOscLcmOutput(timestamp)
    /\ UNCHANGED <<fsmVars, comVars, fresh, restarted>>

JumpNext ==
    \/ \E t \in Times, touching \in BOOLEAN : JumpMessage(t, touching)
    \/ Update
    \/ PublishCommand
    \/ PublishDebug

JumpSpec == JumpInit /\ [][JumpNext]_jumpVars
------------------------------------------------------------------------------
(* Properties. *)

Commanded == stage \in {"commanded", "published"} /\ sol # NoPhase

\* The program is made of what the phase is made of, all of it and nothing of
\* another phase: on the ground the center of mass and the pelvis with four
\* contacts, each within its friction cone, in the air the feet without any.
\* That includes the messages at which the controller does not know of the
\* phase's beginning yet.  Only a restart of the clock makes it drop what it
\* should follow, and never makes it add.  OSC_DEBUG tells what was followed.
FollowsThePhase ==
    Commanded =>
        /\ costs \subseteq {d \in Names : fsm_state \in StatesToTrack[d]}
        /\ ~restarted => costs = {d \in Names : fsm_state \in StatesToTrack[d]}
        /\ forces = (IF fsm_state = FLIGHT THEN {} ELSE Feet) /\ forces \subseteq cones
        /\ stage = "published" => debug = [tracking_data |-> costs, sol |-> timestamp]

\* A trajectory that the controller follows was generated for this message: no
\* generator is asked in a phase in which it keeps an old trajectory.
FollowsFreshTrajectories == Commanded => costs \subseteq fresh

\* The landing is shifted by what was measured at touchdown; the message of the
\* touchdown itself is still shifted by what was measured at takeoff.  So it is
\* across restarts, if the machine is set to start on the ground.
LandingOffset ==
    Commanded /\ fsm_state = LAND /\ config.init_state \in {BALANCE, CROUCH} =>
        \/ com_fsm_state = LAND /\ com_x_offset >= prev_time
        \/ com_fsm_state = FLIGHT /\ timestamp = prev_time
=============================================================================
