------------------------- MODULE WalkingController -------------------------
(***************************************************************************)
(* examples/Cassie/run_osc_walking_controller.cc: the phase of the walk,   *)
(* and what the trajectory generators and the operational space controller *)
(* remember of it.  The state machine is a function of the message, so all *)
(* of them learn of a state from the message that first shows it.          *)
(*                                                                         *)
(* Positions are reduced to the time at which they were measured, and      *)
(* trajectories to the interval they are made for.                         *)
(***************************************************************************)
EXTENDS WalkingPhase

CONSTANTS
    left_stance_state, right_stance_state, double_support_state,
    PeriodOfNoHeadingControl,   \* in ticks
    Margin,                     \* 0.001 s in ticks: no interval may be shorter
    Forever                     \* the default t_ub, infinity

\* The state as the generators and the controller's program take it.
fsm_int == ToInt(fsm)

SingleSupport == {left_stance_state, right_stance_state}

\* With and without double supports; single supports last gains.ss_time, double
\* supports gains.ds_time, neither less than 0.001 s.  The machine starts at
\* time 0.
ASSUME WalkAssumption ==
    /\ T0 = 0
    /\ left_stance_state # right_stance_state
    /\ double_support_state \notin SingleSupport
    /\ \/ States = <<left_stance_state, right_stance_state>>
       \/ States = <<left_stance_state, double_support_state,
                     right_stance_state, double_support_state>>
    /\ \A i, j \in DOMAIN States :
          States[i] = States[j] \/ {States[i], States[j]} = SingleSupport =>
              Durations[i] = Durations[j]
    /\ Interest = SingleSupport
    /\ Margin \in Nat \ {0}
    /\ \A i \in DOMAIN Durations : Margin <= Durations[i]
    /\ PeriodOfNoHeadingControl \in Nat
    /\ Forever \in Nat /\ Forever >= MaxTime

VARIABLES
    stage,          \* what the loop has done for the last message
    prev_fsm_state, prev_event_time, forces, cones, tracked, costs, sol, debug,
    lipm_prev_fsm, touchdown_com,   \* LIPMTrajGenerator: when the center of
                                    \* mass and the stance feet were measured
    swing_prev_fsm, liftoff_pos,    \* SwingFootTrajGenerator: which foot was
                                    \* measured and when
    unlatched       \* ghost: since then the clock started again, a gap hid two
                    \* changes of state, or rounding hid the state

oscVars == <<prev_fsm_state, prev_event_time, forces, cones, tracked, costs, sol, debug>>
genVars == <<lipm_prev_fsm, touchdown_com, swing_prev_fsm, liftoff_pos>>
phaseVars == vars
walkVars == <<phaseVars, stage, oscVars, genVars, unlatched>>

------------------------------------------------------------------------------
(* The configuration of the controller. *)

\* With every state the feet that its contact points are on.
StanceFeet(s) ==
    CASE s = left_stance_state -> {"left"}
      [] s = right_stance_state -> {"right"}
      [] s = double_support_state -> {"left", "right"}
      [] OTHER -> {}

ContactCalls ==
    {c \in [state : ToSet(States), contact : {"left", "right"} \X {"toe", "heel"}] :
        c.contact[1] \in StanceFeet(c.state)}

\* The foot that swing_ft_traj is about.
PointToTrack(s) == IF s = left_stance_state THEN "right" ELSE "left"

\* No state stands for all of them.
TrackedStates ==
    [swing_ft_traj |-> SingleSupport,
     lipm_traj |-> {},
     pelvis_balance_traj |-> {},
     pelvis_heading_traj |-> {},
     left_toe_angle_traj |-> {right_stance_state},
     right_toe_angle_traj |-> {left_stance_state},
     swing_hip_yaw_traj |-> SingleSupport]

Osc == INSTANCE OperationalSpaceControl WITH
           Lower <- [d \in DOMAIN TrackedStates |->
                        IF d = "pelvis_heading_traj" THEN PeriodOfNoHeadingControl ELSE 0],
           Upper <- [d \in DOMAIN TrackedStates |-> Forever]

------------------------------------------------------------------------------
(* The generators. *)

\* Mutant: the duration of the state that follows.
StateDuration_Next(s) ==
    LET i == CHOOSE i \in DOMAIN States :
                 States[i] = IF s \in ToSet(States) THEN s ELSE left_stance_state
    IN  Durations[(i % Len(States)) + 1]

\* unordered_state_durations_; a state that is not known counts as the first.
StateDuration(s) ==
    Durations[CHOOSE i \in DOMAIN States :
                  States[i] = IF s \in ToSet(States) THEN s ELSE left_stance_state]

\* LIPMTrajGenerator::DiscreteVariableUpdate
LipmUpdate ==
    /\ lipm_prev_fsm' = fsm'
    /\ touchdown_com' = IF fsm' # lipm_prev_fsm THEN timestamp' ELSE touchdown_com

\* swing_foot_map_
SwingFoot(s) == IF s = left_stance_state THEN "right" ELSE "left"

\* Mutant: the first single support is not left in between.
EntersSwing_Any == fsm_int' \in SingleSupport /\ swing_prev_fsm = NoState

\* Double supports are not remembered.
EntersSwing == fsm_int' \in SingleSupport /\ fsm' # swing_prev_fsm

\* SwingFootTrajGenerator::DiscreteVariableUpdate
SwingUpdate ==
    IF EntersSwing
    THEN /\ swing_prev_fsm' = fsm'
         /\ liftoff_pos' = [foot |-> SwingFoot(fsm_int'), at |-> timestamp']
    ELSE UNCHANGED <<swing_prev_fsm, liftoff_pos>>

Least(a, b) == IF a <= b THEN a ELSE b

\* CalcTrajFromCurrent
ComFromCurrent ==
    LET end == start + StateDuration(fsm_int)
    IN  [from |-> Least(timestamp, end - Margin), to |-> end]

\* CalcTrajFromTouchdown
ComFromTouchdown == [from |-> start, to |-> start + StateDuration(fsm_int)]

\* CalcTrajs, in single support
SwingTraj ==
    LET end == start_of_interest + StateDuration(fsm_int)
    IN  [from |-> Least(start_of_interest, end - Margin), to |-> end]

\* The end of the swing for WalkingSpeedControl, which knows one duration only.
SpeedControlEnd == start_of_interest + StateDuration(left_stance_state)

------------------------------------------------------------------------------
WalkInit ==
    /\ Init
    /\ stage = "published"
    /\ Osc!Start(NoState)
    /\ lipm_prev_fsm = Initial
    /\ touchdown_com = 0
    /\ swing_prev_fsm = NoState
    /\ liftoff_pos = [foot |-> "none", at |-> 0]
    /\ unlatched = FALSE

\* The clock is looked at by messages only, so it may as well stand still while
\* the loop works.
WalkTick ==
    /\ stage = "published"
    /\ Tick
    /\ UNCHANGED <<stage, oscVars, genVars, unlatched>>

WalkRestart ==
    /\ stage = "published"
    /\ Restart
    /\ unlatched' = TRUE
    /\ UNCHANGED <<stage, oscVars, genVars>>

\* The message and the update of the diagram.
WalkMessage ==
    /\ stage = "published"
    /\ stage' = "advanced"
    /\ Message
    /\ Osc!DiscreteVariableUpdate(fsm', timestamp')
    /\ UNCHANGED <<forces, cones, tracked, costs, sol, debug>>
    /\ LipmUpdate
    /\ SwingUpdate
    /\ unlatched' = (~EntersSwing /\ (unlatched \/ passed = 2 \/ fsm' \in Garbage))

\* The forced publish.
Publish ==
    /\ stage = "advanced"
    /\ stage' = "published"
    /\ Osc!CalcOptimalInput(fsm_int, timestamp)
    /\ UNCHANGED <<phaseVars, genVars, unlatched>>

WalkNext == WalkTick \/ WalkRestart \/ WalkMessage \/ Publish

WalkSpec == WalkInit /\ [][WalkNext]_walkVars

------------------------------------------------------------------------------
(* Properties. *)

ControllerTypeOK ==
    /\ TypeOK
    /\ stage \in {"advanced", "published"}
    /\ prev_fsm_state \in ToSet(States) \cup {NoState} \cup Garbage
    /\ prev_event_time \in 0 .. MaxTime
    /\ costs \subseteq tracked /\ tracked \subseteq DOMAIN TrackedStates
    /\ forces = cones \/ sol = NoState
    /\ lipm_prev_fsm \in ToSet(States) \cup {Initial} \cup Garbage
    /\ touchdown_com \in 0 .. MaxTime
    /\ swing_prev_fsm \in SingleSupport \cup {NoState} \cup Garbage
    /\ liftoff_pos \in [foot : {"left", "right", "none"}, at : 0 .. MaxTime]
    /\ unlatched \in BOOLEAN

\* The last message has been answered by a command.
Answered == stage = "published" /\ sol # NoState

\* "The period starts when the finite state machine switches to a new state":
\* the controller's windows count from the start that the event time system
\* recorded, by a watch of its own, so the heading is left alone for the first
\* part of every visit, as long as no restart or hidden change misleads both
\* and rounding does not show the visit late.
WindowsFromStart ==
    Answered =>
        LET heading == "pelvis_heading_traj" \in costs
        IN  /\ heading <=> timestamp - start >= PeriodOfNoHeadingControl
            /\ heading /\ Fresh /\ ~misled /\ fsm = States[index] =>
                   timestamp - entered >= PeriodOfNoHeadingControl

\* The trajectory of the center of mass starts at the time at which its start
\* was measured, by a watch of its own too; and each trajectory is made for an
\* interval that the message falls into, so that none is evaluated beyond its
\* end, and is at its very end only where rounding shows the state once more at
\* the instant the next one begins.  The one from the current state begins in
\* the state, and no earlier than the generator's margin makes it: unless a
\* restart or two hidden changes mislead.
CoversNow ==
    Answered =>
        /\ ComFromTouchdown.from = touchdown_com
        /\ ~misled =>
               /\ ComFromTouchdown.from <= ComFromCurrent.from
               /\ ComFromCurrent.from <= timestamp
               /\ timestamp - ComFromCurrent.from <= Margin
               /\ timestamp <= ComFromTouchdown.to
               /\ Fresh /\ timestamp = ComFromTouchdown.to =>
                      timestamp = entered /\ fsm # States[index]
        /\ fsm_int \in SingleSupport /\ ~misled =>
               SwingTraj.from <= timestamp /\ timestamp <= SwingTraj.to

\* The footstep is planned for the end of the swing: there the predicted
\* trajectory of the center of mass ends, for which the swing foot generator
\* and the speed control evaluate it, each with its own times.
EndsTogether ==
    Answered /\ fsm_int \in SingleSupport =>
        ComFromCurrent.to = SwingTraj.to /\ SpeedControlEnd = SwingTraj.to

\* "The start point of the traj is the swing foot position at lift-off": of the
\* foot that the controller moves and does not stand on, measured at the time
\* from which the trajectory starts; unless the clock started again since, or
\* a gap or rounding hid the other foot's swing.
SwingFromLiftoff ==
    Answered /\ fsm_int \in SingleSupport /\ ~unlatched =>
        /\ liftoff_pos = [foot |-> PointToTrack(fsm_int), at |-> SwingTraj.from]
        /\ \A c \in forces : c[1] # liftoff_pos.foot
=============================================================================
