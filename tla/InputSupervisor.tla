-------------------------- MODULE InputSupervisor --------------------------
(***************************************************************************)
(* examples/Cassie/input_supervisor.cc: the Drake system between the       *)
(* controllers' commands and the robot.  It thresholds efforts, shuts down *)
(* on excessive velocities, on late commands and on the radio's soft       *)
(* e-stop, and blends efforts after a controller switch.                   *)
(*                                                                         *)
(* Time is counted in ticks.  One actuator stands for all of them: every   *)
(* output is computed component by component.  Published efforts are       *)
(* integers scaled by Scale, which every blend duration divides, so that   *)
(* the blend's quotient is exact.  Drake keeps one output value per port   *)
(* and hands it to the calculation again, so what a calculation does not   *)
(* assign keeps its former value.                                          *)
(***************************************************************************)
EXTENDS Integers

CONSTANTS
    MaxDelay,   \* kMaxControllerDelay (0.1 s), in ticks
    MinFails,   \* min_consecutive_failures
    Limit,      \* input_limit, or NoLimit
    NoLimit,    \* std::numeric_limits<double>::max()
    Efforts,    \* efforts that controllers command
    Blends,     \* blend durations in switch messages, in ticks
    Scale,      \* scale of the published efforts
    MaxTime     \* bound: largest timestamp, in ticks

\* input_supervisor.h:43-46 (default of min_consecutive_failures is 1),
\* input_supervisor.cc:28-30 and dispatcher_robot_in.cc:101-104 (a limit is
\* not negative, a negative flag means none)
ASSUME SupervisorAssumption ==
    /\ MaxDelay \in Nat
    /\ MinFails \in Nat \ {0}
    /\ NoLimit \notin Int
    /\ Limit \in Nat \cup {NoLimit}
    /\ Efforts \subseteq Int
    /\ Blends \subseteq Nat
    /\ Scale \in Nat \ {0}
    /\ \A d \in Blends \ {0} : \E k \in 1 .. Scale : k * d = Scale
    /\ MaxTime \in Nat

VARIABLES
    \* input ports
    command,    \* the command's timestamp and effort
    overspeed,  \* some velocity of the state is beyond max_joint_velocity
    switchMsg,  \* the controller switch message's utime and blend duration
    radioStop,  \* radio channel 15 is -1
    \* discrete state, and the mutable member blend_duration_
    n_fails, status, switch_time, prev_efforts_time, prev_efforts,
    soft_estop, blend_duration,
    \* output ports
    motors,     \* command_output_port_
    statusMsg,  \* status_output_port_
    \* ghosts
    streak,     \* updates in a row, up to now, that saw excessive velocity
    tripped,    \* there were MinFails such updates in a row
    lateSeen    \* an update saw a late command, and none within MaxDelay since

ports == <<command, overspeed, switchMsg, radioStop>>
state == <<n_fails, status, switch_time, prev_efforts_time, prev_efforts,
           soft_estop, blend_duration>>
outputs == <<motors, statusMsg>>
ghosts == <<streak, tripped, lateSeen>>
svars == <<ports, state, outputs, ghosts>>

Times == 0 .. MaxTime
Commands == [ts : Times, u : Efforts \cup {0}]
Switches == [utime : Times, blend : Blends \cup {0}]

\* What leaves for the motors: an effort scaled by Scale, the damping of the
\* soft e-stop, or no finite number at all.
Output(kind, val, ts) == [kind |-> kind, val |-> val, ts |-> ts]

SupervisorTypeOK ==
    /\ command \in Commands
    /\ overspeed \in BOOLEAN
    /\ switchMsg \in Switches
    /\ radioStop \in BOOLEAN
    /\ n_fails \in 0 .. MinFails
    /\ status \in {0, 1}
    /\ switch_time \in Times
    /\ prev_efforts_time \in Times
    /\ prev_efforts \in Efforts \cup {0}
    /\ soft_estop \in {0, 1}
    /\ blend_duration \in Blends \cup {0}
    /\ motors \in [kind : {"effort", "damping", "nonfinite"}, val : Int, ts : Times]
    /\ statusMsg \in [status : 0 .. 7, vel_limit : BOOLEAN, act_limit : BOOLEAN,
                      act_delay : BOOLEAN, shutdown : BOOLEAN]
    /\ streak \in 0 .. MinFails
    /\ tripped \in BOOLEAN
    /\ lateSeen \in BOOLEAN

SupervisorInit ==
    /\ command = [ts |-> 0, u |-> 0]
    /\ overspeed = FALSE
    /\ switchMsg = [utime |-> 0, blend |-> 0]
    /\ radioStop = FALSE
    /\ n_fails = 0
    /\ status = 0
    /\ switch_time = 0
    /\ prev_efforts_time = 0
    /\ prev_efforts = 0
    /\ soft_estop = 0
    /\ blend_duration = 0
    /\ motors = Output("effort", 0, 0)
    /\ statusMsg = [status |-> 0, vel_limit |-> FALSE, act_limit |-> FALSE,
                    act_delay |-> FALSE, shutdown |-> FALSE]
    /\ streak = 0
    /\ tripped = FALSE
    /\ lateSeen = FALSE

------------------------------------------------------------------------------
(* UpdateErrorFlag, the periodic update. *)

\* The command is more than kMaxControllerDelay after the last one on record.
Late == command.ts - prev_efforts_time > MaxDelay

\* Mutant: the late command's time is recorded like any other.
RecordedTime_Always == command.ts

\* A late command resets the record, so that later commands are late as well.
RecordedTime == IF Late THEN 0 ELSE command.ts

\* Mutants: the counter grows without end; it is not reset; it is reset after a
\* shutdown as well.
CountFailures_Unbounded ==
    IF overspeed THEN n_fails' = n_fails + 1 /\ status' = 1
    ELSE n_fails' = 0 /\ status' = 0
CountFailures_NoReset ==
    IF n_fails < MinFails /\ overspeed
    THEN n_fails' = n_fails + 1 /\ status' = 1
    ELSE UNCHANGED <<n_fails, status>>
CountFailures_Resettable ==
    IF ~overspeed THEN n_fails' = 0 /\ status' = 0
    ELSE IF n_fails >= MinFails THEN UNCHANGED <<n_fails, status>>
    ELSE n_fails' = n_fails + 1 /\ status' = 1

\* Consecutive updates with excessive velocity are counted up to MinFails,
\* where the counter stays.
CountFailures ==
    IF n_fails >= MinFails THEN UNCHANGED <<n_fails, status>>
    ELSE IF overspeed THEN n_fails' = n_fails + 1 /\ status' = 1
    ELSE n_fails' = 0 /\ status' = 0

\* A switch message newer than the last one starts a blend.
RecordSwitch ==
    IF switch_time < switchMsg.utime
    THEN switch_time' = switchMsg.utime /\ blend_duration' = switchMsg.blend
    ELSE UNCHANGED <<switch_time, blend_duration>>

\* Unless a blend is going on, the command is what the next one starts from.
RecordEfforts ==
    prev_efforts' = IF command.ts - switchMsg.utime >= blend_duration'
                    THEN command.u ELSE prev_efforts

CountGhosts ==
    /\ streak' = IF ~overspeed THEN 0
                 ELSE IF streak < MinFails THEN streak + 1 ELSE streak
    /\ tripped' = (tripped \/ streak' = MinFails)
    /\ lateSeen' = (Late \/ (lateSeen /\ command.ts > MaxDelay))

UpdateErrorFlag ==
    /\ prev_efforts_time' = RecordedTime
    /\ soft_estop' = IF radioStop THEN 1 ELSE soft_estop
    /\ CountFailures
    /\ RecordSwitch
    /\ RecordEfforts
    /\ CountGhosts
    /\ UNCHANGED <<ports, outputs>>

------------------------------------------------------------------------------
(* SetMotorTorques and SetStatus, the outputs that a publish evaluates. *)

\* Mutant: the flag of the soft e-stop is forgotten.
IsError_NoLatch == n_fails >= MinFails \/ Late

IsError == n_fails >= MinFails \/ Late \/ soft_estop = 1

\* The threshold of an effort to [-input_limit, input_limit].
Clamp(u) ==
    IF Limit = NoLimit THEN u
    ELSE IF u > Limit THEN Limit ELSE IF u < -Limit THEN -Limit ELSE u

BeyondLimit(u) == Limit # NoLimit /\ (u > Limit \/ u < -Limit)

\* alpha = SinceSwitch / blend_duration in floating point: at most 1 while the
\* blend lasts; with a duration of 0 it is +inf or NaN, and no blend, unless
\* the command is older than the switch, when it is -inf.
SinceSwitch == command.ts - switch_time
Blending == IF blend_duration = 0 THEN SinceSwitch < 0
            ELSE SinceSwitch =< blend_duration

\* alpha * command + (1 - alpha) * prev_efforts, scaled
Blended == SinceSwitch * (Scale \div blend_duration) * command.u
           + (blend_duration - SinceSwitch) * (Scale \div blend_duration) * prev_efforts

SetMotorTorques ==
    IF radioStop THEN Output("damping", 0, motors.ts)
    ELSE IF Blending /\ blend_duration = 0 THEN Output("nonfinite", 0, command.ts)
    ELSE IF Blending THEN Output("effort", Blended, command.ts)
    ELSE Output("effort", IF IsError THEN 0 ELSE Scale * Clamp(command.u), command.ts)

\* Both reasons for a shutdown but the radio's are told.
SaysShutdown == n_fails >= MinFails \/ Late

\* status is computed afresh, and so is vel_limit; the other flags are only
\* ever set.
SetStatus ==
    [status    |-> status + (IF BeyondLimit(command.u) THEN 2 ELSE 0)
                          + (IF n_fails >= MinFails THEN 4 ELSE 0),
     vel_limit |-> status = 1,
     act_limit |-> statusMsg.act_limit \/ BeyondLimit(command.u),
     act_delay |-> statusMsg.act_delay \/ Late,
     shutdown  |-> statusMsg.shutdown \/ SaysShutdown]

Publish ==
    /\ motors' = SetMotorTorques
    /\ statusMsg' = SetStatus
    /\ UNCHANGED <<ports, state, ghosts>>

------------------------------------------------------------------------------
(* The system on its own: inputs change at any time, in any order. *)

NewCommand(c) ==
    /\ command' = c
    /\ UNCHANGED <<overspeed, switchMsg, radioStop, state, outputs, ghosts>>

NewState(beyond) ==
    /\ overspeed' = beyond
    /\ UNCHANGED <<command, switchMsg, radioStop, state, outputs, ghosts>>

NewSwitch(m) ==
    /\ switchMsg' = m
    /\ UNCHANGED <<command, overspeed, radioStop, state, outputs, ghosts>>

NewRadio(stop) ==
    /\ radioStop' = stop
    /\ UNCHANGED <<command, overspeed, switchMsg, state, outputs, ghosts>>

SupervisorNext ==
    \/ \E t \in Times, u \in Efforts : NewCommand([ts |-> t, u |-> u])
    \/ \E beyond \in BOOLEAN : NewState(beyond)
    \/ \E t \in Times, d \in Blends : NewSwitch([utime |-> t, blend |-> d])
    \/ \E stop \in BOOLEAN : NewRadio(stop)
    \/ UpdateErrorFlag
    \/ Publish

SupervisorSpec == SupervisorInit /\ [][SupervisorNext]_svars

------------------------------------------------------------------------------
(* Properties. *)

\* The counter shuts the robot down exactly when MinFails updates in a row saw
\* an excessive velocity; until then it is the length of the current run.
FailsCountConsecutive == n_fails = IF tripped THEN MinFails ELSE streak

\* A shutdown by velocity or by the radio is for good.
Stopped == n_fails >= MinFails \/ soft_estop = 1
StopIsForever == [][Stopped => Stopped']_svars

\* After a stop the motors get no controller's effort unless a blend is on,
\* and without a stop never more than the limit allows: whatever an update and
\* the publishes after it saw.
SafeOutsideBlend ==
    [][motors' # motors /\ motors'.kind = "effort" /\ ~Blending =>
         /\ Stopped => motors'.val = 0
         /\ Limit # NoLimit => motors'.val \in -(Limit * Scale) .. Limit * Scale]_svars

\* Once an update saw a late command, every later command is refused as well,
\* until one comes from a clock that started again.
LateIsForever == lateSeen /\ command.ts > MaxDelay => IsError

\* The status counts the shutdown bit only on top of the velocity bit, so that
\* 4 and 6 are never sent: a shutdown keeps the status it was reached with.
StatusBits == statusMsg.status \in {0, 1, 2, 3, 5, 7}

\* The strengthening that makes the properties inductive: the status goes with
\* the counter, and a late command leaves no time on record.
SupervisorInv ==
    /\ SupervisorTypeOK
    /\ FailsCountConsecutive
    /\ ~tripped => streak < MinFails
    /\ status = 1 <=> n_fails > 0
    /\ lateSeen => prev_efforts_time = 0
    /\ StatusBits
=============================================================================
