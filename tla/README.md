# A TLA+ verification of dairlib's run-time layer

dairlib is a robotics library on top of Drake. Most of its lines are numerics:
kinematics, collocation, quadratic programs. What runs on the robot Cassie,
though, is a small set of processes that exchange LCM and UDP messages at 1 to
2 kHz, and what can go wrong between them is not numerical: which message is
handled, at what time, in which order, by whom, after which restart; what of an
earlier phase of the gait is still remembered, and by whom. The trajectory
optimization has a bookkeeping of its own: which variables of which knot of
which mode a constraint is about. This project models both from the source,
checks the models with TLC and proves most of the properties with TLAPS for
every value of the constants.

Contents: 1 the system, 2 the modules, 3 the runs, 4 bounds, 5 fairness, 6 what
the code does against its comments, 7 the proofs, 8 limits and what is not
modelled, 9 what is left.

## 1. The system

```
                 UDP                        LCM: state, contacts
  robot ------------------> dispatcher_robot_out ---------------+
    ^                       (CassieStateEstimator)              |
    |                            ^ LCM, from a simulation       v
    | UDP                        |                        controllers
    |                       multibody_sim                 (walking, standing,
    |                                                      jumping, PD)
  dispatcher_robot_in <-------------------------------------- | LCM: commands
  (LcmDrivenLoop, InputSupervisor) <---- run_controller_switch | of each channel
                                   LCM: switch messages
```

Every process builds a Drake diagram and lets incoming messages drive it: wait
for a message, advance the diagram's simulator to the message's time, publish.
Nothing but messages connects the processes. Their clocks are the times in the
messages; when the robot's driver or a simulation starts again, time starts
again, and every stage has a rule of its own for noticing it. Off-line programs
(trajectory optimization, log tools) share nothing with them but code.

| component | state it keeps | operations | what is hard | what makes it correct |
|---|---|---|---|---|
| `LcmDrivenLoop` (systems/framework) | active channel, one mailbox per channel and one for switches, the context's time | pump, handle an input, handle a switch, return | inputs and switches in one pump, channels that nobody reads, clocks that jump | no AdvanceTo into the past or far ahead; no command from before its channel was active; requests and commands are handled |
| `InputSupervisor` | failure counter, status, times of the last switch and command, last effort, e-stop flag, blend duration | periodic update, two outputs | the update and the outputs read the same state at different times; latches; a watchdog by timestamps | shutdowns happen when and only when they should and stay; outside a blend nothing unsafe leaves |
| `dispatcher_robot_in` | both of these, and the simulator's pending events | as above, under Drake's order of events | which of a switch message and a command is seen first | the supervisor sees a switch before the new controller's first command; a gap shuts down |
| `CassieUDPSubscriber`, `UDPDrivenLoop` | latest packet and its number under a mutex, a flag to stop, two contexts | polling thread; wait, advance, publish; stop and join | two threads, spurious wake-ups, lost packets, join of a blocked thread, a clock in an int | a mailbox: latest message, once, with its own number; the end is reached |
| `dispatcher_robot_out`, `CassieStateEstimator` | the simulator's time and pending event, the filter's last time, test mode, contacts | message, AdvanceTo with updates and publishes on the way, forced publish | the update must come just before the publish; two branches with different rules for restarts | what is published is estimated from its own message, once; the filter goes forward |
| `TimeBasedFiniteStateMachine`, `FiniteStateMachineEventTime` | none; previous state and two start times | a function of time; a per-step comparison | instants at which states meet, rounding, messages that sample a clock, restarts | every state lasts its duration; recorded starts belong to the current visit |
| walking controller: LIPM and swing foot generators, speed control | last state seen and what was measured then, each on its own | per-step latches, trajectories | four watches of one machine that must agree; gaps and restarts | trajectories cover the message, end together, and start from the lift-off |
| `JumpingEventFsm` | phase, its start, trigger time and flag | per-step update | several updates per message, contacts that chatter, restarts | a phase is left exactly a delay after its guard; phases keep their order |
| jumping controller | the machine, the controller's and a generator's last phase, cached outputs | update, command, debug message | everyone learns of a phase one update late | the program solved is the phase's, its trajectories the message's |
| `OperationalSpaceControl` | a quadratic program whose coefficients are overwritten, the time of the last switch | update, solve, debug message | what an earlier phase set must be taken back | costs and contacts are those of the phase |
| `run_controller_switch` | threshold, number of publishes | wait, publish n times | it counts periods on its own and may miss messages | it begins with the message with which a state begins |
| `log_sequence_rectifier` | a sorted buffer and a counter beside it | read, sort, write, flush | the buffer's limit | the copy is complete and in sequence, or the program says so |
| `DynamicsCache` | a map and a queue of its keys | look up, insert, evict | the limit; keys that are not equal to themselves | map and queue agree; what is asked for again is there |
| `Dircon`, `DirconMode`, `KinematicEvaluatorSet` | modes, their rows and types, the variables and constraints of the optimization | build, constructor, costs, poses, scales | consecutive modes share a knot, but not its velocity; modes of one knot | every constraint, cost and scale is about the variables it should be |
| everything else | none that outlives a call | numerics, conversions, drawing, files | | not modelled, see 8 |

`PROJECT.json` lists every component with its files and status, and the hazards
of this code line by line with the properties that cover them.

## 2. The modules and the code

All models count time in ticks. A model value stands for "no message". Every
module's comments name the file it is translated from; `PROJECT.json` maps every
definition to its lines. Definitions called `X_Something` next to `X`, under a
comment `Mutant`, are plausible mistakes in `X`; each of them makes one property
fail.

The dispatchers:

- **CommandRouter**: abstract. What a loop over several channels promises: the
  latest command of one active channel, no command abandoned by a switch, none
  let through from before it.
- **LcmDrivenLoop**: systems/framework/lcm_driven_loop.h. The loop's thread is
  `pc`; a subscriber's mailbox is filled only while `LcmHandleSubscriptionsUntil`
  pumps, because LCM is polled by that thread. `TestPredicate`, `EndPump`,
  `FirstMessage`, `HandleInput` and `HandleSwitch` are whole branches of
  `Simulate`. `AdvanceTo` keeps how far it was asked to go, and fails when that
  is backwards, as Drake throws. It implements CommandRouter.
- **InputSupervisor**: examples/Cassie/input_supervisor.cc. `UpdateErrorFlag` is
  the periodic update in the order of the code; `Publish` evaluates
  `SetMotorTorques` and `SetStatus`. One actuator stands for all, efforts are
  integers scaled so that the blend's quotient is exact, a blend by a duration
  of zero gives no finite number. What an output's calculation does not assign
  keeps its former value, because Drake hands the old value back.
- **DispatcherRobotIn**: examples/Cassie/dispatcher_robot_in.cc. An instance of
  the loop and the supervisor, composed by a model of `Simulator::AdvanceTo`:
  first the events that were due at the start (LCM updates, then sampled ones),
  then, if there is time to go, messages that came in meanwhile and the samples
  on the way; what is due at the boundary waits for the next call.
- **Mailbox**: abstract. What an asynchronous subscriber promises to its reader.
- **CassieUDPSubscriber**, **UDPDrivenLoop**: examples/Cassie/networking. A
  polling thread and a loop's thread; critical sections under the mutex are one
  step, the condition variable may wake for no reason, the socket's buffer may
  overflow. `UDPDrivenLoop` ends the program as its test does: StopPolling, then
  the destructor that joins. It implements Mailbox.
- **CassieStateEstimator**: when the estimator's update runs, over which span,
  and which contacts it reports. The filter itself is left out, so estimated
  contacts are any.
- **DispatcherRobotOut**: examples/Cassie/dispatcher_robot_out.cc, both
  branches, composed with the estimator and with the steps of `AdvanceTo`, which
  the network publishers interrupt.

The controllers:

- **TimeBasedFsm**: systems/controllers/time_based_fsm.cc as a function of the
  message's time. The doubles of lines 46-47 can leave a remainder a little below
  the sum of durations it is compared with: at the very instant a state begins
  the one before it may still be chosen, and where a period begins the last
  state, or, for a remainder of a whole period, none, and then the output holds
  any value (`Garbage`). The function returns all of these outcomes.
- **WalkingPhase**: systems/controllers/fsm_event_time.cc behind TimeBasedFsm,
  fed with messages that sample a clock, beside a reference machine (`index`,
  `entered`) that dwells in each state for its duration. The ghosts `passed`, the
  changes of state that the last message did not show (hidden by a gap, or by
  rounding at the message's instant), and `misled` say what cannot be noticed.
- **OperationalSpaceControl**: systems/controllers/osc: which contacts and which
  costs are in the program, when they are set and taken back, and what the debug
  message says of them. A controller INSTANCEs it and says when it runs.
- **WalkingController**: examples/Cassie/run_osc_walking_controller.cc extends
  WalkingPhase by lipm_traj_gen.cc, swing_ft_traj_gen.cc, the interval of
  walking_speed_control.cc and an instance of OperationalSpaceControl. A measured
  position is the time at which it was measured, a trajectory the interval it is
  made for. The 0.001 s by which the generators keep the start of a trajectory
  before its end is the constant `Margin`, of any number of ticks that fits into
  each state, so that messages fall into it. `WalkMessage` is the message and the
  update of the whole diagram, `Publish` the forced publish that pulls the command.
- **ControllerSwitch**, **GaitSwitch**: run_controller_switch.cc, and the
  composition of it with the walking controller: two processes that hear the
  same messages, of which the switch program misses some. Quotient and threshold
  of the program may round too, independently of the machine's remainder.
- **JumpingEventFsm**: examples/Cassie/osc_jump/jumping_event_based_fsm.cc.
  `DiscreteVariableUpdate` is reset, detection and transition on a record of the
  discrete state, in the order of the code.
- **JumpingController**: examples/Cassie/run_osc_jumping_controller.cc: the
  machine, the center of mass generator's latch, which generators assign their
  output in which phase, the controller, and the two publishers in the order in
  which they are registered. All updates of a step read the state before it.

Off line:

- **LogSequenceRectifier**: lcm/log_sequence_rectifier.cc with its list and the
  counter beside it. A message is its place in the log.
- **DynamicsCache**: systems/trajectory_optimization/dircon/dynamics_cache.cc,
  with the order of insertion and eviction, and keys with a NaN.
- **KinematicEvaluatorSet**, **DirconMode**, **Dircon**: a sequence of modes is
  built and edited (`MakeConstraintRelative`, `SetConstraintType` of the code),
  then the constructor makes the constraints, then at most one later call adds a
  cost, poses or scales. A decision variable is a tuple of its family and its
  indices, as `vars_` offsets them in the code; indexing outside of the vectors
  is an outcome of its own (`failed_`).

**MC*** modules give TLC small values that a configuration file cannot write;
***_proofs** modules hold the theorems. Ghost variables record history that a
property needs (who was heard since a switch, whether the clock started again);
no guard of the code's actions reads them.

## 3. The runs

| run | question | properties |
|---|---|---|
| LoopMulti | Does the loop route commands safely, for any sender's clock? | `AdvanceInRange`: no AdvanceTo back or more than a second ahead. `NoStaleCommand`: the command to be handled was sent after its channel became active. `SwitchHonoured`, `CommandHandled`: liveness. `RefinesRouter`: it implements CommandRouter. |
| Supervisor | Do the supervisor's shutdowns hold, for inputs that change between any two calls? | `FailsCountConsecutive`: the shutdown comes exactly after a run of failures. `StopIsForever`, `LateIsForever`: latches hold. `SafeOutsideBlend`: nothing unsafe leaves. `SupervisorTypeOK` bounds the counter. |
| DispatcherSwitch | Do loop and supervisor fit together under Drake's order of events? | `SwitchSeenFirst`: the supervisor sees the switch message before a command of the new controller. `GapShutsDown`: a command after too long a gap does not reach the motors, although the same AdvanceTo has already recorded a time for it. |
| UdpLoop | Are thread, mailbox, loop and shutdown right together? | `RefinesMailbox`: latest message, once, with its number. `DiagramKeepsUp`: what is published is computed from the message waited for or a later one. `StopIsSeen`: liveness. `NeverFails`: no AdvanceTo into the past. |
| RobotOut | Is every published state estimated from its own message? | `FreshAtPublish`, `PropagatesForward`, `FailsOnlyOnSmallStepsBack` |
| WalkControl | Do the walking controller's parts agree on the phase, through gaps and restarts, and does the switch program meet it? | `StaysForDuration`: the state is that of a machine that dwells, or the one before (or none) at the very instant one begins, and never later. `WindowsFromStart`: the controller's windows count from the recorded start. `CoversNow`: each trajectory covers the message, and begins within the generators' margin of it. `EndsTogether`: generators and speed control plan for one end. `SwingFromLiftoff`: the swing starts where its foot left the ground, and it is not a stance foot. `SwitchStartsState`: the first publish comes with the message that begins a state, or next to it where both round differently. |
| JumpControl | Does a jump go through its phases in time and in order, and does the controller follow? | `DelayIsExact`, `PhasesInOrder`; `FollowsThePhase`: the program solved is the phase's, all of it and nothing of another. `FollowsFreshTrajectories`: nothing of an earlier message is followed. `LandingOffset`: the landing is shifted by a measurement of the landing. |
| Rectifier | Is the copy of a log in sequence? | `SortedUnlessSaid`: complete, and in sequence if and only if no error was said. `FailsIfTooSmall`: an error if and only if a message was overtaken by as many as the buffer holds. |
| DynamicsCache | Does the cache remember what it should? | `QueueIsMap`, `RemembersLatest` |
| Dircon | Are constraints, costs, poses and scales about the right variables, for every sequence of modes? | `StepsOfMode`: a mode's steps are tied and bounded, and to no other mode's. `ContactHeld`: each contact is constrained at each knot and not twice. `NoSlip`: it stands still at each knot, after the impact too. `CostFollowsDynamics`: a running cost weighs the states that the dynamics relate, and reads no other step. `PosesAscend`, `ScaledAlike` |
| BlendOverError, DirconPoses | Does the code do what a comment says? It does not, see 6. | one each |

Type invariants: `SupervisorTypeOK` is checked by a run, because it bounds a
counter that the code must bound. Those of LcmDrivenLoop, UDPDrivenLoop,
DispatcherRobotIn, DispatcherRobotOut, JumpingController, WalkingPhase,
LogSequenceRectifier, DynamicsCache and Dircon are part of, or follow from, the
inductive invariants of section 7 and are proved. `ControllerTypeOK` of
WalkingController held in TLC on the instance of WalkControl and is in no run.

## 4. Bounds

- **LoopMulti**: three channels (two that are not active, so that one can be
  stale while the other becomes active), one unknown name, times 0..3 with
  Second = 1: a clock can go back, and ahead by less and by more than a second.
  EndTime = 3 lets `Simulate` return, so this run allows the program to end.
- **Supervisor**: times 0..2 with a delay of 1, two failures to a shutdown, an
  effort beyond the limit: every comparison has values on both sides and at
  equality. Inputs change in any order, and go back in time.
- **DispatcherSwitch**: two controllers, times 0..2, one tick per sample. A
  command may fall before, at or after the sample of its tick.
- **UdpLoop**: four packets into a buffer of two, of all three kinds of length,
  so that packets are lost, discarded and cut off; StopTime is reached while
  packets are still to come. A run of four is enough for a reader that has
  one message, misses one, and meets another after StopPolling. `HalfRange`
  stands for 2^31 microseconds; 8 is beyond the clock's bound.
- **RobotOut**: messages at even times up to 12, `Eps` = 1, Second = 4, network
  publishers every 3, so that a publish falls before, between and after the
  event and the boundary. `Vanish` = 9 stands for 2^14 s, from which a double's
  spacing swallows eps_: the last messages have it, the others not.
- **WalkControl**: durations 3, 2, 3, 2 (single and double supports), clock to
  17: nearly two periods, and a clock that starts again at any time, so every
  state begins at least once and three of them twice. `Margin` = 2, the duration
  of the short states, so that messages fall into the last margin of a state and
  a whole state may lie in it. `MaxGap` = 6 hides up to three changes of state,
  so that a message may find the same state of a later period, which no code
  that compares states can notice: the properties name this case (`misled`,
  `unlatched`) and the run reaches it. Every outcome of rounding is allowed
  wherever a state or a period begins: the robot's durations (0.30, 0.05) show
  the state before at 7.3 s, others (0.35, 0.02) none at 9.62 s. A value that is
  not a state's may be taken for the right stance or for none. The switch
  program waits one period and adds 5, where the third state begins; two
  publishes, so that the loop ends after a repeat.
- **JumpControl**: guards on contacts and on time, delays 0 (the default), 2 and
  1, starts in BALANCE (the default), CROUCH and FLIGHT, times 0..8 beyond the
  last transition time and delay, restarts to any time.
- **Rectifier**: all logs of up to six messages with four timestamps, a buffer
  of three: long enough to be overtaken by three and to have ties.
- **DynamicsCache**: four keys and one with a NaN in a cache of four, which holds
  three: every key can be evicted and come back; four entries that are lost are
  enough to fill the map with them.
- **Dircon**: up to three modes (a middle one has two neighbours) of one, two or
  four knots with no evaluator, one of them or two, of which one has a row that
  is not active; one edit (a row made relative, or a type of a knot) or one
  later call: `MaxEdits` = 1 bounds both together, the proofs are for any number
  of either. `kUInt` = 65536 stands for 2^32, far more than any product of
  counts.

Values are given in the configurations and replace no definition. There is no
symmetry reduction.

## 5. Fairness

Only the program's own threads are assumed to keep running:
`LcmDrivenLoop!FairSpec` has weak fairness of the loop's steps, which include
the return of `HandleSubscriptions`, called with a timeout; `UDPDrivenLoop!FairSpec`
has weak fairness of the polling thread and of the loop's thread, which the
operating system schedules both. Nothing is assumed of senders, clocks, the
network or spurious wake-ups. So `SwitchHonoured` holds with a silent active
controller, and `StopIsSeen` says only what is true: once StopPolling was called
the join ends after one more packet that is long enough, and without one it
does not. The other modules react to messages, and have no liveness to state:
without a message nothing of them happens.

## 6. Code against its comments

Two runs check what a comment says and find a behaviour that contradicts it;
`PROJECT.json` quotes the lines.

- **BlendOverError** (input_supervisor.cc:114): "If there has been an error, set
  the command to all zeros". While a blend lasts, the zeros are overwritten by
  the blend computed after them.
- **DirconPoses** (dircon.h:107): "Evenly divides the poses among the different
  modes". The counts and so the fraction are unsigned: when a mode has got one
  of the poses that rounding left over, its fraction wraps, it gets all the
  others, and a DRAKE_DEMAND ends the program.

Seen while modelling, without a run. In the run-time layer:

- The record of the last command starts at 0, so the first command of a
  dispatcher started after 0.1 s is late without any delay
  (input_supervisor.cc:211, against the comment at :101), and so is every
  command after it.
- The UDP subscriber's time is a count of microseconds in an int, negative after
  36 minutes (cassie_udp_subscriber.cc:148).
- The jump's machine notices a restart only by a message from before its last
  transition (jumping_event_based_fsm.cc:80); one heard of later leaves the flag
  and the trigger time of the run before. The ghost `hidden` marks these runs.
- "Resetting dispatcher time" (dispatcher_robot_out.cc:341) does not reset the
  estimator's times: the first message gets no update, and the next one
  propagates over the jump, backwards after a restart.
- At the instant a state begins the remainder may round down (7.3 s for 0.30 and
  0.05): the machine shows the state before for one message more, and the
  generators' trajectories are then evaluated at their very end.
- A message in the last 0.001 s of a state finds a trajectory of the center of
  mass that starts before it, by the saturation in lipm_traj_gen.cc:266; it is
  the measurement of the message all the same.
- run_controller_switch.cc counts periods in doubles of its own. With a period of
  0.7 s and an offset of 0.3 s it publishes at 7.3 s, one message before the
  controller sees the state; at 10.8 s (15 periods) its threshold rounds up, and
  it waits for the message after.
- The UDP subscriber says that it gets the newest packet
  (cassie_udp_subscriber.cc:109), and receives the oldest one that waits.
- A restart or a gap into the same state leaves the start, the measurements and
  the controller's time of the earlier visit; nothing in the walking controller
  notices it.
- After a clock restart the status message of InputSupervisor keeps its flags,
  and a gap right after the restart goes unnoticed (which is why `GapShutsDown`
  excludes it). A repeat of a switch message restarts the blend, with the effort
  of the controller that was left.
- The standing controller connects the port for debug messages of a controller
  without a state machine, which reads a port index that is never assigned.
- simple_cassie_udp_subscriber.cc:25 binds an uninitialized member instead of
  the address it is given; robot_lcm_systems.cc:54 indexes efforts by the wrong
  variable; log_sequence_rectifier.cc:71 tolerates one position less than its
  comment; run_controller_switch.cc:77 demands a period for `n_period_delay` = 0,
  which its comment calls non-positive.

In the optimization (systems/trajectory_optimization/dircon):

- ScaleStateVariable compares a mode's count with `>` where an index asks for
  `>=`, and MakeConstraintRelative with `<=`; ScaleImpulseVariable looks at the
  count of the mode before the impact, ScaleKinConstraintSlackVariable does not
  accept the last mode.
- A running cost over a mode of one knot weighs the state with a step of the
  mode before, or reads outside of the vectors; `CostFollowsDynamics` and
  `PosesAscend` are for modes of two knots or more.
- A row that two consecutive modes share is left out at the first knot of the
  later one as redundant, also where it is relative: then the earlier mode holds
  it to its own offset, and nothing ties the later mode's offset to the knot they
  share. `ContactHeld` excepts relative rows from being held.
- `kAccelOnly` at the last knot before a transition without impact leaves the
  next mode's first velocity unconstrained; `NoSlip` excepts it.
- SetInitialForceTrajectory reads the time from the first mode only.

## 7. The proofs

Eight modules of theorems, checked by tlapm, over the specifications without
fairness and for every value of the constants that the named assumptions allow.

**LcmDrivenLoop_proofs.** `LoopInv` adds to the properties what a branch of the
loop may rely on: the input branch has a message, the switch branch comes only
when the old channel's command was handled, and then the context stands at the
loop's time, so that the switch's AdvanceTo goes nowhere. `AdvanceInRange` and
`NoStaleCommand` are not inductive without this. From it: type correctness,
both properties, and `LoopRefinesRouter`, step by step: `HandleInput` is
`Apply`, `HandleSwitch` is `Redirect` or stutters, a reception is `Hear`.

**DispatcherRobotIn_proofs.** First the supervisor by itself, whose inputs change
at any time. `SupervisorInv` ties the failure counter to its history (`streak`,
`tripped`), the status to the counter, and says that after a late command no time
is on record. `StopIsForever` and `SafeOutsideBlend` are action properties from
it; `SafeOutsideBlend` needs linear facts about `Clamp` for every limit and scale.
Then the process: `DispatcherInv` takes over `LoopInv` from the proofs of the loop
(every step of the process is one of the loop or none of its) and `SupervisorInv`
from the lemmas about the update and the publish. `SwitchOwed` adds where a switch
message is that the supervisor has not seen: the switch branch's AdvanceTo goes
nowhere, because the context stands at the loop's time, so the message's latch is
pending when the first command of the new controller comes, and latches run before
updates. `GapLate` says that no time on record is later than the command, unless
the clock was restarted, and that a command after a gap stays late through any
number of updates. `SwitchSeenFirst`, `GapShutsDown` and, for the whole process,
`SafeOutsideBlend` follow.

**UDPDrivenLoop_proofs.** `UdpInv`: numbers only grow, and the loop leaves its
wait only for a number larger than the one it has. That every pass has a new
message, and the safety part of Mailbox, follow. `UdpNeverFails` assumes that
the steady clock's bound fits an int and adds `ClockInv`: a context's time never
precedes the simulator's. `UdpDiagramKeepsUp` assumes nothing of the clock: an
AdvanceTo that has begun was not asked to go back (`AdvanceInv`), because the
loop fails before it.

**DispatcherRobotOut_proofs.** `RobotOutInv` says where an AdvanceTo stands with
the update of its message (`Approach`): not due yet and before the event's time,
due and at it, or done and past it with the filter at the event's time. A step
never jumps over an event that is wanted (`StepTarget`), for any period of the
network publishers. Past `Vanish` the event's time is the boundary and an update
may stay pending, which the invariant allows exactly there. This rests on the
assumption that two message times differ by more than eps_, 1e-12 s, which holds
for times in whole microseconds. `SpanInv` bounds how far the filter is behind
at each place of the loop; its case for a message uses that one for which no
event is wanted does not advance the clock.

**GaitSwitch_proofs.** All six properties of WalkControl, for both gaits (with
and without double supports), all durations, margins, gaps, restarts, delays and
all offsets at which a state begins. `PhaseInv` relates the remainder the code
computes to where the dwelling machine stands; the sums of durations are a
recursive function whose existence and monotonicity are proved by induction,
here as well-foundedness of `<` over a set, since induction theorems that take
an operator cannot be instantiated. `HistoryInv` is what the last message tells
while at most one change of state is hidden (two hidden changes can bring the
same state back, which is `misled`); it needs that no two neighbours in the
cycle are the same, and uses that rounding shows another state only at the very
instant at which one begins. `WatchInv` says that the four watches recorded one
start, `SwingInv` which single support the swing generator remembers, `OscInv`
that the program is the last message's. `SwitchInv` says that the switch
program's threshold rounds to where some state begins, and that until it
publishes no message it heard was later; `Boundary` shows that such an instant
that has passed is not after the robot entered its state.

**JumpingController_proofs.** All five properties of JumpControl, for any delay,
times and contacts. `MemoryInv` says that flag and trigger time are those of the
first detection, but for a restart the machine cannot see; `FollowInv` how old
the controller's time is; `LandingInv` that the generator's measurement is the
landing's or about to be.

**LogSequenceRectifier_proofs.** `RectifierInv`: the counter counts the list,
which is what was read and not written, and an error was said if and only if
what was written is out of sequence. `SortedUnlessSaid` follows; and, by a
pigeonhole argument over a full buffer, that a log whose inversions are shorter
than the buffer is put in sequence (`RectifierSortsCloseLogs`), for every log and
length. `FailsIfTooSmall` needs both directions: `LateInv`, that something later is
written before a message only if the whole of a full buffer overtook it, and
`Noticed`, that a message overtaken by as many as the buffer holds finds one of
them written when it is read, and so is reported when its turn comes.

**Dircon_proofs.** All six properties of Dircon, for any sequence of modes, any
lengths (also of one knot, where the property allows it), any evaluators with any
active rows, and any later calls. What the constructor collects in a loop is a
recursive function (`Accumulate`, `StillAtFirst`, the loop of the poses), whose
existence is proved first, by induction over a set (`SetInduction`). `BookInv`
says what each property needs and none implies: a mode starts with the last knot
of the one before (`StartsInv`), the constraints are those of the modes
constructed so far (`ConstraintsInv`), which a mode that follows does not change,
and nothing else is there before the construction ends (`Stages`). From it:

- `StepsOfMode`: every step is one of exactly one mode; the pairs made equal
  within a mode are numbered without repetition and one less than its steps.
- `NoSlip` and `ContactHeld`: by induction on the modes that share a knot, which
  may be many if those between have one knot. A velocity that is skipped is held
  by the mode before, a row that is skipped as well, and the rows of a set's
  evaluators do not overlap, so that the skipped index is the shared row's.
- `CostFollowsDynamics`: `CostInv` says that a cost is the one that a call
  computes from the modes, and that a call fails only for a step outside.
- `PosesAscend`: `PosesInv` says that poses come from counts that fit, given or
  divided. Quotients of ascending products ascend if no count is more than the
  mode's interior; the joined sequences do because modes follow one another.
- `ScaledAlike`: `FamiliesAlike`. Every call scales one of a few sets of which no
  two have a variable in common, and a family the constraints are about is whole
  in one of them or apart from it.

Beyond the run's properties, `DirconAsManyAsAsked`: rounding down never gives more
poses than there are, each turn of the loop finds a largest fraction, wrapped or
not, and adds one, so a picture has the number of poses that was asked for,
unless the demand fails (section 6). TLC agreed on the instance of Dircon.

The module ends with the cache's. `CacheInv`: a key's age is its place in the
queue, and the map is as large as the queue but for lost entries, so that the
front is always the oldest. Both properties of the run, for every size of at
least two.

The properties that a run checks were checked on small instances before they
were proved.

## 8. Limits

- **Model-checked only**: liveness, which is `SwitchHonoured`, `CommandHandled`,
  `StopIsSeen` and, in `RefinesMailbox`, that a message is taken in the end.
  Liveness under fairness and ENABLED are beyond the installed provers. Every
  invariant and every action property of the runs that pass has a theorem.
- **Assumed of Drake**: the order of events in `Simulator::AdvanceTo`, that it
  throws for a boundary in the past, that all updates of a step read the state
  before it, that publishers run in the order of registration, that LCM is
  polled by the caller's thread, and that an output port's value is handed back.
  These are modelled from how the code uses them and marked external in
  `PROJECT.json`.
- **Abstracted**: efforts to integers for one actuator, velocities to "one is
  excessive", estimated contacts to any pair, the filter to the span it
  propagates over, positions to the time of measurement, trajectories to their
  interval or the message they are generated for, decision variables to tuples,
  doubles to integers except where rounding changes control (the period's
  remainder, the switch program's quotient and threshold, eps_). `keep_polling_`
  is read and written as an atomic, although it is a plain bool.
- **Not modelled, because nothing of it outlives a step**: standing, heading and
  toe trajectories, the high-level command (its discrete state is overwritten by
  every update from the same message), conversions between message layouts, primitives, saved
  trajectories, the standing controller's diagram; PD, LQR and end-effector
  controllers.
- **Not modelled, because it is numerics**: the values in every program that is
  solved (hybrid_dircon.cc, Cassie's fixed points, kinematics, the
  estimator's filter), rigid-body simulation, scripts around the optimization
  (run_dircon_walking.cc and its kin call the modelled constructor with numbers).
  These are most of the repository's lines.
- **Not modelled, because it does not run there**: ROS systems (only tests run
  them), user interfaces, visualization, generated code, build rules, examples
  for other robots and the attic; errors of poll and recv in the UDP subscriber.

## 9. What is left

1. A network between ControllerSwitch and DispatcherRobotIn that loses and
   delays: how late a repeat may restart a blend.
2. The scripts that set up an optimization (run_dircon_walking.cc and its kin) as
   sequences of modes of their own, with the constraints they add by hand at the
   knots they count themselves.
3. That the demand of DirconPoses fails only after a fraction has wrapped, and
   the other way round: how often it does, for which lengths of modes.
