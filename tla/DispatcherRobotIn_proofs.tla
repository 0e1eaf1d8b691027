--------------------- MODULE DispatcherRobotIn_proofs ----------------------
(***************************************************************************)
(* What InputSupervisor guarantees for every delay, failure count, limit,  *)
(* set of efforts and set of blend durations, with its inputs changing at  *)
(* any time: SupervisorInv is inductive, a stop is for good, and a stop or *)
(* a limit is respected whenever no blend is on.  Then what dispatcher_    *)
(* robot_in guarantees, for all controllers and clocks: the supervisor     *)
(* keeps its promises there, sees a switch before the new controller's     *)
(* first command, and shuts down on a gap.                                 *)
(***************************************************************************)
EXTENDS DispatcherRobotIn, TLAPS

LoopProofs == INSTANCE LcmDrivenLoop_proofs

\* The supervisor starts in SupervisorInv.
LEMMA InitSupervisorInv == SupervisorInit => SupervisorInv
<1> SUFFICES ASSUME SupervisorInit PROVE SupervisorInv
  OBVIOUS
<1> USE SupervisorAssumption DEF SupervisorAssumption, SupervisorInit
<1>1. command \in Commands /\ switchMsg \in Switches
  BY DEF Commands, Switches, Times
<1>2. motors \in [kind : {"effort", "damping", "nonfinite"}, val : Int, ts : Times]
  BY DEF Output, Times
<1>3. statusMsg \in [status : 0 .. 7, vel_limit : BOOLEAN, act_limit : BOOLEAN,
                     act_delay : BOOLEAN, shutdown : BOOLEAN]
  OBVIOUS
<1>4. SupervisorTypeOK
  <2>1. n_fails \in 0 .. MinFails /\ streak \in 0 .. MinFails
    OBVIOUS
  <2>2. switch_time \in Times /\ prev_efforts_time \in Times
    BY DEF Times
  <2>3. QED
    BY <1>1, <1>2, <1>3, <2>1, <2>2 DEF SupervisorTypeOK
<1>5. FailsCountConsecutive /\ StatusBits
  BY DEF FailsCountConsecutive, StatusBits
<1>6. QED
  BY <1>4, <1>5 DEF SupervisorInv

\* One update keeps the counter, the status and their history in step.
LEMMA UpdateCounts ==
  ASSUME SupervisorInv, UpdateErrorFlag
  PROVE  /\ n_fails' \in 0 .. MinFails
         /\ status' \in {0, 1}
         /\ streak' \in 0 .. MinFails
         /\ tripped' \in BOOLEAN
         /\ FailsCountConsecutive'
         /\ (~tripped => streak < MinFails)'
         /\ (status = 1 <=> n_fails > 0)'
  BY SupervisorAssumption
  DEF SupervisorAssumption, SupervisorInv, SupervisorTypeOK, FailsCountConsecutive,
      UpdateErrorFlag, CountFailures, CountGhosts

\* One update keeps the recorded times, efforts and flags in their types.
LEMMA UpdateTypes ==
  ASSUME SupervisorInv, UpdateErrorFlag
  PROVE  /\ switch_time' \in Times
         /\ prev_efforts_time' \in Times
         /\ prev_efforts' \in Efforts \cup {0}
         /\ soft_estop' \in {0, 1}
         /\ blend_duration' \in Blends \cup {0}
         /\ lateSeen' \in BOOLEAN
<1>1. command \in Commands /\ switchMsg \in Switches
  BY DEF SupervisorInv, SupervisorTypeOK
<1>2. /\ command.ts \in Times /\ command.u \in Efforts \cup {0}
      /\ switchMsg.utime \in Times /\ switchMsg.blend \in Blends \cup {0}
  BY <1>1 DEF Commands, Switches
<1>3. switch_time' \in Times /\ blend_duration' \in Blends \cup {0}
  BY <1>2 DEF SupervisorInv, SupervisorTypeOK, UpdateErrorFlag, RecordSwitch
<1>4. prev_efforts_time' \in Times
  BY <1>2, SupervisorAssumption
  DEF SupervisorAssumption, UpdateErrorFlag, RecordedTime, Times
<1>5. prev_efforts' \in Efforts \cup {0}
  BY <1>2 DEF SupervisorInv, SupervisorTypeOK, UpdateErrorFlag, RecordEfforts
<1>6. soft_estop' \in {0, 1}
  BY DEF SupervisorInv, SupervisorTypeOK, UpdateErrorFlag
<1>7. lateSeen' \in BOOLEAN
  BY DEF SupervisorInv, SupervisorTypeOK, UpdateErrorFlag, CountGhosts
<1>8. QED
  BY <1>3, <1>4, <1>5, <1>6, <1>7

\* After an update that saw, or remembers, a late command no time is recorded.
LEMMA UpdateForgetsLateTime ==
  ASSUME SupervisorInv, UpdateErrorFlag
  PROVE  (lateSeen => prev_efforts_time = 0)'
<1>1. command.ts \in Int /\ prev_efforts_time \in Int /\ MaxDelay \in Int
  BY SupervisorAssumption
  DEF SupervisorAssumption, SupervisorInv, SupervisorTypeOK, Commands, Times
<1>2. lateSeen => prev_efforts_time = 0
  BY DEF SupervisorInv
<1>3. lateSeen' => Late
  <2>1. lateSeen' = (Late \/ (lateSeen /\ command.ts > MaxDelay))
    BY DEF UpdateErrorFlag, CountGhosts
  <2>2. ASSUME lateSeen, command.ts > MaxDelay PROVE Late
    BY <1>1, <1>2, <2>2 DEF Late
  <2>3. QED
    BY <2>1, <2>2
<1>4. prev_efforts_time' = IF Late THEN 0 ELSE command.ts
  BY DEF UpdateErrorFlag, RecordedTime
<1>5. QED
  BY <1>3, <1>4

\* An update keeps SupervisorInv.
LEMMA UpdateKeepsInv == ASSUME SupervisorInv, UpdateErrorFlag PROVE SupervisorInv'
<1>1. UNCHANGED <<ports, outputs>>
  BY DEF UpdateErrorFlag
<1>2. SupervisorTypeOK'
  <2>1. /\ (command \in Commands)' /\ (switchMsg \in Switches)'
        /\ (overspeed \in BOOLEAN)' /\ (radioStop \in BOOLEAN)'
    BY <1>1 DEF SupervisorInv, SupervisorTypeOK, ports, Commands, Switches, Times
  <2>2. UNCHANGED <<motors, statusMsg>>
    BY <1>1 DEF outputs
  <2>3. QED
    BY <2>1, <2>2, UpdateCounts, UpdateTypes DEF SupervisorInv, SupervisorTypeOK, Times
<1>3. StatusBits'
  BY <1>1 DEF SupervisorInv, StatusBits, outputs
<1>4. QED
  BY <1>2, <1>3, UpdateCounts, UpdateForgetsLateTime DEF SupervisorInv

\* The numbers that the outputs are computed from.
LEMMA SupervisorPortTypes ==
  ASSUME SupervisorInv
  PROVE  /\ command.ts \in Times /\ command.u \in Int
         /\ motors.ts \in Times /\ prev_efforts \in Int /\ switch_time \in Times
         /\ blend_duration \in Nat
<1>1. command \in [ts : Times, u : Efforts \cup {0}]
  BY DEF SupervisorInv, SupervisorTypeOK, Commands
<1>2. motors.ts \in Times /\ switch_time \in Times
  BY DEF SupervisorInv, SupervisorTypeOK
<1>3. prev_efforts \in Efforts \cup {0} /\ blend_duration \in Blends \cup {0}
  BY DEF SupervisorInv, SupervisorTypeOK
<1>4. Efforts \subseteq Int /\ Blends \subseteq Nat
  BY SupervisorAssumption DEF SupervisorAssumption
<1>5. Efforts \cup {0} \subseteq Int /\ Blends \cup {0} \subseteq Nat
  BY <1>4
<1>6. command.ts \in Times /\ command.u \in Efforts \cup {0}
  BY <1>1
<1>7. QED
  BY <1>2, <1>3, <1>5, <1>6

\* What a publish computes is of the outputs' types.
LEMMA PublishTypes ==
  ASSUME SupervisorInv
  PROVE  /\ SetMotorTorques \in [kind : {"effort", "damping", "nonfinite"},
                                 val : Int, ts : Times]
         /\ SetStatus \in [status : 0 .. 7, vel_limit : BOOLEAN, act_limit : BOOLEAN,
                           act_delay : BOOLEAN, shutdown : BOOLEAN]
         /\ SetStatus.status \in {0, 1, 2, 3, 5, 7}
<1> USE SupervisorAssumption DEF SupervisorAssumption
<1>1. /\ command.ts \in Times /\ command.u \in Int
      /\ motors.ts \in Times /\ prev_efforts \in Int /\ switch_time \in Times
      /\ blend_duration \in Nat
  BY SupervisorPortTypes
<1>2. Clamp(command.u) \in Int
  BY <1>1 DEF Clamp
<1>3. Blending /\ blend_duration # 0 => Blended \in Int
  <2>1. SinceSwitch \in Int
    BY <1>1 DEF SinceSwitch, Times
  <2> DEFINE k == Scale \div blend_duration
  <2>2. ASSUME blend_duration # 0 PROVE k \in Int
    BY <1>1, <2>2
  <2>3. ASSUME blend_duration # 0 PROVE SinceSwitch * k * command.u \in Int
    BY <1>1, <2>1, <2>2, <2>3
  <2>4. ASSUME blend_duration # 0
        PROVE  (blend_duration - SinceSwitch) * k * prev_efforts \in Int
    BY <1>1, <2>1, <2>2, <2>4
  <2>5. QED
    BY <2>3, <2>4 DEF Blended
<1>4. Scale * Clamp(command.u) \in Int
  BY <1>2
<1>5. SetMotorTorques \in [kind : {"effort", "damping", "nonfinite"}, val : Int, ts : Times]
  BY <1>1, <1>3, <1>4 DEF SetMotorTorques, Output
<1>6. SetStatus.status \in {0, 1, 2, 3, 5, 7}
  BY DEF SupervisorInv, SupervisorTypeOK, SetStatus
<1>7. SetStatus \in [status : 0 .. 7, vel_limit : BOOLEAN, act_limit : BOOLEAN,
                     act_delay : BOOLEAN, shutdown : BOOLEAN]
  BY <1>6 DEF SupervisorInv, SupervisorTypeOK, SetStatus, BeyondLimit, Late, SaysShutdown
<1>8. QED
  BY <1>5, <1>6, <1>7

\* A publish keeps SupervisorInv.
LEMMA PublishKeepsInv == ASSUME SupervisorInv, Publish PROVE SupervisorInv'
<1>1. UNCHANGED <<ports, state, ghosts>> /\ motors' = SetMotorTorques /\ statusMsg' = SetStatus
  BY DEF Publish
<1>2. SupervisorTypeOK'
  BY <1>1, PublishTypes
  DEF SupervisorInv, SupervisorTypeOK, ports, state, ghosts, Commands, Switches, Times
<1>3. QED
  BY <1>1, <1>2, PublishTypes
  DEF SupervisorInv, FailsCountConsecutive, StatusBits, state, ghosts

\* The supervisor's inputs change, and nothing else of it.
LEMMA PortsKeepInv ==
  ASSUME SupervisorInv, UNCHANGED <<state, outputs, ghosts>>,
         command' \in Commands, overspeed' \in BOOLEAN,
         switchMsg' \in Switches, radioStop' \in BOOLEAN
  PROVE  SupervisorInv'
BY DEF SupervisorInv, SupervisorTypeOK, FailsCountConsecutive, StatusBits,
       state, outputs, ghosts, Commands, Switches, Times

\* Every step keeps SupervisorInv.
LEMMA StepSupervisorInv == SupervisorInv /\ [SupervisorNext]_svars => SupervisorInv'
<1> SUFFICES ASSUME SupervisorInv, [SupervisorNext]_svars PROVE SupervisorInv'
  OBVIOUS
<1>1. ASSUME UNCHANGED <<state, outputs, ghosts>>,
             command' \in Commands, overspeed' \in BOOLEAN,
             switchMsg' \in Switches, radioStop' \in BOOLEAN
      PROVE  SupervisorInv'
  BY <1>1, PortsKeepInv
<1>2. /\ command \in Commands /\ overspeed \in BOOLEAN
      /\ switchMsg \in Switches /\ radioStop \in BOOLEAN
  BY DEF SupervisorInv, SupervisorTypeOK
<1>3. ASSUME NEW t \in Times, NEW u \in Efforts, NewCommand([ts |-> t, u |-> u])
      PROVE  SupervisorInv'
  BY <1>1, <1>2, <1>3 DEF NewCommand, Commands
<1>4. ASSUME NEW b \in BOOLEAN, NewState(b) PROVE SupervisorInv'
  BY <1>1, <1>2, <1>4 DEF NewState
<1>5. ASSUME NEW t \in Times, NEW d \in Blends, NewSwitch([utime |-> t, blend |-> d])
      PROVE  SupervisorInv'
  BY <1>1, <1>2, <1>5 DEF NewSwitch, Switches
<1>6. ASSUME NEW b \in BOOLEAN, NewRadio(b) PROVE SupervisorInv'
  BY <1>1, <1>2, <1>6 DEF NewRadio
<1>7. CASE UpdateErrorFlag
  BY <1>7, UpdateKeepsInv
<1>8. CASE Publish
  BY <1>8, PublishKeepsInv
<1>9. CASE UNCHANGED svars
  BY <1>1, <1>2, <1>9 DEF svars, ports
<1>10. QED
  BY <1>3, <1>4, <1>5, <1>6, <1>7, <1>8, <1>9 DEF SupervisorNext

\* Every reachable state of the supervisor satisfies SupervisorInv.
THEOREM SupervisorInvariant == SupervisorSpec => []SupervisorInv
  BY InitSupervisorInv, StepSupervisorInv, PTL DEF SupervisorSpec

\* Type correctness: in particular the counter of failures is within its bound.
THEOREM SupervisorTypes == SupervisorSpec => []SupervisorTypeOK
<1>1. SupervisorInv => SupervisorTypeOK
  BY DEF SupervisorInv
<1>2. QED
  BY <1>1, SupervisorInvariant, PTL

\* The counter is the length of the run of velocity failures, capped for good
\* once the run reached MinFails: the shutdown comes neither early nor late.
THEOREM SupervisorCountsConsecutive == SupervisorSpec => []FailsCountConsecutive
<1>1. SupervisorInv => FailsCountConsecutive
  BY DEF SupervisorInv
<1>2. QED
  BY <1>1, SupervisorInvariant, PTL

\* The shutdown bit is never sent without the velocity bit.
THEOREM SupervisorStatusBits == SupervisorSpec => []StatusBits
<1>1. SupervisorInv => StatusBits
  BY DEF SupervisorInv
<1>2. QED
  BY <1>1, SupervisorInvariant, PTL

\* Once late, always late, until the clock starts again.
THEOREM SupervisorLateIsForever == SupervisorSpec => []LateIsForever
<1>1. SupervisorInv => LateIsForever
  <2> SUFFICES ASSUME SupervisorInv, lateSeen, command.ts > MaxDelay PROVE Late
    BY DEF LateIsForever, IsError
  <2>1. prev_efforts_time = 0 /\ command.ts \in Int
    BY DEF SupervisorInv, SupervisorTypeOK, Commands, Times
  <2>2. QED
    BY <2>1, SupervisorAssumption DEF Late, SupervisorAssumption
<1>2. QED
  BY <1>1, SupervisorInvariant, PTL

\* A stop by velocity or by the radio is for good.
THEOREM SupervisorStopIsForever == SupervisorSpec => StopIsForever
<1>1. ASSUME SupervisorInv, [SupervisorNext]_svars, Stopped PROVE Stopped'
  <2>1. CASE UpdateErrorFlag
    BY <1>1, <2>1 DEF UpdateErrorFlag, CountFailures, Stopped
  <2>2. CASE UNCHANGED state
    BY <1>1, <2>2 DEF state, Stopped
  <2>3. QED
    BY <1>1, <2>1, <2>2
    DEF SupervisorNext, NewCommand, NewState, NewSwitch, NewRadio, Publish, svars
<1>2. SupervisorInv /\ [SupervisorNext]_svars => [Stopped => Stopped']_svars
  BY <1>1
<1>3. QED
  BY <1>2, SupervisorInvariant, PTL DEF SupervisorSpec, StopIsForever

\* What a publish outside a blend sends: nothing after a stop, and never more
\* than the limit, for every limit and scale.
LEMMA PublishSafe ==
  ASSUME SupervisorInv, Publish, motors'.kind = "effort", ~Blending
  PROVE  /\ Stopped => motors'.val = 0
         /\ Limit # NoLimit => motors'.val \in -(Limit * Scale) .. Limit * Scale
<1>1. motors' = SetMotorTorques
  BY DEF Publish
<1>2. ~radioStop
  BY <1>1 DEF SetMotorTorques, Output
<1>3. motors'.val = IF IsError THEN 0 ELSE Scale * Clamp(command.u)
  BY <1>1, <1>2 DEF SetMotorTorques, Output
<1>4. Stopped => motors'.val = 0
  BY <1>3 DEF Stopped, IsError
<1>5. ASSUME Limit # NoLimit
      PROVE  motors'.val \in -(Limit * Scale) .. Limit * Scale
  <2>1. Limit \in Nat /\ Scale \in Nat /\ command.u \in Int
    BY <1>5, SupervisorAssumption, SupervisorPortTypes DEF SupervisorAssumption
  <2>2. Clamp(command.u) \in -Limit .. Limit
    BY <1>5, <2>1 DEF Clamp
  <2>3. ASSUME NEW c \in -Limit .. Limit
        PROVE  Scale * c \in -(Limit * Scale) .. Limit * Scale
    BY <2>1
  <2>4. 0 \in -(Limit * Scale) .. Limit * Scale
    BY <2>1
  <2>5. QED
    BY <1>3, <2>2, <2>3, <2>4
<1>6. QED
  BY <1>4, <1>5

\* Outside a blend the motors get nothing after a stop, and never more than
\* the limit, for every limit and scale.
THEOREM SupervisorSafeOutsideBlend == SupervisorSpec => SafeOutsideBlend
<1> DEFINE Safe == motors' # motors /\ motors'.kind = "effort" /\ ~Blending =>
             /\ Stopped => motors'.val = 0
             /\ Limit # NoLimit => motors'.val \in -(Limit * Scale) .. Limit * Scale
<1>1. ASSUME SupervisorInv, [SupervisorNext]_svars PROVE Safe
  <2>1. motors' = motors \/ Publish
    BY <1>1 DEF SupervisorNext, NewCommand, NewState, NewSwitch, NewRadio,
                UpdateErrorFlag, svars, outputs
  <2>2. QED
    BY <1>1, <2>1, PublishSafe
<1>2. SupervisorInv /\ [SupervisorNext]_svars => [Safe]_svars
  BY <1>1
<1>3. QED
  BY <1>2, SupervisorInvariant, PTL DEF SupervisorSpec, SafeOutsideBlend

------------------------------------------------------------------------------
(* dispatcher_robot_in: the loop, the supervisor and the simulator. *)

\* The types of what the simulator keeps.
SimTypes ==
    /\ phase \in {"loop", "pending", "run", "publish"}
    /\ pendSwitch \in BOOLEAN
    /\ mail \in Switches
    /\ mailNew \in BOOLEAN
    /\ owed \in BOOLEAN
    /\ fromNew \in BOOLEAN
    /\ heard \in 0 .. 2
    /\ rewound \in BOOLEAN
    /\ gapNow \in BOOLEAN

\* Where the switch message is while the supervisor has not seen it: its latch
\* is pending once the loop goes on, and until then there is no new command
\* and no time to go.
SwitchOwed ==
    owed => /\ phase # "run"
            /\ phase \in {"loop", "publish"} => pendSwitch /\ ~fromNew
            /\ phase = "pending" => pendSwitch \/ (mailNew /\ ~fromNew /\ span = 0)

\* The context stands at the command's time, no time on record is later, and
\* after a gap the command stays late.
GapLate ==
    /\ heard > 0 => command.ts = ctx /\ pc # "first"
    /\ heard = 0 => command.ts = 0 /\ prev_efforts_time = 0
    /\ ~rewound => prev_efforts_time <= command.ts
    /\ gapNow => Late /\ command.ts > MaxDelay

DispatcherInv ==
    /\ Loop!LoopInv
    /\ SupervisorInv
    /\ SimTypes
    /\ SwitchOwed
    /\ GapLate

\* The loop in the dispatcher is the loop that was proved about.
LEMMA LoopInvInit == Loop!Init => Loop!LoopInv
<1>1. LoopProofs!Init => LoopProofs!LoopInv
  BY DispatcherAssumption, SupervisorAssumption, LoopProofs!InitLoopInv
  DEF DispatcherAssumption, SupervisorAssumption
<1>2. QED
  BY <1>1
  DEF Loop!Init, Loop!LoopInv, Loop!TypeOK, Loop!AdvanceInRange, Loop!NoStaleCommand, Loop!Times,
      LoopProofs!Init, LoopProofs!LoopInv, LoopProofs!TypeOK, LoopProofs!AdvanceInRange,
      LoopProofs!NoStaleCommand, LoopProofs!Times

LEMMA LoopInvStep == Loop!LoopInv /\ [Loop!Next]_loopVars => Loop!LoopInv'
<1>1. LoopProofs!LoopInv /\ [LoopProofs!Next]_(LoopProofs!vars) => LoopProofs!LoopInv'
  BY DispatcherAssumption, SupervisorAssumption, LoopProofs!StepLoopInv
  DEF DispatcherAssumption, SupervisorAssumption
<1>2. Loop!LoopInv <=> LoopProofs!LoopInv
  BY DEF Loop!LoopInv, Loop!TypeOK, Loop!AdvanceInRange, Loop!NoStaleCommand, Loop!Times,
         LoopProofs!LoopInv, LoopProofs!TypeOK, LoopProofs!AdvanceInRange,
         LoopProofs!NoStaleCommand, LoopProofs!Times
<1>3. Loop!LoopInv' <=> LoopProofs!LoopInv'
  BY DEF Loop!LoopInv, Loop!TypeOK, Loop!AdvanceInRange, Loop!NoStaleCommand, Loop!Times,
         LoopProofs!LoopInv, LoopProofs!TypeOK, LoopProofs!AdvanceInRange,
         LoopProofs!NoStaleCommand, LoopProofs!Times
<1>4. Loop!Next <=> LoopProofs!Next
  BY DEF Loop!Next, Loop!ReceiveInput, Loop!ReceiveSwitch, Loop!LoopStep, Loop!FirstMessage,
         Loop!TestPredicate, Loop!EndPump, Loop!HandleInput, Loop!HandleSwitch, Loop!Times,
         Loop!MultiInput, Loop!EnterLoop, Loop!Branch, Loop!AfterReset, Loop!AdvanceTo,
         Loop!ClearHandled, Loop!Requested, Loop!ClearSelected,
         LoopProofs!Next, LoopProofs!ReceiveInput, LoopProofs!ReceiveSwitch,
         LoopProofs!LoopStep, LoopProofs!FirstMessage, LoopProofs!TestPredicate,
         LoopProofs!EndPump, LoopProofs!HandleInput, LoopProofs!HandleSwitch,
         LoopProofs!Times, LoopProofs!MultiInput, LoopProofs!EnterLoop, LoopProofs!Branch,
         LoopProofs!AfterReset, LoopProofs!AdvanceTo, LoopProofs!ClearHandled,
         LoopProofs!Requested, LoopProofs!ClearSelected
<1>5. QED
  BY <1>1, <1>2, <1>3, <1>4 DEF loopVars, LoopProofs!vars

\* Every step of the dispatcher is a step of the loop, or none of its.
LEMMA DispatcherStepsLoop == [Next]_vars => [Loop!Next]_loopVars
<1> SUFFICES ASSUME [Next]_vars PROVE [Loop!Next]_loopVars
  OBVIOUS
<1>1. ASSUME NEW c \in Channels, NEW t \in Times, ReceiveInput(c, t)
      PROVE  Loop!Next
  BY <1>1 DEF ReceiveInput, Loop!Next, Times, Loop!Times
<1>2. ASSUME NEW n \in Channels \cup UnknownNames,
             NEW m \in [utime : SwitchTimes, blend : Blends], ReceiveSwitch(n, m)
      PROVE  Loop!Next
  BY <1>2 DEF ReceiveSwitch, Loop!Next
<1>3. CASE Wait
  BY <1>3 DEF Wait, Loop!Next, Loop!LoopStep
<1>4. CASE HandleInput
  BY <1>4 DEF HandleInput, Loop!Next, Loop!LoopStep
<1>5. CASE HandleSwitch
  BY <1>5 DEF HandleSwitch, Loop!Next, Loop!LoopStep
<1>6. CASE AdvanceStep
  BY <1>6 DEF AdvanceStep, PendingLatch, PendingUpdate, ReachBoundary, Depart, RunUpdate,
              ForcedPublish
<1>7. CASE UNCHANGED vars
  BY <1>7 DEF vars
<1>8. QED
  BY <1>1, <1>2, <1>3, <1>4, <1>5, <1>6, <1>7 DEF Next

\* The input branch takes the context to the message's time.
LEMMA InputReaches ==
  ASSUME Loop!LoopInv, Loop!HandleInput
  PROVE  /\ inbox[active] \in Times
         /\ ctx' = inbox[active]
         /\ pc' # "first"
<1> USE DispatcherAssumption, SupervisorAssumption
    DEF DispatcherAssumption, SupervisorAssumption, Times, Loop!Times
<1>1. inbox[active] \in Times /\ ctx \in Times
  BY DEF Loop!LoopInv, Loop!TypeOK, Loop!HandleInput
<1>2. ctx' = inbox[active]
  BY <1>1 DEF Loop!HandleInput, Loop!AfterReset, Loop!AdvanceTo
<1>3. pc' # "first"
  BY DEF Loop!HandleInput, Loop!EnterLoop
<1>4. QED
  BY <1>1, <1>2, <1>3

\* The switch branch goes nowhere.
LEMMA SwitchStays ==
  ASSUME Loop!LoopInv, Loop!HandleSwitch
  PROVE  span' = 0 /\ ctx' = ctx /\ pc' # "first" /\ pc # "first"
<1>1. ctx = time /\ pc = "switch" /\ time \in Int
  BY SupervisorAssumption
  DEF SupervisorAssumption, Loop!LoopInv, Loop!TypeOK, Loop!Times, Loop!HandleSwitch
<1>2. QED
  BY <1>1 DEF Loop!HandleSwitch, Loop!AdvanceTo, Loop!EnterLoop

\* While messages arrive, the context moves only before the first input.
LEMMA WaitStays ==
  ASSUME \/ Loop!FirstMessage \/ Loop!TestPredicate \/ Loop!EndPump
         \/ \E c \in Channels, t \in Times : Loop!ReceiveInput(c, t)
         \/ \E n \in Channels \cup UnknownNames : Loop!ReceiveSwitch(n)
  PROVE  span' = span /\ (pc # "first" => ctx' = ctx /\ pc' # "first")
BY DEF Loop!FirstMessage, Loop!TestPredicate, Loop!EndPump, Loop!ReceiveInput,
       Loop!ReceiveSwitch, Loop!Branch

\* What the supervisor's update leaves to the gap's argument: the time on
\* record is the command's or none, and a late command stays late.
LEMMA UpdateKeepsLate ==
  ASSUME SupervisorInv, GapLate, UpdateErrorFlag,
         UNCHANGED <<heard, gapNow, pc, ctx>>
  PROVE  GapLate'
<1>1. /\ command.ts \in Nat /\ prev_efforts_time \in Nat /\ MaxDelay \in Nat
      /\ command' = command /\ prev_efforts_time' = RecordedTime
  BY SupervisorAssumption
  DEF SupervisorAssumption, SupervisorInv, SupervisorTypeOK, Commands, Times,
      UpdateErrorFlag, ports
<1>2. prev_efforts_time' = 0 \/ (prev_efforts_time' = command.ts /\ ~Late)
  BY <1>1 DEF RecordedTime
<1>3. prev_efforts_time' <= command'.ts
  BY <1>1, <1>2
<1>4. gapNow => prev_efforts_time' = 0 /\ command.ts > MaxDelay
  BY <1>2 DEF GapLate
<1>5. gapNow' => Late' /\ command'.ts > MaxDelay'
  BY <1>1, <1>4 DEF Late
<1>6. heard' = 0 => command'.ts = 0 /\ prev_efforts_time' = 0
  BY <1>1, <1>2 DEF GapLate
<1>7. QED
  BY <1>1, <1>3, <1>5, <1>6 DEF GapLate

\* DispatcherInv holds at the start.
LEMMA DispatcherInvInit == Init => DispatcherInv
<1> SUFFICES ASSUME Init PROVE DispatcherInv
  OBVIOUS
<1>1. Loop!LoopInv
  BY LoopInvInit DEF Init
<1>2. SupervisorInv
  BY InitSupervisorInv DEF Init
<1>3. SimTypes
  <2>1. [utime |-> 0, blend |-> 0] \in Switches
    BY SupervisorAssumption DEF SupervisorAssumption, Switches, Times
  <2>2. mail \in Switches
    BY <2>1 DEF Init
  <2>3. heard \in 0 .. 2
    BY DEF Init
  <2>4. QED
    BY <2>2, <2>3 DEF Init, SimTypes
<1>4. SwitchOwed
  BY DEF Init, SwitchOwed
<1>5. GapLate
  BY DEF Init, GapLate, SupervisorInit
<1>6. QED
  BY <1>1, <1>2, <1>3, <1>4, <1>5 DEF DispatcherInv

\* Messages arrive, and the loop waits for them.
LEMMA WaitKeepsInv ==
  ASSUME DispatcherInv,
         \/ \E c \in Channels, t \in Times : ReceiveInput(c, t)
         \/ \E n \in Channels \cup UnknownNames, m \in [utime : SwitchTimes, blend : Blends] :
               ReceiveSwitch(n, m)
         \/ Wait
  PROVE  SupervisorInv' /\ SimTypes' /\ SwitchOwed' /\ GapLate'
<1>1. /\ UNCHANGED <<svars, phase, pendSwitch, history>>
      /\ phase = "loop"
      /\ mailNew' \in BOOLEAN /\ mail' \in Switches
  <2>1. ASSUME NEW n \in Channels \cup UnknownNames,
               NEW m \in [utime : SwitchTimes, blend : Blends], ReceiveSwitch(n, m)
        PROVE  m \in Switches
    BY DispatcherAssumption DEF DispatcherAssumption, Switches
  <2>2. QED
    BY <2>1 DEF ReceiveInput, ReceiveSwitch, Wait, simVars, DispatcherInv, SimTypes
<1>2. span' = span /\ (pc # "first" => ctx' = ctx /\ pc' # "first")
  BY WaitStays DEF ReceiveInput, ReceiveSwitch, Wait
<1>3. SupervisorInv'
  <2>1. UNCHANGED <<ports, state, outputs, ghosts>>
    BY <1>1 DEF svars
  <2>2. /\ command' \in Commands /\ overspeed' \in BOOLEAN
        /\ switchMsg' \in Switches /\ radioStop' \in BOOLEAN
    BY <2>1 DEF ports, DispatcherInv, SupervisorInv, SupervisorTypeOK
  <2>3. QED
    BY <2>1, <2>2, PortsKeepInv DEF DispatcherInv
<1>4. SimTypes' /\ SwitchOwed'
  BY <1>1 DEF DispatcherInv, SimTypes, SwitchOwed, history
<1>5. GapLate'
  BY <1>1, <1>2 DEF DispatcherInv, GapLate, Late, history, svars, ports, state
<1>6. QED
  BY <1>3, <1>4, <1>5

\* An input: a command is set before the AdvanceTo, and a switch message that
\* is owed is pending already.
LEMMA InputKeepsInv ==
  ASSUME DispatcherInv, HandleInput
  PROVE  SupervisorInv' /\ SimTypes' /\ SwitchOwed' /\ GapLate'
<1>1. /\ Loop!HandleInput
      /\ command' = [ts |-> inbox[active], u |-> EffortOf[active]]
      /\ overspeed' \in Speeding /\ radioStop' \in Radio
      /\ phase = "loop" /\ phase' = "pending"
      /\ fromNew' = TRUE
      /\ heard' = IF heard < 2 THEN heard + 1 ELSE 2
      /\ rewound' = (rewound \/ inbox[active] < ctx)
      /\ gapNow' = (heard > 0 /\ ~rewound /\ inbox[active] - command.ts > MaxDelay)
      /\ UNCHANGED <<switchMsg, state, outputs, ghosts, pendSwitch, mail, mailNew, owed>>
  BY DEF HandleInput, FixedTime, Sense
<1>2. inbox[active] \in Times /\ ctx' = inbox[active] /\ pc' # "first"
  BY <1>1, InputReaches DEF DispatcherInv
<1>3. active \in Channels /\ ctx \in Int
  BY SupervisorAssumption
  DEF SupervisorAssumption, DispatcherInv, Loop!LoopInv, Loop!TypeOK, Loop!Times
<1>4. SupervisorInv'
  <2>1. command' \in Commands
    BY <1>1, <1>2, <1>3, DispatcherAssumption DEF DispatcherAssumption, Commands
  <2>2. overspeed' \in BOOLEAN /\ radioStop' \in BOOLEAN
    BY <1>1, DispatcherAssumption DEF DispatcherAssumption
  <2>3. switchMsg' \in Switches
    BY <1>1 DEF DispatcherInv, SupervisorInv, SupervisorTypeOK
  <2>4. QED
    BY <1>1, <2>1, <2>2, <2>3, PortsKeepInv DEF DispatcherInv
<1>5. SimTypes'
  <2>1. heard' \in 0 .. 2
    BY <1>1 DEF DispatcherInv, SimTypes
  <2>2. rewound' \in BOOLEAN /\ gapNow' \in BOOLEAN
    BY <1>1
  <2>3. QED
    BY <1>1, <2>1, <2>2 DEF DispatcherInv, SimTypes
<1>6. SwitchOwed'
  BY <1>1 DEF DispatcherInv, SwitchOwed
<1>7. GapLate'
  <2>1. /\ command.ts \in Nat /\ prev_efforts_time \in Nat /\ MaxDelay \in Nat
        /\ inbox[active] \in Nat /\ heard \in 0 .. 2
    BY <1>2, SupervisorAssumption
    DEF SupervisorAssumption, DispatcherInv, SupervisorInv, SupervisorTypeOK, SimTypes,
        Commands, Times
  <2>2. command'.ts = inbox[active] /\ prev_efforts_time' = prev_efforts_time
    BY <1>1 DEF state
  <2>3. heard' > 0
    BY <1>1, <2>1
  <2>4. ASSUME ~rewound, ~(inbox[active] < ctx)
        PROVE  prev_efforts_time <= inbox[active]
    <3>1. CASE heard = 0
      BY <3>1, <2>1 DEF DispatcherInv, GapLate
    <3>2. CASE heard > 0
      <4>1. prev_efforts_time <= command.ts /\ command.ts = ctx
        BY <2>4, <3>2 DEF DispatcherInv, GapLate
      <4>2. QED
        BY <4>1, <2>1, <2>4, <1>3
    <3>3. QED
      BY <3>1, <3>2, <2>1
  <2>5. ASSUME heard > 0, ~rewound, inbox[active] - command.ts > MaxDelay
        PROVE  inbox[active] - prev_efforts_time > MaxDelay /\ inbox[active] > MaxDelay
    <3>1. prev_efforts_time <= command.ts
      BY <2>5 DEF DispatcherInv, GapLate
    <3>2. QED
      BY <3>1, <2>1, <2>5
  <2>6. ~rewound' => prev_efforts_time' <= command'.ts
    BY <1>1, <2>2, <2>4
  <2>7. gapNow' => Late' /\ command'.ts > MaxDelay
    BY <1>1, <2>2, <2>5 DEF Late
  <2>8. QED
    BY <1>2, <2>2, <2>3, <2>6, <2>7, <2>1 DEF GapLate
<1>8. QED
  BY <1>4, <1>5, <1>6, <1>7

\* A switch: what is owed is on its way, and the AdvanceTo goes nowhere.
LEMMA SwitchKeepsInv ==
  ASSUME DispatcherInv, HandleSwitch
  PROVE  SupervisorInv' /\ SimTypes' /\ SwitchOwed' /\ GapLate'
<1>1. /\ Loop!HandleSwitch
      /\ overspeed' \in Speeding /\ radioStop' \in Radio
      /\ phase = "loop" /\ phase' = "pending"
      /\ \/ owed' = (mailNew \/ pendSwitch) /\ fromNew' = FALSE
         \/ UNCHANGED <<owed, fromNew>>
      /\ UNCHANGED <<command, switchMsg, state, outputs, ghosts, sample, due, pendSwitch,
                     mail, mailNew, heard, rewound, gapNow>>
  BY DEF HandleSwitch, PhaseAfterSwitch, Sense
<1>2. span' = 0 /\ ctx' = ctx /\ pc' # "first" /\ pc # "first"
  BY <1>1, SwitchStays DEF DispatcherInv
<1>3. SupervisorInv'
  <2>1. overspeed' \in BOOLEAN /\ radioStop' \in BOOLEAN
    BY <1>1, DispatcherAssumption DEF DispatcherAssumption
  <2>2. command' \in Commands /\ switchMsg' \in Switches
    BY <1>1 DEF DispatcherInv, SupervisorInv, SupervisorTypeOK
  <2>3. QED
    BY <1>1, <2>1, <2>2, PortsKeepInv DEF DispatcherInv
<1>4. SimTypes'
  BY <1>1 DEF DispatcherInv, SimTypes
<1>5. SwitchOwed'
  <2>1. CASE owed' = (mailNew \/ pendSwitch) /\ fromNew' = FALSE
    BY <1>1, <1>2, <2>1 DEF SwitchOwed
  <2>2. CASE UNCHANGED <<owed, fromNew>>
    BY <1>1, <2>2 DEF DispatcherInv, SwitchOwed
  <2>3. QED
    BY <1>1, <2>1, <2>2
<1>6. GapLate'
  BY <1>1, <1>2 DEF DispatcherInv, GapLate, Late, state
<1>7. QED
  BY <1>3, <1>4, <1>5, <1>6

\* An AdvanceTo: the latch comes before the update, and when there is no time
\* to go it is made pending for the next one.
LEMMA AdvanceKeepsInv ==
  ASSUME DispatcherInv, AdvanceStep
  PROVE  SupervisorInv' /\ SimTypes' /\ SwitchOwed' /\ GapLate'
<1>1. ASSUME UNCHANGED <<loopVars, command, state, outputs, ghosts, heard, rewound, gapNow>>,
             overspeed' \in BOOLEAN, switchMsg' \in Switches, radioStop' \in BOOLEAN
      PROVE  SupervisorInv' /\ GapLate'
  <2>1. command' \in Commands
    BY <1>1 DEF DispatcherInv, SupervisorInv, SupervisorTypeOK
  <2>2. SupervisorInv'
    BY <1>1, <2>1, PortsKeepInv DEF DispatcherInv
  <2>3. GapLate'
    BY <1>1 DEF DispatcherInv, GapLate, Late, state, loopVars
  <2>4. QED
    BY <2>2, <2>3
<1>2. /\ overspeed \in BOOLEAN /\ switchMsg \in Switches /\ radioStop \in BOOLEAN
      /\ mail \in Switches
  BY DEF DispatcherInv, SupervisorInv, SupervisorTypeOK, SimTypes
<1>3. ASSUME UpdateErrorFlag, rewound' = FALSE,
             UNCHANGED <<loopVars, owed, fromNew, heard, gapNow>>
      PROVE  SupervisorInv' /\ GapLate'
  <2>1. UNCHANGED <<heard, gapNow, pc, ctx>>
    BY <1>3 DEF loopVars
  <2>2. QED
    BY <1>3, <2>1, UpdateKeepsInv, UpdateKeepsLate DEF DispatcherInv
<1>4. CASE PendingLatch
  <2>1. SupervisorInv' /\ GapLate'
    BY <1>1, <1>2, <1>4 DEF PendingLatch, LatchSwitch
  <2>2. SimTypes' /\ SwitchOwed'
    BY <1>4 DEF PendingLatch, LatchSwitch, DispatcherInv, SimTypes, SwitchOwed
  <2>3. QED
    BY <2>1, <2>2
<1>5. CASE PendingUpdate
  <2>1. SupervisorInv' /\ GapLate'
    BY <1>3, <1>5 DEF PendingUpdate, Update
  <2>2. SimTypes' /\ SwitchOwed'
    BY <1>5 DEF PendingUpdate, Update, DispatcherInv, SimTypes, SwitchOwed, loopVars
  <2>3. QED
    BY <2>1, <2>2
<1>6. CASE ReachBoundary
  <2>1. SupervisorInv' /\ GapLate'
    BY <1>1, <1>2, <1>6 DEF ReachBoundary, svars, ports, history
  <2>2. SimTypes' /\ SwitchOwed'
    BY <1>6 DEF ReachBoundary, history, DispatcherInv, SimTypes, SwitchOwed
  <2>3. QED
    BY <2>1, <2>2
<1>7. CASE Depart
  <2>1. overspeed' \in BOOLEAN /\ radioStop' \in BOOLEAN
    BY <1>7, DispatcherAssumption DEF DispatcherAssumption, Depart, Sense
  <2>2. switchMsg' \in Switches
    BY <1>2, <1>7 DEF Depart, LatchSwitch
  <2>3. SupervisorInv' /\ GapLate'
    BY <1>1, <1>7, <2>1, <2>2 DEF Depart
  <2>4. SimTypes'
    BY <1>7 DEF Depart, LatchSwitch, DispatcherInv, SimTypes
  <2>5. ~owed'
    <3>1. owed => mailNew
      BY <1>7 DEF Depart, DispatcherInv, SwitchOwed
    <3>2. QED
      BY <1>7, <3>1 DEF Depart, LatchSwitch
  <2>6. QED
    BY <2>3, <2>4, <2>5 DEF SwitchOwed
<1>8. CASE RunUpdate
  <2>1. SupervisorInv' /\ GapLate'
    BY <1>3, <1>8 DEF RunUpdate, Update
  <2>2. SimTypes' /\ SwitchOwed'
    BY <1>8 DEF RunUpdate, Update, DispatcherInv, SimTypes, SwitchOwed
  <2>3. QED
    BY <2>1, <2>2
<1>9. CASE ForcedPublish
  <2>1. SupervisorInv'
    BY <1>9, PublishKeepsInv DEF ForcedPublish, DispatcherInv
  <2>2. GapLate'
    BY <1>9 DEF ForcedPublish, Publish, DispatcherInv, GapLate, Late, state, ports, loopVars,
                history
  <2>3. SimTypes' /\ SwitchOwed'
    BY <1>9 DEF ForcedPublish, Publishing, history, DispatcherInv, SimTypes, SwitchOwed
  <2>4. QED
    BY <2>1, <2>2, <2>3
<1>10. QED
  BY <1>4, <1>5, <1>6, <1>7, <1>8, <1>9 DEF AdvanceStep

\* The invariant of the whole process: for every set of controllers, every
\* clock and every delay.
THEOREM DispatcherInvariant == Spec => []DispatcherInv
<1>1. DispatcherInv /\ [Next]_vars => DispatcherInv'
  <2> SUFFICES ASSUME DispatcherInv, [Next]_vars PROVE DispatcherInv'
    OBVIOUS
  <2>1. Loop!LoopInv'
    BY LoopInvStep, DispatcherStepsLoop DEF DispatcherInv
  <2>2. SupervisorInv' /\ SimTypes' /\ SwitchOwed' /\ GapLate'
    <3>1. CASE UNCHANGED vars
      <4>1. UNCHANGED <<ports, state, outputs, ghosts>>
        BY <3>1 DEF vars, svars
      <4>2. /\ command' \in Commands /\ overspeed' \in BOOLEAN
            /\ switchMsg' \in Switches /\ radioStop' \in BOOLEAN
        BY <4>1 DEF ports, DispatcherInv, SupervisorInv, SupervisorTypeOK
      <4>3. SupervisorInv'
        BY <4>1, <4>2, PortsKeepInv DEF DispatcherInv
      <4>4. SimTypes' /\ SwitchOwed'
        BY <3>1 DEF vars, simVars, history, loopVars, DispatcherInv, SimTypes, SwitchOwed
      <4>5. GapLate'
        BY <3>1 DEF vars, svars, ports, state, history, loopVars, DispatcherInv, GapLate, Late
      <4>6. QED
        BY <4>3, <4>4, <4>5
    <3>2. QED
      BY <3>1, WaitKeepsInv, InputKeepsInv, SwitchKeepsInv, AdvanceKeepsInv DEF Next
  <2>3. QED
    BY <2>1, <2>2 DEF DispatcherInv
<1>2. QED
  BY <1>1, DispatcherInvInit, PTL DEF Spec

\* No update of the supervisor sees a command of the new controller before the
\* switch message, however many switches, restarts of the clock and lost
\* messages there are.
THEOREM DispatcherSwitchSeenFirst == Spec => SwitchSeenFirst
<1> DEFINE Seen == PendingUpdate \/ RunUpdate => ~(owed /\ fromNew)
<1>1. DispatcherInv => Seen
  BY DEF DispatcherInv, SwitchOwed, PendingUpdate, RunUpdate
<1>2. DispatcherInv /\ [Next]_vars => [Seen]_vars
  BY <1>1
<1>3. QED
  BY <1>2, DispatcherInvariant, PTL DEF Spec, SwitchSeenFirst

\* A command after a gap does not reach the motors outside a blend, for every
\* delay and every clock.
THEOREM DispatcherGapShutsDown == Spec => []GapShutsDown
<1>1. DispatcherInv => GapShutsDown
  <2> SUFFICES ASSUME DispatcherInv, gapNow, ~radioStop, ~Blending
               PROVE  SetMotorTorques.val = 0
    BY DEF GapShutsDown
  <2>1. IsError
    BY DEF DispatcherInv, GapLate, IsError
  <2>2. QED
    BY <2>1 DEF SetMotorTorques, Output
<1>2. QED
  BY <1>1, DispatcherInvariant, PTL

\* In the dispatcher, too, a publish outside a blend sends nothing after a stop
\* and never more than the limit.
THEOREM DispatcherSafeOutsideBlend == Spec => SafeOutsideBlend
<1> DEFINE Safe == motors' # motors /\ motors'.kind = "effort" /\ ~Blending =>
             /\ Stopped => motors'.val = 0
             /\ Limit # NoLimit => motors'.val \in -(Limit * Scale) .. Limit * Scale
<1>1. ASSUME DispatcherInv, [Next]_vars PROVE Safe
  <2>1. motors' = motors \/ Publish
    BY <1>1 DEF Next, ReceiveInput, ReceiveSwitch, Wait, HandleInput, HandleSwitch, AdvanceStep,
                PendingLatch, PendingUpdate, ReachBoundary, Depart, RunUpdate, ForcedPublish,
                Update, UpdateErrorFlag, vars, svars, outputs
  <2>2. QED
    BY <1>1, <2>1, PublishSafe DEF DispatcherInv
<1>2. DispatcherInv /\ [Next]_vars => [Safe]_svars
  BY <1>1
<1>3. QED
  BY <1>2, DispatcherInvariant, PTL DEF Spec, SafeOutsideBlend
=============================================================================
