---------------------------- MODULE WalkingPhase ----------------------------
(***************************************************************************)
(* The phase of the walking controller (examples/Cassie/                   *)
(* run_osc_walking_controller.cc): TimeBasedFiniteStateMachine gives the   *)
(* state, systems/controllers/fsm_event_time.cc records when it was seen   *)
(* to change.  Both know the time only from the robot's state messages,    *)
(* which sample the robot's clock; that clock starts again when the driver *)
(* or the simulation does.                                                 *)
(*                                                                         *)
(* Beside them runs a machine that stays in each state for its duration,   *)
(* with ghosts only: what the robot's phase ought to be.                   *)
(***************************************************************************)
EXTENDS TimeBasedFsm

CONSTANTS
    AsInt,      \* the int that each garbage converts to
    Interest,   \* fsm_states_of_interest_
    NoState,    \* minus infinity, the first prev_fsm_state
    MaxTime,    \* bound: the clock stops there
    MaxGap      \* longest time between two messages, in ticks

ASSUME PhaseAssumption ==
    /\ AsInt \in [Garbage -> ToSet(States) \cup Garbage]
    /\ Interest \subseteq ToSet(States)
    /\ NoState \notin ToSet(States) \cup {Initial} \cup Garbage
    /\ MaxTime \in Nat
    /\ MaxGap \in Nat

VARIABLES
    clock,       \* the robot's clock
    gap,         \* ticks since the last message
    timestamp,   \* the time of the last message
    fsm,         \* the state machine's output for it
    prev_fsm, start, start_of_interest,     \* FiniteStateMachineEventTime
    index,       \* ghost: which of States the robot is in, 0 before T0
    entered,     \* ghost: when it entered it
    passed,      \* ghost: changes of state that the last message did not show,
                 \* up to 2
    misled       \* ghost: since start was recorded the clock started again, or
                 \* a gap hid that the robot left the state and came back

vars == <<clock, gap, timestamp, fsm, prev_fsm, start, start_of_interest,
          index, entered, passed, misled>>

\* int(f), as most readers of the state machine take it.
ToInt(f) == IF f \in Garbage THEN AsInt[f] ELSE f

Init ==
    /\ clock = 0
    /\ gap = 0
    /\ timestamp = 0
    /\ fsm \in CalcFiniteState(0)
    /\ prev_fsm = NoState
    /\ start = 0
    /\ start_of_interest = 0
    /\ index = IF 0 < T0 THEN 0 ELSE 1
    /\ entered = 0
    /\ passed = 0
    /\ misled = FALSE

\* The machine that stays in each state for its duration.
DwellEnds(t) ==
    \/ index = 0 /\ t >= T0
    \/ index # 0 /\ t >= entered + Durations[index]

Dwell(t) ==
    IF DwellEnds(t)
    THEN /\ index' = (index % Len(States)) + 1
         /\ entered' = t
         /\ passed' = IF passed = 2 THEN 2 ELSE passed + 1
    ELSE UNCHANGED <<index, entered, passed>>

Tick ==
    /\ clock < MaxTime
    /\ gap < MaxGap
    /\ clock' = clock + 1
    /\ gap' = gap + 1
    /\ Dwell(clock')
    /\ UNCHANGED <<timestamp, fsm, prev_fsm, start, start_of_interest, misled>>

\* The clock starts again.
Restart ==
    /\ clock' = 0
    /\ index' = IF 0 < T0 THEN 0 ELSE 1
    /\ entered' = 0
    /\ passed' = 0
    /\ misled' = TRUE
    /\ UNCHANGED <<gap, timestamp, fsm, prev_fsm, start, start_of_interest>>

\* Mutant: only changes to a state of interest are noticed.
Changed_OfInterest(f) == f # prev_fsm /\ f \in Interest

\* DiscreteVariableUpdate sees another state than before.
Changed(f) == f # prev_fsm

\* Mutant: only the states that are not of interest count.
OfInterest_Inverted(f) == f \notin Interest

OfInterest(f) == f \in Interest

\* A message samples the clock, the state machine's output follows it, and the
\* per-step update of the simulator's step compares.  No two messages in a row
\* have the same time.
Message ==
    /\ clock # timestamp \/ prev_fsm = NoState
    /\ timestamp' = clock
    /\ gap' = 0
    /\ fsm' \in CalcFiniteState(clock)
    /\ prev_fsm' = fsm'
    /\ start' = IF Changed(fsm') THEN clock ELSE start
    /\ start_of_interest' =
          IF Changed(fsm') /\ OfInterest(ToInt(fsm')) THEN clock ELSE start_of_interest
    /\ passed' = IF index # 0 /\ fsm' \in ToSet(States) \ {States[index]} THEN 1 ELSE 0
    /\ misled' = ((misled \/ passed = 2) /\ fsm' = prev_fsm)
    /\ UNCHANGED <<clock, index, entered>>

Next == Tick \/ Restart \/ Message

Spec == Init /\ [][Next]_vars

------------------------------------------------------------------------------
(* Properties. *)

TypeOK ==
    /\ clock \in 0 .. MaxTime
    /\ gap \in 0 .. MaxGap
    /\ timestamp \in 0 .. MaxTime
    /\ fsm \in ToSet(States) \cup {Initial} \cup Garbage
    /\ prev_fsm \in ToSet(States) \cup {Initial, NoState} \cup Garbage
    /\ start \in 0 .. MaxTime
    /\ start_of_interest \in 0 .. MaxTime
    /\ index \in 0 .. Len(States)
    /\ entered \in 0 .. MaxTime
    /\ passed \in 0 .. 2
    /\ misled \in BOOLEAN

\* The last message shows the robot's clock as it is.
Fresh == gap = 0 /\ timestamp = clock /\ prev_fsm # NoState

\* The state that comes before the i-th.
Before(i) == IF i = 1 THEN Len(States) ELSE i - 1

\* "TimeBasedFiniteStateMachine goes through each state in order, and the time
\* it stays in each state for is specified by the corresponding duration", but
\* for the very instant at which a state begins: there rounding may show the
\* state before it, or none where a period begins.  It is never a tick late.
StaysForDuration ==
    Fresh => \/ fsm = IF index = 0 THEN Initial ELSE States[index]
             \/ /\ index # 0 /\ clock = entered /\ clock > T0
                /\ fsm = States[Before(index)] \/ (fsm \in Garbage /\ index = 1)

\* Whenever the state shown is one of interest both times recorded are the
\* same, in whatever order the states were seen and across restarts.
InterestAgrees == ToInt(prev_fsm) \in Interest => start_of_interest = start
=============================================================================
