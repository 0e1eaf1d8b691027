-------------------------- MODULE JumpingEventFsm --------------------------
(***************************************************************************)
(* examples/Cassie/osc_jump/jumping_event_based_fsm.cc: the phases of a    *)
(* jump.  A phase is left a delay after its guard, on contacts or on time, *)
(* was first seen to hold.  The per-step update may run several times for  *)
(* one message of the robot.                                               *)
(***************************************************************************)
EXTENDS Integers

CONSTANTS
    TransitionTimes,  \* transition_times_ of the first three phases, in ticks
    Configs,          \* what the constructor may be given, see Config
    MaxTime,          \* bound: largest timestamp
    None

BALANCE == 0
CROUCH == 1
FLIGHT == 2
LAND == 3
Phases == BALANCE .. LAND

\* contact_based_, transition_delay_ in ticks, and init_state_.
Config == [contact_based : BOOLEAN, delay : Nat, init_state : Phases]

\* run_osc_jumping_controller.cc:163-166 (the times ascend), :69 and :79
ASSUME JumpAssumption ==
    /\ TransitionTimes \in [{BALANCE, CROUCH, FLIGHT} -> Nat]
    /\ Configs \subseteq Config
    /\ MaxTime \in Nat
    /\ None \notin Int

VARIABLES
    config,                   \* fixed by the constructor
    timestamp, contacts,      \* input ports: time, and whether feet touch
    updated,                  \* an update ran for the last message
    fsm_state, prev_time, state_trigger_time, transition_flag,
    firstSeen,                \* ghost: when the guard of the phase was first
                              \* seen since the phase or the run began
    hidden                    \* ghost: a restart was first heard of after the
                              \* time of the last transition

vars == <<config, timestamp, contacts, updated, fsm_state, prev_time, state_trigger_time,
          transition_flag, firstSeen, hidden>>

Times == 0 .. MaxTime

Init ==
    /\ config \in Configs
    /\ timestamp = 0
    /\ contacts \in BOOLEAN
    /\ updated = TRUE
    /\ fsm_state = config.init_state
    /\ prev_time = 0
    /\ state_trigger_time = -1
    /\ transition_flag = FALSE
    /\ firstSeen = None
    /\ hidden = FALSE

\* A message of the robot; the loop advances the diagram for every one of them.
\* A smaller time means that the clock was restarted.
Message(t, touching) ==
    /\ updated
    /\ updated' = FALSE
    /\ timestamp' = t
    /\ contacts' = touching
    /\ firstSeen' = IF t < timestamp THEN None ELSE firstSeen
    /\ hidden' = IF t < timestamp THEN t >= prev_time ELSE hidden
    /\ UNCHANGED <<config, fsm_state, prev_time, state_trigger_time, transition_flag>>

------------------------------------------------------------------------------
\* The discrete state between the update's reset and its transitions.
Memory == [phase : Phases, since : Times, trigger : Times \cup {-1}, flag : BOOLEAN]

Now == [phase |-> fsm_state, since |-> prev_time,
        trigger |-> state_trigger_time, flag |-> transition_flag]

\* Mutant: a second update for the same message counts as a restart.
Reset_OrEqual(s) ==
    IF timestamp <= s.since
    THEN [s EXCEPT !.phase = config.init_state, !.since = timestamp, !.flag = FALSE] ELSE s

\* The simulator has restarted: its clock shows less than at the last transition.
Reset(s) ==
    IF timestamp < s.since
    THEN [s EXCEPT !.phase = config.init_state, !.since = timestamp, !.flag = FALSE] ELSE s

\* The condition handed to DetectGuardCondition.
Guard(phase) ==
    IF config.contact_based
    THEN contacts = (phase = FLIGHT)
    ELSE timestamp > TransitionTimes[phase]

\* Mutant: the trigger time is overwritten while the guard holds.
Detect_Again(s) ==
    IF Guard(s.phase) THEN [s EXCEPT !.trigger = timestamp, !.flag = TRUE] ELSE s

\* The first detection is kept.
Detect(s) ==
    IF Guard(s.phase) /\ ~s.flag
    THEN [s EXCEPT !.trigger = timestamp, !.flag = TRUE] ELSE s

Enter(phase, s) == [s EXCEPT !.phase = phase, !.since = timestamp, !.flag = FALSE]

\* The phases left by a guard and a delay.
Delayed(phase) == phase \in {CROUCH, FLIGHT}

\* At most one transition per update.
Transition(s) ==
    CASE s.phase = BALANCE ->
             IF timestamp > TransitionTimes[BALANCE] THEN Enter(CROUCH, s) ELSE s
      [] Delayed(s.phase) ->
             LET d == Detect(s)
             IN  IF d.flag /\ timestamp - d.trigger >= config.delay
                 THEN Enter(s.phase + 1, d) ELSE d
      [] OTHER -> s

\* The ghost: when the guard of the phase in s was first seen.
Seen(s) ==
    IF firstSeen = None /\ Delayed(s.phase) /\ Guard(s.phase)
    THEN timestamp ELSE firstSeen

DiscreteVariableUpdate ==
    LET s == Transition(Reset(Now)) IN
      /\ fsm_state' = s.phase
      /\ prev_time' = s.since
      /\ state_trigger_time' = s.trigger
      /\ transition_flag' = s.flag
      /\ firstSeen' = IF s.phase = Reset(Now).phase THEN Seen(s) ELSE None
      /\ hidden' = (hidden /\ s.since = prev_time)
      /\ updated' = TRUE
      /\ UNCHANGED <<config, timestamp, contacts>>

Next ==
    \/ \E t \in Times, touching \in BOOLEAN : Message(t, touching)
    \/ DiscreteVariableUpdate

Spec == Init /\ [][Next]_vars

------------------------------------------------------------------------------
(* Properties. *)

TypeOK ==
    /\ config \in Configs
    /\ timestamp \in Times
    /\ contacts \in BOOLEAN
    /\ updated \in BOOLEAN
    /\ Now \in Memory
    /\ firstSeen \in Times \cup {None}
    /\ hidden \in BOOLEAN

\* "The fsm state will change transition_delay_ seconds after the guard
\* condition was first triggered", in the same run of the simulator: neither
\* earlier nor, if there is an update, later.  A restart that the machine cannot
\* see spoils it until the next transition, and no longer.
DelayIsExact ==
    [][DiscreteVariableUpdate
          /\ ~hidden /\ timestamp >= prev_time /\ Delayed(fsm_state) =>
         (fsm_state' = fsm_state + 1 <=>
             Seen(Now) # None /\ timestamp - Seen(Now) >= config.delay)]_vars

\* The jump goes through its phases in order; only a restart of the simulator
\* takes it back, and to no phase but the initial one and the next.
PhasesInOrder ==
    [][fsm_state' # fsm_state =>
         \/ fsm_state' = fsm_state + 1
         \/ /\ timestamp < prev_time
            /\ fsm_state' \in {config.init_state, config.init_state + 1}]_vars
=============================================================================
