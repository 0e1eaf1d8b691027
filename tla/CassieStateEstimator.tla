------------------------ MODULE CassieStateEstimator ------------------------
(***************************************************************************)
(* examples/Cassie/cassie_state_estimator.cc: when the estimator's update  *)
(* runs, for which span of time, and which contacts it reports.  The       *)
(* update asks for a timed event eps_ before the message's time, so that   *)
(* it comes before the publish.  What the filter computes is left out.     *)
(***************************************************************************)
EXTENDS Integers

CONSTANTS
    Eps,        \* eps_, in ticks: shorter than the time between two messages
    Vanish,     \* from this time on a double's spacing swallows eps_: 2^14 s
    TestModes,  \* values of the flag test_mode
    MaxTime     \* bound: largest time of a message

\* cassie_state_estimator.h:231, dispatcher_robot_out.cc:61-66
ASSUME EstimatorAssumption ==
    /\ Eps \in Nat \ {0}
    /\ Vanish \in Nat
    /\ TestModes \subseteq {-1, 0, 1, 2}
    /\ MaxTime \in Nat

VARIABLES
    next_message_time,
    prev_t,               \* the discrete state at time_idx_
    hardware_test_mode,
    contact,              \* the discrete state at contact_idx_: left and right
    test_mode,            \* ghost: the flag's value
    bothSeen,             \* ghost: an update estimated both feet in contact
    current,              \* ghost: the last update was for the input's message
    dt                    \* ghost: the time the last update propagated over

estvars == <<next_message_time, prev_t, hardware_test_mode, contact, test_mode,
             bothSeen, current, dt>>

NoTime == -1

EstimatorInit ==
    /\ next_message_time = NoTime
    /\ prev_t = 0
    /\ test_mode \in TestModes
    /\ hardware_test_mode = test_mode
    /\ contact = <<FALSE, FALSE>>
    /\ bothSeen = FALSE
    /\ current = FALSE
    /\ dt = 0

\* Mutant: the event is asked for at the message's time.
EventTime_AtMessage == next_message_time

\* next_message_time_ - eps_, as doubles subtract.
EventTime ==
    IF next_message_time < Vanish THEN next_message_time - Eps ELSE next_message_time

\* DoCalcNextUpdateTime adds an event.
WantsEvent(t) == t < EventTime

\* "Override hardware_test_mode_ if test mode is 2 and we detect contact"
ModeAfter(est) ==
    IF est[1] /\ est[2] /\ hardware_test_mode = 2 THEN -1 ELSE hardware_test_mode

\* The contacts the filter and the output get, for estimated ones and a mode.
Override(est, mode) ==
    CASE mode \in {0, 2} -> <<TRUE, TRUE>>
      [] mode = 1        -> <<FALSE, FALSE>>
      [] OTHER           -> est

\* Mutant: the time of the update is not stored.
StoredTime_Kept(t) == prev_t

\* The time stored for the next update.
StoredTime(t) == t

\* The unrestricted update at time t, with whatever contacts it estimates.
EstimatorUpdate(t) ==
    \E est \in BOOLEAN \X BOOLEAN :
      /\ dt' = t - prev_t
      /\ prev_t' = StoredTime(t)
      /\ hardware_test_mode' = ModeAfter(est)
      /\ contact' = Override(est, hardware_test_mode')
      /\ bothSeen' = (bothSeen \/ est = <<TRUE, TRUE>>)
      /\ current' = TRUE
      /\ UNCHANGED <<next_message_time, test_mode>>

EstimatorTypeOK ==
    /\ next_message_time \in 0 .. MaxTime \cup {NoTime}
    /\ prev_t \in 0 .. MaxTime
    /\ hardware_test_mode \in {-1, 0, 1, 2}
    /\ contact \in BOOLEAN \X BOOLEAN
    /\ test_mode \in TestModes
    /\ bothSeen \in BOOLEAN
    /\ current \in BOOLEAN
    /\ dt \in -MaxTime .. MaxTime

\* "2: both feet always in contact with the ground until contact is detected in
\* which case it switches to test mode -1": from the first estimate of both feet
\* in contact, in whichever run of updates, estimates are reported as they are.
TestModeHolds ==
    hardware_test_mode = IF test_mode = 2 /\ bothSeen THEN -1 ELSE test_mode
=============================================================================
