-------------------------- MODULE ControllerSwitch --------------------------
(***************************************************************************)
(* examples/Cassie/run_controller_switch.cc: the program an operator runs  *)
(* once to tell the dispatcher which channel to listen to.  It takes the   *)
(* time from the robot's state messages and publishes the name ten times,  *)
(* at ten messages, from a threshold on.  A message that comes while it    *)
(* handles another one may be overtaken by a later one.  What is published *)
(* is the name with the time of the message.                               *)
(***************************************************************************)
EXTENDS Integers

CONSTANTS
    n_publishes, n_period_delay,
    fsm_period,     \* in ticks, like the times
    fsm_offset

VARIABLES
    started,        \* the first message has come
    t_threshold,
    pub_count       \* messages published, each with the time of the message heard

switchVars == <<started, t_threshold, pub_count>>

SwitchInit ==
    /\ started = FALSE
    /\ t_threshold = 0
    /\ pub_count = 0

\* The periods that are over at t0.  The quotient is one of doubles, which at the
\* end of a period may come out a little less than whole (0.74 s after 3 of them).
Periods(t0) ==
    {t0 \div fsm_period}
        \cup (IF t0 > 0 /\ t0 % fsm_period = 0 THEN {(t0 \div fsm_period) - 1} ELSE {})

\* Mutant: periods are counted from the first message.
Thresholds_FromFirst(t0) ==
    IF n_period_delay > 0 THEN {t0 + n_period_delay * fsm_period + fsm_offset} ELSE {t0}

\* The values t_threshold may get.  Whole periods are counted from time 0; what
\* comes out a little more (15 periods of 0.7 s and 0.3 s, say) compares with
\* every time like what is a tick more.
Thresholds(t0) ==
    IF n_period_delay > 0
    THEN {(q + n_period_delay) * fsm_period + fsm_offset + e : q \in Periods(t0), e \in {0, 1}}
    ELSE {t0}

FirstMessage(t) ==
    /\ ~started
    /\ started' = TRUE
    /\ t_threshold' \in Thresholds(t)
    /\ UNCHANGED pub_count

\* The loop ends with the last publish.
LaterMessage(t) ==
    /\ started
    /\ pub_count < n_publishes
    /\ pub_count' = IF t >= t_threshold THEN pub_count + 1 ELSE pub_count
    /\ UNCHANGED <<started, t_threshold>>

HandleState(t) == FirstMessage(t) \/ LaterMessage(t)
=============================================================================
