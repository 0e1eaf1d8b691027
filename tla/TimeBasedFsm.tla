---------------------------- MODULE TimeBasedFsm ----------------------------
(***************************************************************************)
(* systems/controllers/time_based_fsm.cc: the walking state as a function  *)
(* of the time in the robot's state message.                               *)
(*                                                                         *)
(* Times are integers, in ticks.  The code computes with doubles, so the   *)
(* remainder comes out a little less or a little more than it is, which    *)
(* matters where it is compared with an equal sum of durations, and where  *)
(* the quotient is whole.  With durations 0.30, 0.05, 0.30, 0.05 a state   *)
(* begins at 7.3 s but the one before is shown; with 0.35, 0.02, 0.35,     *)
(* 0.02 a period begins at 9.62 s and no state is shown.                   *)
(***************************************************************************)
EXTENDS Integers, Sequences, SequencesExt

CONSTANTS
    States,     \* states_, a sequence
    Durations,  \* state_durations_, in ticks
    T0,         \* t0_
    Initial,    \* initial_state_, which is -1
    Garbage     \* a set: what an uninitialized double may hold

\* time_based_fsm.cc:19, time_based_fsm.h (t0 is 0 by default), and what makes
\* the division meaningful
ASSUME FsmAssumption ==
    /\ Len(States) = Len(Durations)
    /\ Durations \in Seq(Nat \ {0})
    /\ Durations # <<>>
    /\ T0 \in Nat
    /\ Initial \notin ToSet(States)
    /\ Garbage # {}
    /\ Garbage \cap (ToSet(States) \cup {Initial}) = {}

\* accu_state_durations_, with a 0 before it.
Accumulated[i \in 0 .. Len(Durations)] ==
    IF i = 0 THEN 0 ELSE Accumulated[i - 1] + Durations[i]

Period == Accumulated[Len(Durations)]

\* A later period begins at t.
PeriodBegins(t) == t > T0 /\ (t - T0) % Period = 0

\* The values the local variable remainder may get: where a period begins it may
\* be counted to the one before; and what is a little less compares with all
\* sums of durations like what is a tick less.
Remainders(t) ==
    LET exact == {(t - T0) % Period} \cup (IF PeriodBegins(t) THEN {Period} ELSE {})
    IN  exact \cup {r - 1 : r \in exact}

\* Mutant: a state lasts through its last instant.
Within_Closed(r, i) == r <= Accumulated[i]

\* Whether the remainder lies within the first i states.
Within(r, i) == r < Accumulated[i]

\* The state the loop over the durations finds for a remainder; none for one
\* that is not within the period, and the vector keeps what it was made of.
StatesFor(r) ==
    IF \E i \in DOMAIN States : Within(r, i)
    THEN {States[CHOOSE i \in DOMAIN States :
                     Within(r, i) /\ \A j \in 1 .. i - 1 : ~Within(r, j)]}
    ELSE Garbage

\* What CalcFiniteState may output for a message with timestamp t.
CalcFiniteState(t) ==
    IF t >= T0 THEN UNION {StatesFor(r) : r \in Remainders(t)} ELSE {Initial}
=============================================================================
