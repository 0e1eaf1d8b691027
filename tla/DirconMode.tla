----------------------------- MODULE DirconMode -----------------------------
(***************************************************************************)
(* systems/trajectory_optimization/dircon/dircon_mode.cc: one mode of a    *)
(* hybrid trajectory, with its evaluators, its knot points, which of the   *)
(* active rows hold relative to an offset, and how much is constrained at  *)
(* which knot.  Scales of constraints and durations are left out.          *)
(***************************************************************************)
EXTENDS KinematicEvaluatorSet, FiniteSets

ConstraintTypes == {"kAll", "kAccelAndVel", "kAccelOnly"}

NewMode(set, n) ==
    [evaluators           |-> set,
     num_knotpoints       |-> n,
     relative_constraints |-> {},
     reduced_constraints  |-> [k \in {} |-> "kAll"]]

\* A row that is not active is ignored.
MakeConstraintRelative(mode, evaluator_index, constraint_index) ==
    LET active == full_index_to_active_index(get_evaluator(mode.evaluators, evaluator_index),
                                             constraint_index)
    IN  IF active = -1 THEN mode
        ELSE [mode EXCEPT !.relative_constraints =
                 @ \cup {evaluator_active_start(mode.evaluators, evaluator_index) + active}]

set_constraint_type(mode, knotpoint_index, type) ==
    [mode EXCEPT !.reduced_constraints =
        [k \in DOMAIN @ \cup {knotpoint_index} |-> IF k = knotpoint_index THEN type ELSE @[k]]]

get_constraint_type(mode, knotpoint_index) ==
    IF knotpoint_index \in DOMAIN mode.reduced_constraints
    THEN mode.reduced_constraints[knotpoint_index]
    ELSE "kAll"

\* "subtract shared knotpoints"
count_knotpoints(modes) ==
    LET lengths == [m \in 1 .. Len(modes) |-> modes[m].num_knotpoints]
    IN  1 - Len(modes) + Accumulate(lengths)[Len(modes)]
=============================================================================
