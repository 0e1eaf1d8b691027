----------------------- MODULE KinematicEvaluatorSet -----------------------
(***************************************************************************)
(* multibody/kinematic/kinematic_evaluator_set.cc: the kinematic functions *)
(* (a foot at its place, a rod's length) that hold together in a mode.  A  *)
(* set of evaluators is a sequence; indices start at 0 as in the code.     *)
(***************************************************************************)
EXTENDS Integers, Sequences, SequencesExt

CONSTANTS
    num_full,       \* for every evaluator, how many rows it has,
    active_inds     \* and which of them are active, in which order

Evaluators == DOMAIN num_full

\* kinematic_evaluator.cc: length_ and what set_active_inds is given
ASSUME EvaluatorAssumption ==
    \A e \in Evaluators : num_full[e] \in Nat /\ active_inds[e] \in Seq(0 .. num_full[e] - 1)

\* A loop that sums up: the sums of the first elements of d.
Accumulate(d) ==
    LET sums[i \in 0 .. Len(d)] == IF i = 0 THEN 0 ELSE sums[i - 1] + d[i]
    IN  sums

num_active(e) == Len(active_inds[e])

get_evaluator(set, index) == set[index + 1]

\* -1 if the row is not active.
full_index_to_active_index(e, full_index) ==
    IF \E k \in 1 .. num_active(e) : active_inds[e][k] = full_index
    THEN (CHOOSE k \in 1 .. num_active(e) : active_inds[e][k] = full_index) - 1
    ELSE -1

evaluator_full_start(set, index) ==
    Accumulate([k \in 1 .. Len(set) |-> num_full[set[k]]])[index]

evaluator_active_start(set, index) ==
    Accumulate([k \in 1 .. Len(set) |-> num_active(set[k])])[index]

count_full(set) == evaluator_full_start(set, Len(set))

count_active(set) == evaluator_active_start(set, Len(set))

\* The active rows of other whose evaluators are in set as well.
FindActiveIndicesUnion(set, other) ==
    UNION {{evaluator_active_start(other, i) + j : j \in 0 .. num_active(get_evaluator(other, i)) - 1} :
              i \in {k \in 0 .. Len(other) - 1 : get_evaluator(other, k) \in ToSet(set)}}
=============================================================================
