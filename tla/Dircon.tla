------------------------------- MODULE Dircon -------------------------------
(***************************************************************************)
(* systems/trajectory_optimization/dircon/dircon.cc: the optimization of a *)
(* trajectory over a sequence of modes.  Consecutive modes share a knot:   *)
(* its positions and inputs are one, but its velocity is there twice,      *)
(* before and after the impact.                                            *)
(*                                                                         *)
(* Modelled is the bookkeeping: which decision variables each constraint,  *)
(* cost, scale and picture is about.  A decision variable is a tuple of    *)
(* its family and indices; what is evaluated is left out, as are           *)
(* quaternions, constraints of accelerations and costs of forces (one for  *)
(* every knot, with no condition), and initial guesses.                    *)
(***************************************************************************)
EXTENDS DirconMode

CONSTANTS
    num_positions, num_velocities, num_actuators,
    Frictional,     \* the evaluators with a friction cone
    EvaluatorSets,  \* what a mode is made of: its evaluators
    Lengths,        \* and the numbers of its knot points
    kUInt,          \* 2^32, or less for TLC; more than any product of counts
    MaxModes,       \* bound: modes of a sequence
    MaxEdits        \* bound: rows made relative, types set, and later calls

ASSUME DirconAssumption ==
    /\ num_positions \in Nat \ {0} /\ num_velocities \in Nat \ {0} /\ num_actuators \in Nat
    /\ EvaluatorSets \subseteq Seq(Evaluators)
    /\ Lengths \subseteq Nat \ {0}
    /\ kUInt \in Nat \ {0}
    /\ MaxModes \in Nat /\ MaxEdits \in Nat

VARIABLES
    stage,          \* "modes", "constructing" or "constructed"
    modes,          \* the DirconModeSequence
    mode_start_,
    constraints_,   \* the constraints added, as records of what they are about
    impulse_size_,  \* for every transition, the number of impulse variables
    scale_,         \* the decision variables that have a scale
    cost_,          \* the running cost: which step weighs which state
    velocity_cost_, \* the same of AddVelocityCost
    poses_,         \* the knots drawn by the callback, <<>> without one
    failed_,        \* the call that failed a demand or an index, or "none"
    edits           \* counter for the bound

vars == <<stage, modes, mode_start_, constraints_, impulse_size_, scale_, cost_,
          velocity_cost_, poses_, failed_, edits>>

num_modes == Len(modes)

get_mode(i) == modes[i + 1]

mode_length(i) == get_mode(i).num_knotpoints

\* The number of knots.
Knots == count_knotpoints(modes)

num_states == num_positions + num_velocities

Init ==
    /\ stage = "modes"
    /\ modes = <<>>
    /\ mode_start_ = <<>>
    /\ constraints_ = {}
    /\ impulse_size_ = <<>>
    /\ scale_ = {}
    /\ cost_ = {}
    /\ velocity_cost_ = {}
    /\ poses_ = <<>>
    /\ failed_ = "none"
    /\ edits = 0

------------------------------------------------------------------------------
(* The sequence of modes. *)

AddMode(set, n) ==
    /\ stage = "modes"
    /\ num_modes < MaxModes
    /\ modes' = Append(modes, NewMode(set, n))
    /\ UNCHANGED <<stage, mode_start_, constraints_, impulse_size_, scale_, cost_,
                   velocity_cost_, poses_, failed_, edits>>

Adjust(i, mode) ==
    /\ stage = "modes"
    /\ edits < MaxEdits
    /\ edits' = edits + 1
    /\ modes' = [modes EXCEPT ![i + 1] = mode]
    /\ UNCHANGED <<stage, mode_start_, constraints_, impulse_size_, scale_, cost_,
                   velocity_cost_, poses_, failed_>>

MakeRelative(i) ==
    \E e \in 0 .. Len(get_mode(i).evaluators) - 1 :
        \E c \in 0 .. num_full[get_evaluator(get_mode(i).evaluators, e)] - 1 :
            Adjust(i, MakeConstraintRelative(get_mode(i), e, c))

SetType(i) ==
    \E j \in 0 .. mode_length(i) - 1, type \in ConstraintTypes :
        Adjust(i, set_constraint_type(get_mode(i), j, type))

------------------------------------------------------------------------------
(* Decision variables.  starts is mode_start_, before or in the step that    *)
(* appends to it.                                                            *)

mode_start(starts, i) == starts[i + 1]

timestep(k) == <<"h", k>>

\* state(k): the variables of MultipleShooting
state(k) == [s \in 0 .. num_states - 1 |-> <<"x", k, s>>]

post_impact_velocity_vars(t) == [i \in 0 .. num_velocities - 1 |-> <<"v_p", t, i>>]

\* "If first knot of a mode after the first, use post impact velocity variables"
state_vars(starts, i, j) ==
    IF j = 0 /\ i > 0
    THEN [s \in 0 .. num_states - 1 |->
             IF s < num_positions THEN <<"x", mode_start(starts, i), s>>
             ELSE post_impact_velocity_vars(i - 1)[s - num_positions]]
    ELSE state(mode_start(starts, i) + j)

input_vars(starts, i, j) ==
    [a \in 0 .. num_actuators - 1 |-> <<"u", mode_start(starts, i) + j, a>>]

\* The j-th segment of a family with one entry for each row of each point.
RowSegment(family, i, j) ==
    LET n == count_full(get_mode(i).evaluators)
    IN  [f \in 0 .. n - 1 |-> <<family, i, j * n + f>>]

force_vars(i, j) == RowSegment("lambda", i, j)

collocation_force_vars(i, j) == RowSegment("lambda_c", i, j)

collocation_slack_vars(i, j) == RowSegment("gamma", i, j)

impulse_vars(t) == [f \in 0 .. impulse_size_[t + 1] - 1 |-> <<"impulse", t, f>>]

positions(x) == [s \in 0 .. num_positions - 1 |-> x[s]]

velocities(x) == [s \in 0 .. num_velocities - 1 |-> x[num_positions + s]]

------------------------------------------------------------------------------
(* The constructor, one step for each mode. *)

Construct ==
    /\ stage = "modes"
    /\ num_modes > 0
    /\ Knots > 1    \* MultipleShooting's demand
    /\ stage' = "constructing"
    /\ UNCHANGED <<modes, mode_start_, constraints_, impulse_size_, scale_, cost_,
                   velocity_cost_, poses_, failed_, edits>>

\* "We only need an impact if the post-impact constraint set contains anything
\* not already in the pre-impact constraint set."
is_impact(i) ==
    i > 0 /\ ~(ToSet(get_mode(i).evaluators) \subseteq ToSet(get_mode(i - 1).evaluators))

\* Mutant: the last steps of a mode are not made equal.
TimestepConstraints_OneLess(i, start) ==
    IF mode_length(i) > 1
    THEN {[kind |-> "bounds", step |-> timestep(start)]} \cup
         {[kind |-> "equal", steps |-> {timestep(start + j), timestep(start + j + 1)}] :
              j \in 0 .. mode_length(i) - 4}
    ELSE {}

TimestepConstraints(i, start) ==
    IF mode_length(i) > 1
    THEN {[kind |-> "bounds", step |-> timestep(start)]} \cup
         {[kind |-> "equal", steps |-> {timestep(start + j), timestep(start + j + 1)}] :
              j \in 0 .. mode_length(i) - 3}
    ELSE {}

CollocationConstraints(starts, i) ==
    {[kind |-> "collocation", mode |-> i, step |-> timestep(mode_start(starts, i) + j),
      x0 |-> state_vars(starts, i, j), x1 |-> state_vars(starts, i, j + 1),
      u0 |-> input_vars(starts, i, j), u1 |-> input_vars(starts, i, j + 1),
      l0 |-> force_vars(i, j), l1 |-> force_vars(i, j + 1),
      lc |-> collocation_force_vars(i, j), gamma |-> collocation_slack_vars(i, j)] :
        j \in 0 .. mode_length(i) - 2}

\* Mutant: the rows of the previous mode are skipped at every knot.
SkippedRows_Always(i, j) ==
    IF i > 0
    THEN FindActiveIndicesUnion(get_mode(i - 1).evaluators, get_mode(i).evaluators)
    ELSE {}

\* "do not constrain the position of any constraints that overlap with the
\* previous mode, as such a constraint would be redundant"
SkippedRows(i, j) ==
    IF j = 0 /\ i > 0
    THEN FindActiveIndicesUnion(get_mode(i - 1).evaluators, get_mode(i).evaluators)
    ELSE {}

\* rows: those whose bounds are zero and not infinite.
PositionConstraints(starts, i) ==
    {[kind |-> "position", mode |-> i, knot |-> j,
      q |-> positions(state_vars(starts, i, j)),
      rows |-> (0 .. count_active(get_mode(i).evaluators) - 1) \ SkippedRows(i, j)] :
        j \in {k \in 0 .. mode_length(i) - 1 : get_constraint_type(get_mode(i), k) = "kAll"}}

\* Mutant: never at the first knot of a later mode, impact or not.
SkipsVelocity_Always(i, j) == i > 0 /\ j = 0

SkipsVelocity(i, j) == ~(i = 0 \/ j > 0 \/ is_impact(i))

VelocityConstraints(starts, i) ==
    {[kind |-> "velocity", mode |-> i, x |-> state_vars(starts, i, j)] :
        j \in {k \in 0 .. mode_length(i) - 1 :
                  get_constraint_type(get_mode(i), k) # "kAccelOnly" /\ ~SkipsVelocity(i, k)}}

\* An impact, or no change of the velocity.
TransitionConstraints(starts, i) ==
    IF i = 0 THEN {}
    ELSE {[kind |-> IF is_impact(i) THEN "impact" ELSE "no impact", transition |-> i - 1,
           pre |-> state_vars(starts, i - 1, mode_length(i - 1) - 1),
           post |-> post_impact_velocity_vars(i - 1)]}

\* The forces of one evaluator among those of the set.
EvaluatorForces(set, k, forces) ==
    {forces[evaluator_full_start(set, k) + f] : f \in 0 .. num_full[get_evaluator(set, k)] - 1}

\* At every knot and of the impact.
FrictionConstraints(i) ==
    LET set     == get_mode(i).evaluators
        impulse == [f \in 0 .. count_full(set) - 1 |-> <<"impulse", i - 1, f>>]
    IN  UNION {{[kind |-> "friction", forces |-> EvaluatorForces(set, k, forces)] :
                   k \in {k \in 0 .. Len(set) - 1 : get_evaluator(set, k) \in Frictional}} :
               forces \in {force_vars(i, j) : j \in 0 .. mode_length(i) - 1}
                          \cup IF is_impact(i) THEN {impulse} ELSE {}}

ModeConstraints(starts, i) ==
    UNION {TimestepConstraints(i, mode_start(starts, i)), CollocationConstraints(starts, i),
           PositionConstraints(starts, i), VelocityConstraints(starts, i),
           TransitionConstraints(starts, i), FrictionConstraints(i)}

ConstructMode ==
    LET i      == Len(mode_start_)
        start  == IF i = 0 THEN 0
                  ELSE mode_start(mode_start_, i - 1) + mode_length(i - 1) - 1
        starts == Append(mode_start_, start)
    IN  /\ stage = "constructing"
        /\ i < num_modes
        /\ mode_start_' = starts
        /\ constraints_' = constraints_ \cup ModeConstraints(starts, i)
        /\ impulse_size_' = IF i = 0 THEN impulse_size_
                            ELSE Append(impulse_size_, IF is_impact(i)
                                     THEN count_full(get_mode(i).evaluators) ELSE 0)
        /\ stage' = IF i = num_modes - 1 THEN "constructed" ELSE stage
        /\ UNCHANGED <<modes, scale_, cost_, velocity_cost_, poses_, failed_, edits>>

------------------------------------------------------------------------------
(* Calls after the construction. *)

Call ==
    /\ stage = "constructed"
    /\ failed_ = "none"
    /\ edits < MaxEdits
    /\ edits' = edits + 1
    /\ UNCHANGED <<stage, modes, mode_start_, constraints_, impulse_size_>>

Fail(call) ==
    /\ Call
    /\ failed_' = call
    /\ UNCHANGED <<scale_, cost_, velocity_cost_, poses_>>

SetVariableScaling(variables) ==
    /\ Call
    /\ scale_' = scale_ \cup variables
    /\ UNCHANGED <<cost_, velocity_cost_, poses_, failed_>>

ScaleTimeVariables == SetVariableScaling({timestep(k) : k \in 0 .. Knots - 2})

\* Mutant: the velocity after the impact is forgotten.
StateVariables_XOnly(s) == {state(k)[s] : k \in 0 .. Knots - 1}

\* The first velocity is not looked for among those after impacts: the code
\* compares with > where the velocities start at num_positions.
StateVariables(s) ==
    {state(k)[s] : k \in 0 .. Knots - 1} \cup
    IF s > num_positions
    THEN {post_impact_velocity_vars(t)[s - num_positions] : t \in 0 .. num_modes - 2}
    ELSE {}

ScaleStateVariable(s) == SetVariableScaling(StateVariables(s))

ScaleInputVariable(a) == SetVariableScaling({<<"u", k, a>> : k \in 0 .. Knots - 1})

ScaleForceVariable(i, f) ==
    SetVariableScaling({force_vars(i, j)[f] : j \in 0 .. mode_length(i) - 1} \cup
                       {collocation_force_vars(i, j)[f] : j \in 0 .. mode_length(i) - 2})

\* The impulse is that into the mode after i, but the index is checked against
\* the forces of mode i.
ScaleImpulseVariable(i, f) ==
    IF f \in DOMAIN impulse_vars(i)
    THEN SetVariableScaling({impulse_vars(i)[f]})
    ELSE Fail("impulse")

ScaleKinConstraintSlackVariable(i, f) ==
    SetVariableScaling({collocation_slack_vars(i, j)[f] : j \in 0 .. mode_length(i) - 2})

Forces(i) == 0 .. count_full(get_mode(i).evaluators) - 1

\* The last mode's slack variables cannot be scaled, the demand is that of impulses.
ScaleVariables ==
    \/ ScaleTimeVariables
    \/ \E s \in 0 .. num_states - 1 : ScaleStateVariable(s)
    \/ \E a \in 0 .. num_actuators - 1 : ScaleInputVariable(a)
    \/ \E i \in 0 .. num_modes - 1 : \E f \in Forces(i) : ScaleForceVariable(i, f)
    \/ \E i \in 0 .. num_modes - 2 : \E f \in Forces(i) :
           ScaleImpulseVariable(i, f) \/ ScaleKinConstraintSlackVariable(i, f)

\* The state that the expression stands for at the first knot of a mode.
PostImpact(i) ==
    IF i = 0 THEN state(0)
    ELSE LET k == mode_start(mode_start_, i)
         IN  [s \in 0 .. num_states - 1 |->
                 IF s < num_positions THEN state(k)[s]
                 ELSE post_impact_velocity_vars(i - 1)[s - num_positions]]

\* The indices of steps, and the states they weigh: "trapezoidal integration".
RunningCost(i) ==
    LET first == mode_start(mode_start_, i)
        end   == first + mode_length(i)
    IN  {<<first, PostImpact(i)>>, <<end - 2, state(end - 1)>>} \cup
        UNION {{<<k - 1, state(k)>>, <<k, state(k)>>} : k \in first + 1 .. end - 2}

RunningCosts == UNION {RunningCost(i) : i \in 0 .. num_modes - 1}

\* A mode of one knot has no step: an index may be before the first or after the last.
AddRunningCost ==
    IF \A term \in RunningCosts : term[1] \in 0 .. Knots - 2
    THEN /\ Call
         /\ cost_' = {<<timestep(term[1]), term[2]>> : term \in RunningCosts}
         /\ UNCHANGED <<scale_, velocity_cost_, poses_, failed_>>
    ELSE Fail("cost")

\* Mutant: velocities are those of the shared knots.
VelocityTerms_State(i, j, k) ==
    <<timestep(mode_start(mode_start_, i) + j), velocities(state(mode_start(mode_start_, i) + k))>>

VelocityTerms(i, j, k) ==
    <<timestep(mode_start(mode_start_, i) + j), velocities(state_vars(mode_start_, i, k))>>

VelocityCosts ==
    UNION {UNION {{VelocityTerms(i, j, j), VelocityTerms(i, j, j + 1)} :
                     j \in 0 .. mode_length(i) - 2} : i \in 0 .. num_modes - 1}

AddVelocityCost ==
    /\ Call
    /\ velocity_cost_' = VelocityCosts
    /\ UNCHANGED <<scale_, cost_, poses_, failed_>>

------------------------------------------------------------------------------
(* The picture of some of the knots. *)

Modes == 0 .. num_modes - 1

Total(count) == Accumulate([m \in 1 .. num_modes |-> count[m - 1]])[num_modes]

\* Mutant: a pose more is not counted.
BetweenEnds_OffByOne(j, length, count) == (j * (length - 1)) \div count

\* "The jth element in mode i, counting in between the start/end poses"
BetweenEnds(j, length, count) == (j * (length - 1)) \div (count + 1)

CountsFit(count) == \A i \in Modes : count[i] = 0 \/ count[i] + 2 <= mode_length(i)

\* The start of every mode, the poses between, and the end of the last.
PosesOf(count) ==
    FlattenSeq([m \in 1 .. num_modes |->
        LET i == m - 1
        IN  [n \in 1 .. count[i] + 1 |->
                mode_start(mode_start_, i) +
                    IF n = 1 THEN 0 ELSE BetweenEnds(n - 1, mode_length(i), count[i])]])
    \o <<mode_start(mode_start_, num_modes - 1) + mode_length(num_modes - 1) - 1>>

DrawPoses(count) ==
    /\ Call
    /\ poses_' = PosesOf(count)
    /\ UNCHANGED <<scale_, cost_, velocity_cost_, failed_>>

\* The counts are given; "cannot be called twice".
CreateVisualizationCallback(count) ==
    /\ poses_ = <<>>
    /\ CountsFit(count)
    /\ DrawPoses(count)

\* The knots of a mode without its ends, of which all together have mode_sum.
Interior(i) == IF mode_length(i) > 2 THEN mode_length(i) - 2 ELSE 0

ModeSum == Total([i \in Modes |-> Interior(i)])

\* "Split up num_poses per modes, rounding down"
RoundedDown(without_ends) ==
    [i \in Modes |-> IF Interior(i) > 0 THEN (without_ends * Interior(i)) \div ModeSum ELSE 0]

\* "add back in the fractional bits, using the largest fractions".  Fractions are
\* unsigned: that of a mode that has its pose already, or of a mode of one knot,
\* is huge.
AddLargest(without_ends, count) ==
    LET fraction(i) == (without_ends * (mode_length(i) - 2) - count[i] * ModeSum) % kUInt
        largest     == CHOOSE i \in Modes :
            /\ \A k \in Modes : fraction(i) >= fraction(k)
            /\ \A k \in Modes : k < i => fraction(i) > fraction(k)
    IN  [count EXCEPT ![largest] = @ + 1]

DividePoses(num_poses) ==
    LET without_ends == num_poses - num_modes - 1
        missing      == without_ends - Total(RoundedDown(without_ends))
        counts[n \in 0 .. missing] ==
            IF n = 0 THEN RoundedDown(without_ends) ELSE AddLargest(without_ends, counts[n - 1])
    IN  counts[missing]

CreateVisualizationCallbackOf(num_poses) ==
    /\ poses_ = <<>>
    /\ LET count == DividePoses(num_poses)
       IN  IF CountsFit(count) THEN DrawPoses(count) ELSE Fail("poses")

Visualize ==
    \/ \E count \in [Modes -> 0 .. Max(Lengths)] : CreateVisualizationCallback(count)
    \/ \E num_poses \in num_modes + 1 .. Knots : CreateVisualizationCallbackOf(num_poses)

Next ==
    \/ \E set \in EvaluatorSets, n \in Lengths : AddMode(set, n)
    \/ \E i \in Modes : MakeRelative(i) \/ SetType(i)
    \/ Construct \/ ConstructMode
    \/ /\ stage = "constructed"
       /\ ScaleVariables \/ AddRunningCost \/ AddVelocityCost \/ Visualize

Spec == Init /\ [][Next]_vars

------------------------------------------------------------------------------
(* Properties. *)

Constraints(kind) == {c \in constraints_ : c.kind = kind}

Constructed == stage = "constructed"

\* One duration for a mode: of its steps the first is bounded, and each is equal
\* to the next.  No step is tied to one of another mode.
StepsOfMode ==
    Constructed =>
        LET Steps(i) == {timestep(mode_start(mode_start_, i) + j) : j \in 0 .. mode_length(i) - 2}
            Tied == {c.steps : c \in Constraints("equal")}
        IN  /\ UNION {Steps(i) : i \in Modes} = {timestep(k) : k \in 0 .. Knots - 2}
            /\ \A i \in Modes :
                   Cardinality({p \in Tied : p \subseteq Steps(i)}) = Cardinality(Steps(i))
                       - Cardinality({c \in Constraints("bounds") : c.step \in Steps(i)})
            /\ \A i \in Modes : Steps(i) # {} =>
                   \E c \in Constraints("bounds") : c.step \in Steps(i)
            /\ \A p \in Tied : \E i \in Modes : p \subseteq Steps(i)

Places == {p \in Modes \X (0 .. Knots - 1) : p[2] < mode_length(p[1])}

StateAt(p) == state_vars(mode_start_, p[1], p[2])

TypeAt(p) == get_constraint_type(get_mode(p[1]), p[2])

\* The active rows of a mode as the evaluator's own, with their index in the set.
RowsOf(i) ==
    LET set == get_mode(i).evaluators
    IN  UNION {{[evaluator |-> get_evaluator(set, k), own |-> a,
                 row |-> evaluator_active_start(set, k) + a] :
                    a \in 0 .. num_active(get_evaluator(set, k)) - 1} : k \in 0 .. Len(set) - 1}

SamePlace(p) == {p2 \in Places : positions(StateAt(p2)) = positions(StateAt(p))}

SameRow(r1, r2) == r1.evaluator = r2.evaluator /\ r1.own = r2.own

\* The modes that have both the knot and the row, relative or not.
Having(p, r) == {p2 \in SamePlace(p) : \E own \in RowsOf(p2[1]) : SameRow(own, r)}

\* Mode i's constraint of the position at p has the row.
HoldsRow(i, p, r) ==
    \E c \in Constraints("position"), own \in RowsOf(i) :
        c.mode = i /\ c.q = positions(StateAt(p)) /\ own.row \in c.rows /\ SameRow(own, r)

Relative(i, r) ==
    \E own \in RowsOf(i) : SameRow(own, r) /\ own.row \in get_mode(i).relative_constraints

\* A contact is held in its place: each of its rows is constrained at each of the
\* mode's knots, by the mode or by another that has the knot as well, unless
\* somebody asked for less there.  And it is not constrained twice, by a mode and
\* by the next one, which would be redundant.
ContactHeld ==
    Constructed => \A p \in Places : \A r \in RowsOf(p[1]) :
        /\ (\A p2 \in Having(p, r) : TypeAt(p2) = "kAll" /\ ~Relative(p2[1], r))
               => \E p2 \in Having(p, r) : HoldsRow(p2[1], p, r)
        /\ p[1] + 1 \in Modes => ~(HoldsRow(p[1], p, r) /\ HoldsRow(p[1] + 1, p, r))

\* Held still at a knot: the evaluators of a velocity constraint.
HeldStill(p) ==
    IF \E c \in Constraints("velocity") : c.mode = p[1] /\ c.x = StateAt(p)
    THEN ToSet(get_mode(p[1]).evaluators) ELSE {}

LastOf(i) == <<i, mode_length(i) - 1>>

\* The evaluators that stand still in the state with which a mode begins: held
\* there, or held in the state before, if the velocities are made equal.
StillAtFirst[i \in Modes] ==
    HeldStill(<<i, 0>>) \cup
    IF \E c \in Constraints("no impact") : c.transition = i - 1
    THEN IF mode_length(i - 1) = 1 THEN StillAtFirst[i - 1] ELSE HeldStill(LastOf(i - 1))
    ELSE {}

\* No contact slips: the points of a mode's evaluators stand still at each of its
\* knots, at the first one in the state after the impact, unless somebody left
\* velocities unconstrained at the knot.
NoSlip ==
    Constructed => \A p \in Places :
        (\A p2 \in Places : positions(StateAt(p2)) = positions(StateAt(p))
                               => TypeAt(p2) # "kAccelOnly")
            => ToSet(get_mode(p[1]).evaluators) \subseteq
                   IF p[2] = 0 THEN StillAtFirst[p[1]] ELSE HeldStill(p)

TwoKnotsEach == \A i \in Modes : mode_length(i) > 1

\* A cost weighs, with each step, the two states that the dynamics of the step
\* relate: after an impact it is the new velocity that counts.  Every index of a
\* step is one of the trajectory's.
CostFollowsDynamics ==
    (Constructed /\ TwoKnotsEach) =>
        LET Related == UNION {{<<c.step, c.x0>>, <<c.step, c.x1>>} :
                                 c \in Constraints("collocation")}
        IN  /\ failed_ # "cost"
            /\ cost_ \in {{}, Related}
            /\ velocity_cost_ \in {{}, {<<w[1], velocities(w[2])>> : w \in Related}}

\* A picture shows the knots in order and none twice, from first to last.
PosesAscend ==
    (TwoKnotsEach /\ poses_ # <<>>) =>
        /\ poses_[1] = 0 /\ Last(poses_) = Knots - 1
        /\ \A n \in 1 .. Len(poses_) - 1 : poses_[n] < poses_[n + 1]

\* A picture with a number of poses that was asked for has that many.
AsManyAsAsked ==
    [][\A num_poses \in num_modes + 1 .. Knots :
          (CreateVisualizationCallbackOf(num_poses) /\ failed_' # "poses")
              => Len(poses_') = num_poses]_vars

\* A coordinate is scaled in all states the constraints are about or in none,
\* but for the first velocity; a force at all knots and collocation points.
ScaledAlike ==
    LET Alike(variables) == variables \cap scale_ \in {{}, variables}
    IN  Constructed =>
            /\ Alike({c.step : c \in Constraints("collocation")})
            /\ \A s \in 0 .. num_states - 1 :
                   s # num_positions => Alike({StateAt(p)[s] : p \in Places})
            /\ \A i \in Modes : \A f \in Forces(i) :
                   Alike(UNION {{c.l0[f], c.l1[f], c.lc[f]} :
                                   c \in {c \in Constraints("collocation") : c.mode = i}})

\* "Evenly divides the poses": a number of poses that the demands on it allow
\* is divided so that every mode can have its share.
DividesPoses == failed_ # "poses"
=============================================================================
