--------------------------- MODULE Dircon_proofs ---------------------------
(***************************************************************************)
(* What the bookkeeping of Dircon guarantees for any number of modes, of   *)
(* any lengths, with any sets of evaluators, and after any calls: BookInv *)
(* says where every mode starts and that the constraints are those of the  *)
(* modes constructed so far; each property then follows from it by         *)
(* reasoning about modes that share a knot, mostly by induction on them.   *)
(***************************************************************************)
EXTENDS Dircon, DynamicsCache, FiniteSetTheorems, SequenceTheorems, WellFoundedInduction, TLAPS

------------------------------------------------------------------------------
(* Induction and division. *)

\* The natural numbers are well founded.
LEMMA LessWellFounded == IsWellFoundedOn({ss \in Nat \X Nat : ss[1] < ss[2]}, Nat)
  BY NatLessThanWellFounded, Zenon DEF OpToRel

\* Induction, for a set.
LEMMA SetInduction ==
  ASSUME NEW S, 0 \in S, \A n \in Nat : n \in S => n + 1 \in S
  PROVE  Nat \subseteq S
<1> DEFINE T == Nat \ S
<1> DEFINE R == {ss \in Nat \X Nat : ss[1] < ss[2]}
<1>1. SUFFICES ASSUME T # {} PROVE FALSE
  OBVIOUS
<1>2. IsWellFoundedOn(R, Nat)
  BY LessWellFounded
<1>3. PICK x \in T : \A y \in T : ~(<<y, x>> \in R)
  <2> HIDE DEF R
  <2>1. QED
    BY <1>1, <1>2, WFMin
<1>4. x # 0 /\ x \in Nat
  OBVIOUS
<1>5. x - 1 \in Nat /\ x - 1 < x /\ (x - 1) + 1 = x
  BY <1>4
<1>6. <<x - 1, x>> \in R
  BY <1>4, <1>5
<1>7. x - 1 \in S
  BY <1>3, <1>5, <1>6
<1>8. QED
  BY <1>3, <1>5, <1>7

\* A quotient and a remainder are what they ought to be.
LEMMA DivMod ==
  ASSUME NEW P \in Nat \ {0}, NEW x \in Nat
  PROVE  /\ x % P \in 0 .. P - 1
         /\ x \div P \in Nat
         /\ x = P * (x \div P) + (x % P)
  OBVIOUS

------------------------------------------------------------------------------
(* Sums. *)

\* The sums of the first elements exist, so they are what their definition says.
LEMMA AccumulateDef ==
  ASSUME NEW d, Len(d) \in Nat
  PROVE  Accumulate(d) = [i \in 0 .. Len(d) |->
                             IF i = 0 THEN 0 ELSE Accumulate(d)[i - 1] + d[i]]
<1> DEFINE Sums(n, g) == g = [i \in 0 .. n |-> IF i = 0 THEN 0 ELSE g[i - 1] + d[i]]
           S == {n \in Nat : \E g : Sums(n, g)}
<1>1. 0 \in S
  <2>1. Sums(0, [i \in 0 .. 0 |-> 0])
    OBVIOUS
  <2>2. QED
    BY <2>1
<1>2. ASSUME NEW n \in Nat, n \in S
      PROVE  n + 1 \in S
  <2>1. PICK g : Sums(n, g)
    BY <1>2
  <2> DEFINE h == [i \in 0 .. n + 1 |-> IF i = n + 1 THEN g[n] + d[n + 1] ELSE g[i]]
  <2>2. ASSUME NEW i \in 0 .. n + 1
        PROVE  h[i] = IF i = 0 THEN 0 ELSE h[i - 1] + d[i]
    <3>1. CASE i = n + 1
      BY <3>1
    <3>2. CASE i # n + 1
      <4>1. i \in 0 .. n /\ h[i] = g[i]
        BY <3>2
      <4>2. g[i] = IF i = 0 THEN 0 ELSE g[i - 1] + d[i]
        BY <2>1, <4>1
      <4>3. i # 0 => h[i - 1] = g[i - 1]
        BY <4>1
      <4>4. QED
        BY <4>1, <4>2, <4>3
    <3>3. QED
      BY <3>1, <3>2
  <2>3. Sums(n + 1, h)
    <3>1. h = [i \in 0 .. n + 1 |-> h[i]]
      OBVIOUS
    <3> HIDE DEF h
    <3>2. QED
      BY <2>2, <3>1
  <2> HIDE DEF h
  <2>4. \E f : Sums(n + 1, f)
    BY <2>3
  <2>5. QED
    BY <2>4
<1>3. Nat \subseteq S
  <2> HIDE DEF S
  <2>1. QED
    BY <1>1, <1>2, SetInduction
<1>4. PICK g : Sums(Len(d), g)
  BY <1>3
<1>5. QED
  BY <1>4 DEF Accumulate

\* The sums start with nothing and grow by the elements.
LEMMA AccumulateStep ==
  ASSUME NEW d, Len(d) \in Nat
  PROVE  /\ Accumulate(d)[0] = 0
         /\ \A i \in 1 .. Len(d) : Accumulate(d)[i] = Accumulate(d)[i - 1] + d[i]
<1>1. ASSUME NEW i \in 0 .. Len(d)
      PROVE  Accumulate(d)[i] = IF i = 0 THEN 0 ELSE Accumulate(d)[i - 1] + d[i]
  BY AccumulateDef, Zenon
<1>2. QED
  BY <1>1

\* Those of natural numbers are natural numbers,
LEMMA AccumulateNat ==
  ASSUME NEW d \in Seq(Nat)
  PROVE  \A i \in 0 .. Len(d) : Accumulate(d)[i] \in Nat
<1> DEFINE S == {n \in Nat : n <= Len(d) => Accumulate(d)[n] \in Nat}
<1>1. 0 \in S
  BY AccumulateStep
<1>2. ASSUME NEW n \in Nat, n \in S
      PROVE  n + 1 \in S
  <2>1. SUFFICES ASSUME n + 1 <= Len(d) PROVE Accumulate(d)[n + 1] \in Nat
    OBVIOUS
  <2>2. n + 1 \in 1 .. Len(d) /\ Accumulate(d)[n] \in Nat /\ (n + 1) - 1 = n
    BY <1>2, <2>1
  <2>3. Accumulate(d)[n + 1] = Accumulate(d)[n] + d[n + 1]
    BY <2>2, AccumulateStep
  <2>4. d[n + 1] \in Nat
    BY <2>2
  <2>5. QED
    BY <2>2, <2>3, <2>4
<1>3. Nat \subseteq S
  <2> HIDE DEF S
  <2>1. QED
    BY <1>1, <1>2, SetInduction
<1>4. QED
  BY <1>3

\* and never descend.
LEMMA AccumulateAscends ==
  ASSUME NEW d \in Seq(Nat)
  PROVE  \A i, j \in 0 .. Len(d) : i <= j => Accumulate(d)[i] <= Accumulate(d)[j]
<1> DEFINE S == {n \in Nat : \A i \in 0 .. Len(d) :
                                i + n <= Len(d) => Accumulate(d)[i] <= Accumulate(d)[i + n]}
<1>1. 0 \in S
  BY AccumulateNat
<1>2. ASSUME NEW n \in Nat, n \in S
      PROVE  n + 1 \in S
  <2>1. SUFFICES ASSUME NEW i \in 0 .. Len(d), i + (n + 1) <= Len(d)
                 PROVE  Accumulate(d)[i] <= Accumulate(d)[i + (n + 1)]
    OBVIOUS
  <2>2. i + (n + 1) \in 1 .. Len(d) /\ i + n \in 0 .. Len(d)
        /\ (i + (n + 1)) - 1 = i + n
    BY <2>1
  <2>3. Accumulate(d)[i] <= Accumulate(d)[i + n]
    BY <1>2, <2>1, <2>2
  <2>4. Accumulate(d)[i + (n + 1)] = Accumulate(d)[i + n] + d[i + (n + 1)]
    BY <2>2, AccumulateStep
  <2>5. d[i + (n + 1)] \in Nat /\ Accumulate(d)[i + n] \in Nat /\ Accumulate(d)[i] \in Nat
    BY <2>1, <2>2, AccumulateNat
  <2> HIDE DEF S
  <2>6. QED
    BY <2>3, <2>4, <2>5
<1>3. Nat \subseteq S
  <2> HIDE DEF S
  <2>1. QED
    BY <1>1, <1>2, SetInduction
<1>4. SUFFICES ASSUME NEW i \in 0 .. Len(d), NEW j \in 0 .. Len(d), i <= j
               PROVE  Accumulate(d)[i] <= Accumulate(d)[j]
  OBVIOUS
<1>5. j - i \in S /\ i + (j - i) = j
  <2>1. j - i \in Nat /\ i + (j - i) = j
    BY <1>4
  <2> HIDE DEF S
  <2>2. QED
    BY <1>3, <2>1
<1>6. QED
  BY <1>4, <1>5

------------------------------------------------------------------------------
(* The inductive invariant. *)

ReducedConstraints == UNION {[S -> ConstraintTypes] : S \in SUBSET Nat}

ModeRecords ==
    [evaluators           : Seq(Evaluators),
     num_knotpoints       : Nat \ {0},
     relative_constraints : SUBSET Nat,
     reduced_constraints  : ReducedConstraints]

Typed ==
    /\ stage \in {"modes", "constructing", "constructed"}
    /\ modes \in Seq(ModeRecords)
    /\ mode_start_ \in Seq(Nat)
    /\ impulse_size_ \in Seq(Nat)
    /\ failed_ \in {"none", "impulse", "cost", "poses"}
    /\ edits \in 0 .. MaxEdits

\* The modes have their starts in order; after the construction all of them.
Stages ==
    /\ Len(mode_start_) <= num_modes
    /\ Len(impulse_size_) = IF mode_start_ = <<>> THEN 0 ELSE Len(mode_start_) - 1
    /\ stage = "modes" => mode_start_ = <<>>
    /\ stage = "constructed" => num_modes > 0 /\ Len(mode_start_) = num_modes
    /\ stage # "constructed" =>
           /\ scale_ = {} /\ cost_ = {} /\ velocity_cost_ = {} /\ poses_ = <<>>
           /\ failed_ = "none"

\* A mode starts with the last knot of the one before.
StartsInv ==
    \A i \in 0 .. Len(mode_start_) - 1 :
        mode_start(mode_start_, i) =
            IF i = 0 THEN 0 ELSE mode_start(mode_start_, i - 1) + mode_length(i - 1) - 1

ConstraintsInv ==
    constraints_ = UNION {ModeConstraints(mode_start_, i) : i \in 0 .. Len(mode_start_) - 1}

\* The running cost reads a step before the first or behind the last.
OutsideCost == \E term \in RunningCosts : term[1] \notin 0 .. Knots - 2

CostInv ==
    /\ cost_ = {} \/ cost_ = {<<timestep(term[1]), term[2]>> : term \in RunningCosts}
    /\ velocity_cost_ = {} \/ velocity_cost_ = VelocityCosts
    /\ failed_ = "cost" => OutsideCost

PosesInv ==
    poses_ = <<>> \/ \E count \in [Modes -> Nat] : CountsFit(count) /\ poses_ = PosesOf(count)

BookInv == Typed /\ Stages /\ StartsInv /\ ConstraintsInv

------------------------------------------------------------------------------
(* The steps of the invariant. *)

\* What a mode adds depends on where it starts and where the one before does.
LEMMA ModeConstraintsSame ==
  ASSUME NEW s1, NEW s2, NEW i \in Nat, s1[i + 1] = s2[i + 1], i > 0 => s1[i] = s2[i]
  PROVE  ModeConstraints(s1, i) = ModeConstraints(s2, i)
<1>1. mode_start(s1, i) = mode_start(s2, i)
  BY DEF mode_start
<1>2. i > 0 => mode_start(s1, i - 1) = mode_start(s2, i - 1)
  BY DEF mode_start
<1>3. \A j : state_vars(s1, i, j) = state_vars(s2, i, j)
  BY <1>1 DEF state_vars
<1>4. i > 0 => \A j : state_vars(s1, i - 1, j) = state_vars(s2, i - 1, j)
  BY <1>2 DEF state_vars
<1>5. \A j : input_vars(s1, i, j) = input_vars(s2, i, j)
  BY <1>1 DEF input_vars
<1>6. CollocationConstraints(s1, i) = CollocationConstraints(s2, i)
  BY <1>1, <1>3, <1>5 DEF CollocationConstraints
<1>7. PositionConstraints(s1, i) = PositionConstraints(s2, i)
  BY <1>3 DEF PositionConstraints
<1>8. VelocityConstraints(s1, i) = VelocityConstraints(s2, i)
  BY <1>3 DEF VelocityConstraints
<1>9. TransitionConstraints(s1, i) = TransitionConstraints(s2, i)
  <2>1. CASE i = 0
    BY <2>1 DEF TransitionConstraints
  <2>2. CASE i # 0
    <3>1. state_vars(s1, i - 1, mode_length(i - 1) - 1) = state_vars(s2, i - 1, mode_length(i - 1) - 1)
      BY <1>4, <2>2
    <3>2. QED
      BY <2>2, <3>1 DEF TransitionConstraints
  <2>3. QED
    BY <2>1, <2>2
<1>10. QED
  BY <1>1, <1>6, <1>7, <1>8, <1>9 DEF ModeConstraints

\* It depends on the modes alone.
LEMMA ModeConstraintsPrime ==
  ASSUME modes' = modes, NEW i
  PROVE  ModeConstraints(mode_start_, i)' = ModeConstraints(mode_start_', i)
<1> DEFINE starts == mode_start_'
<1>1. \A j : state_vars(mode_start_, i, j)' = state_vars(starts, i, j)
  BY DEF state_vars, mode_start, state, post_impact_velocity_vars
<1>2. \A j : state_vars(mode_start_, i - 1, j)' = state_vars(starts, i - 1, j)
  BY DEF state_vars, mode_start, state, post_impact_velocity_vars
<1>3. is_impact(i)' = is_impact(i) /\ mode_length(i)' = mode_length(i)
      /\ mode_length(i - 1)' = mode_length(i - 1)
  BY DEF is_impact, mode_length, get_mode
<1>4. \A j : input_vars(mode_start_, i, j)' = input_vars(starts, i, j)
  BY DEF input_vars, mode_start
<1>5. \A j : force_vars(i, j)' = force_vars(i, j)
             /\ collocation_force_vars(i, j)' = collocation_force_vars(i, j)
             /\ collocation_slack_vars(i, j)' = collocation_slack_vars(i, j)
  BY DEF force_vars, collocation_force_vars, collocation_slack_vars, RowSegment, get_mode
<1>6. TimestepConstraints(i, mode_start(mode_start_, i))' = TimestepConstraints(i, mode_start(starts, i))
  BY <1>3 DEF TimestepConstraints, mode_start, timestep
<1>7. CollocationConstraints(mode_start_, i)' = CollocationConstraints(starts, i)
  BY <1>1, <1>3, <1>4, <1>5 DEF CollocationConstraints, mode_start, timestep
<1>8. PositionConstraints(mode_start_, i)' = PositionConstraints(starts, i)
  BY <1>1, <1>3 DEF PositionConstraints, SkippedRows, get_mode, mode_length
<1>9. VelocityConstraints(mode_start_, i)' = VelocityConstraints(starts, i)
  BY <1>1, <1>3 DEF VelocityConstraints, SkipsVelocity, get_mode, mode_length
<1>10. TransitionConstraints(mode_start_, i)' = TransitionConstraints(starts, i)
  BY <1>2, <1>3 DEF TransitionConstraints, post_impact_velocity_vars
<1>11. FrictionConstraints(i)' = FrictionConstraints(i)
  <2> DEFINE set == get_mode(i).evaluators
             impulse == [f \in 0 .. count_full(set) - 1 |-> <<"impulse", i - 1, f>>]
             All == {force_vars(i, j) : j \in 0 .. mode_length(i) - 1}
                          \cup IF is_impact(i) THEN {impulse} ELSE {}
             Of(forces) == {[kind |-> "friction", forces |-> EvaluatorForces(set, k, forces)] :
                   k \in {k \in 0 .. Len(set) - 1 : get_evaluator(set, k) \in Frictional}}
  <2>1. set' = set
    BY DEF get_mode
  <2>2. {force_vars(i, j) : j \in 0 .. mode_length(i) - 1}'
          = {force_vars(i, j) : j \in 0 .. mode_length(i) - 1}
    BY <1>3, <1>5
  <2>3. impulse' = impulse
    BY <2>1
  <2>4. All' = All
    BY <2>2, <2>3, <1>3
  <2>5. \A forces : Of(forces)' = Of(forces)
    BY <2>1
  <2>6. FrictionConstraints(i) = UNION {Of(forces) : forces \in All}
    BY Zenon DEF FrictionConstraints
  <2>7. FrictionConstraints(i)' = UNION {Of(forces)' : forces \in All'}
    BY Zenon DEF FrictionConstraints
  <2> HIDE DEF Of, All
  <2>8. QED
    BY <2>4, <2>5, <2>6, <2>7
<1>12. QED
  BY <1>6, <1>7, <1>8, <1>9, <1>10, <1>11 DEF ModeConstraints

\* Where the rows of an evaluator start.
LEMMA StartsOfRows ==
  ASSUME NEW set \in Seq(Evaluators)
  PROVE  \A k \in 0 .. Len(set) : /\ evaluator_active_start(set, k) \in Nat
                                  /\ evaluator_full_start(set, k) \in Nat
<1> DEFINE d == [k \in 1 .. Len(set) |-> num_active(set[k])]
           e == [k \in 1 .. Len(set) |-> num_full[set[k]]]
<1>1. d \in Seq(Nat) /\ Len(d) = Len(set)
  BY EvaluatorAssumption DEF EvaluatorAssumption, num_active
<1>2. e \in Seq(Nat) /\ Len(e) = Len(set)
  BY EvaluatorAssumption DEF EvaluatorAssumption
<1>3. \A k \in 0 .. Len(set) : Accumulate(d)[k] \in Nat /\ Accumulate(e)[k] \in Nat
  <2> HIDE DEF d, e
  <2>1. QED
    BY <1>1, <1>2, AccumulateNat
<1>4. QED
  BY <1>3 DEF evaluator_active_start, evaluator_full_start

\* What a mode's setters leave and what they give.
LEMMA SettersTyped ==
  ASSUME NEW mode \in ModeRecords
  PROVE  /\ \A e \in 0 .. Len(mode.evaluators) - 1 : \A c :
                MakeConstraintRelative(mode, e, c) \in ModeRecords
         /\ \A k \in 0 .. mode.num_knotpoints - 1, type \in ConstraintTypes :
                set_constraint_type(mode, k, type) \in ModeRecords
<1>1. ASSUME NEW e \in 0 .. Len(mode.evaluators) - 1, NEW c
      PROVE  MakeConstraintRelative(mode, e, c) \in ModeRecords
  <2> DEFINE set == mode.evaluators
             active == full_index_to_active_index(get_evaluator(set, e), c)
             start == evaluator_active_start(set, e)
  <2>1. set \in Seq(Evaluators) /\ mode.relative_constraints \in SUBSET Nat
    BY DEF ModeRecords
  <2>2. start \in Nat
    <3>1. e \in 0 .. Len(set)
      BY <2>1
    <3>2. QED
      BY <2>1, <3>1, StartsOfRows
  <2>3. active = -1 \/ active \in Nat
    <3> DEFINE x == get_evaluator(set, e)
    <3>1. x \in Evaluators
      BY <2>1 DEF get_evaluator
    <3>2. num_active(x) \in Nat
      BY <3>1, EvaluatorAssumption DEF EvaluatorAssumption, num_active
    <3> HIDE DEF x
    <3>3. full_index_to_active_index(x, c) = -1 \/ full_index_to_active_index(x, c) \in Nat
      BY <3>2 DEF full_index_to_active_index
    <3>4. QED
      BY <3>3 DEF x
  <2>4. MakeConstraintRelative(mode, e, c) =
          IF active = -1 THEN mode
          ELSE [mode EXCEPT !.relative_constraints = @ \cup {start + active}]
    BY DEF MakeConstraintRelative
  <2> HIDE DEF active, start, set
  <2>5. QED
    BY <2>1, <2>2, <2>3, <2>4 DEF ModeRecords
<1>2. ASSUME NEW k \in 0 .. mode.num_knotpoints - 1, NEW type \in ConstraintTypes
      PROVE  set_constraint_type(mode, k, type) \in ModeRecords
  <2> DEFINE reduced == mode.reduced_constraints
             new == [n \in DOMAIN reduced \cup {k} |-> IF n = k THEN type ELSE reduced[n]]
  <2>1. PICK S \in SUBSET Nat : reduced \in [S -> ConstraintTypes]
    BY DEF ModeRecords, ReducedConstraints
  <2>2. k \in Nat
    BY DEF ModeRecords
  <2>3. new \in [S \cup {k} -> ConstraintTypes]
    BY <2>1
  <2>4. S \cup {k} \in SUBSET Nat
    BY <2>1, <2>2
  <2>5. set_constraint_type(mode, k, type) = [mode EXCEPT !.reduced_constraints = new]
    BY DEF set_constraint_type
  <2>6. new \in ReducedConstraints
    BY <2>3, <2>4 DEF ReducedConstraints
  <2> HIDE DEF new, reduced
  <2>7. QED
    BY <2>5, <2>6 DEF ModeRecords
<1>3. QED
  BY <1>1, <1>2

\* The calls after the construction, that leave what was constructed.
Later == ScaleVariables \/ AddRunningCost \/ AddVelocityCost \/ Visualize

Frame ==
    /\ stage = "constructed" /\ edits < MaxEdits /\ edits' = edits + 1
    /\ UNCHANGED <<stage, modes, mode_start_, constraints_, impulse_size_>>
    /\ failed_' \in {"none", "impulse", "cost", "poses"}

\* Each of them is a call, and leaves what was constructed.
LEMMA LaterFrame == Later => Frame
<1>1. ASSUME NEW call \in {"impulse", "cost", "poses"}, Fail(call)
      PROVE  Frame
  BY <1>1 DEF Fail, Call, Frame
<1>2. ASSUME NEW variables, SetVariableScaling(variables)
      PROVE  Frame
  BY <1>2 DEF SetVariableScaling, Call, Frame
<1>3. ASSUME NEW i, NEW f, ScaleImpulseVariable(i, f)
      PROVE  Frame
  BY <1>1, <1>2, <1>3, Zenon DEF ScaleImpulseVariable
<1>4. ScaleVariables => Frame
  BY <1>2, <1>3, Zenon DEF ScaleVariables, ScaleTimeVariables, ScaleStateVariable,
     ScaleInputVariable, ScaleForceVariable, ScaleKinConstraintSlackVariable
<1>5. AddRunningCost => Frame
  <2>1. SUFFICES ASSUME Call, UNCHANGED failed_ PROVE Frame
    BY <1>1, Zenon DEF AddRunningCost
  <2>2. QED
    BY <2>1 DEF Call, Frame
<1>6. AddVelocityCost => Frame
  BY DEF AddVelocityCost, Call, Frame
<1>7. ASSUME NEW count, DrawPoses(count)
      PROVE  Frame
  BY <1>7 DEF DrawPoses, Call, Frame
<1>8. Visualize => Frame
  BY <1>1, <1>7, Zenon DEF Visualize, CreateVisualizationCallback, CreateVisualizationCallbackOf
<1>9. QED
  BY <1>4, <1>5, <1>6, <1>8, Zenon DEF Later

\* Before the construction nothing is known of starts.
LEMMA NothingConstructed ==
  ASSUME Stages, stage = "modes"
  PROVE  /\ mode_start_ = <<>> /\ Len(mode_start_) = 0
         /\ ConstraintsInv => constraints_ = {}
  BY DEF Stages, ConstraintsInv

\* At first the invariant holds.
LEMMA BookInit == Init => BookInv /\ CostInv /\ PosesInv
<1> SUFFICES ASSUME Init
             PROVE  BookInv /\ CostInv /\ PosesInv
  OBVIOUS
<1>1. Typed
  BY DirconAssumption DEF Init, Typed, DirconAssumption
<1>2. Stages
  BY DEF Init, Stages, num_modes
<1>3. StartsInv
  BY DEF Init, StartsInv
<1>4. ConstraintsInv
  BY DEF Init, ConstraintsInv
<1>5. CostInv /\ PosesInv
  BY DEF Init, CostInv, PosesInv
<1>6. QED
  BY <1>1, <1>2, <1>3, <1>4, <1>5 DEF BookInv

\* A mode more, or another mode in the place of one, before the construction.
LEMMA ModesStep ==
  ASSUME BookInv, stage = "modes", modes' \in Seq(ModeRecords), edits' \in 0 .. MaxEdits,
         UNCHANGED <<stage, mode_start_, constraints_, impulse_size_, scale_, cost_,
                     velocity_cost_, poses_, failed_>>
  PROVE  BookInv'
<1>1. mode_start_ = <<>> /\ constraints_ = {}
  BY NothingConstructed DEF BookInv
<1>2. Typed'
  BY DEF BookInv, Typed
<1>3. Stages'
  BY <1>1 DEF BookInv, Stages, num_modes
<1>4. StartsInv'
  BY <1>1 DEF StartsInv
<1>5. ConstraintsInv'
  BY <1>1 DEF ConstraintsInv
<1>6. QED
  BY <1>2, <1>3, <1>4, <1>5 DEF BookInv

\* The records of the modes.
LEMMA ModeIsRecord ==
  ASSUME modes \in Seq(ModeRecords)
  PROVE  /\ num_modes \in Nat
         /\ \A i \in 0 .. num_modes - 1 :
                /\ get_mode(i) \in ModeRecords
                /\ get_mode(i).evaluators \in Seq(Evaluators)
                /\ mode_length(i) \in Nat \ {0}
<1>1. num_modes \in Nat
  BY DEF num_modes
<1>2. ASSUME NEW i \in 0 .. num_modes - 1
      PROVE  get_mode(i) \in ModeRecords
  BY <1>1, <1>2 DEF get_mode, num_modes
<1>3. \A i \in 0 .. num_modes - 1 :
          get_mode(i).evaluators \in Seq(Evaluators) /\ mode_length(i) \in Nat \ {0}
  BY <1>2 DEF ModeRecords, mode_length
<1>4. QED
  BY <1>1, <1>2, <1>3

\* Every way to give the modes.
LEMMA GiveModesStep ==
  ASSUME BookInv,
         \/ \E set \in EvaluatorSets, n \in Lengths : AddMode(set, n)
         \/ \E i \in Modes : MakeRelative(i) \/ SetType(i)
  PROVE  BookInv'
<1>1. ASSUME NEW set \in EvaluatorSets, NEW n \in Lengths, AddMode(set, n)
      PROVE  BookInv'
  <2>1. set \in Seq(Evaluators) /\ n \in Nat \ {0}
    BY DirconAssumption DEF DirconAssumption
  <2>2. [k \in {} |-> "kAll"] \in ReducedConstraints
    <3>1. [k \in {} |-> "kAll"] \in [{} -> ConstraintTypes]
      OBVIOUS
    <3>2. QED
      BY <3>1 DEF ReducedConstraints
  <2>3. NewMode(set, n) \in ModeRecords
    BY <2>1, <2>2 DEF NewMode, ModeRecords
  <2>4. modes' \in Seq(ModeRecords)
    BY <1>1, <2>3 DEF AddMode, BookInv, Typed
  <2>5. QED
    BY <1>1, <2>4, ModesStep DEF AddMode, BookInv, Typed
<1>2. ASSUME NEW i \in Modes, NEW mode \in ModeRecords, Adjust(i, mode)
      PROVE  BookInv'
  <2>1. modes' \in Seq(ModeRecords)
    BY <1>2 DEF Adjust, BookInv, Typed, Modes, num_modes
  <2>2. edits' \in 0 .. MaxEdits
    BY <1>2, DirconAssumption DEF Adjust, BookInv, Typed, DirconAssumption
  <2>3. QED
    BY <1>2, <2>1, <2>2, ModesStep DEF Adjust
<1>3. ASSUME NEW i \in Modes
      PROVE  /\ get_mode(i) \in ModeRecords
             /\ mode_length(i) = get_mode(i).num_knotpoints
  BY ModeIsRecord DEF BookInv, Typed, Modes, mode_length
<1>4. ASSUME NEW i \in Modes, MakeRelative(i)
      PROVE  BookInv'
  BY <1>2, <1>3, <1>4, SettersTyped, Zenon DEF MakeRelative
<1>5. ASSUME NEW i \in Modes, SetType(i)
      PROVE  BookInv'
  BY <1>2, <1>3, <1>5, SettersTyped, Zenon DEF SetType
<1>6. QED
  BY <1>1, <1>4, <1>5

\* The demand at the start of the constructor.
LEMMA ConstructStep ==
  ASSUME BookInv, Construct
  PROVE  BookInv'
<1>1. mode_start_ = <<>> /\ constraints_ = {}
  BY NothingConstructed DEF BookInv, Construct
<1>2. Typed'
  BY DEF BookInv, Typed, Construct
<1>3. Stages'
  BY <1>1 DEF BookInv, Stages, Construct, num_modes
<1>4. StartsInv'
  BY <1>1 DEF StartsInv, Construct
<1>5. ConstraintsInv'
  BY <1>1 DEF ConstraintsInv, Construct
<1>6. QED
  BY <1>2, <1>3, <1>4, <1>5 DEF BookInv

\* The constraints of one mode more.
LEMMA ConstructModeStep ==
  ASSUME BookInv, ConstructMode
  PROVE  BookInv'
<1> DEFINE n == Len(mode_start_)
           start == IF n = 0 THEN 0
                    ELSE mode_start(mode_start_, n - 1) + mode_length(n - 1) - 1
           starts == Append(mode_start_, start)
<1>1. /\ n \in Nat /\ n < num_modes /\ num_modes \in Nat /\ stage = "constructing"
      /\ mode_start_ \in Seq(Nat)
      /\ modes' = modes /\ num_modes' = num_modes
      /\ stage' = IF n = num_modes - 1 THEN "constructed" ELSE stage
  BY ModeIsRecord DEF BookInv, Typed, ConstructMode, num_modes
<1>2. mode_start_' = starts
  BY Zenon DEF ConstructMode
<1>3. constraints_' = constraints_ \cup ModeConstraints(starts, n)
  BY Zenon DEF ConstructMode
<1>4. start \in Nat
  <2>1. CASE n = 0
    BY <2>1
  <2>2. CASE n # 0
    <3>1. mode_start(mode_start_, n - 1) \in Nat
      BY <1>1, <2>2 DEF mode_start
    <3>2. mode_length(n - 1) \in Nat \ {0}
      BY <1>1, <2>2, ModeIsRecord DEF BookInv, Typed
    <3>3. QED
      BY <3>1, <3>2, <2>2
  <2>3. QED
    BY <2>1, <2>2
<1> HIDE DEF start
<1>5. /\ starts \in Seq(Nat) /\ Len(starts) = n + 1
      /\ starts[n + 1] = start
      /\ \A k \in 1 .. n : starts[k] = mode_start_[k]
  BY <1>1, <1>4
<1>6. Typed'
  <2>1. impulse_size_' \in Seq(Nat)
    <3>1. get_mode(n).evaluators \in Seq(Evaluators)
      BY <1>1, ModeIsRecord DEF BookInv, Typed
    <3>2. Len(get_mode(n).evaluators) \in 0 .. Len(get_mode(n).evaluators)
      BY <3>1
    <3>3. count_full(get_mode(n).evaluators) \in Nat
      BY <3>1, <3>2, StartsOfRows DEF count_full
    <3>4. impulse_size_ \in Seq(Nat)
      BY DEF BookInv, Typed
    <3>5. impulse_size_' = IF n = 0 THEN impulse_size_
              ELSE Append(impulse_size_, IF is_impact(n) THEN count_full(get_mode(n).evaluators) ELSE 0)
      BY Zenon DEF ConstructMode
    <3>6. QED
      BY <3>3, <3>4, <3>5
  <2>2. UNCHANGED <<failed_, edits>>
    BY DEF ConstructMode
  <2>3. QED
    BY <1>1, <1>2, <1>5, <2>1, <2>2 DEF BookInv, Typed
<1>7. Stages'
  <2>1. Len(impulse_size_') = n
    <3>1. impulse_size_' = IF n = 0 THEN impulse_size_
              ELSE Append(impulse_size_, IF is_impact(n) THEN count_full(get_mode(n).evaluators) ELSE 0)
      BY Zenon DEF ConstructMode
    <3>2. impulse_size_ \in Seq(Nat) /\ Len(impulse_size_) = IF mode_start_ = <<>> THEN 0 ELSE n - 1
      BY DEF BookInv, Typed, Stages
    <3>3. mode_start_ = <<>> <=> n = 0
      BY <1>1
    <3>4. QED
      BY <3>1, <3>2, <3>3, <1>1
  <2>2. UNCHANGED <<scale_, cost_, velocity_cost_, poses_, failed_>>
    BY DEF ConstructMode
  <2>3. mode_start_' # <<>>
    BY <1>2, <1>5
  <2>4. QED
    BY <1>1, <1>2, <1>5, <2>1, <2>2, <2>3 DEF BookInv, Stages
<1>8. StartsInv'
  <2>1. SUFFICES ASSUME NEW i \in 0 .. n
                 PROVE  mode_start(starts, i) =
                          IF i = 0 THEN 0 ELSE mode_start(starts, i - 1) + mode_length(i - 1) - 1
    BY <1>1, <1>2, <1>5 DEF StartsInv, mode_start, mode_length, get_mode
  <2>2. CASE i = n
    BY <1>1, <1>5, <2>2 DEF mode_start, start
  <2>3. CASE i # n
    <3>1. i \in 0 .. n - 1
      BY <1>1, <2>3
    <3>2. mode_start(mode_start_, i) =
              IF i = 0 THEN 0 ELSE mode_start(mode_start_, i - 1) + mode_length(i - 1) - 1
      BY <3>1 DEF BookInv, StartsInv
    <3>3. mode_start(starts, i) = mode_start(mode_start_, i)
      BY <1>1, <1>5, <3>1 DEF mode_start
    <3>4. i # 0 => mode_start(starts, i - 1) = mode_start(mode_start_, i - 1)
      BY <1>1, <1>5, <3>1 DEF mode_start
    <3>5. QED
      BY <3>2, <3>3, <3>4
  <2>4. QED
    BY <2>2, <2>3
<1>9. ConstraintsInv'
  <2>1. \A i \in 0 .. n - 1 : ModeConstraints(starts, i) = ModeConstraints(mode_start_, i)
    <3>1. ASSUME NEW i \in 0 .. n - 1
          PROVE  ModeConstraints(starts, i) = ModeConstraints(mode_start_, i)
      <4>1. i \in Nat /\ starts[i + 1] = mode_start_[i + 1] /\ (i > 0 => starts[i] = mode_start_[i])
        BY <1>1, <1>5
      <4> HIDE DEF starts
      <4>2. QED
        BY <4>1, ModeConstraintsSame
    <3>2. QED
      BY <3>1
  <2>2. \A i : ModeConstraints(mode_start_, i)' = ModeConstraints(starts, i)
    BY <1>1, <1>2, ModeConstraintsPrime
  <2>3. constraints_ = UNION {ModeConstraints(mode_start_, i) : i \in 0 .. n - 1}
    BY DEF BookInv, ConstraintsInv
  <2>4. Len(mode_start_)' = n + 1
    BY <1>2, <1>5
  <2>5. constraints_' = UNION {ModeConstraints(starts, i) : i \in 0 .. n}
    <3>1. 0 .. n = (0 .. n - 1) \cup {n}
      BY <1>1
    <3>2. UNION {ModeConstraints(starts, i) : i \in 0 .. n}
            = (UNION {ModeConstraints(starts, i) : i \in 0 .. n - 1}) \cup ModeConstraints(starts, n)
      <4> HIDE DEF starts
      <4>1. QED
        BY <3>1
    <3>3. {ModeConstraints(starts, i) : i \in 0 .. n - 1} = {ModeConstraints(mode_start_, i) : i \in 0 .. n - 1}
      BY <2>1
    <3>4. QED
      BY <1>3, <2>3, <3>2, <3>3
  <2>6. 0 .. Len(mode_start_)' - 1 = 0 .. n
    BY <2>4, <1>1
  <2>7. ConstraintsInv' <=> constraints_' = UNION {ModeConstraints(mode_start_, i)' : i \in 0 .. Len(mode_start_)' - 1}
    BY Zenon DEF ConstraintsInv
  <2>8. QED
    BY <2>2, <2>5, <2>6, <2>7
<1>10. QED
  BY <1>6, <1>7, <1>8, <1>9 DEF BookInv

\* A later call changes nothing of it.
LEMMA LaterStep ==
  ASSUME BookInv, Frame
  PROVE  BookInv'
<1>1. Typed'
  BY DirconAssumption DEF BookInv, Typed, Frame, DirconAssumption
<1>2. Stages'
  BY DEF BookInv, Stages, Frame, num_modes
<1>3. StartsInv'
  BY DEF BookInv, StartsInv, Frame, mode_start, mode_length, get_mode
<1>4. ConstraintsInv'
  <2>1. \A i : ModeConstraints(mode_start_, i)' = ModeConstraints(mode_start_, i)
    BY ModeConstraintsPrime DEF Frame
  <2>2. ConstraintsInv' <=> constraints_' = UNION {ModeConstraints(mode_start_, i)' : i \in 0 .. Len(mode_start_)' - 1}
    BY Zenon DEF ConstraintsInv
  <2>3. QED
    BY <2>1, <2>2 DEF BookInv, ConstraintsInv, Frame
<1>5. QED
  BY <1>1, <1>2, <1>3, <1>4 DEF BookInv

\* The steps of the specification.
LEMMA NextCases ==
  ASSUME [Next]_vars
  PROVE  \/ \E set \in EvaluatorSets, n \in Lengths : AddMode(set, n)
         \/ \E i \in Modes : MakeRelative(i) \/ SetType(i)
         \/ Construct
         \/ ConstructMode
         \/ Later
         \/ UNCHANGED vars
  BY Zenon DEF Next, Later

LEMMA BookStep ==
  ASSUME BookInv, [Next]_vars
  PROVE  BookInv'
<1>1. CASE UNCHANGED vars
  <2>1. Typed' /\ Stages' /\ StartsInv'
    BY <1>1 DEF BookInv, Typed, Stages, StartsInv, vars, num_modes, mode_start, mode_length, get_mode
  <2>2. ConstraintsInv'
    <3>1. \A i : ModeConstraints(mode_start_, i)' = ModeConstraints(mode_start_, i)
      BY <1>1, ModeConstraintsPrime DEF vars
    <3>2. ConstraintsInv' <=> constraints_' = UNION {ModeConstraints(mode_start_, i)' : i \in 0 .. Len(mode_start_)' - 1}
      BY Zenon DEF ConstraintsInv
    <3>3. QED
      BY <3>1, <3>2, <1>1 DEF BookInv, ConstraintsInv, vars
  <2>3. QED
    BY <2>1, <2>2 DEF BookInv
<1>2. QED
  BY <1>1, NextCases, GiveModesStep, ConstructStep, ConstructModeStep, LaterFrame, LaterStep, Zenon

\* The invariant of the construction.
LEMMA DirconBook == Spec => []BookInv
<1>1. Init => BookInv
  BY BookInit
<1>2. BookInv /\ [Next]_vars => BookInv'
  BY BookStep
<1>3. QED
  BY <1>1, <1>2, PTL DEF Spec

\* For any sets of evaluators and any lengths, every mode is a mode, every start
\* a knot, and no call leaves anything else behind.
THEOREM DirconTypeCorrect == Spec => []Typed
<1>1. BookInv => Typed
  BY DEF BookInv
<1>2. QED
  BY <1>1, DirconBook, PTL

------------------------------------------------------------------------------
(* What the invariant says of a trajectory that is constructed. *)

start(i) == mode_start(mode_start_, i)

\* The modes and their starts.
LEMMA ModesOf ==
  ASSUME BookInv, Constructed
  PROVE  /\ num_modes \in Nat \ {0} /\ Modes = 0 .. num_modes - 1
         /\ \A i \in Modes : /\ start(i) \in Nat
                             /\ mode_length(i) \in Nat \ {0}
                             /\ get_mode(i).evaluators \in Seq(Evaluators)
         /\ start(0) = 0
         /\ \A i \in Modes : i > 0 => start(i) = start(i - 1) + mode_length(i - 1) - 1
<1>1. /\ num_modes \in Nat \ {0} /\ Modes = 0 .. num_modes - 1
      /\ Len(mode_start_) = num_modes /\ mode_start_ \in Seq(Nat)
  BY ModeIsRecord DEF BookInv, Typed, Stages, Constructed, Modes
<1>2. \A i \in Modes : start(i) \in Nat
  BY <1>1 DEF start, mode_start
<1>3. \A i \in Modes : /\ mode_length(i) \in Nat \ {0}
                       /\ get_mode(i).evaluators \in Seq(Evaluators)
  BY <1>1, ModeIsRecord DEF BookInv, Typed
<1>4. \A i \in Modes : start(i) = IF i = 0 THEN 0 ELSE start(i - 1) + mode_length(i - 1) - 1
  BY <1>1 DEF BookInv, StartsInv, start
<1>5. QED
  BY <1>1, <1>2, <1>3, <1>4

\* The last knot of a mode is the first of the next, and the last of all is the
\* last of the last mode.
LEMMA KnotsOf ==
  ASSUME BookInv, Constructed
  PROVE  /\ Knots \in Nat
         /\ Knots - 1 = start(num_modes - 1) + mode_length(num_modes - 1) - 1
<1> DEFINE d == [m \in 1 .. Len(modes) |-> modes[m].num_knotpoints]
           S == {k \in Nat : k < num_modes => Accumulate(d)[k + 1] = start(k) + mode_length(k) + k}
<1>1. num_modes = Len(modes) /\ num_modes \in Nat \ {0}
  BY ModesOf DEF num_modes
<1>2. Len(d) = num_modes
  BY <1>1
<1>3. \A k \in Modes : d[k + 1] = mode_length(k)
  BY <1>1 DEF Modes, mode_length, get_mode
<1>4. Knots = 1 - num_modes + Accumulate(d)[num_modes]
  BY <1>1 DEF Knots, count_knotpoints
<1> HIDE DEF d
<1>5. 0 \in S
  <2>1. 1 \in 1 .. Len(d) /\ 0 \in Modes
    BY <1>1, <1>2 DEF Modes
  <2>2. Accumulate(d)[1] = Accumulate(d)[1 - 1] + d[1] /\ Accumulate(d)[0] = 0
    BY <1>1, <1>2, <2>1, AccumulateStep
  <2>3. d[1] = mode_length(0)
    BY <1>3, <2>1
  <2>4. start(0) = 0 /\ mode_length(0) \in Nat
    BY <2>1, ModesOf
  <2>5. QED
    BY <2>2, <2>3, <2>4
<1>6. ASSUME NEW k \in Nat, k \in S
      PROVE  k + 1 \in S
  <2>1. SUFFICES ASSUME k + 1 < num_modes
                 PROVE  Accumulate(d)[k + 1 + 1] = start(k + 1) + mode_length(k + 1) + (k + 1)
    OBVIOUS
  <2>2. k \in Modes /\ k + 1 \in Modes /\ k + 1 + 1 \in 1 .. Len(d) /\ k + 1 + 1 - 1 = k + 1
        /\ (k + 1) - 1 = k /\ k + 1 > 0
    BY <1>1, <1>2, <2>1 DEF Modes
  <2>3. Accumulate(d)[k + 1 + 1] = Accumulate(d)[k + 1] + d[k + 1 + 1]
    <3>1. Accumulate(d)[k + 1 + 1] = Accumulate(d)[k + 1 + 1 - 1] + d[k + 1 + 1]
      BY <1>1, <1>2, <2>2, AccumulateStep
    <3>2. QED
      BY <2>2, <3>1
  <2>4. Accumulate(d)[k + 1] = start(k) + mode_length(k) + k
    BY <1>1, <1>6, <2>1
  <2>5. start(k + 1) = start(k) + mode_length(k) - 1
    <3>1. start(k + 1) = start((k + 1) - 1) + mode_length((k + 1) - 1) - 1
      BY <2>2, ModesOf
    <3>2. QED
      BY <2>2, <3>1
  <2>6. /\ start(k) \in Nat /\ mode_length(k) \in Nat /\ mode_length(k + 1) \in Nat
        /\ d[k + 1 + 1] = mode_length(k + 1)
    BY <1>3, <2>2, ModesOf
  <2>7. QED
    BY <2>3, <2>4, <2>5, <2>6
<1>7. Nat \subseteq S
  <2> HIDE DEF S
  <2>1. QED
    BY <1>5, <1>6, SetInduction
<1>8. num_modes - 1 \in S /\ num_modes - 1 \in Modes /\ num_modes - 1 + 1 = num_modes
  <2> HIDE DEF S
  <2>1. QED
    BY <1>1, <1>7 DEF Modes
<1>9. Accumulate(d)[num_modes] = start(num_modes - 1) + mode_length(num_modes - 1) + (num_modes - 1)
  BY <1>1, <1>8
<1>10. start(num_modes - 1) \in Nat /\ mode_length(num_modes - 1) \in Nat \ {0}
  BY <1>8, ModesOf
<1>11. QED
  BY <1>1, <1>4, <1>9, <1>10

\* No mode ends after a later one starts,
LEMMA StartsAscend ==
  ASSUME BookInv, Constructed
  PROVE  \A i, k \in Modes : i < k => start(i) + mode_length(i) - 1 <= start(k)
<1> DEFINE S == {n \in Nat : \A i \in Modes :
                    i + n + 1 \in Modes => start(i) + mode_length(i) - 1 <= start(i + n + 1)}
<1>1. 0 \in S
  <2>1. SUFFICES ASSUME NEW i \in Modes, i + 0 + 1 \in Modes
                 PROVE  start(i) + mode_length(i) - 1 <= start(i + 0 + 1)
    OBVIOUS
  <2>2. i + 0 + 1 = i + 1 /\ i + 1 > 0 /\ (i + 1) - 1 = i /\ i + 1 \in Modes
    BY <2>1, ModesOf
  <2>3. start(i + 1) = start((i + 1) - 1) + mode_length((i + 1) - 1) - 1
    BY <2>2, ModesOf
  <2>4. start(i) \in Nat /\ mode_length(i) \in Nat
    BY ModesOf
  <2>5. QED
    BY <2>2, <2>3, <2>4
<1>2. ASSUME NEW n \in Nat, n \in S
      PROVE  n + 1 \in S
  <2>1. SUFFICES ASSUME NEW i \in Modes, i + (n + 1) + 1 \in Modes
                 PROVE  start(i) + mode_length(i) - 1 <= start(i + (n + 1) + 1)
    OBVIOUS
  <2> DEFINE k == i + n + 1
  <2>2. i + (n + 1) + 1 = k + 1 /\ k + 1 > 0 /\ (k + 1) - 1 = k /\ k + 1 \in Modes /\ k \in Modes
    BY SMTT(30), <2>1, ModesOf
  <2>3. start(i) + mode_length(i) - 1 <= start(k)
    BY <1>2, <2>2
  <2> HIDE DEF k
  <2>4. start(k + 1) = start((k + 1) - 1) + mode_length((k + 1) - 1) - 1
    BY <2>2, ModesOf
  <2>5. /\ start(i) \in Nat /\ mode_length(i) \in Nat
        /\ start(k) \in Nat /\ mode_length(k) \in Nat \ {0}
    BY <2>2, ModesOf
  <2>6. QED
    BY <2>2, <2>3, <2>4, <2>5
<1>3. Nat \subseteq S
  <2> HIDE DEF S
  <2>1. QED
    BY <1>1, <1>2, SetInduction
<1>4. SUFFICES ASSUME NEW i \in Modes, NEW k \in Modes, i < k
               PROVE  start(i) + mode_length(i) - 1 <= start(k)
  OBVIOUS
<1>5. k - i - 1 \in S /\ i + (k - i - 1) + 1 = k
  <2>1. k - i - 1 \in Nat /\ i + (k - i - 1) + 1 = k
    BY <1>4, ModesOf
  <2> HIDE DEF S
  <2>2. QED
    BY <1>3, <2>1
<1>6. QED
  BY <1>4, <1>5

\* and all of them are within the trajectory.
LEMMA EndsWithin ==
  ASSUME BookInv, Constructed
  PROVE  \A i \in Modes : start(i) + mode_length(i) - 1 <= Knots - 1
<1> SUFFICES ASSUME NEW i \in Modes
             PROVE  start(i) + mode_length(i) - 1 <= Knots - 1
  OBVIOUS
<1> DEFINE last == num_modes - 1
<1>1. last \in Modes /\ i <= last /\ i \in Nat /\ last \in Nat
  BY ModesOf
<1>2. Knots - 1 = start(last) + mode_length(last) - 1
  BY KnotsOf
<1> HIDE DEF last
<1>3. start(last) \in Nat /\ mode_length(last) \in Nat \ {0} /\ start(i) \in Nat /\ mode_length(i) \in Nat
  BY <1>1, ModesOf
<1>4. CASE i = last
  BY <1>2, <1>3, <1>4
<1>5. CASE i # last
  <2>1. start(i) + mode_length(i) - 1 <= start(last)
    BY <1>1, <1>5, StartsAscend
  <2>2. QED
    BY <1>2, <1>3, <2>1
<1>6. QED
  BY <1>4, <1>5

------------------------------------------------------------------------------
(* The constraints by their kind. *)

CollocationAt(i, j) ==
    [kind |-> "collocation", mode |-> i, step |-> timestep(mode_start(mode_start_, i) + j),
     x0 |-> state_vars(mode_start_, i, j), x1 |-> state_vars(mode_start_, i, j + 1),
     u0 |-> input_vars(mode_start_, i, j), u1 |-> input_vars(mode_start_, i, j + 1),
     l0 |-> force_vars(i, j), l1 |-> force_vars(i, j + 1),
     lc |-> collocation_force_vars(i, j), gamma |-> collocation_slack_vars(i, j)]

PositionAt(i, j) ==
    [kind |-> "position", mode |-> i, knot |-> j,
     q |-> positions(state_vars(mode_start_, i, j)),
     rows |-> (0 .. count_active(get_mode(i).evaluators) - 1) \ SkippedRows(i, j)]

VelocityAt(i, j) == [kind |-> "velocity", mode |-> i, x |-> state_vars(mode_start_, i, j)]

EqualAt(i, j) == [kind |-> "equal", steps |-> {timestep(start(i) + j), timestep(start(i) + j + 1)}]

BoundsAt(i) == [kind |-> "bounds", step |-> timestep(start(i))]

\* The constraints are those that the modes' loops add.
LEMMA ConstraintsOfModes ==
  ASSUME BookInv, Constructed
  PROVE  \A c : c \in constraints_ <=> \E i \in Modes :
             \/ c \in TimestepConstraints(i, start(i))
             \/ c \in CollocationConstraints(mode_start_, i)
             \/ c \in PositionConstraints(mode_start_, i)
             \/ c \in VelocityConstraints(mode_start_, i)
             \/ c \in TransitionConstraints(mode_start_, i)
             \/ c \in FrictionConstraints(i)
<1>1. Modes = 0 .. Len(mode_start_) - 1
  BY ModesOf DEF BookInv, Stages, Constructed
<1>2. constraints_ = UNION {ModeConstraints(mode_start_, i) : i \in Modes}
  BY <1>1 DEF BookInv, ConstraintsInv
<1>3. ASSUME NEW c, NEW i
      PROVE  c \in ModeConstraints(mode_start_, i) <=>
                 \/ c \in TimestepConstraints(i, start(i))
                 \/ c \in CollocationConstraints(mode_start_, i)
                 \/ c \in PositionConstraints(mode_start_, i)
                 \/ c \in VelocityConstraints(mode_start_, i)
                 \/ c \in TransitionConstraints(mode_start_, i)
                 \/ c \in FrictionConstraints(i)
  BY DEF ModeConstraints, start
<1>4. QED
  BY <1>2, <1>3

\* Each loop adds constraints of its own kind.
LEMMA Kinds ==
  ASSUME NEW i, NEW s, NEW c
  PROVE  /\ c \in TimestepConstraints(i, s) => c.kind = "bounds" \/ c.kind = "equal"
         /\ c \in CollocationConstraints(mode_start_, i) => c.kind = "collocation"
         /\ c \in PositionConstraints(mode_start_, i) => c.kind = "position"
         /\ c \in VelocityConstraints(mode_start_, i) => c.kind = "velocity"
         /\ c \in TransitionConstraints(mode_start_, i) => c.kind = "impact" \/ c.kind = "no impact"
         /\ c \in FrictionConstraints(i) => c.kind = "friction"
<1>1. c \in TimestepConstraints(i, s) => c.kind = "bounds" \/ c.kind = "equal"
  BY DEF TimestepConstraints
<1>2. c \in CollocationConstraints(mode_start_, i) => c.kind = "collocation"
  BY DEF CollocationConstraints
<1>3. c \in PositionConstraints(mode_start_, i) => c.kind = "position"
  BY DEF PositionConstraints
<1>4. c \in VelocityConstraints(mode_start_, i) => c.kind = "velocity"
  BY DEF VelocityConstraints
<1>5. c \in TransitionConstraints(mode_start_, i) => c.kind = "impact" \/ c.kind = "no impact"
  <2>1. SUFFICES ASSUME c \in TransitionConstraints(mode_start_, i)
                 PROVE  c.kind = "impact" \/ c.kind = "no impact"
    OBVIOUS
  <2> DEFINE kind == IF is_impact(i) THEN "impact" ELSE "no impact"
             new == [kind |-> kind, transition |-> i - 1,
                 pre |-> state_vars(mode_start_, i - 1, mode_length(i - 1) - 1),
                 post |-> post_impact_velocity_vars(i - 1)]
  <2>2. i # 0 => TransitionConstraints(mode_start_, i) = {new}
    BY Zenon DEF TransitionConstraints
  <2>3. i = 0 => TransitionConstraints(mode_start_, i) = {}
    BY DEF TransitionConstraints
  <2>4. new.kind = kind
    <3> HIDE DEF kind
    <3>1. QED
      OBVIOUS
  <2> HIDE DEF new
  <2>5. c = new
    BY <2>1, <2>2, <2>3
  <2>6. QED
    BY <2>4, <2>5
<1>6. c \in FrictionConstraints(i) => c.kind = "friction"
  <2>1. SUFFICES ASSUME c \in FrictionConstraints(i) PROVE c.kind = "friction"
    OBVIOUS
  <2>2. \E k, f : c = [kind |-> "friction", forces |-> EvaluatorForces(get_mode(i).evaluators, k, f)]
    BY <2>1 DEF FrictionConstraints
  <2>3. QED
    BY <2>2
<1>7. QED
  BY <1>1, <1>2, <1>3, <1>4, <1>5, <1>6

\* The steps of a mode that are bounded or made equal.
LEMMA TimestepsOf ==
  ASSUME BookInv, Constructed
  PROVE  /\ \A c : c \in Constraints("bounds") <=>
                       \E i \in Modes : mode_length(i) > 1 /\ c = BoundsAt(i)
         /\ \A c : c \in Constraints("equal") <=>
                       \E i \in Modes : \E j \in 0 .. mode_length(i) - 3 : c = EqualAt(i, j)
<1>1. ASSUME NEW c, NEW kind \in {"bounds", "equal"}
      PROVE  c \in Constraints(kind) <=>
                 \E i \in Modes : c \in TimestepConstraints(i, start(i)) /\ c.kind = kind
  BY ConstraintsOfModes, Kinds, Zenon DEF Constraints
<1>2. ASSUME NEW c, NEW i \in Modes
      PROVE  /\ (c \in TimestepConstraints(i, start(i)) /\ c.kind = "bounds")
                    <=> (mode_length(i) > 1 /\ c = BoundsAt(i))
             /\ (c \in TimestepConstraints(i, start(i)) /\ c.kind = "equal")
                    <=> \E j \in 0 .. mode_length(i) - 3 : c = EqualAt(i, j)
  <2>1. mode_length(i) \in Nat \ {0}
    BY ModesOf
  <2>2. QED
    BY <2>1 DEF TimestepConstraints, BoundsAt, EqualAt
<1>3. QED
  BY <1>1, <1>2

\* The dynamics of the steps.
LEMMA CollocationsOf ==
  ASSUME BookInv, Constructed
  PROVE  \A c : c \in Constraints("collocation") <=>
                    \E i \in Modes : \E j \in 0 .. mode_length(i) - 2 : c = CollocationAt(i, j)
<1>1. ASSUME NEW c
      PROVE  c \in Constraints("collocation") <=>
                 \E i \in Modes : c \in CollocationConstraints(mode_start_, i)
  <2>1. c \in Constraints("collocation") <=> c \in constraints_ /\ c.kind = "collocation"
    BY DEF Constraints
  <2>2. \A i \in Modes : c \in CollocationConstraints(mode_start_, i) => c.kind = "collocation"
    BY Kinds
  <2>3. c.kind = "collocation" => \A i \in Modes :
            /\ c \notin TimestepConstraints(i, start(i))
            /\ c \notin PositionConstraints(mode_start_, i)
            /\ c \notin VelocityConstraints(mode_start_, i)
            /\ c \notin TransitionConstraints(mode_start_, i)
            /\ c \notin FrictionConstraints(i)
    BY Kinds
  <2>4. QED
    BY <2>1, <2>2, <2>3, ConstraintsOfModes
<1>2. ASSUME NEW c, NEW i \in Modes
      PROVE  c \in CollocationConstraints(mode_start_, i) <=>
                 \E j \in 0 .. mode_length(i) - 2 : c = CollocationAt(i, j)
  BY Zenon DEF CollocationConstraints, CollocationAt
<1>3. QED
  BY <1>1, <1>2, Zenon

\* The positions that are constrained.
LEMMA PositionsOf ==
  ASSUME BookInv, Constructed
  PROVE  \A c : c \in Constraints("position") <=>
                    \E i \in Modes : \E j \in 0 .. mode_length(i) - 1 :
                        get_constraint_type(get_mode(i), j) = "kAll" /\ c = PositionAt(i, j)
<1>1. ASSUME NEW c
      PROVE  c \in Constraints("position") <=>
                 \E i \in Modes : c \in PositionConstraints(mode_start_, i)
  <2>1. c \in Constraints("position") <=> c \in constraints_ /\ c.kind = "position"
    BY DEF Constraints
  <2>2. \A i \in Modes : c \in PositionConstraints(mode_start_, i) => c.kind = "position"
    BY Kinds
  <2>3. c.kind = "position" => \A i \in Modes :
            /\ c \notin TimestepConstraints(i, start(i))
            /\ c \notin CollocationConstraints(mode_start_, i)
            /\ c \notin VelocityConstraints(mode_start_, i)
            /\ c \notin TransitionConstraints(mode_start_, i)
            /\ c \notin FrictionConstraints(i)
    BY Kinds
  <2>4. QED
    BY <2>1, <2>2, <2>3, ConstraintsOfModes
<1>2. ASSUME NEW c, NEW i \in Modes
      PROVE  c \in PositionConstraints(mode_start_, i) <=>
                 \E j \in 0 .. mode_length(i) - 1 :
                     get_constraint_type(get_mode(i), j) = "kAll" /\ c = PositionAt(i, j)
  BY Zenon DEF PositionConstraints, PositionAt
<1>3. QED
  BY <1>1, <1>2, Zenon

\* The velocities that are constrained.
LEMMA VelocitiesOf ==
  ASSUME BookInv, Constructed
  PROVE  \A c : c \in Constraints("velocity") <=>
                    \E i \in Modes : \E j \in 0 .. mode_length(i) - 1 :
                        /\ get_constraint_type(get_mode(i), j) # "kAccelOnly"
                        /\ ~SkipsVelocity(i, j)
                        /\ c = VelocityAt(i, j)
<1>1. ASSUME NEW c
      PROVE  c \in Constraints("velocity") <=>
                 \E i \in Modes : c \in VelocityConstraints(mode_start_, i)
  <2>1. c \in Constraints("velocity") <=> c \in constraints_ /\ c.kind = "velocity"
    BY DEF Constraints
  <2>2. \A i \in Modes : c \in VelocityConstraints(mode_start_, i) => c.kind = "velocity"
    BY Kinds
  <2>3. c.kind = "velocity" => \A i \in Modes :
            /\ c \notin TimestepConstraints(i, start(i))
            /\ c \notin CollocationConstraints(mode_start_, i)
            /\ c \notin PositionConstraints(mode_start_, i)
            /\ c \notin TransitionConstraints(mode_start_, i)
            /\ c \notin FrictionConstraints(i)
    BY Kinds
  <2>4. QED
    BY <2>1, <2>2, <2>3, ConstraintsOfModes
<1>2. ASSUME NEW c, NEW i \in Modes
      PROVE  c \in VelocityConstraints(mode_start_, i) <=>
                 \E j \in 0 .. mode_length(i) - 1 :
                     /\ get_constraint_type(get_mode(i), j) # "kAccelOnly"
                     /\ ~SkipsVelocity(i, j)
                     /\ c = VelocityAt(i, j)
  BY Zenon DEF VelocityConstraints, VelocityAt
<1>3. QED
  BY <1>1, <1>2, Zenon

\* Without an impact the velocities before and after are made equal.
LEMMA NoImpactOf ==
  ASSUME BookInv, Constructed, NEW i \in Modes, i > 0, ~is_impact(i)
  PROVE  \E c \in Constraints("no impact") : c.transition = i - 1
<1>1. TransitionConstraints(mode_start_, i) =
        {[kind |-> "no impact", transition |-> i - 1,
          pre |-> state_vars(mode_start_, i - 1, mode_length(i - 1) - 1),
          post |-> post_impact_velocity_vars(i - 1)]}
  <2>1. i # 0
    BY ModesOf
  <2>2. QED
    BY <2>1 DEF TransitionConstraints
<1> DEFINE new == [kind |-> "no impact", transition |-> i - 1,
                   pre |-> state_vars(mode_start_, i - 1, mode_length(i - 1) - 1),
                   post |-> post_impact_velocity_vars(i - 1)]
<1>2. PICK c \in TransitionConstraints(mode_start_, i) : c.kind = "no impact" /\ c.transition = i - 1
  <2>1. new \in TransitionConstraints(mode_start_, i)
    BY <1>1, Zenon
  <2>2. new.kind = "no impact" /\ new.transition = i - 1
    OBVIOUS
  <2>3. QED
    BY <2>1, <2>2, Zenon
<1>3. c \in constraints_
  BY <1>2, ConstraintsOfModes
<1>4. QED
  BY <1>2, <1>3 DEF Constraints

------------------------------------------------------------------------------
(* Costs. *)

\* The states of a mode's knots: after the first, those of MultipleShooting.
LEMMA StatesOf ==
  ASSUME BookInv, Constructed, NEW i \in Modes
  PROVE  /\ \A j \in Nat \ {0} : state_vars(mode_start_, i, j) = state(start(i) + j)
         /\ state_vars(mode_start_, i, 0) = PostImpact(i)
<1>1. i \in Nat /\ start(i) \in Nat /\ start(0) = 0
  BY ModesOf
<1>2. \A j \in Nat \ {0} : state_vars(mode_start_, i, j) = state(start(i) + j)
  BY DEF state_vars, start
<1>3. CASE i = 0
  <2>1. state_vars(mode_start_, i, 0) = state(start(0) + 0)
    BY <1>3 DEF state_vars, start
  <2>2. PostImpact(i) = state(0)
    BY <1>3 DEF PostImpact
  <2>3. QED
    BY <1>1, <1>2, <2>1, <2>2
<1>4. CASE i # 0
  <2>1. i > 0
    BY <1>1, <1>4
  <2>2. \A s \in 0 .. num_states - 1 : state(start(i))[s] = <<"x", start(i), s>>
    BY DEF state
  <2>3. state_vars(mode_start_, i, 0) = [s \in 0 .. num_states - 1 |->
             IF s < num_positions THEN <<"x", start(i), s>>
             ELSE post_impact_velocity_vars(i - 1)[s - num_positions]]
    BY <2>1 DEF state_vars, start
  <2>4. PostImpact(i) = [s \in 0 .. num_states - 1 |->
             IF s < num_positions THEN state(start(i))[s]
             ELSE post_impact_velocity_vars(i - 1)[s - num_positions]]
    BY <1>4 DEF PostImpact, start
  <2>5. QED
    BY <1>2, <2>2, <2>3, <2>4
<1>5. QED
  BY <1>3, <1>4

\* What a mode's running cost weighs with which step.
LEMMA RunningCostOf ==
  ASSUME BookInv, Constructed, NEW i \in Modes, mode_length(i) > 1
  PROVE  \A w : w \in RunningCost(i) <=> \E j \in 0 .. mode_length(i) - 2 :
             \/ w = <<start(i) + j, state_vars(mode_start_, i, j)>>
             \/ w = <<start(i) + j, state_vars(mode_start_, i, j + 1)>>
<1> DEFINE n == mode_length(i)
           s == start(i)
           x(j) == state_vars(mode_start_, i, j)
<1>1. s \in Nat /\ n \in Nat /\ n > 1
  BY ModesOf
<1>2. \A j \in Nat \ {0} : x(j) = state(s + j)
  BY StatesOf
<1>3. x(0) = PostImpact(i)
  BY StatesOf
<1>4. \A w : w \in RunningCost(i) <=>
          \/ w = <<s, x(0)>>
          \/ \E k \in s + 1 .. s + n - 2 : w = <<k - 1, state(k)>> \/ w = <<k, state(k)>>
          \/ w = <<s + n - 2, state(s + n - 1)>>
  <2> DEFINE end == s + n
             Inner == UNION {{<<k - 1, state(k)>>, <<k, state(k)>>} : k \in s + 1 .. end - 2}
  <2>1. RunningCost(i) = {<<s, PostImpact(i)>>, <<end - 2, state(end - 1)>>} \cup Inner
    BY Zenon DEF RunningCost, start
  <2>2. end - 2 = s + n - 2 /\ end - 1 = s + n - 1
    <3> HIDE DEF n, s
    <3>1. QED
      BY <1>1
  <2>3. \A w : w \in Inner <=>
            \E k \in s + 1 .. end - 2 : w = <<k - 1, state(k)>> \/ w = <<k, state(k)>>
    <3> HIDE DEF end, s
    <3>1. QED
      OBVIOUS
  <2> HIDE DEF Inner, end
  <2>4. QED
    BY <1>3, <2>1, <2>2, <2>3
<1> HIDE DEF n, s, x
<1>5. ASSUME NEW w, w \in RunningCost(i)
      PROVE  \E j \in 0 .. n - 2 : w = <<s + j, x(j)>> \/ w = <<s + j, x(j + 1)>>
  <2>1. CASE w = <<s, x(0)>>
    <3>1. 0 \in 0 .. n - 2 /\ s + 0 = s
      BY <1>1
    <3>2. QED
      BY <2>1, <3>1
  <2>2. ASSUME NEW k \in s + 1 .. s + n - 2, w = <<k - 1, state(k)>>
        PROVE  \E j \in 0 .. n - 2 : w = <<s + j, x(j + 1)>>
    <3> DEFINE j == k - 1 - s
    <3>1. j \in 0 .. n - 2 /\ s + j = k - 1 /\ j + 1 \in Nat \ {0} /\ s + (j + 1) = k
      BY <1>1
    <3> HIDE DEF j
    <3>2. x(j + 1) = state(k)
      BY <1>2, <3>1
    <3>3. QED
      BY <2>2, <3>1, <3>2
  <2>3. ASSUME NEW k \in s + 1 .. s + n - 2, w = <<k, state(k)>>
        PROVE  \E j \in 0 .. n - 2 : w = <<s + j, x(j)>>
    <3> DEFINE j == k - s
    <3>1. j \in 0 .. n - 2 /\ s + j = k /\ j \in Nat \ {0}
      BY <1>1
    <3> HIDE DEF j
    <3>2. x(j) = state(k)
      BY <1>2, <3>1
    <3>3. QED
      BY <2>3, <3>1, <3>2
  <2>4. CASE w = <<s + n - 2, state(s + n - 1)>>
    <3> DEFINE j == n - 2
    <3>1. j \in 0 .. n - 2 /\ s + j = s + n - 2 /\ j + 1 \in Nat \ {0} /\ s + (j + 1) = s + n - 1
      BY <1>1
    <3> HIDE DEF j
    <3>2. x(j + 1) = state(s + n - 1)
      BY <1>2, <3>1
    <3>3. QED
      BY <2>4, <3>1, <3>2
  <2>5. QED
    BY <1>4, <1>5, <2>1, <2>2, <2>3, <2>4
<1>6. ASSUME NEW w, NEW j \in 0 .. n - 2, w = <<s + j, x(j)>>
      PROVE  w \in RunningCost(i)
  <2>1. CASE j = 0
    <3>1. s + j = s
      BY <1>1, <2>1
    <3>2. QED
      BY <1>4, <1>6, <2>1, <3>1
  <2>2. CASE j # 0
    <3>1. s + j \in s + 1 .. s + n - 2 /\ j \in Nat \ {0}
      BY <1>1, <2>2
    <3>2. x(j) = state(s + j)
      BY <1>2, <3>1
    <3>3. QED
      BY <1>4, <1>6, <3>1, <3>2
  <2>3. QED
    BY <2>1, <2>2
<1>7. ASSUME NEW w, NEW j \in 0 .. n - 2, w = <<s + j, x(j + 1)>>
      PROVE  w \in RunningCost(i)
  <2> DEFINE k == s + j + 1
  <2>1. j + 1 \in Nat \ {0} /\ s + (j + 1) = k /\ k - 1 = s + j
    BY <1>1
  <2>2. x(j + 1) = state(k)
    BY <1>2, <2>1
  <2>3. CASE j = n - 2
    <3>1. s + j = s + n - 2 /\ k = s + n - 1
      BY <1>1, <2>3
    <3>2. QED
      BY <1>4, <1>7, <2>2, <3>1
  <2>4. CASE j # n - 2
    <3>1. k \in s + 1 .. s + n - 2
      BY <1>1, <2>4
    <3> HIDE DEF k
    <3>2. QED
      BY <1>4, <1>7, <2>1, <2>2, <3>1
  <2>5. QED
    BY <2>3, <2>4
<1>8. QED
  BY <1>5, <1>6, <1>7 DEF n, s, x

\* Which states the dynamics relate in which step.
LEMMA RelatedOf ==
  ASSUME BookInv, Constructed, NEW w
  PROVE  w \in UNION {{<<c.step, c.x0>>, <<c.step, c.x1>>} : c \in Constraints("collocation")}
           <=> \E i \in Modes : \E j \in 0 .. mode_length(i) - 2 :
                   \/ w = <<timestep(start(i) + j), state_vars(mode_start_, i, j)>>
                   \/ w = <<timestep(start(i) + j), state_vars(mode_start_, i, j + 1)>>
<1>1. ASSUME NEW i, NEW j
      PROVE  /\ CollocationAt(i, j).step = timestep(start(i) + j)
             /\ CollocationAt(i, j).x0 = state_vars(mode_start_, i, j)
             /\ CollocationAt(i, j).x1 = state_vars(mode_start_, i, j + 1)
  BY DEF CollocationAt, start
<1>2. w \in UNION {{<<c.step, c.x0>>, <<c.step, c.x1>>} : c \in Constraints("collocation")}
        <=> \E c \in Constraints("collocation") : w = <<c.step, c.x0>> \/ w = <<c.step, c.x1>>
  OBVIOUS
<1>3. (\E c \in Constraints("collocation") : w = <<c.step, c.x0>> \/ w = <<c.step, c.x1>>)
        <=> \E i \in Modes : \E j \in 0 .. mode_length(i) - 2 :
                \/ w = <<CollocationAt(i, j).step, CollocationAt(i, j).x0>>
                \/ w = <<CollocationAt(i, j).step, CollocationAt(i, j).x1>>
  <2>1. ASSUME NEW c \in Constraints("collocation"), w = <<c.step, c.x0>> \/ w = <<c.step, c.x1>>
        PROVE  \E i \in Modes : \E j \in 0 .. mode_length(i) - 2 :
                   \/ w = <<CollocationAt(i, j).step, CollocationAt(i, j).x0>>
                   \/ w = <<CollocationAt(i, j).step, CollocationAt(i, j).x1>>
    <3>1. \E i \in Modes : \E j \in 0 .. mode_length(i) - 2 : c = CollocationAt(i, j)
      BY CollocationsOf
    <3>2. QED
      BY <2>1, <3>1, Zenon
  <2>2. ASSUME NEW i \in Modes, NEW j \in 0 .. mode_length(i) - 2,
               \/ w = <<CollocationAt(i, j).step, CollocationAt(i, j).x0>>
               \/ w = <<CollocationAt(i, j).step, CollocationAt(i, j).x1>>
        PROVE  \E c \in Constraints("collocation") : w = <<c.step, c.x0>> \/ w = <<c.step, c.x1>>
    <3>1. CollocationAt(i, j) \in Constraints("collocation")
      BY CollocationsOf
    <3>2. QED
      BY <2>2, <3>1, Zenon
  <2>3. QED
    BY <2>1, <2>2, Zenon
<1>4. QED
  BY <1>1, <1>2, <1>3

\* The costs weigh what the dynamics relate.
LEMMA CostsAreRelated ==
  ASSUME BookInv, CostInv
  PROVE  CostFollowsDynamics
<1> SUFFICES ASSUME Constructed, TwoKnotsEach
             PROVE  LET Related == UNION {{<<c.step, c.x0>>, <<c.step, c.x1>>} :
                                             c \in Constraints("collocation")}
                    IN  /\ failed_ # "cost"
                        /\ cost_ \in {{}, Related}
                        /\ velocity_cost_ \in {{}, {<<w[1], velocities(w[2])>> : w \in Related}}
  BY Zenon DEF CostFollowsDynamics
<1> DEFINE Related == UNION {{<<c.step, c.x0>>, <<c.step, c.x1>>} : c \in Constraints("collocation")}
           Terms == {<<timestep(term[1]), term[2]>> : term \in RunningCosts}
<1>1. \A w : w \in Related <=> \E i \in Modes : \E j \in 0 .. mode_length(i) - 2 :
          \/ w = <<timestep(start(i) + j), state_vars(mode_start_, i, j)>>
          \/ w = <<timestep(start(i) + j), state_vars(mode_start_, i, j + 1)>>
  BY RelatedOf
<1> HIDE DEF Related
<1>1a. \A term : term \in RunningCosts <=> \E i \in Modes : term \in RunningCost(i)
  BY ModesOf DEF RunningCosts
<1>2. Terms = Related
  <2>2. \A i \in Modes : mode_length(i) > 1
    BY DEF TwoKnotsEach
  <2>3. \A i \in Modes : \A term : term \in RunningCost(i) <=> \E j \in 0 .. mode_length(i) - 2 :
            \/ term = <<start(i) + j, state_vars(mode_start_, i, j)>>
            \/ term = <<start(i) + j, state_vars(mode_start_, i, j + 1)>>
    BY <2>2, RunningCostOf
  <2>4. ASSUME NEW w, w \in Terms
        PROVE  w \in Related
    <3>1. PICK term \in RunningCosts : w = <<timestep(term[1]), term[2]>>
      BY <2>4
    <3>2a. PICK i \in Modes : \E j \in 0 .. mode_length(i) - 2 :
            \/ term = <<start(i) + j, state_vars(mode_start_, i, j)>>
            \/ term = <<start(i) + j, state_vars(mode_start_, i, j + 1)>>
      BY <1>1a, <2>3
    <3>2. PICK j \in 0 .. mode_length(i) - 2 :
            \/ term = <<start(i) + j, state_vars(mode_start_, i, j)>>
            \/ term = <<start(i) + j, state_vars(mode_start_, i, j + 1)>>
      BY <3>2a
    <3>3. QED
      BY <1>1, <3>1, <3>2
  <2>5. ASSUME NEW w, w \in Related
        PROVE  w \in Terms
    <3>1a. PICK i \in Modes : \E j \in 0 .. mode_length(i) - 2 :
            \/ w = <<timestep(start(i) + j), state_vars(mode_start_, i, j)>>
            \/ w = <<timestep(start(i) + j), state_vars(mode_start_, i, j + 1)>>
      BY <1>1, <2>5
    <3>1. PICK j \in 0 .. mode_length(i) - 2 :
            \/ w = <<timestep(start(i) + j), state_vars(mode_start_, i, j)>>
            \/ w = <<timestep(start(i) + j), state_vars(mode_start_, i, j + 1)>>
      BY <3>1a
    <3>2. <<start(i) + j, state_vars(mode_start_, i, j)>> \in RunningCosts
          /\ <<start(i) + j, state_vars(mode_start_, i, j + 1)>> \in RunningCosts
      BY <1>1a, <2>3
    <3>3. QED
      BY <3>1, <3>2
  <2>6. QED
    BY <2>4, <2>5
<1>3. VelocityCosts = {<<w[1], velocities(w[2])>> : w \in Related}
  <2> DEFINE Image == {<<w[1], velocities(w[2])>> : w \in Related}
  <2>1. \A v : v \in VelocityCosts <=> \E i \in Modes : \E j \in 0 .. mode_length(i) - 2 :
            \/ v = <<timestep(start(i) + j), velocities(state_vars(mode_start_, i, j))>>
            \/ v = <<timestep(start(i) + j), velocities(state_vars(mode_start_, i, j + 1))>>
    <3>1. \A i, j, k : VelocityTerms(i, j, k) =
              <<timestep(start(i) + j), velocities(state_vars(mode_start_, i, k))>>
      BY DEF VelocityTerms, start
    <3>2. VelocityCosts = UNION {UNION {{VelocityTerms(i, j, j), VelocityTerms(i, j, j + 1)} :
                                  j \in 0 .. mode_length(i) - 2} : i \in Modes}
      BY ModesOf, Zenon DEF VelocityCosts
    <3>3. \A v : v \in VelocityCosts <=> \E i \in Modes : \E j \in 0 .. mode_length(i) - 2 :
              v = VelocityTerms(i, j, j) \/ v = VelocityTerms(i, j, j + 1)
      BY <3>2
    <3>4. QED
      BY <3>1, <3>3, Zenon
  <2>2. ASSUME NEW v, v \in Image
        PROVE  v \in VelocityCosts
    <3>1. PICK w \in Related : v = <<w[1], velocities(w[2])>>
      BY <2>2
    <3>2a. PICK i \in Modes : \E j \in 0 .. mode_length(i) - 2 :
            \/ w = <<timestep(start(i) + j), state_vars(mode_start_, i, j)>>
            \/ w = <<timestep(start(i) + j), state_vars(mode_start_, i, j + 1)>>
      BY <1>1
    <3>2. PICK j \in 0 .. mode_length(i) - 2 :
            \/ w = <<timestep(start(i) + j), state_vars(mode_start_, i, j)>>
            \/ w = <<timestep(start(i) + j), state_vars(mode_start_, i, j + 1)>>
      BY <3>2a
    <3>3. QED
      BY <2>1, <3>1, <3>2
  <2>3. ASSUME NEW v, v \in VelocityCosts
        PROVE  v \in Image
    <3>1a. PICK i \in Modes : \E j \in 0 .. mode_length(i) - 2 :
            \/ v = <<timestep(start(i) + j), velocities(state_vars(mode_start_, i, j))>>
            \/ v = <<timestep(start(i) + j), velocities(state_vars(mode_start_, i, j + 1))>>
      BY <2>1, <2>3
    <3>1. PICK j \in 0 .. mode_length(i) - 2 :
            \/ v = <<timestep(start(i) + j), velocities(state_vars(mode_start_, i, j))>>
            \/ v = <<timestep(start(i) + j), velocities(state_vars(mode_start_, i, j + 1))>>
      BY <3>1a
    <3> DEFINE w1 == <<timestep(start(i) + j), state_vars(mode_start_, i, j)>>
               w2 == <<timestep(start(i) + j), state_vars(mode_start_, i, j + 1)>>
    <3>2. w1 \in Related /\ w2 \in Related
      BY <1>1
    <3>3. v = <<w1[1], velocities(w1[2])>> \/ v = <<w2[1], velocities(w2[2])>>
      BY <3>1
    <3> HIDE DEF w1, w2
    <3>4. QED
      BY <3>2, <3>3
  <2>4. QED
    BY <2>2, <2>3
<1>4. (cost_ = {} \/ cost_ = Terms) /\ (velocity_cost_ = {} \/ velocity_cost_ = VelocityCosts)
  BY DEF CostInv
<1>5. ~OutsideCost
  <2>1. SUFFICES ASSUME NEW term \in RunningCosts
                 PROVE  term[1] \in 0 .. Knots - 2
    BY DEF OutsideCost
  <2>2. PICK i \in Modes : term \in RunningCost(i)
    BY <1>1a
  <2>3. mode_length(i) > 1
    BY DEF TwoKnotsEach
  <2>4. PICK j \in 0 .. mode_length(i) - 2 :
            \/ term = <<start(i) + j, state_vars(mode_start_, i, j)>>
            \/ term = <<start(i) + j, state_vars(mode_start_, i, j + 1)>>
    BY <2>2, <2>3, RunningCostOf
  <2>5. term[1] = start(i) + j
    BY <2>4
  <2>6. start(i) \in Nat /\ mode_length(i) \in Nat /\ start(i) + mode_length(i) - 1 <= Knots - 1 /\ Knots \in Nat
    BY KnotsOf, EndsWithin, ModesOf
  <2>7. QED
    BY <2>5, <2>6
<1>6. failed_ # "cost"
  BY <1>5 DEF CostInv
<1>7. QED
  BY <1>2, <1>3, <1>4, <1>6 DEF Related

\* The costs are about what a later call leaves.
LEMMA CostsPrime ==
  ASSUME modes' = modes, mode_start_' = mode_start_
  PROVE  RunningCosts' = RunningCosts /\ VelocityCosts' = VelocityCosts /\ OutsideCost' = OutsideCost
<1>1. num_modes' = num_modes /\ Knots' = Knots
  BY DEF num_modes, Knots
<1>2. \A i : mode_length(i)' = mode_length(i) /\ mode_start(mode_start_, i)' = mode_start(mode_start_, i)
  BY DEF mode_length, get_mode, mode_start
<1>3. \A i, j : state_vars(mode_start_, i, j)' = state_vars(mode_start_, i, j)
  BY DEF state_vars, mode_start, state, post_impact_velocity_vars
<1>4. \A i : PostImpact(i)' = PostImpact(i)
  BY DEF PostImpact, mode_start, state, post_impact_velocity_vars
<1>5. \A i : RunningCost(i)' = RunningCost(i)
  BY <1>2, <1>4 DEF RunningCost, state
<1>6. \A i, j, k : VelocityTerms(i, j, k)' = VelocityTerms(i, j, k)
  BY <1>2, <1>3 DEF VelocityTerms, velocities, timestep
<1>7. RunningCosts' = RunningCosts
  BY <1>1, <1>5 DEF RunningCosts
<1>8. VelocityCosts' = VelocityCosts
  BY <1>1, <1>2, <1>6 DEF VelocityCosts
<1>9. QED
  BY <1>1, <1>7, <1>8 DEF OutsideCost

\* What a later call makes of the costs.
LEMMA LaterCosts ==
  ASSUME Later
  PROVE  /\ cost_' = cost_ \/ cost_' = {<<timestep(term[1]), term[2]>> : term \in RunningCosts}
         /\ velocity_cost_' = velocity_cost_ \/ velocity_cost_' = VelocityCosts
         /\ failed_' = "cost" => OutsideCost
<1> DEFINE Costs == /\ \/ cost_' = cost_
                       \/ cost_' = {<<timestep(term[1]), term[2]>> : term \in RunningCosts}
                    /\ velocity_cost_' = velocity_cost_ \/ velocity_cost_' = VelocityCosts
                    /\ failed_' = "cost" => OutsideCost
<1> SUFFICES Costs
  OBVIOUS
<1>1. ASSUME NEW call, Fail(call), call = "cost" => OutsideCost
      PROVE  Costs
  BY <1>1 DEF Fail
<1>2. ASSUME NEW variables, SetVariableScaling(variables)
      PROVE  Costs
  BY <1>2 DEF SetVariableScaling, Call
<1>3. ASSUME NEW count, DrawPoses(count)
      PROVE  Costs
  BY <1>3 DEF DrawPoses, Call
<1>4. AddRunningCost => Costs
  <2>1. CASE \A term \in RunningCosts : term[1] \in 0 .. Knots - 2
    BY <2>1 DEF AddRunningCost, Call
  <2>2. CASE ~\A term \in RunningCosts : term[1] \in 0 .. Knots - 2
    <3>1. OutsideCost
      BY <2>2 DEF OutsideCost
    <3> HIDE DEF Costs
    <3>2. QED
      BY <1>1, <2>2, <3>1 DEF AddRunningCost
  <2>3. QED
    BY <2>1, <2>2
<1>5. AddVelocityCost => Costs
  BY DEF AddVelocityCost, Call
<1>5a. (Fail("impulse") => Costs) /\ (Fail("poses") => Costs)
  BY <1>1
<1> HIDE DEF Costs
<1>6. ScaleVariables => Costs
  BY <1>5a, <1>2, Zenon DEF ScaleVariables, ScaleTimeVariables, ScaleStateVariable,
     ScaleInputVariable, ScaleForceVariable, ScaleKinConstraintSlackVariable, ScaleImpulseVariable
<1>7. Visualize => Costs
  BY <1>5a, <1>3, Zenon DEF Visualize, CreateVisualizationCallback, CreateVisualizationCallbackOf
<1>8. QED
  BY <1>4, <1>5, <1>6, <1>7, Zenon DEF Later

\* Before the construction is complete, no call was made.
LEMMA NotYetConstructed ==
  ASSUME BookInv, [Next]_vars
  PROVE  \/ Later /\ Frame
         \/ UNCHANGED <<stage, modes, mode_start_, constraints_, scale_, cost_, velocity_cost_, poses_, failed_>>
         \/ /\ scale_' = {} /\ cost_' = {} /\ velocity_cost_' = {} /\ poses_' = <<>>
            /\ failed_' = "none"
            /\ stage # "constructed"
<1>1. CASE Later
  BY <1>1, LaterFrame
<1>2. CASE UNCHANGED vars
  BY <1>2 DEF vars
<1>3. ASSUME stage # "constructed", UNCHANGED <<scale_, cost_, velocity_cost_, poses_, failed_>>
      PROVE  /\ scale_' = {} /\ cost_' = {} /\ velocity_cost_' = {} /\ poses_' = <<>>
             /\ failed_' = "none"
             /\ stage # "constructed"
  BY <1>3 DEF BookInv, Stages
<1>4. ASSUME NEW set, NEW n, AddMode(set, n)
      PROVE  stage # "constructed" /\ UNCHANGED <<scale_, cost_, velocity_cost_, poses_, failed_>>
  BY <1>4 DEF AddMode
<1>5. ASSUME NEW i, NEW mode, Adjust(i, mode)
      PROVE  stage # "constructed" /\ UNCHANGED <<scale_, cost_, velocity_cost_, poses_, failed_>>
  BY <1>5 DEF Adjust
<1>6. ASSUME NEW i, MakeRelative(i) \/ SetType(i)
      PROVE  stage # "constructed" /\ UNCHANGED <<scale_, cost_, velocity_cost_, poses_, failed_>>
  BY <1>5, <1>6, Zenon DEF MakeRelative, SetType
<1>7. Construct \/ ConstructMode => stage # "constructed" /\ UNCHANGED <<scale_, cost_, velocity_cost_, poses_, failed_>>
  BY DEF Construct, ConstructMode
<1>8. QED
  BY <1>1, <1>2, <1>3, <1>4, <1>6, <1>7, NextCases, Zenon

LEMMA CostStep ==
  ASSUME BookInv, CostInv, [Next]_vars
  PROVE  CostInv'
<1> DEFINE Terms == {<<timestep(term[1]), term[2]>> : term \in RunningCosts}
<1>1. modes' = modes /\ mode_start_' = mode_start_ => Terms' = Terms /\ VelocityCosts' = VelocityCosts /\ OutsideCost' = OutsideCost
  BY CostsPrime DEF timestep
<1>2. CostInv' <=> (cost_' = {} \/ cost_' = Terms') /\ (velocity_cost_' = {} \/ velocity_cost_' = VelocityCosts')
                /\ (failed_' = "cost" => OutsideCost')
  BY Zenon DEF CostInv
<1>3. (cost_ = {} \/ cost_ = Terms) /\ (velocity_cost_ = {} \/ velocity_cost_ = VelocityCosts)
        /\ (failed_ = "cost" => OutsideCost)
  BY DEF CostInv
<1>4. Later => (cost_' = cost_ \/ cost_' = Terms) /\ (velocity_cost_' = velocity_cost_ \/ velocity_cost_' = VelocityCosts)
        /\ (failed_' = "cost" => OutsideCost)
  BY LaterCosts
<1> HIDE DEF Terms
<1>5. QED
  BY <1>1, <1>2, <1>3, <1>4, NotYetConstructed DEF Frame

\* For any modes of two knots or more: whatever cost is added weighs, with each
\* step, the two states that the dynamics of the step relate.
THEOREM DirconCostFollowsDynamics == Spec => []CostFollowsDynamics
<1>1. Init => CostInv
  BY BookInit
<1>2. BookInv /\ CostInv /\ [Next]_vars => CostInv'
  BY CostStep
<1>3. BookInv /\ CostInv => CostFollowsDynamics
  BY CostsAreRelated
<1>4. QED
  BY <1>1, <1>2, <1>3, DirconBook, PTL DEF Spec

------------------------------------------------------------------------------
(* Places: the knots of the modes. *)

\* Every knot of every mode.
LEMMA PlacesOf ==
  ASSUME BookInv, Constructed
  PROVE  \A p : p \in Places <=> /\ p \in Modes \X Nat
                                 /\ p[2] \in 0 .. mode_length(p[1]) - 1
<1> SUFFICES ASSUME NEW p, p \in Modes \X Nat
             PROVE  p \in Places <=> p[2] \in 0 .. mode_length(p[1]) - 1
  BY DEF Places
<1>1. p[1] \in Modes /\ p[2] \in Nat /\ p = <<p[1], p[2]>>
  OBVIOUS
<1>2. start(p[1]) \in Nat /\ mode_length(p[1]) \in Nat \ {0}
  BY <1>1, ModesOf
<1>3. start(p[1]) + mode_length(p[1]) - 1 <= Knots - 1 /\ Knots \in Nat
  BY <1>1, EndsWithin, KnotsOf
<1>4. QED
  BY <1>1, <1>2, <1>3 DEF Places

\* The positions at a place are those of its knot.
LEMMA PositionsAt ==
  ASSUME BookInv, Constructed, NEW i \in Modes, NEW j \in Nat
  PROVE  positions(state_vars(mode_start_, i, j))
           = [s \in 0 .. num_positions - 1 |-> <<"x", start(i) + j, s>>]
<1>1. start(i) \in Nat
  BY ModesOf
<1>2. num_positions \in Nat /\ num_velocities \in Nat
  BY DirconAssumption DEF DirconAssumption
<1>3. \A s \in 0 .. num_positions - 1 : s \in 0 .. num_states - 1 /\ s < num_positions
  BY <1>2 DEF num_states
<1>4. ASSUME NEW s \in 0 .. num_positions - 1
      PROVE  state_vars(mode_start_, i, j)[s] = <<"x", start(i) + j, s>>
  <2>1. CASE j = 0 /\ i > 0
    <3>1. state_vars(mode_start_, i, j)[s] = <<"x", start(i), s>>
      BY <1>3, <2>1 DEF state_vars, start
    <3>2. start(i) + j = start(i)
      BY <1>1, <2>1
    <3>3. QED
      BY <3>1, <3>2
  <2>2. CASE ~(j = 0 /\ i > 0)
    BY <1>3, <2>2 DEF state_vars, state, start
  <2>3. QED
    BY <2>1, <2>2
<1>5. QED
  BY <1>4 DEF positions

\* Two places are the same if they are the same knot.
LEMMA SamePositions ==
  ASSUME BookInv, Constructed, NEW p \in Places, NEW p2 \in Places
  PROVE  /\ p[1] \in Modes /\ p[2] \in Nat /\ p2[1] \in Modes /\ p2[2] \in Nat
         /\ positions(StateAt(p)) = positions(StateAt(p2))
                <=> start(p[1]) + p[2] = start(p2[1]) + p2[2]
<1>1. p[1] \in Modes /\ p[2] \in Nat /\ p2[1] \in Modes /\ p2[2] \in Nat
  BY PlacesOf
<1> DEFINE k == start(p[1]) + p[2]
           k2 == start(p2[1]) + p2[2]
<1>2. positions(StateAt(p)) = [s \in 0 .. num_positions - 1 |-> <<"x", k, s>>]
  BY <1>1, PositionsAt DEF StateAt
<1>3. positions(StateAt(p2)) = [s \in 0 .. num_positions - 1 |-> <<"x", k2, s>>]
  BY <1>1, PositionsAt DEF StateAt
<1> HIDE DEF k, k2
<1>4. 0 \in 0 .. num_positions - 1
  BY DirconAssumption DEF DirconAssumption
<1>5. positions(StateAt(p)) = positions(StateAt(p2)) <=> k = k2
  <2>1. ASSUME positions(StateAt(p)) = positions(StateAt(p2))
        PROVE  k = k2
    <3>1. <<"x", k, 0>> = <<"x", k2, 0>>
      BY <1>2, <1>3, <1>4, <2>1
    <3>2. QED
      BY <3>1
  <2>2. QED
    BY <1>2, <1>3, <2>1
<1>6. QED
  BY <1>1, <1>5 DEF k, k2

\* The first knot of a later mode is the last of the mode before.
LEMMA SharedKnot ==
  ASSUME BookInv, Constructed, NEW i \in Modes, i > 0
  PROVE  /\ i - 1 \in Modes
         /\ <<i, 0>> \in Places /\ LastOf(i - 1) \in Places
         /\ positions(StateAt(<<i, 0>>)) = positions(StateAt(LastOf(i - 1)))
<1>1. i - 1 \in Modes /\ i \in Nat
  BY ModesOf
<1>2. /\ start(i) = start(i - 1) + mode_length(i - 1) - 1 /\ start(i - 1) \in Nat
      /\ mode_length(i) \in Nat \ {0} /\ mode_length(i - 1) \in Nat \ {0}
  BY <1>1, ModesOf
<1>3. <<i, 0>> \in Places /\ LastOf(i - 1) \in Places
  BY <1>1, <1>2, PlacesOf DEF LastOf
<1>4. start(i) + 0 = start(i - 1) + (mode_length(i - 1) - 1)
  BY <1>2
<1>5. positions(StateAt(<<i, 0>>)) = positions(StateAt(LastOf(i - 1)))
  BY <1>3, <1>4, SamePositions DEF LastOf
<1>6. QED
  BY <1>1, <1>3, <1>5

------------------------------------------------------------------------------
(* Velocities. *)

\* A mode holds its points still at a knot, unless it skips the velocity there.
LEMMA StillWhere ==
  ASSUME BookInv, Constructed, NEW p \in Places,
         TypeAt(p) # "kAccelOnly", ~SkipsVelocity(p[1], p[2])
  PROVE  HeldStill(p) = ToSet(get_mode(p[1]).evaluators)
<1>1. p[1] \in Modes /\ p[2] \in 0 .. mode_length(p[1]) - 1
  BY PlacesOf
<1>2. VelocityAt(p[1], p[2]) \in Constraints("velocity")
  BY <1>1, VelocitiesOf DEF TypeAt
<1>3. VelocityAt(p[1], p[2]).mode = p[1] /\ VelocityAt(p[1], p[2]).x = StateAt(p)
  BY DEF VelocityAt, StateAt
<1>4. QED
  BY <1>2, <1>3, Zenon DEF HeldStill

\* There is no transition into the first mode.
LEMMA NoneIntoFirst ==
  ASSUME BookInv, Constructed
  PROVE  ~\E c \in Constraints("no impact") : c.transition = 0 - 1
<1>1. ASSUME NEW c, NEW m \in Modes, c \in TransitionConstraints(mode_start_, m)
      PROVE  m \in Nat /\ m # 0 /\ c.transition = m - 1
  <2> DEFINE kind == IF is_impact(m) THEN "impact" ELSE "no impact"
             new == [kind |-> kind, transition |-> m - 1,
                     pre |-> state_vars(mode_start_, m - 1, mode_length(m - 1) - 1),
                     post |-> post_impact_velocity_vars(m - 1)]
  <2>1. m # 0
    BY <1>1 DEF TransitionConstraints
  <2>2. TransitionConstraints(mode_start_, m) = {new}
    BY <2>1, Zenon DEF TransitionConstraints
  <2>3. new.transition = m - 1
    <3> HIDE DEF kind
    <3>1. QED
      OBVIOUS
  <2> HIDE DEF new
  <2>4. c = new
    BY <1>1, <2>2
  <2>5. m \in Nat
    BY ModesOf
  <2>6. QED
    BY <2>1, <2>3, <2>4, <2>5, Zenon
<1>2. ASSUME NEW c, c \in Constraints("no impact")
      PROVE  \E m \in Modes : c \in TransitionConstraints(mode_start_, m)
  <2>1. c \in constraints_ /\ c.kind = "no impact"
    BY <1>2 DEF Constraints
  <2>2. \A m \in Modes : /\ c \notin TimestepConstraints(m, start(m))
                         /\ c \notin CollocationConstraints(mode_start_, m)
                         /\ c \notin PositionConstraints(mode_start_, m)
                         /\ c \notin VelocityConstraints(mode_start_, m)
                         /\ c \notin FrictionConstraints(m)
    BY <2>1, Kinds
  <2>3. QED
    BY <2>1, <2>2, ConstraintsOfModes
<1>3. \A m \in Nat : m # 0 => m - 1 # 0 - 1
  OBVIOUS
<1>4. QED
  BY <1>1, <1>2, <1>3, Zenon

\* What stands still at the first knots exists, mode by mode.
LEMMA StillAtFirstDef ==
  ASSUME BookInv, Constructed
  PROVE  \A i \in Modes : StillAtFirst[i] =
             HeldStill(<<i, 0>>) \cup
             IF \E c \in Constraints("no impact") : c.transition = i - 1
             THEN IF mode_length(i - 1) = 1 THEN StillAtFirst[i - 1] ELSE HeldStill(LastOf(i - 1))
             ELSE {}
<1> DEFINE Tied(i) == \E c \in Constraints("no impact") : c.transition = i - 1
           Body(g, i) == HeldStill(<<i, 0>>) \cup
                         IF Tied(i) THEN IF mode_length(i - 1) = 1 THEN g[i - 1] ELSE HeldStill(LastOf(i - 1))
                         ELSE {}
           Still(n, g) == g = [i \in 0 .. n |-> Body(g, i)]
           S == {n \in Nat : \E g : Still(n, g)}
<1>1. ~Tied(0)
  BY NoneIntoFirst
<1> HIDE DEF Tied
<1>2. 0 \in S
  <2> DEFINE g0 == [i \in 0 .. 0 |-> HeldStill(<<0, 0>>)]
  <2>1. Still(0, g0)
    BY <1>1
  <2>2. QED
    BY <2>1
<1>3. ASSUME NEW n \in Nat, n \in S
      PROVE  n + 1 \in S
  <2>1. PICK g : Still(n, g)
    BY <1>3
  <2> DEFINE h == [i \in 0 .. n + 1 |-> IF i = n + 1 THEN Body(g, n + 1) ELSE g[i]]
  <2> HIDE DEF Body
  <2>2. \A i \in 0 .. n : h[i] = g[i] /\ g[i] = Body(g, i)
    BY <2>1
  <2>3. h[n + 1] = Body(g, n + 1)
    OBVIOUS
  <2>4. h = [i \in 0 .. n + 1 |-> h[i]]
    OBVIOUS
  <2> HIDE DEF h
  <2>5. ASSUME NEW i \in 0 .. n + 1
        PROVE  Body(g, i) = Body(h, i)
    <3>1. CASE i = 0
      BY <3>1, <1>1 DEF Body
    <3>2. CASE i # 0
      <4>1. h[i - 1] = g[i - 1]
        BY <2>2, <3>2
      <4>2. QED
        BY <4>1, Zenon DEF Body
    <3>3. QED
      BY <3>1, <3>2
  <2>6. \A i \in 0 .. n + 1 : h[i] = Body(h, i)
    <3>1. \A i \in 0 .. n + 1 : i = n + 1 \/ i \in 0 .. n
      OBVIOUS
    <3>2. QED
      BY <2>2, <2>3, <2>5, <3>1
  <2>7. Still(n + 1, h)
    BY <2>4, <2>6
  <2>8. \E f : Still(n + 1, f)
    BY <2>7
  <2>9. QED
    BY <2>8
<1>4. Nat \subseteq S
  <2> HIDE DEF S
  <2>1. QED
    BY <1>2, <1>3, SetInduction
<1>5. num_modes - 1 \in Nat /\ Modes = 0 .. num_modes - 1
  BY ModesOf
<1>6. \E g : g = [i \in Modes |-> Body(g, i)]
  BY <1>4, <1>5
<1>7. StillAtFirst = CHOOSE g : g = [i \in Modes |-> Body(g, i)]
  BY Zenon DEF StillAtFirst, Tied
<1> HIDE DEF Body
<1>8. StillAtFirst = [i \in Modes |-> Body(StillAtFirst, i)]
  BY <1>6, <1>7, Zenon
<1>9. ASSUME NEW i \in Modes
      PROVE  StillAtFirst[i] = Body(StillAtFirst, i)
  BY <1>8, Zenon
<1>10. QED
  BY <1>9, Zenon DEF Body, Tied

\* Nobody left velocities unconstrained at the knot.
MayMove(p) == \E p2 \in Places : positions(StateAt(p2)) = positions(StateAt(p))
                                     /\ TypeAt(p2) = "kAccelOnly"

\* The points of a mode stand still in the state with which it begins.
LEMMA StillAtFirstKnots ==
  ASSUME BookInv, Constructed
  PROVE  \A i \in Modes : ~MayMove(<<i, 0>>) => ToSet(get_mode(i).evaluators) \subseteq StillAtFirst[i]
<1> DEFINE Held(i) == ToSet(get_mode(i).evaluators) \subseteq StillAtFirst[i]
           S == {n \in Nat : n \in Modes /\ ~MayMove(<<n, 0>>) => Held(n)}
<1>1. ASSUME NEW i \in Modes, ~MayMove(<<i, 0>>), i = 0 \/ is_impact(i)
      PROVE  Held(i)
  <2>1. <<i, 0>> \in Places
    <3>1. mode_length(i) \in Nat \ {0}
      BY ModesOf
    <3>2. QED
      BY <3>1, PlacesOf
  <2>2. TypeAt(<<i, 0>>) # "kAccelOnly"
    BY <1>1, <2>1 DEF MayMove
  <2>3. ~SkipsVelocity(i, 0)
    BY <1>1 DEF SkipsVelocity
  <2>4. HeldStill(<<i, 0>>) = ToSet(get_mode(i).evaluators)
    BY <2>1, <2>2, <2>3, StillWhere
  <2>5. HeldStill(<<i, 0>>) \subseteq StillAtFirst[i]
    BY StillAtFirstDef
  <2>6. QED
    BY <2>4, <2>5
<1>2. ASSUME NEW i \in Modes, ~MayMove(<<i, 0>>), i > 0, ~is_impact(i), i - 1 \in S
      PROVE  Held(i)
  <2>1. /\ i - 1 \in Modes /\ <<i, 0>> \in Places /\ LastOf(i - 1) \in Places
        /\ positions(StateAt(<<i, 0>>)) = positions(StateAt(LastOf(i - 1)))
    BY <1>2, SharedKnot
  <2>2. \E c \in Constraints("no impact") : c.transition = i - 1
    BY <1>2, NoImpactOf
  <2>3. ToSet(get_mode(i).evaluators) \subseteq ToSet(get_mode(i - 1).evaluators)
    BY <1>2 DEF is_impact
  <2>4. ~MayMove(LastOf(i - 1))
    BY <1>2, <2>1 DEF MayMove
  <2>5. mode_length(i - 1) \in Nat \ {0}
    BY <2>1, ModesOf
  <2>6. CASE mode_length(i - 1) = 1
    <3>1. StillAtFirst[i - 1] \subseteq StillAtFirst[i]
      BY <2>2, <2>6, StillAtFirstDef
    <3>2. LastOf(i - 1) = <<i - 1, 0>>
      BY <2>6 DEF LastOf
    <3>3. Held(i - 1)
      BY <1>2, <2>1, <2>4, <3>2
    <3>4. QED
      BY <2>3, <3>1, <3>3
  <2>7. CASE mode_length(i - 1) # 1
    <3>1. HeldStill(LastOf(i - 1)) \subseteq StillAtFirst[i]
      BY <2>2, <2>7, StillAtFirstDef
    <3>2. TypeAt(LastOf(i - 1)) # "kAccelOnly"
      BY <2>1, <2>4 DEF MayMove
    <3>3. LastOf(i - 1)[1] = i - 1 /\ LastOf(i - 1)[2] > 0
      BY <2>5, <2>7 DEF LastOf
    <3>4. ~SkipsVelocity(LastOf(i - 1)[1], LastOf(i - 1)[2])
      BY <3>3 DEF SkipsVelocity
    <3>5. HeldStill(LastOf(i - 1)) = ToSet(get_mode(i - 1).evaluators)
      BY <2>1, <3>2, <3>3, <3>4, StillWhere
    <3>6. QED
      BY <2>3, <3>1, <3>5
  <2>8. QED
    BY <2>6, <2>7
<1> HIDE DEF Held
<1>3. 0 \in S
  BY <1>1
<1>4. ASSUME NEW n \in Nat, n \in S
      PROVE  n + 1 \in S
  <2>1. SUFFICES ASSUME n + 1 \in Modes, ~MayMove(<<n + 1, 0>>)
                 PROVE  Held(n + 1)
    OBVIOUS
  <2>2. n + 1 > 0 /\ (n + 1) - 1 = n
    OBVIOUS
  <2> HIDE DEF S
  <2>3. QED
    BY <1>1, <1>2, <1>4, <2>1, <2>2
<1>5. Nat \subseteq S
  <2> HIDE DEF S
  <2>1. QED
    BY <1>3, <1>4, SetInduction
<1>6. Modes \subseteq Nat
  BY ModesOf
<1>7. QED
  BY <1>5, <1>6 DEF Held

\* No contact slips.
LEMMA NothingSlips ==
  ASSUME BookInv
  PROVE  NoSlip
<1> SUFFICES ASSUME Constructed, NEW p \in Places,
                    \A p2 \in Places : positions(StateAt(p2)) = positions(StateAt(p))
                                           => TypeAt(p2) # "kAccelOnly"
             PROVE  ToSet(get_mode(p[1]).evaluators) \subseteq
                        IF p[2] = 0 THEN StillAtFirst[p[1]] ELSE HeldStill(p)
  BY Zenon DEF NoSlip
<1>1. p[1] \in Modes /\ p[2] \in Nat /\ p = <<p[1], p[2]>>
  BY PlacesOf
<1>2. ~MayMove(p)
  BY Zenon DEF MayMove
<1>3. CASE p[2] = 0
  <2>1. ~MayMove(<<p[1], 0>>)
    BY <1>1, <1>2, <1>3
  <2>2. QED
    BY <1>1, <1>3, <2>1, StillAtFirstKnots
<1>4. CASE p[2] # 0
  <2>1. ~SkipsVelocity(p[1], p[2])
    BY <1>1, <1>4 DEF SkipsVelocity
  <2>2. TypeAt(p) # "kAccelOnly"
    OBVIOUS
  <2>3. HeldStill(p) = ToSet(get_mode(p[1]).evaluators)
    BY <2>1, <2>2, StillWhere
  <2>4. QED
    BY <1>4, <2>3
<1>5. QED
  BY <1>3, <1>4

\* For any sequence of modes, also of one knot: the points of a mode's evaluators
\* stand still at each of its knots, at the first one after the impact, unless
\* somebody left velocities unconstrained there.
THEOREM DirconNoSlip == Spec => []NoSlip
<1>1. BookInv => NoSlip
  BY NothingSlips
<1>2. QED
  BY <1>1, DirconBook, PTL

------------------------------------------------------------------------------
(* Rows of positions. *)

\* The row of an evaluator's own row among those of the set.
RowAt(set, k, a) ==
    [evaluator |-> get_evaluator(set, k), own |-> a, row |-> evaluator_active_start(set, k) + a]

\* The evaluators of a set and their active rows.
LEMMA RowsOfSet ==
  ASSUME NEW set \in Seq(Evaluators)
  PROVE  /\ Len(set) \in Nat
         /\ \A k \in 0 .. Len(set) - 1 : /\ get_evaluator(set, k) \in Evaluators
                                         /\ get_evaluator(set, k) \in ToSet(set)
                                         /\ num_active(get_evaluator(set, k)) \in Nat
         /\ \A e \in ToSet(set) : \E k \in 0 .. Len(set) - 1 : get_evaluator(set, k) = e
<1>1. Len(set) \in Nat /\ DOMAIN set = 1 .. Len(set)
  OBVIOUS
<1>2. \A k \in 0 .. Len(set) - 1 : /\ get_evaluator(set, k) \in Evaluators
                                   /\ get_evaluator(set, k) \in ToSet(set)
  BY <1>1 DEF get_evaluator, ToSet
<1>3. \A k \in 0 .. Len(set) - 1 : num_active(get_evaluator(set, k)) \in Nat
  BY <1>2, EvaluatorAssumption DEF EvaluatorAssumption, num_active
<1>4. ASSUME NEW e \in ToSet(set)
      PROVE  \E k \in 0 .. Len(set) - 1 : get_evaluator(set, k) = e
  <2>1. PICK m \in 1 .. Len(set) : set[m] = e
    BY <1>1 DEF ToSet
  <2>2. m - 1 \in 0 .. Len(set) - 1 /\ get_evaluator(set, m - 1) = e
    BY <1>1, <2>1 DEF get_evaluator
  <2>3. QED
    BY <2>2
<1>5. QED
  BY <1>1, <1>2, <1>3, <1>4

\* The active rows of an evaluator end before those of a later one start.
LEMMA RowsAscend ==
  ASSUME NEW set \in Seq(Evaluators), NEW k \in 0 .. Len(set) - 1
  PROVE  /\ evaluator_active_start(set, k) \in Nat
         /\ evaluator_active_start(set, k) + num_active(get_evaluator(set, k)) <= count_active(set)
         /\ count_active(set) \in Nat
         /\ \A k2 \in 0 .. Len(set) - 1 : k < k2 =>
                evaluator_active_start(set, k) + num_active(get_evaluator(set, k))
                    <= evaluator_active_start(set, k2)
<1> DEFINE d == [m \in 1 .. Len(set) |-> num_active(set[m])]
<1>1. d \in Seq(Nat) /\ Len(d) = Len(set)
  BY EvaluatorAssumption DEF EvaluatorAssumption, num_active
<1>2. \A m \in 0 .. Len(set) : evaluator_active_start(set, m) = Accumulate(d)[m]
  BY DEF evaluator_active_start
<1>3. d[k + 1] = num_active(get_evaluator(set, k))
  BY DEF get_evaluator
<1>4. count_active(set) = Accumulate(d)[Len(set)]
  BY <1>2 DEF count_active
<1> HIDE DEF d
<1>5. Len(set) \in Nat /\ k \in 0 .. Len(set) /\ k + 1 \in 1 .. Len(d) /\ (k + 1) - 1 = k
      /\ k + 1 \in 0 .. Len(d) /\ Len(d) \in 0 .. Len(d) /\ k + 1 <= Len(d)
  BY <1>1
<1>6. Accumulate(d)[k + 1] = Accumulate(d)[k] + d[k + 1]
  <2>1. Accumulate(d)[k + 1] = Accumulate(d)[(k + 1) - 1] + d[k + 1]
    BY <1>1, <1>5, AccumulateStep
  <2>2. QED
    BY <1>5, <2>1
<1>7. Accumulate(d)[k] \in Nat /\ Accumulate(d)[Len(d)] \in Nat
  BY <1>1, <1>5, AccumulateNat
<1>8. Accumulate(d)[k + 1] <= Accumulate(d)[Len(d)]
  BY <1>1, <1>5, AccumulateAscends
<1>9. ASSUME NEW k2 \in 0 .. Len(set) - 1, k < k2
      PROVE  Accumulate(d)[k + 1] <= Accumulate(d)[k2]
  <2>1. k2 \in 0 .. Len(d) /\ k + 1 <= k2
    BY <1>1, <1>5, <1>9
  <2>2. QED
    BY <1>1, <1>5, <2>1, AccumulateAscends
<1>10. evaluator_active_start(set, k) + num_active(get_evaluator(set, k)) = Accumulate(d)[k + 1]
  BY <1>2, <1>3, <1>5, <1>6
<1>11. evaluator_active_start(set, k) \in Nat /\ count_active(set) \in Nat
  BY <1>1, <1>2, <1>4, <1>5, <1>7
<1>12. evaluator_active_start(set, k) + num_active(get_evaluator(set, k)) <= count_active(set)
  BY <1>1, <1>4, <1>8, <1>10
<1>13. ASSUME NEW k2 \in 0 .. Len(set) - 1, k < k2
       PROVE  evaluator_active_start(set, k) + num_active(get_evaluator(set, k))
                  <= evaluator_active_start(set, k2)
  <2>1. k2 \in 0 .. Len(set)
    BY <1>5
  <2>2. QED
    BY <1>2, <1>9, <1>10, <1>13, <2>1
<1>14. QED
  BY <1>11, <1>12, <1>13

\* A row belongs to one evaluator.
LEMMA RowsApart ==
  ASSUME NEW set \in Seq(Evaluators),
         NEW k \in 0 .. Len(set) - 1, NEW a \in 0 .. num_active(get_evaluator(set, k)) - 1,
         NEW k2 \in 0 .. Len(set) - 1, NEW a2 \in 0 .. num_active(get_evaluator(set, k2)) - 1,
         evaluator_active_start(set, k) + a = evaluator_active_start(set, k2) + a2
  PROVE  k = k2
<1> DEFINE s == evaluator_active_start(set, k)
           s2 == evaluator_active_start(set, k2)
           n == num_active(get_evaluator(set, k))
           n2 == num_active(get_evaluator(set, k2))
<1>1. n \in Nat /\ n2 \in Nat /\ s \in Nat /\ s2 \in Nat /\ Len(set) \in Nat
  BY RowsOfSet, RowsAscend
<1>2. (k < k2 => s + n <= s2) /\ (k2 < k => s2 + n2 <= s)
  BY RowsAscend
<1>3. a \in 0 .. n - 1 /\ a2 \in 0 .. n2 - 1 /\ s + a = s2 + a2
  OBVIOUS
<1> HIDE DEF s, s2, n, n2
<1>4. QED
  BY <1>1, <1>2, <1>3

\* A shared row is one whose evaluator is in the other set as well.
LEMMA SharedRow ==
  ASSUME NEW set, NEW other \in Seq(Evaluators),
         NEW k \in 0 .. Len(other) - 1, NEW a \in 0 .. num_active(get_evaluator(other, k)) - 1
  PROVE  evaluator_active_start(other, k) + a \in FindActiveIndicesUnion(set, other)
             <=> get_evaluator(other, k) \in ToSet(set)
<1>1. \A x : x \in FindActiveIndicesUnion(set, other) <=>
          \E i \in 0 .. Len(other) - 1 :
              /\ get_evaluator(other, i) \in ToSet(set)
              /\ \E j \in 0 .. num_active(get_evaluator(other, i)) - 1 :
                     x = evaluator_active_start(other, i) + j
  BY DEF FindActiveIndicesUnion
<1>2. QED
  BY <1>1, RowsApart

\* The rows of a mode.
LEMMA RowsOfMode ==
  ASSUME BookInv, Constructed, NEW i \in Modes
  PROVE  \A r : r \in RowsOf(i) <=>
             \E k \in 0 .. Len(get_mode(i).evaluators) - 1 :
                 \E a \in 0 .. num_active(get_evaluator(get_mode(i).evaluators, k)) - 1 :
                     r = RowAt(get_mode(i).evaluators, k, a)
<1> DEFINE set == get_mode(i).evaluators
<1>1. RowsOf(i) = UNION {{RowAt(set, k, a) : a \in 0 .. num_active(get_evaluator(set, k)) - 1} :
                            k \in 0 .. Len(set) - 1}
  BY Zenon DEF RowsOf, RowAt
<1> HIDE DEF set
<1>2. \A r : r \in RowsOf(i) <=>
          \E k \in 0 .. Len(set) - 1 : \E a \in 0 .. num_active(get_evaluator(set, k)) - 1 :
              r = RowAt(set, k, a)
  BY <1>1
<1>3. QED
  BY <1>2 DEF set

\* The same row at the same place is had and held by the same modes.
LEMMA SameRowSamePlace ==
  ASSUME NEW p, NEW p2, NEW r, NEW r2,
         positions(StateAt(p)) = positions(StateAt(p2)), SameRow(r, r2)
  PROVE  /\ Having(p, r) = Having(p2, r2)
         /\ \A i : HoldsRow(i, p, r) <=> HoldsRow(i, p2, r2)
         /\ \A i : Relative(i, r) <=> Relative(i, r2)
<1>1. \A own : SameRow(own, r) <=> SameRow(own, r2)
  BY DEF SameRow
<1>2. SamePlace(p) = SamePlace(p2)
  BY DEF SamePlace
<1>3. QED
  BY <1>1, <1>2 DEF Having, HoldsRow, Relative

\* A mode holds a row at a knot if it constrains the position and does not skip the row.
LEMMA HoldsWhere ==
  ASSUME BookInv, Constructed, NEW p \in Places, TypeAt(p) = "kAll",
         NEW r \in RowsOf(p[1]), r.row \notin SkippedRows(p[1], p[2])
  PROVE  HoldsRow(p[1], p, r)
<1>1. p[1] \in Modes /\ p[2] \in 0 .. mode_length(p[1]) - 1
  BY PlacesOf
<1> DEFINE i == p[1]
           set == get_mode(i).evaluators
           c == PositionAt(p[1], p[2])
<1>2. c \in Constraints("position")
  BY <1>1, PositionsOf DEF TypeAt
<1>3. c.mode = p[1] /\ c.q = positions(StateAt(p))
      /\ c.rows = (0 .. count_active(set) - 1) \ SkippedRows(p[1], p[2])
  BY DEF PositionAt, StateAt
<1>4. r.row \in 0 .. count_active(set) - 1
  <2>1. set \in Seq(Evaluators)
    BY <1>1, ModesOf
  <2>2. PICK k \in 0 .. Len(set) - 1 : \E a \in 0 .. num_active(get_evaluator(set, k)) - 1 : r = RowAt(set, k, a)
    BY <1>1, RowsOfMode
  <2>3. PICK a \in 0 .. num_active(get_evaluator(set, k)) - 1 : r = RowAt(set, k, a)
    BY <2>2
  <2>4. r.row = evaluator_active_start(set, k) + a
    BY <2>3 DEF RowAt
  <2> DEFINE n == num_active(get_evaluator(set, k))
             s == evaluator_active_start(set, k)
             all == count_active(set)
  <2>5. n \in Nat /\ s \in Nat /\ all \in Nat /\ s + n <= all
    BY <2>1, RowsOfSet, RowsAscend
  <2>6. a \in 0 .. n - 1 /\ r.row = s + a
    BY <2>3, <2>4
  <2> HIDE DEF n, s, all
  <2>7. r.row \in 0 .. all - 1
    BY <2>5, <2>6
  <2>8. QED
    BY <2>7 DEF all
<1>5. SameRow(r, r)
  BY DEF SameRow
<1> HIDE DEF c, set
<1>6. r.row \in c.rows
  BY <1>3, <1>4
<1>7. QED
  BY <1>2, <1>3, <1>5, <1>6, Zenon DEF HoldsRow

Wanted(p, r) == \A p2 \in Having(p, r) : TypeAt(p2) = "kAll" /\ ~Relative(p2[1], r)

HeldBySome(p, r) == \E p2 \in Having(p, r) : HoldsRow(p2[1], p, r)

\* Every row of a mode is held at each of its knots, by induction on the modes.
LEMMA RowsHeld ==
  ASSUME BookInv, Constructed
  PROVE  \A p \in Places : \A r \in RowsOf(p[1]) : Wanted(p, r) => HeldBySome(p, r)
<1> DEFINE Held(i) == \A p \in Places : p[1] = i =>
                          \A r \in RowsOf(p[1]) : Wanted(p, r) => HeldBySome(p, r)
           S == {n \in Nat : Held(n)}
<1>1. ASSUME NEW p \in Places, NEW r \in RowsOf(p[1]), Wanted(p, r)
      PROVE  p \in Having(p, r) /\ TypeAt(p) = "kAll"
  BY <1>1 DEF Having, SamePlace, SameRow, Wanted
<1>2. ASSUME NEW p \in Places, NEW r \in RowsOf(p[1]), Wanted(p, r),
             r.row \notin SkippedRows(p[1], p[2])
      PROVE  HeldBySome(p, r)
  BY <1>1, <1>2, HoldsWhere DEF HeldBySome
<1>3. ASSUME NEW p \in Places, NEW r \in RowsOf(p[1]), Wanted(p, r),
             r.row \in SkippedRows(p[1], p[2]), Held(p[1] - 1)
      PROVE  HeldBySome(p, r)
  <2>1. p[1] \in Modes /\ p[2] = 0 /\ p[1] > 0
        /\ r.row \in FindActiveIndicesUnion(get_mode(p[1] - 1).evaluators, get_mode(p[1]).evaluators)
    BY <1>3, PlacesOf DEF SkippedRows
  <2> DEFINE i == p[1]
             set == get_mode(i).evaluators
             before == get_mode(i - 1).evaluators
             last == LastOf(i - 1)
  <2>2. /\ i - 1 \in Modes /\ last \in Places /\ positions(StateAt(p)) = positions(StateAt(last))
        /\ last[1] = i - 1
    <3>1. p = <<i, 0>>
      BY <2>1, PlacesOf
    <3>2. QED
      BY <2>1, <3>1, SharedKnot DEF LastOf
  <2>3. set \in Seq(Evaluators) /\ before \in Seq(Evaluators)
    BY <2>1, <2>2, ModesOf
  <2>4. PICK k \in 0 .. Len(set) - 1 : \E a \in 0 .. num_active(get_evaluator(set, k)) - 1 : r = RowAt(set, k, a)
    BY <2>1, RowsOfMode
  <2>5. PICK a \in 0 .. num_active(get_evaluator(set, k)) - 1 : r = RowAt(set, k, a)
    BY <2>4
  <2>6. r.row = evaluator_active_start(set, k) + a /\ r.evaluator = get_evaluator(set, k) /\ r.own = a
    BY <2>5 DEF RowAt
  <2>7. get_evaluator(set, k) \in ToSet(before)
    BY <2>1, <2>3, <2>6, SharedRow
  <2>8. PICK k2 \in 0 .. Len(before) - 1 : get_evaluator(before, k2) = get_evaluator(set, k)
    BY <2>3, <2>7, RowsOfSet
  <2> DEFINE r2 == RowAt(before, k2, a)
  <2>9. r2 \in RowsOf(i - 1)
    BY <2>2, <2>8, RowsOfMode
  <2>10. SameRow(r, r2)
    BY <2>6, <2>8 DEF SameRow, RowAt
  <2> HIDE DEF r2, last, set, before
  <2>11. Wanted(last, r2)
    BY <1>3, <2>2, <2>10, SameRowSamePlace DEF Wanted
  <2>12. HeldBySome(last, r2)
    BY <1>3, <2>2, <2>9, <2>11
  <2>13. QED
    BY <2>2, <2>10, <2>12, SameRowSamePlace DEF HeldBySome
<1>4. ASSUME NEW p \in Places
      PROVE  p[1] \in Nat /\ (p[1] = 0 => SkippedRows(p[1], p[2]) = {})
  BY PlacesOf, ModesOf DEF SkippedRows
<1> HIDE DEF Held
<1>5. 0 \in S
  BY <1>2, <1>4 DEF Held
<1>6. ASSUME NEW n \in Nat, n \in S
      PROVE  n + 1 \in S
  <2>1. SUFFICES ASSUME NEW p \in Places, p[1] = n + 1, NEW r \in RowsOf(p[1]), Wanted(p, r)
                 PROVE  HeldBySome(p, r)
    BY DEF Held
  <2>2. p[1] - 1 = n
    BY <2>1
  <2>3. Held(p[1] - 1)
    BY <1>6, <2>2
  <2>4. QED
    BY <1>2, <1>3, <2>1, <2>3
<1>7. Nat \subseteq S
  <2> HIDE DEF S
  <2>1. QED
    BY <1>5, <1>6, SetInduction
<1>8. QED
  BY <1>4, <1>7 DEF Held

\* No row is held by a mode and by the next.
LEMMA RowsOnce ==
  ASSUME BookInv, Constructed, NEW p \in Places, NEW r \in RowsOf(p[1]), p[1] + 1 \in Modes
  PROVE  ~(HoldsRow(p[1], p, r) /\ HoldsRow(p[1] + 1, p, r))
<1> DEFINE i == p[1]
           set == get_mode(i).evaluators
           next == get_mode(i + 1).evaluators
<1>1. /\ i \in Modes /\ p[2] \in 0 .. mode_length(i) - 1 /\ p[2] \in Nat
      /\ i + 1 \in Modes /\ i + 1 > 0 /\ (i + 1) - 1 = i
  <2>1. i \in Modes /\ p[2] \in 0 .. mode_length(i) - 1 /\ p[2] \in Nat
    BY PlacesOf
  <2>2. Modes = 0 .. num_modes - 1 /\ num_modes \in Nat
    BY ModesOf
  <2> HIDE DEF i
  <2>3. i \in Nat
    BY <2>1, <2>2
  <2>4. i + 1 > 0 /\ (i + 1) - 1 = i
    BY <2>3
  <2>5. QED
    BY <2>1, <2>4 DEF i
<1>2. /\ start(i + 1) = start(i) + mode_length(i) - 1 /\ start(i) \in Nat
      /\ mode_length(i) \in Nat \ {0} /\ set \in Seq(Evaluators) /\ next \in Seq(Evaluators)
  <2>1. start(i + 1) = start((i + 1) - 1) + mode_length((i + 1) - 1) - 1
    BY <1>1, ModesOf
  <2>2. QED
    BY <1>1, <2>1, ModesOf
<1>3. SUFFICES ASSUME HoldsRow(i + 1, p, r) PROVE FALSE
  OBVIOUS
<1>4. PICK c \in Constraints("position"), own \in RowsOf(i + 1) :
          c.mode = i + 1 /\ c.q = positions(StateAt(p)) /\ own.row \in c.rows /\ SameRow(own, r)
  BY <1>3, Zenon DEF HoldsRow
<1>5. PICK i2 \in Modes : \E j2 \in 0 .. mode_length(i2) - 1 : c = PositionAt(i2, j2)
  BY PositionsOf
<1>6. PICK j2 \in 0 .. mode_length(i2) - 1 : c = PositionAt(i2, j2)
  BY <1>5
<1>7. /\ c.mode = i2 /\ c.q = positions(StateAt(<<i2, j2>>))
      /\ c.rows = (0 .. count_active(get_mode(i2).evaluators) - 1) \ SkippedRows(i2, j2)
  BY <1>6 DEF PositionAt, StateAt
<1>8. i2 = i + 1 /\ j2 \in Nat /\ <<i2, j2>> \in Places
  <2>1. mode_length(i2) \in Nat \ {0}
    BY ModesOf
  <2>2. i2 = i + 1
    BY <1>4, <1>7
  <2>3. QED
    BY <2>1, <2>2, PlacesOf
<1>9. start(i2) + j2 = start(i) + p[2]
  <2>1. positions(StateAt(<<i2, j2>>)) = positions(StateAt(p))
    BY <1>4, <1>7
  <2>2. start(<<i2, j2>>[1]) + <<i2, j2>>[2] = start(p[1]) + p[2]
    BY <1>8, <2>1, SamePositions
  <2>3. QED
    BY <2>2
<1>10. j2 = 0
  BY <1>1, <1>2, <1>8, <1>9
<1>11. own.row \notin FindActiveIndicesUnion(set, next)
  BY <1>1, <1>4, <1>7, <1>8, <1>10 DEF SkippedRows
<1>12. PICK k \in 0 .. Len(next) - 1 : \E a \in 0 .. num_active(get_evaluator(next, k)) - 1 : own = RowAt(next, k, a)
  BY <1>1, RowsOfMode
<1>13. PICK a \in 0 .. num_active(get_evaluator(next, k)) - 1 : own = RowAt(next, k, a)
  BY <1>12
<1>14. own.row = evaluator_active_start(next, k) + a /\ own.evaluator = get_evaluator(next, k)
  BY <1>13 DEF RowAt
<1>15. r.evaluator \in ToSet(set)
  <2>1. PICK k0 \in 0 .. Len(set) - 1 : \E a0 \in 0 .. num_active(get_evaluator(set, k0)) - 1 : r = RowAt(set, k0, a0)
    BY <1>1, RowsOfMode
  <2>2. r.evaluator = get_evaluator(set, k0)
    BY <2>1 DEF RowAt
  <2>3. set \in Seq(Evaluators)
    BY <1>2
  <2> HIDE DEF set
  <2>4. get_evaluator(set, k0) \in ToSet(set)
    BY <2>3, RowsOfSet
  <2>5. QED
    BY <2>2, <2>4
<1>16. get_evaluator(next, k) \in ToSet(set)
  BY <1>4, <1>14, <1>15 DEF SameRow
<1>17. own.row \in FindActiveIndicesUnion(set, next)
  BY <1>2, <1>14, <1>16, SharedRow
<1>18. QED
  BY <1>11, <1>17

\* For any sets of evaluators with any active rows and any lengths: every active
\* row of a mode is held at each of its knots, by it or by another mode that has
\* the knot, unless somebody asked for less, and never by a mode and the next.
THEOREM DirconContactHeld == Spec => []ContactHeld
<1>1. BookInv => ContactHeld
  <2>1. SUFFICES ASSUME BookInv, Constructed, NEW p \in Places, NEW r \in RowsOf(p[1])
                 PROVE  /\ Wanted(p, r) => HeldBySome(p, r)
                        /\ p[1] + 1 \in Modes => ~(HoldsRow(p[1], p, r) /\ HoldsRow(p[1] + 1, p, r))
    BY Zenon DEF ContactHeld, Wanted, HeldBySome
  <2>2. QED
    BY <2>1, RowsHeld, RowsOnce
<1>2. QED
  BY <1>1, DirconBook, PTL

------------------------------------------------------------------------------
(* One duration for a mode. *)

\* A set that is numbered without repetition has as many elements as numbers.
LEMMA CountNumbered ==
  ASSUME NEW n \in Nat, NEW T, NEW f \in [1 .. n -> T],
         \A a, b \in 1 .. n : f[a] = f[b] => a = b,
         \A t \in T : \E a \in 1 .. n : f[a] = t
  PROVE  Cardinality(T) = n
<1>1. IsFiniteSet(1 .. n) /\ Cardinality(1 .. n) = n
  BY FS_Interval
<1>2. f \in Bijection(1 .. n, T)
  BY DEF Bijection, Injection, Surjection, IsInjective
<1>3. ExistsBijection(1 .. n, T)
  BY <1>2 DEF ExistsBijection
<1>4. QED
  BY <1>1, <1>3, FS_Bijection

\* Steps are told apart by their index.
LEMMA TimestepsApart == \A a, b : timestep(a) = timestep(b) => a = b
  BY DEF timestep

StepsIn(i) == {timestep(start(i) + j) : j \in 0 .. mode_length(i) - 2}

\* Every step is one of a mode,
LEMMA StepWhere ==
  ASSUME BookInv, Constructed, NEW k \in 0 .. Knots - 2
  PROVE  \E i \in Modes : timestep(k) \in StepsIn(i)
<1> DEFINE S == {n \in Nat : n \in Modes => \A m \in 0 .. start(n) + mode_length(n) - 2 :
                    \E i \in Modes : timestep(m) \in StepsIn(i)}
<1>1. ASSUME NEW n \in Modes, NEW m \in Int, m >= start(n), m <= start(n) + mode_length(n) - 2
      PROVE  timestep(m) \in StepsIn(n)
  <2>1. start(n) \in Nat /\ mode_length(n) \in Nat \ {0}
    BY ModesOf
  <2>2. m - start(n) \in 0 .. mode_length(n) - 2 /\ start(n) + (m - start(n)) = m
    BY <1>1, <2>1
  <2>3. QED
    BY <2>2 DEF StepsIn
<1>2. 0 \in S
  <2>1. SUFFICES ASSUME 0 \in Modes, NEW m \in 0 .. start(0) + mode_length(0) - 2
                 PROVE  timestep(m) \in StepsIn(0)
    OBVIOUS
  <2>2. start(0) = 0 /\ mode_length(0) \in Nat
    BY <2>1, ModesOf
  <2>3. QED
    BY <1>1, <2>1, <2>2
<1>3. ASSUME NEW n \in Nat, n \in S
      PROVE  n + 1 \in S
  <2>1. SUFFICES ASSUME n + 1 \in Modes, NEW m \in 0 .. start(n + 1) + mode_length(n + 1) - 2
                 PROVE  \E i \in Modes : timestep(m) \in StepsIn(i)
    OBVIOUS
  <2>2. n \in Modes /\ (n + 1) - 1 = n /\ n + 1 > 0
    BY <2>1, ModesOf
  <2>3. start(n + 1) = start((n + 1) - 1) + mode_length((n + 1) - 1) - 1
    BY <2>1, <2>2, ModesOf
  <2>4. /\ start(n) \in Nat /\ mode_length(n) \in Nat
        /\ start(n + 1) \in Nat /\ mode_length(n + 1) \in Nat
        /\ start(n + 1) = start(n) + mode_length(n) - 1
    BY <2>1, <2>2, <2>3, ModesOf
  <2>5. CASE m >= start(n + 1)
    BY <1>1, <2>1, <2>4, <2>5
  <2>6. CASE m < start(n + 1)
    <3>1. m \in 0 .. start(n) + mode_length(n) - 2
      BY <2>1, <2>4, <2>6
    <3>2. QED
      BY <1>3, <2>2, <3>1
  <2>7. QED
    BY <2>1, <2>4, <2>5, <2>6
<1>4. Nat \subseteq S
  <2> HIDE DEF S
  <2>1. QED
    BY <1>2, <1>3, SetInduction
<1>5. num_modes - 1 \in Nat /\ num_modes - 1 \in Modes
  BY ModesOf
<1>6. k \in 0 .. start(num_modes - 1) + mode_length(num_modes - 1) - 2
  <2>1. Knots - 1 = start(num_modes - 1) + mode_length(num_modes - 1) - 1 /\ Knots \in Nat
    BY KnotsOf
  <2>2. start(num_modes - 1) \in Nat /\ mode_length(num_modes - 1) \in Nat
    BY <1>5, ModesOf
  <2>3. QED
    BY <2>1, <2>2
<1>7. QED
  BY <1>4, <1>5, <1>6

\* and of no other mode.
LEMMA StepOfOne ==
  ASSUME BookInv, Constructed, NEW i \in Modes, NEW k \in Modes,
         NEW t, t \in StepsIn(i), t \in StepsIn(k)
  PROVE  i = k
<1>1. PICK a \in 0 .. mode_length(i) - 2 : t = timestep(start(i) + a)
  BY DEF StepsIn
<1>2. PICK b \in 0 .. mode_length(k) - 2 : t = timestep(start(k) + b)
  BY DEF StepsIn
<1>3. start(i) + a = start(k) + b
  BY <1>1, <1>2, TimestepsApart
<1>4. /\ start(i) \in Nat /\ mode_length(i) \in Nat /\ start(k) \in Nat /\ mode_length(k) \in Nat
      /\ i \in Nat /\ k \in Nat
  BY ModesOf
<1>5. ~(i < k)
  <2>1. i < k => start(i) + mode_length(i) - 1 <= start(k)
    BY StartsAscend
  <2>2. QED
    BY <1>3, <1>4, <2>1
<1>6. ~(k < i)
  <2>1. k < i => start(k) + mode_length(k) - 1 <= start(i)
    BY StartsAscend
  <2>2. QED
    BY <1>3, <1>4, <2>1
<1>7. QED
  BY <1>4, <1>5, <1>6

\* The pairs of steps of a mode.
PairsIn(i) == {{timestep(start(i) + j), timestep(start(i) + j + 1)} : j \in 0 .. mode_length(i) - 3}

TiedPairs == {c.steps : c \in Constraints("equal")}

\* What is made equal are the pairs of the modes,
LEMMA TiedPairsOf ==
  ASSUME BookInv, Constructed
  PROVE  \A p : p \in TiedPairs <=> \E i \in Modes : p \in PairsIn(i)
<1>1. ASSUME NEW p
      PROVE  p \in TiedPairs <=> \E c \in Constraints("equal") : p = c.steps
  BY Zenon DEF TiedPairs
<1>2. \A i, j : EqualAt(i, j).steps = {timestep(start(i) + j), timestep(start(i) + j + 1)}
  BY DEF EqualAt
<1>3. ASSUME NEW p, NEW i
      PROVE  p \in PairsIn(i) <=> \E j \in 0 .. mode_length(i) - 3 : p = EqualAt(i, j).steps
  BY <1>2, Zenon DEF PairsIn
<1>4. ASSUME NEW p
      PROVE  p \in TiedPairs <=>
                 \E i \in Modes : \E j \in 0 .. mode_length(i) - 3 : p = EqualAt(i, j).steps
  <2>1. ASSUME p \in TiedPairs
        PROVE  \E i \in Modes : \E j \in 0 .. mode_length(i) - 3 : p = EqualAt(i, j).steps
    <3>1. PICK c \in Constraints("equal") : p = c.steps
      BY <1>1, <2>1
    <3>2. PICK i \in Modes : \E j \in 0 .. mode_length(i) - 3 : c = EqualAt(i, j)
      BY TimestepsOf
    <3>3. QED
      BY <3>1, <3>2
  <2>2. ASSUME NEW i \in Modes, NEW j \in 0 .. mode_length(i) - 3, p = EqualAt(i, j).steps
        PROVE  p \in TiedPairs
    <3>1. EqualAt(i, j) \in Constraints("equal")
      BY TimestepsOf
    <3>2. QED
      BY <1>1, <2>2, <3>1
  <2>3. QED
    BY <2>1, <2>2
<1>5. QED
  BY <1>3, <1>4, Zenon

\* which are made of steps of their own mode.
LEMMA PairWithin ==
  ASSUME BookInv, Constructed, NEW i \in Modes, NEW p \in PairsIn(i)
  PROVE  p \subseteq StepsIn(i) /\ p # {}
<1>1. PICK j \in 0 .. mode_length(i) - 3 : p = {timestep(start(i) + j), timestep(start(i) + j + 1)}
  BY Zenon DEF PairsIn
<1>2. start(i) \in Nat /\ mode_length(i) \in Nat
  BY ModesOf
<1>3. /\ j \in 0 .. mode_length(i) - 2 /\ j + 1 \in 0 .. mode_length(i) - 2
      /\ start(i) + (j + 1) = start(i) + j + 1
  BY <1>2
<1>4. QED
  BY <1>1, <1>3 DEF StepsIn

\* So the pairs among the steps of a mode are its own.
LEMMA TiedWithin ==
  ASSUME BookInv, Constructed, NEW i \in Modes
  PROVE  {p \in TiedPairs : p \subseteq StepsIn(i)} = PairsIn(i)
<1>1. ASSUME NEW p \in TiedPairs, p \subseteq StepsIn(i)
      PROVE  p \in PairsIn(i)
  <2>1. PICK k \in Modes : p \in PairsIn(k)
    BY TiedPairsOf
  <2>2. p \subseteq StepsIn(k) /\ p # {}
    BY <2>1, PairWithin
  <2>3. i = k
    BY <1>1, <2>2, StepOfOne
  <2>4. QED
    BY <2>1, <2>3
<1>2. QED
  BY <1>1, TiedPairsOf, PairWithin

\* A mode has one step less than knots.
LEMMA CountSteps ==
  ASSUME BookInv, Constructed, NEW i \in Modes
  PROVE  Cardinality(StepsIn(i)) = mode_length(i) - 1
<1> DEFINE n == mode_length(i) - 1
           f == [a \in 1 .. n |-> timestep(start(i) + (a - 1))]
<1>1. start(i) \in Nat /\ mode_length(i) \in Nat \ {0} /\ n \in Nat
  BY ModesOf
<1>2. \A a \in 1 .. n : a - 1 \in 0 .. mode_length(i) - 2
  BY <1>1
<1>3. f \in [1 .. n -> StepsIn(i)]
  BY <1>2 DEF StepsIn
<1>4. \A a, b \in 1 .. n : f[a] = f[b] => a = b
  <2>1. SUFFICES ASSUME NEW a \in 1 .. n, NEW b \in 1 .. n, f[a] = f[b]
                 PROVE  a = b
    OBVIOUS
  <2>2. start(i) + (a - 1) = start(i) + (b - 1)
    BY <2>1, TimestepsApart
  <2>3. QED
    BY <1>1, <2>2
<1>5. \A t \in StepsIn(i) : \E a \in 1 .. n : f[a] = t
  <2>1. SUFFICES ASSUME NEW j \in 0 .. mode_length(i) - 2
                 PROVE  \E a \in 1 .. n : f[a] = timestep(start(i) + j)
    BY DEF StepsIn
  <2>2. j + 1 \in 1 .. n /\ (j + 1) - 1 = j
    BY <1>1
  <2>3. QED
    BY <2>2
<1> HIDE DEF f, n
<1>6. Cardinality(StepsIn(i)) = n
  BY <1>1, <1>3, <1>4, <1>5, CountNumbered
<1>7. QED
  BY <1>6 DEF n

\* and one pair less than steps.
LEMMA CountPairs ==
  ASSUME BookInv, Constructed, NEW i \in Modes, mode_length(i) > 1
  PROVE  Cardinality(PairsIn(i)) = mode_length(i) - 2
<1> DEFINE n == mode_length(i) - 2
           pair(j) == {timestep(start(i) + j), timestep(start(i) + j + 1)}
           f == [a \in 1 .. n |-> pair(a - 1)]
<1>1. start(i) \in Nat /\ mode_length(i) \in Nat \ {0} /\ n \in Nat
  BY ModesOf
<1>2. \A a \in 1 .. n : a - 1 \in 0 .. mode_length(i) - 3
  BY <1>1
<1>3. PairsIn(i) = {pair(j) : j \in 0 .. mode_length(i) - 3}
  BY Zenon DEF PairsIn
<1>4. ASSUME NEW a \in 1 .. n, NEW b \in 1 .. n, pair(a - 1) = pair(b - 1)
      PROVE  a = b
  <2>1. timestep(start(i) + (a - 1)) \in pair(a - 1) /\ timestep(start(i) + (a - 1) + 1) \in pair(a - 1)
    OBVIOUS
  <2>2. \/ timestep(start(i) + (a - 1)) = timestep(start(i) + (b - 1))
        \/ timestep(start(i) + (a - 1)) = timestep(start(i) + (b - 1) + 1)
    BY <1>4, <2>1
  <2>3. \/ timestep(start(i) + (a - 1) + 1) = timestep(start(i) + (b - 1))
        \/ timestep(start(i) + (a - 1) + 1) = timestep(start(i) + (b - 1) + 1)
    BY <1>4, <2>1
  <2>4. \/ start(i) + (a - 1) = start(i) + (b - 1)
        \/ start(i) + (a - 1) = start(i) + (b - 1) + 1
    BY <2>2, TimestepsApart
  <2>5. \/ start(i) + (a - 1) + 1 = start(i) + (b - 1)
        \/ start(i) + (a - 1) + 1 = start(i) + (b - 1) + 1
    BY <2>3, TimestepsApart
  <2>6. QED
    BY <1>1, <2>4, <2>5
<1> HIDE DEF pair
<1>5. f \in [1 .. n -> PairsIn(i)]
  BY <1>2, <1>3
<1>6. \A a, b \in 1 .. n : f[a] = f[b] => a = b
  BY <1>4
<1>7. \A t \in PairsIn(i) : \E a \in 1 .. n : f[a] = t
  <2>1. SUFFICES ASSUME NEW j \in 0 .. mode_length(i) - 3
                 PROVE  \E a \in 1 .. n : f[a] = pair(j)
    BY <1>3
  <2>2. j + 1 \in 1 .. n /\ (j + 1) - 1 = j
    BY <1>1
  <2>3. QED
    BY <2>2
<1> HIDE DEF f, n
<1>8. Cardinality(PairsIn(i)) = n
  BY <1>1, <1>5, <1>6, <1>7, CountNumbered
<1>9. QED
  BY <1>8 DEF n

\* The bound on a step of a mode is that on its first.
LEMMA BoundWithin ==
  ASSUME BookInv, Constructed, NEW i \in Modes
  PROVE  /\ mode_length(i) > 1 => {c \in Constraints("bounds") : c.step \in StepsIn(i)} = {BoundsAt(i)}
         /\ mode_length(i) = 1 => {c \in Constraints("bounds") : c.step \in StepsIn(i)} = {}
<1>1. ASSUME NEW k \in Modes, mode_length(k) > 1
      PROVE  BoundsAt(k).step \in StepsIn(k)
  <2>1. start(k) \in Nat /\ mode_length(k) \in Nat
    BY ModesOf
  <2>2. 0 \in 0 .. mode_length(k) - 2 /\ start(k) + 0 = start(k)
    BY <1>1, <2>1
  <2>3. timestep(start(k)) \in StepsIn(k)
    BY <2>2 DEF StepsIn
  <2>4. QED
    BY <2>3 DEF BoundsAt
<1>2. ASSUME NEW c \in Constraints("bounds"), c.step \in StepsIn(i)
      PROVE  c = BoundsAt(i) /\ mode_length(i) > 1
  <2>1. PICK k \in Modes : mode_length(k) > 1 /\ c = BoundsAt(k)
    BY TimestepsOf
  <2>2. c.step \in StepsIn(k)
    BY <1>1, <2>1
  <2>3. i = k
    BY <1>2, <2>2, StepOfOne
  <2>4. QED
    BY <2>1, <2>3
<1>3. mode_length(i) > 1 => BoundsAt(i) \in Constraints("bounds")
  BY TimestepsOf
<1>4. mode_length(i) \in Nat \ {0}
  BY ModesOf
<1>5. QED
  BY <1>1, <1>2, <1>3, <1>4

\* The invariant ties the steps of each mode together, and no others.
LEMMA StepsTied == BookInv => StepsOfMode
<1> SUFFICES ASSUME BookInv, Constructed PROVE StepsOfMode
  BY DEF StepsOfMode
<1>1. UNION {StepsIn(i) : i \in Modes} = {timestep(k) : k \in 0 .. Knots - 2}
  <2>1. ASSUME NEW i \in Modes, NEW j \in 0 .. mode_length(i) - 2
        PROVE  start(i) + j \in 0 .. Knots - 2
    <3>1. start(i) \in Nat /\ mode_length(i) \in Nat
      BY ModesOf
    <3>2. start(i) + mode_length(i) - 1 <= Knots - 1 /\ Knots \in Nat
      BY EndsWithin, KnotsOf
    <3>3. QED
      BY <3>1, <3>2
  <2>2. ASSUME NEW i \in Modes, NEW t \in StepsIn(i)
        PROVE  t \in {timestep(k) : k \in 0 .. Knots - 2}
    BY <2>1, <2>2 DEF StepsIn
  <2>3. QED
    BY <2>2, StepWhere
<1>2. ASSUME NEW i \in Modes
      PROVE  Cardinality({p \in TiedPairs : p \subseteq StepsIn(i)}) = Cardinality(StepsIn(i))
                 - Cardinality({c \in Constraints("bounds") : c.step \in StepsIn(i)})
  <2>1. mode_length(i) \in Nat \ {0} /\ Cardinality(StepsIn(i)) = mode_length(i) - 1
    BY ModesOf, CountSteps
  <2>2. CASE mode_length(i) > 1
    <3>1. Cardinality({p \in TiedPairs : p \subseteq StepsIn(i)}) = mode_length(i) - 2
      BY <2>2, TiedWithin, CountPairs
    <3>2. Cardinality({c \in Constraints("bounds") : c.step \in StepsIn(i)}) = 1
      BY <2>2, BoundWithin, FS_Singleton
    <3>3. QED
      BY <2>1, <3>1, <3>2
  <2>3. CASE mode_length(i) = 1
    <3>1. PairsIn(i) = {}
      BY <2>3 DEF PairsIn
    <3>2. Cardinality({p \in TiedPairs : p \subseteq StepsIn(i)}) = 0
      BY <3>1, TiedWithin, FS_EmptySet
    <3>3. Cardinality({c \in Constraints("bounds") : c.step \in StepsIn(i)}) = 0
      BY <2>3, BoundWithin, FS_EmptySet
    <3>4. QED
      BY <2>1, <2>3, <3>2, <3>3
  <2>4. QED
    BY <2>1, <2>2, <2>3
<1>3. ASSUME NEW i \in Modes, StepsIn(i) # {}
      PROVE  \E c \in Constraints("bounds") : c.step \in StepsIn(i)
  <2>1. mode_length(i) \in Nat \ {0} /\ mode_length(i) # 1
    BY <1>3, ModesOf DEF StepsIn
  <2>2. QED
    BY <2>1, BoundWithin
<1>4. \A p \in TiedPairs : \E i \in Modes : p \subseteq StepsIn(i)
  BY TiedPairsOf, PairWithin
<1>5. QED
  BY <1>1, <1>2, <1>3, <1>4 DEF StepsOfMode, StepsIn, TiedPairs, start

\* dircon.cc:63-75: whatever the modes and their lengths, the steps of a mode
\* have one duration that is bounded, and none is tied to one of another mode.
THEOREM DirconStepsOfMode == Spec => []StepsOfMode
  BY DirconBook, StepsTied, PTL

------------------------------------------------------------------------------
(* Scales. *)

FamilyOfSteps == {c.step : c \in Constraints("collocation")}

FamilyOfStates(s) == {StateAt(p)[s] : p \in Places}

FamilyOfForces(i, f) ==
    UNION {{c.l0[f], c.l1[f], c.lc[f]} : c \in {c \in Constraints("collocation") : c.mode = i}}

\* What the calls scale at once.
TimeVariables == {timestep(k) : k \in 0 .. Knots - 2}

ForceVariables(i, f) ==
    {force_vars(i, j)[f] : j \in 0 .. mode_length(i) - 1} \cup
    {collocation_force_vars(i, j)[f] : j \in 0 .. mode_length(i) - 2}

Coordinates == 0 .. num_states - 1

Scalable(W) ==
    \/ W = TimeVariables
    \/ \E s \in Coordinates : W = StateVariables(s)
    \/ \E i \in Modes : \E f \in Forces(i) : W = ForceVariables(i, f)
    \/ \A w \in W : w[1] \in {"u", "impulse", "gamma"}

AlikeIn(V, S) == V \cap S \in {{}, V}

\* A remainder is unique.
LEMMA SameRemainder ==
  ASSUME NEW n \in Nat, NEW j \in Nat, NEW k \in Nat, NEW f \in 0 .. n - 1, NEW g \in 0 .. n - 1,
         j * n + f = k * n + g
  PROVE  f = g
<1>1. ASSUME NEW a \in Nat, NEW b \in Nat, a < b
      PROVE  b * n >= a * n + n
  <2>1. b - a - 1 \in Nat /\ b = a + 1 + (b - a - 1)
    BY <1>1
  <2> DEFINE d == b - a - 1
  <2>2. d * n \in Nat
    BY <2>1
  <2>3. b * n = a * n + n + d * n
    BY <2>1
  <2>4. a * n \in Nat /\ b * n \in Nat
    OBVIOUS
  <2> HIDE DEF d
  <2>5. QED
    BY <2>2, <2>3, <2>4
<1>2. j * n \in Nat /\ k * n \in Nat
  OBVIOUS
<1>3. ~(j < k) /\ ~(k < j)
  BY <1>1, <1>2
<1>4. j = k
  BY <1>3
<1>5. QED
  BY <1>2, <1>4

\* A variable of a state tells its family and coordinate,
LEMMA StateVariablesOf ==
  ASSUME NEW s \in Coordinates, NEW v \in StateVariables(s)
  PROVE  \/ v[1] = "x" /\ v[3] = s
         \/ v[1] = "v_p" /\ v[3] = s - num_positions
<1>1. num_positions \in Nat \ {0} /\ num_velocities \in Nat \ {0} /\ num_states = num_positions + num_velocities
  BY DirconAssumption DEF DirconAssumption, num_states
<1>2. CASE v \in {state(k)[s] : k \in 0 .. Knots - 1}
  <2>1. PICK k \in 0 .. Knots - 1 : v = state(k)[s]
    BY <1>2
  <2>2. v = <<"x", k, s>>
    BY <2>1 DEF state, Coordinates
  <2>3. QED
    BY <2>2
<1>3. CASE v \notin {state(k)[s] : k \in 0 .. Knots - 1}
  <2>1. s > num_positions /\ v \in {post_impact_velocity_vars(t)[s - num_positions] : t \in 0 .. num_modes - 2}
    BY <1>3, Zenon DEF StateVariables
  <2>2. PICK t \in 0 .. num_modes - 2 : v = post_impact_velocity_vars(t)[s - num_positions]
    BY <2>1
  <2>3. s - num_positions \in 0 .. num_velocities - 1
    BY <1>1, <2>1 DEF Coordinates
  <2>4. v = <<"v_p", t, s - num_positions>>
    BY <2>2, <2>3 DEF post_impact_velocity_vars
  <2>5. QED
    BY <2>4
<1>4. QED
  BY <1>2, <1>3

\* and one of a force its mode and row.
LEMMA ForceVariablesOf ==
  ASSUME BookInv, Constructed, NEW i \in Modes, NEW f \in Forces(i), NEW v \in ForceVariables(i, f)
  PROVE  /\ v[1] \in {"lambda", "lambda_c"} /\ v[2] = i
         /\ \E j \in Nat : v[3] = j * count_full(get_mode(i).evaluators) + f
<1> DEFINE n == count_full(get_mode(i).evaluators)
<1>1. ASSUME NEW family, NEW j
      PROVE  RowSegment(family, i, j)[f] = <<family, i, j * n + f>>
  BY DEF RowSegment, Forces
<1>2. mode_length(i) \in Nat
  BY ModesOf
<1> HIDE DEF n
<1>3. CASE v \in {force_vars(i, j)[f] : j \in 0 .. mode_length(i) - 1}
  <2>1. PICK j \in 0 .. mode_length(i) - 1 : v = force_vars(i, j)[f]
    BY <1>3
  <2>2. v = <<"lambda", i, j * n + f>> /\ j \in Nat
    BY <1>1, <1>2, <2>1 DEF force_vars
  <2>3. v[1] = "lambda" /\ v[2] = i /\ v[3] = j * n + f
    BY <2>2
  <2>4. QED
    BY <2>2, <2>3 DEF n
<1>4. CASE v \in {collocation_force_vars(i, j)[f] : j \in 0 .. mode_length(i) - 2}
  <2>1. PICK j \in 0 .. mode_length(i) - 2 : v = collocation_force_vars(i, j)[f]
    BY <1>4
  <2>2. v = <<"lambda_c", i, j * n + f>> /\ j \in Nat
    BY <1>1, <1>2, <2>1 DEF collocation_force_vars
  <2>3. v[1] = "lambda_c" /\ v[2] = i /\ v[3] = j * n + f
    BY <2>2
  <2>4. QED
    BY <2>2, <2>3 DEF n
<1>5. QED
  BY <1>3, <1>4 DEF ForceVariables

\* The rows of a mode are natural numbers.
LEMMA ForcesOf ==
  ASSUME BookInv, Constructed, NEW i \in Modes
  PROVE  /\ count_full(get_mode(i).evaluators) \in Nat
         /\ Forces(i) = 0 .. count_full(get_mode(i).evaluators) - 1
<1>1. get_mode(i).evaluators \in Seq(Evaluators)
  BY ModesOf
<1>2. count_full(get_mode(i).evaluators) \in Nat
  BY <1>1, StartsOfRows DEF count_full
<1>3. QED
  BY <1>2 DEF Forces

\* No two of the sets that are scaled at once have a variable in common.
LEMMA ScaledApart ==
  ASSUME BookInv, Constructed, NEW v
  PROVE  /\ v \in TimeVariables => v[1] = "h"
         /\ \A s \in Coordinates : v \in StateVariables(s) => v[1] \in {"x", "v_p"}
         /\ \A i \in Modes : \A f \in Forces(i) :
                v \in ForceVariables(i, f) => v[1] \in {"lambda", "lambda_c"}
         /\ \A s, r \in Coordinates : v \in StateVariables(s) /\ v \in StateVariables(r) => s = r
         /\ \A i, k \in Modes : \A f \in Forces(i) : \A g \in Forces(k) :
                v \in ForceVariables(i, f) /\ v \in ForceVariables(k, g) => i = k /\ f = g
<1>1. v \in TimeVariables => v[1] = "h"
  BY DEF TimeVariables, timestep
<1>2. \A s \in Coordinates : v \in StateVariables(s) => v[1] \in {"x", "v_p"}
  BY StateVariablesOf
<1>3. \A i \in Modes : \A f \in Forces(i) : v \in ForceVariables(i, f) => v[1] \in {"lambda", "lambda_c"}
  BY ForceVariablesOf
<1>4. ASSUME NEW s \in Coordinates, NEW r \in Coordinates, v \in StateVariables(s), v \in StateVariables(r)
      PROVE  s = r
  <2>1. \/ v[1] = "x" /\ v[3] = s
        \/ v[1] = "v_p" /\ v[3] = s - num_positions
    BY <1>4, StateVariablesOf
  <2>2. \/ v[1] = "x" /\ v[3] = r
        \/ v[1] = "v_p" /\ v[3] = r - num_positions
    BY <1>4, StateVariablesOf
  <2>3. num_positions \in Nat /\ s \in Int /\ r \in Int
    BY DirconAssumption DEF DirconAssumption, Coordinates
  <2>4. v[1] = "x" => v[1] # "v_p"
    OBVIOUS
  <2>5. QED
    BY <2>1, <2>2, <2>3, <2>4
<1>5. ASSUME NEW i \in Modes, NEW k \in Modes, NEW f \in Forces(i), NEW g \in Forces(k),
             v \in ForceVariables(i, f), v \in ForceVariables(k, g)
      PROVE  i = k /\ f = g
  <2>1. i = k
    BY <1>5, ForceVariablesOf
  <2> DEFINE n == count_full(get_mode(i).evaluators)
  <2>2. PICK a \in Nat : v[3] = a * n + f
    BY <1>5, ForceVariablesOf
  <2>3. PICK b \in Nat : v[3] = b * n + g
    BY <1>5, <2>1, ForceVariablesOf
  <2>4. n \in Nat /\ f \in 0 .. n - 1 /\ g \in 0 .. n - 1
    BY <2>1, ForcesOf
  <2> HIDE DEF n
  <2>5. QED
    BY <2>1, <2>2, <2>3, <2>4, SameRemainder
<1>6. QED
  BY <1>1, <1>2, <1>3, <1>4, <1>5

\* The steps of the dynamics are scaled together,
LEMMA StepsTogether ==
  ASSUME BookInv, Constructed
  PROVE  FamilyOfSteps \subseteq TimeVariables
<1> SUFFICES ASSUME NEW c \in Constraints("collocation")
             PROVE  c.step \in TimeVariables
  BY DEF FamilyOfSteps
<1>1. PICK i \in Modes : \E j \in 0 .. mode_length(i) - 2 : c = CollocationAt(i, j)
  BY CollocationsOf
<1>2. PICK j \in 0 .. mode_length(i) - 2 : c = CollocationAt(i, j)
  BY <1>1
<1>3. c.step = timestep(start(i) + j)
  BY <1>2 DEF CollocationAt, start
<1>4. start(i) \in Nat /\ mode_length(i) \in Nat /\ start(i) + mode_length(i) - 1 <= Knots - 1 /\ Knots \in Nat
  BY ModesOf, EndsWithin, KnotsOf
<1>5. start(i) + j \in 0 .. Knots - 2
  BY <1>4
<1>6. QED
  BY <1>3, <1>5 DEF TimeVariables

\* a coordinate of all states, those after an impact too, but for the first velocity,
LEMMA StatesTogether ==
  ASSUME BookInv, Constructed, NEW s \in Coordinates, s # num_positions
  PROVE  FamilyOfStates(s) \subseteq StateVariables(s)
<1> SUFFICES ASSUME NEW p \in Places
             PROVE  StateAt(p)[s] \in StateVariables(s)
  BY DEF FamilyOfStates
<1> DEFINE i == p[1]
           j == p[2]
<1>1. num_positions \in Nat \ {0} /\ num_velocities \in Nat \ {0} /\ num_states = num_positions + num_velocities
  BY DirconAssumption DEF DirconAssumption, num_states
<1>2. i \in Modes /\ j \in 0 .. mode_length(i) - 1 /\ i \in Nat /\ num_modes \in Nat
  BY PlacesOf, ModesOf
<1>3. start(i) \in Nat /\ mode_length(i) \in Nat /\ start(i) + mode_length(i) - 1 <= Knots - 1 /\ Knots \in Nat
  BY <1>2, ModesOf, EndsWithin, KnotsOf
<1>4. StateAt(p) = state_vars(mode_start_, i, j)
  BY DEF StateAt
<1> HIDE DEF i, j
<1>5. \A k \in 0 .. Knots - 1 : state(k)[s] \in StateVariables(s)
  BY Zenon DEF StateVariables
<1>6. \A k : state(k)[s] = <<"x", k, s>>
  BY DEF state, Coordinates
<1>7. CASE ~(j = 0 /\ i > 0)
  <2>1. StateAt(p)[s] = state(start(i) + j)[s]
    BY <1>4, <1>7 DEF state_vars, start
  <2>2. start(i) + j \in 0 .. Knots - 1
    BY <1>2, <1>3
  <2>3. QED
    BY <1>5, <2>1, <2>2
<1>8. CASE j = 0 /\ i > 0
  <2>1. StateAt(p)[s] = IF s < num_positions THEN <<"x", start(i), s>>
                        ELSE post_impact_velocity_vars(i - 1)[s - num_positions]
    BY <1>4, <1>8 DEF state_vars, start, Coordinates
  <2>2. CASE s < num_positions
    <3>1. start(i) \in 0 .. Knots - 1
      BY <1>2, <1>3
    <3>2. QED
      BY <1>5, <1>6, <2>1, <2>2, <3>1
  <2>3. CASE ~(s < num_positions)
    <3>1. s > num_positions
      BY <1>1, <2>3 DEF Coordinates
    <3>2. i - 1 \in 0 .. num_modes - 2
      BY <1>2, <1>8, ModesOf
    <3>3. post_impact_velocity_vars(i - 1)[s - num_positions] \in StateVariables(s)
      BY <3>1, <3>2, Zenon DEF StateVariables
    <3>4. QED
      BY <2>1, <2>3, <3>3
  <2>4. QED
    BY <2>2, <2>3
<1>9. QED
  BY <1>7, <1>8

\* and a force at the knots and collocation points of its mode.
LEMMA ForcesTogether ==
  ASSUME BookInv, Constructed, NEW i \in Modes, NEW f \in Forces(i)
  PROVE  FamilyOfForces(i, f) \subseteq ForceVariables(i, f)
<1> SUFFICES ASSUME NEW c \in Constraints("collocation"), c.mode = i
             PROVE  {c.l0[f], c.l1[f], c.lc[f]} \subseteq ForceVariables(i, f)
  BY DEF FamilyOfForces
<1>1. PICK k \in Modes : \E j \in 0 .. mode_length(k) - 2 : c = CollocationAt(k, j)
  BY CollocationsOf
<1>2. PICK j \in 0 .. mode_length(k) - 2 : c = CollocationAt(k, j)
  BY <1>1
<1>3. /\ c.mode = k /\ c.l0 = force_vars(k, j) /\ c.l1 = force_vars(k, j + 1)
      /\ c.lc = collocation_force_vars(k, j)
  BY <1>2 DEF CollocationAt
<1>4. k = i
  BY <1>3
<1>5. mode_length(i) \in Nat
  BY ModesOf
<1>6. j \in 0 .. mode_length(i) - 1 /\ j + 1 \in 0 .. mode_length(i) - 1 /\ j \in 0 .. mode_length(i) - 2
  BY <1>2, <1>4, <1>5
<1>7. QED
  BY <1>3, <1>4, <1>6, Zenon DEF ForceVariables

\* What is scaled at once has all of a family or nothing of it.
LEMMA FamiliesTogether ==
  ASSUME BookInv, Constructed, NEW W, Scalable(W)
  PROVE  /\ FamilyOfSteps \subseteq W \/ FamilyOfSteps \cap W = {}
         /\ \A s \in Coordinates : s # num_positions =>
                FamilyOfStates(s) \subseteq W \/ FamilyOfStates(s) \cap W = {}
         /\ \A i \in Modes : \A f \in Forces(i) :
                FamilyOfForces(i, f) \subseteq W \/ FamilyOfForces(i, f) \cap W = {}
<1> DEFINE Whole(V) == V \subseteq W \/ V \cap W = {}
<1>1. ASSUME NEW V, NEW w, w \in V, w \in W, V \cap W = {}
      PROVE  FALSE
  BY <1>1
<1>2. FamilyOfSteps \subseteq TimeVariables
  BY StepsTogether
<1>3. \A s \in Coordinates : s # num_positions => FamilyOfStates(s) \subseteq StateVariables(s)
  BY StatesTogether
<1>4. \A i \in Modes : \A f \in Forces(i) : FamilyOfForces(i, f) \subseteq ForceVariables(i, f)
  BY ForcesTogether
<1>5. ASSUME NEW V, V \subseteq TimeVariables
      PROVE  V \subseteq W \/ V \cap W = {}
  <2>1. CASE W = TimeVariables
    BY <1>5, <2>1
  <2>2. CASE W # TimeVariables
    <3>1. \A w \in W : w[1] # "h"
      <4>1. \A w \in W : w[1] \in {"x", "v_p", "lambda", "lambda_c", "u", "impulse", "gamma"}
        BY <2>2, ScaledApart DEF Scalable
      <4>2. QED
        BY <4>1
    <3>2. \A v \in V : v[1] = "h"
      BY <1>5, ScaledApart
    <3>3. QED
      BY <3>1, <3>2
  <2>3. QED
    BY <2>1, <2>2
<1>6. ASSUME NEW s \in Coordinates, NEW V, V \subseteq StateVariables(s)
      PROVE  V \subseteq W \/ V \cap W = {}
  <2>1. CASE \E r \in Coordinates : W = StateVariables(r)
    <3>1. PICK r \in Coordinates : W = StateVariables(r)
      BY <2>1
    <3>2. \A v \in V : v \in W => s = r
      BY <1>6, <3>1, ScaledApart
    <3>3. QED
      BY <1>6, <3>1, <3>2
  <2>2. CASE ~\E r \in Coordinates : W = StateVariables(r)
    <3>1. \A w \in W : w[1] \notin {"x", "v_p"}
      <4>1. \A w \in W : w[1] \in {"h", "lambda", "lambda_c", "u", "impulse", "gamma"}
        BY <2>2, ScaledApart DEF Scalable
      <4>2. QED
        BY <4>1
    <3>2. \A v \in V : v[1] \in {"x", "v_p"}
      BY <1>6, ScaledApart
    <3>3. QED
      BY <3>1, <3>2
  <2>3. QED
    BY <2>1, <2>2
<1>7. ASSUME NEW i \in Modes, NEW f \in Forces(i), NEW V, V \subseteq ForceVariables(i, f)
      PROVE  V \subseteq W \/ V \cap W = {}
  <2>1. CASE \E k \in Modes : \E g \in Forces(k) : W = ForceVariables(k, g)
    <3>1. PICK k \in Modes : \E g \in Forces(k) : W = ForceVariables(k, g)
      BY <2>1
    <3>2. PICK g \in Forces(k) : W = ForceVariables(k, g)
      BY <3>1
    <3>3. \A v \in V : v \in W => i = k /\ f = g
      BY <1>7, <3>2, ScaledApart
    <3>4. QED
      BY <1>7, <3>2, <3>3
  <2>2. CASE ~\E k \in Modes : \E g \in Forces(k) : W = ForceVariables(k, g)
    <3>1. \A w \in W : w[1] \notin {"lambda", "lambda_c"}
      <4>1. \A w \in W : w[1] \in {"h", "x", "v_p", "u", "impulse", "gamma"}
        BY <2>2, ScaledApart DEF Scalable
      <4>2. QED
        BY <4>1
    <3>2. \A v \in V : v[1] \in {"lambda", "lambda_c"}
      BY <1>7, ScaledApart
    <3>3. QED
      BY <3>1, <3>2
  <2>3. QED
    BY <2>1, <2>2
<1>8. QED
  BY <1>2, <1>3, <1>4, <1>5, <1>6, <1>7

\* A later call scales one of these sets or nothing.
LEMMA ScaleForms ==
  ASSUME Later
  PROVE  scale_' = scale_ \/ \E W : Scalable(W) /\ scale_' = scale_ \cup W
<1> DEFINE Scaled == scale_' = scale_ \/ \E W : Scalable(W) /\ scale_' = scale_ \cup W
<1> SUFFICES Scaled
  OBVIOUS
<1>1. ASSUME NEW call, Fail(call)
      PROVE  Scaled
  BY <1>1 DEF Fail
<1>2. ASSUME NEW W, Scalable(W), SetVariableScaling(W)
      PROVE  Scaled
  BY <1>2 DEF SetVariableScaling
<1>3. ASSUME NEW count, DrawPoses(count)
      PROVE  Scaled
  BY <1>3 DEF DrawPoses
<1>4. AddRunningCost => Scaled
  BY <1>1 DEF AddRunningCost
<1>5. AddVelocityCost => Scaled
  BY DEF AddVelocityCost
<1> HIDE DEF Scaled
<1>6. Visualize => Scaled
  BY <1>1, <1>3, Zenon DEF Visualize, CreateVisualizationCallback, CreateVisualizationCallbackOf
<1>7. ScaleTimeVariables => Scaled
  BY <1>2, Zenon DEF ScaleTimeVariables, Scalable, TimeVariables
<1>8. ASSUME NEW s \in 0 .. num_states - 1, ScaleStateVariable(s)
      PROVE  Scaled
  <2>1. Scalable(StateVariables(s))
    BY DEF Scalable, Coordinates
  <2>2. QED
    BY <1>2, <1>8, <2>1 DEF ScaleStateVariable
<1>9. ASSUME NEW a, ScaleInputVariable(a)
      PROVE  Scaled
  <2>1. \A w \in {<<"u", k, a>> : k \in 0 .. Knots - 1} : w[1] = "u"
    OBVIOUS
  <2>2. Scalable({<<"u", k, a>> : k \in 0 .. Knots - 1})
    BY <2>1 DEF Scalable
  <2>3. QED
    BY <1>2, <1>9, <2>2, Zenon DEF ScaleInputVariable
<1>10. ASSUME NEW i \in 0 .. num_modes - 1, NEW f \in Forces(i), ScaleForceVariable(i, f)
       PROVE  Scaled
  <2>1. Scalable(ForceVariables(i, f))
    BY DEF Scalable, Modes
  <2>2. QED
    BY <1>2, <1>10, <2>1, Zenon DEF ScaleForceVariable, ForceVariables
<1>11. ASSUME NEW i, NEW f, ScaleImpulseVariable(i, f)
       PROVE  Scaled
  <2>1. f \in DOMAIN impulse_vars(i) => impulse_vars(i)[f][1] = "impulse"
    BY DEF impulse_vars
  <2>2. f \in DOMAIN impulse_vars(i) => Scalable({impulse_vars(i)[f]})
    BY <2>1 DEF Scalable
  <2>3. QED
    BY <1>1, <1>2, <1>11, <2>2, Zenon DEF ScaleImpulseVariable
<1>12. ASSUME NEW i, NEW f \in Forces(i), ScaleKinConstraintSlackVariable(i, f)
       PROVE  Scaled
  <2> DEFINE slack == {collocation_slack_vars(i, j)[f] : j \in 0 .. mode_length(i) - 2}
  <2>1. \A j : collocation_slack_vars(i, j)[f][1] = "gamma"
    BY DEF collocation_slack_vars, RowSegment, Forces
  <2>2. \A w \in slack : w[1] = "gamma"
    BY <2>1
  <2>3. SetVariableScaling(slack)
    BY <1>12, Zenon DEF ScaleKinConstraintSlackVariable
  <2> HIDE DEF slack
  <2>4. Scalable(slack)
    BY <2>2 DEF Scalable
  <2>5. QED
    BY <1>2, <2>3, <2>4
<1>13. ScaleVariables => Scaled
  BY <1>7, <1>8, <1>9, <1>10, <1>11, <1>12, Zenon DEF ScaleVariables
<1>14. QED
  BY <1>4, <1>5, <1>6, <1>13, Zenon DEF Later

\* The families are of what a call leaves.
LEMMA FamiliesPrime ==
  ASSUME UNCHANGED <<modes, mode_start_, constraints_>>
  PROVE  /\ FamilyOfSteps' = FamilyOfSteps
         /\ \A s : FamilyOfStates(s)' = FamilyOfStates(s)
         /\ \A i, f : FamilyOfForces(i, f)' = FamilyOfForces(i, f)
         /\ Modes' = Modes
         /\ \A i : Forces(i)' = Forces(i)
<1>1. Constraints("collocation")' = Constraints("collocation")
  BY DEF Constraints
<1>2. Modes' = Modes /\ num_modes' = num_modes
  BY DEF Modes, num_modes
<1>3. \A i : Forces(i)' = Forces(i) /\ mode_length(i)' = mode_length(i)
  BY DEF Forces, get_mode, mode_length
<1>4. Knots' = Knots
  BY DEF Knots
<1>5. \A p : StateAt(p)' = StateAt(p)
  BY DEF StateAt, state_vars, mode_start, state, post_impact_velocity_vars
<1>6. Places' = Places
  BY <1>2, <1>3, <1>4 DEF Places
<1>7. FamilyOfSteps' = FamilyOfSteps
  BY <1>1 DEF FamilyOfSteps
<1>8. \A s : FamilyOfStates(s)' = FamilyOfStates(s)
  BY <1>5, <1>6 DEF FamilyOfStates
<1>9. \A i, f : FamilyOfForces(i, f)' = FamilyOfForces(i, f)
  BY <1>1 DEF FamilyOfForces
<1>10. QED
  BY <1>2, <1>3, <1>7, <1>8, <1>9

\* What is whole in what is scaled stays whole.
LEMMA StaysAlike ==
  ASSUME NEW V, NEW S, NEW W, AlikeIn(V, S), V \subseteq W \/ V \cap W = {}
  PROVE  AlikeIn(V, S \cup W)
  BY DEF AlikeIn

\* The property in terms of the families.
FamiliesAlike ==
    Constructed =>
        /\ AlikeIn(FamilyOfSteps, scale_)
        /\ \A s \in Coordinates : s # num_positions => AlikeIn(FamilyOfStates(s), scale_)
        /\ \A i \in Modes : \A f \in Forces(i) : AlikeIn(FamilyOfForces(i, f), scale_)

LEMMA FamiliesInit == Init => FamiliesAlike
  BY DEF Init, FamiliesAlike, Constructed

LEMMA FamiliesStep ==
  ASSUME BookInv, FamiliesAlike, [Next]_vars
  PROVE  FamiliesAlike'
<1>1. FamiliesAlike' <=>
        (Constructed' =>
            /\ AlikeIn(FamilyOfSteps', scale_')
            /\ \A s \in Coordinates : s # num_positions => AlikeIn(FamilyOfStates(s)', scale_')
            /\ \A i \in Modes' : \A f \in Forces(i)' : AlikeIn(FamilyOfForces(i, f)', scale_'))
  BY Zenon DEF FamiliesAlike, AlikeIn, Coordinates
<1>2. CASE Later /\ Frame
  <2>1. Constructed /\ UNCHANGED <<modes, mode_start_, constraints_>>
    BY <1>2 DEF Frame, Constructed
  <2>2. /\ AlikeIn(FamilyOfSteps, scale_')
        /\ \A s \in Coordinates : s # num_positions => AlikeIn(FamilyOfStates(s), scale_')
        /\ \A i \in Modes : \A f \in Forces(i) : AlikeIn(FamilyOfForces(i, f), scale_')
    <3>1. CASE scale_' = scale_
      BY <2>1, <3>1 DEF FamiliesAlike
    <3>2. CASE \E W : Scalable(W) /\ scale_' = scale_ \cup W
      <4>1. PICK W : Scalable(W) /\ scale_' = scale_ \cup W
        BY <3>2
      <4>2. /\ AlikeIn(FamilyOfSteps, scale_ \cup W)
            /\ \A s \in Coordinates : s # num_positions => AlikeIn(FamilyOfStates(s), scale_ \cup W)
            /\ \A i \in Modes : \A f \in Forces(i) : AlikeIn(FamilyOfForces(i, f), scale_ \cup W)
        BY <2>1, <4>1, FamiliesTogether, StaysAlike, Zenon DEF FamiliesAlike
      <4>3. QED
        BY <4>1, <4>2
    <3>3. QED
      BY <1>2, <3>1, <3>2, ScaleForms
  <2>3. QED
    BY <1>1, <2>1, <2>2, FamiliesPrime
<1>3. CASE UNCHANGED <<stage, modes, mode_start_, constraints_, scale_, cost_, velocity_cost_, poses_, failed_>>
  <2>1. Constructed' = Constructed /\ scale_' = scale_
    BY <1>3 DEF Constructed
  <2>2. QED
    BY <1>1, <1>3, <2>1, FamiliesPrime DEF FamiliesAlike
<1>4. CASE scale_' = {}
  <2>1. \A V : AlikeIn(V, scale_')
    BY <1>4 DEF AlikeIn
  <2>2. QED
    BY <1>1, <2>1
<1>5. QED
  BY <1>2, <1>3, <1>4, NotYetConstructed

\* dircon.cc:867-958: whatever is scaled, in whatever order, no variable of a
\* family that the constraints relate is scaled without the others.
THEOREM DirconScaledAlike == Spec => []ScaledAlike
<1>1. Init => FamiliesAlike
  BY FamiliesInit
<1>2. BookInv /\ FamiliesAlike /\ [Next]_vars => FamiliesAlike'
  BY FamiliesStep
<1>3. FamiliesAlike => ScaledAlike
  BY Zenon DEF FamiliesAlike, ScaledAlike, AlikeIn, Coordinates, FamilyOfSteps, FamilyOfStates,
     FamilyOfForces
<1>4. QED
  BY <1>1, <1>2, <1>3, DirconBook, PTL DEF Spec

------------------------------------------------------------------------------
(* Poses. *)

\* A sum over the modes.
LEMMA TotalOf ==
  ASSUME BookInv, Constructed, NEW count \in [Modes -> Nat]
  PROVE  LET d == [m \in 1 .. num_modes |-> count[m - 1]]
         IN  /\ d \in Seq(Nat) /\ Len(d) = num_modes
             /\ Total(count) = Accumulate(d)[num_modes]
             /\ Total(count) \in Nat
             /\ \A i \in Modes : count[i] <= Total(count)
             /\ \A i \in Modes : Accumulate(d)[i + 1] = Accumulate(d)[i] + count[i]
<1> DEFINE d == [m \in 1 .. num_modes |-> count[m - 1]]
<1>1. num_modes \in Nat \ {0} /\ Modes = 0 .. num_modes - 1
  BY ModesOf
<1>2. \A m \in 1 .. num_modes : m - 1 \in Modes
  BY <1>1
<1>3. d \in Seq(Nat) /\ Len(d) = num_modes
  BY <1>1, <1>2
<1>4. Total(count) = Accumulate(d)[num_modes]
  BY DEF Total
<1>5. \A i \in Modes : d[i + 1] = count[i] /\ i + 1 \in 1 .. num_modes /\ (i + 1) - 1 = i
  BY <1>1
<1> HIDE DEF d
<1>6. Total(count) \in Nat
  BY <1>1, <1>3, <1>4, AccumulateNat
<1>7. \A i \in Modes : Accumulate(d)[i + 1] = Accumulate(d)[i] + count[i]
  <2>1. SUFFICES ASSUME NEW i \in Modes
                 PROVE  Accumulate(d)[i + 1] = Accumulate(d)[i] + count[i]
    OBVIOUS
  <2>2. Accumulate(d)[i + 1] = Accumulate(d)[(i + 1) - 1] + d[i + 1]
    BY <1>1, <1>3, <1>5, AccumulateStep
  <2>3. QED
    BY <1>5, <2>2
<1>8. ASSUME NEW i \in Modes
      PROVE  count[i] <= Total(count)
  <2>1. i \in 0 .. Len(d) /\ i + 1 \in 0 .. Len(d) /\ Len(d) \in 0 .. Len(d) /\ i + 1 <= Len(d)
    BY <1>1, <1>3
  <2>2. Accumulate(d)[i] \in Nat /\ Accumulate(d)[i + 1] \in Nat
    BY <1>3, <2>1, AccumulateNat
  <2>3. Accumulate(d)[i + 1] <= Accumulate(d)[Len(d)]
    BY <1>3, <2>1, AccumulateAscends
  <2>4. Accumulate(d)[i + 1] = Accumulate(d)[i] + count[i] /\ count[i] \in Nat
    BY <1>7
  <2>5. QED
    BY <1>3, <1>4, <1>6, <2>2, <2>3, <2>4
<1>9. QED
  BY <1>3, <1>4, <1>6, <1>7, <1>8 DEF d

\* A quotient times its divisor is not more than the dividend,
LEMMA QuotientBelow ==
  ASSUME NEW x \in Nat, NEW d \in Nat \ {0}
  PROVE  x \div d \in Nat /\ (x \div d) * d <= x /\ x < (x \div d) * d + d
<1> DEFINE q == x \div d
           r == x % d
<1>1. q \in Nat /\ r \in 0 .. d - 1 /\ x = d * q + r
  BY DivMod
<1>2. d * q = q * d /\ q * d \in Nat
  BY <1>1
<1> HIDE DEF q, r
<1>3. q \in Nat /\ q * d <= x /\ x < q * d + d
  BY <1>1, <1>2
<1>4. QED
  BY <1>3 DEF q

\* and products keep the order.
LEMMA TimesAscends ==
  ASSUME NEW a \in Nat, NEW b \in Nat, NEW d \in Nat, a < b
  PROVE  a * d + d <= b * d
<1> DEFINE e == b - a - 1
<1>1. e \in Nat /\ b = a + 1 + e
  OBVIOUS
<1>2. e * d \in Nat /\ a * d \in Nat /\ b * d = a * d + d + e * d
  BY <1>1
<1> HIDE DEF e
<1>3. QED
  BY <1>2

\* Rounding down never gives more poses than there are.
LEMMA RoundedDownOf ==
  ASSUME BookInv, Constructed, NEW w \in Nat
  PROVE  /\ RoundedDown(w) \in [Modes -> Nat]
         /\ Total(RoundedDown(w)) \in Nat
         /\ Total(RoundedDown(w)) <= w
<1> DEFINE I == [i \in Modes |-> Interior(i)]
           R == RoundedDown(w)
           P == ModeSum
           dI == [m \in 1 .. num_modes |-> I[m - 1]]
           dR == [m \in 1 .. num_modes |-> R[m - 1]]
           S == {n \in Nat : n <= num_modes =>
                    /\ Accumulate(dR)[n] * P <= w * Accumulate(dI)[n]
                    /\ P = 0 => Accumulate(dR)[n] = 0}
<1>1. num_modes \in Nat \ {0} /\ Modes = 0 .. num_modes - 1
  BY ModesOf
<1>2. \A i \in Modes : Interior(i) \in Nat
  BY ModesOf DEF Interior
<1>3. I \in [Modes -> Nat]
  BY <1>2
<1>4. P = Total(I)
  BY DEF ModeSum
<1>5. /\ P \in Nat /\ \A i \in Modes : I[i] <= P
      /\ dI \in Seq(Nat) /\ Len(dI) = num_modes /\ P = Accumulate(dI)[num_modes]
      /\ \A i \in Modes : Accumulate(dI)[i + 1] = Accumulate(dI)[i] + I[i]
  <2> HIDE DEF I, P
  <2>1. QED
    BY <1>3, <1>4, TotalOf
<1>6. ASSUME NEW i \in Modes
      PROVE  R[i] = (IF I[i] > 0 THEN (w * I[i]) \div P ELSE 0)
  BY DEF RoundedDown
<1>7. R = [i \in Modes |-> R[i]]
  BY DEF RoundedDown
<1> HIDE DEF I, R, P
<1>8. ASSUME NEW i \in Modes
      PROVE  R[i] \in Nat /\ R[i] * P <= w * I[i] /\ (P = 0 => R[i] = 0)
  <2>1. I[i] \in Nat /\ I[i] <= P
    BY <1>3, <1>5
  <2>2. CASE I[i] > 0
    <3>1. w * I[i] \in Nat /\ P \in Nat \ {0}
      BY <1>5, <2>1, <2>2
    <3> DEFINE x == w * I[i]
    <3>2. R[i] = x \div P
      BY <1>6, <2>2
    <3> HIDE DEF x
    <3>3. x \in Nat
      BY <3>1 DEF x
    <3>4. R[i] \in Nat /\ R[i] * P <= x
      BY <3>1, <3>2, <3>3, QuotientBelow
    <3>5. QED
      BY <3>1, <3>4 DEF x
  <2>3. CASE ~(I[i] > 0)
    <3>1. I[i] = 0 /\ R[i] = 0
      BY <1>6, <2>1, <2>3
    <3>2. QED
      BY <1>5, <3>1
  <2>4. QED
    BY <2>2, <2>3
<1>9. R \in [Modes -> Nat]
  BY <1>7, <1>8
<1>10. /\ Total(R) \in Nat /\ Total(R) = Accumulate(dR)[num_modes]
       /\ dR \in Seq(Nat) /\ Len(dR) = num_modes
       /\ \A i \in Modes : Accumulate(dR)[i + 1] = Accumulate(dR)[i] + R[i]
  BY <1>9, TotalOf
<1>11. /\ Accumulate(dR)[0] = 0 /\ Accumulate(dI)[0] = 0
       /\ \A n \in 0 .. num_modes : Accumulate(dR)[n] \in Nat /\ Accumulate(dI)[n] \in Nat
  <2> HIDE DEF dI, dR
  <2>1. QED
    BY <1>1, <1>5, <1>10, AccumulateStep, AccumulateNat
<1> HIDE DEF dI, dR
<1>12. 0 \in S
  BY <1>5, <1>11
<1>13. ASSUME NEW n \in Nat, n \in S
       PROVE  n + 1 \in S
  <2>1. SUFFICES ASSUME n + 1 <= num_modes
                 PROVE  /\ Accumulate(dR)[n + 1] * P <= w * Accumulate(dI)[n + 1]
                        /\ P = 0 => Accumulate(dR)[n + 1] = 0
    OBVIOUS
  <2>2. n \in Modes /\ n <= num_modes /\ n \in 0 .. num_modes
    BY <1>1, <2>1
  <2> DEFINE a == Accumulate(dR)[n]
             b == Accumulate(dI)[n]
             r == R[n]
             v == I[n]
  <2>3. Accumulate(dR)[n + 1] = a + r /\ Accumulate(dI)[n + 1] = b + v
    BY <1>5, <1>10, <2>2
  <2>4. a \in Nat /\ b \in Nat /\ r \in Nat /\ v \in Nat
    BY <1>3, <1>8, <1>11, <2>2
  <2>5. /\ a * P <= w * b /\ (P = 0 => a = 0)
        /\ r * P <= w * v /\ (P = 0 => r = 0)
    BY <1>8, <1>13, <2>2
  <2> HIDE DEF a, b, r, v, S
  <2>6. (a + r) * P = a * P + r * P /\ w * (b + v) = w * b + w * v
    BY <1>5, <2>4
  <2>7. a * P \in Nat /\ r * P \in Nat /\ w * b \in Nat /\ w * v \in Nat
    BY <1>5, <2>4
  <2>8. (a + r) * P <= w * (b + v)
    BY <2>5, <2>6, <2>7
  <2>9. QED
    BY <2>3, <2>4, <2>5, <2>8
<1>14. Nat \subseteq S
  <2> HIDE DEF S
  <2>1. QED
    BY <1>12, <1>13, SetInduction
<1>15. num_modes \in S
  <2> HIDE DEF S
  <2>1. QED
    BY <1>1, <1>14
<1>16. Total(R) * P <= w * P /\ (P = 0 => Total(R) = 0)
  BY <1>1, <1>5, <1>10, <1>15
<1>17. Total(R) <= w
  <2>1. CASE P = 0
    BY <1>16, <2>1
  <2>2. CASE P # 0
    <3>1. w < Total(R) => w * P + P <= Total(R) * P
      BY <1>5, <1>10, TimesAscends
    <3>2. w * P \in Nat /\ Total(R) * P \in Nat
      BY <1>5, <1>10
    <3>3. QED
      BY <1>5, <1>10, <1>16, <2>2, <3>1, <3>2
  <2>3. QED
    BY <2>1, <2>2
<1>18. QED
  BY <1>9, <1>10, <1>17 DEF R

\* Among finitely many numbers there is a first that is largest.
LEMMA FirstLargest ==
  ASSUME NEW N \in Nat \ {0}, NEW g \in [0 .. N - 1 -> Int]
  PROVE  \E i \in 0 .. N - 1 : /\ \A k \in 0 .. N - 1 : g[i] >= g[k]
                              /\ \A k \in 0 .. N - 1 : k < i => g[i] > g[k]
<1> DEFINE Leads(i, n) == \A k \in 0 .. n : g[i] >= g[k] /\ (k < i => g[i] > g[k])
           S == {n \in Nat : n <= N - 1 => \E i \in 0 .. n : Leads(i, n)}
<1>1. 0 \in S
  <2>1. Leads(0, 0)
    OBVIOUS
  <2>2. 0 \in 0 .. 0
    OBVIOUS
  <2>3. QED
    BY <2>1, <2>2
<1>2. ASSUME NEW n \in Nat, n \in S
      PROVE  n + 1 \in S
  <2>1. SUFFICES ASSUME n + 1 <= N - 1
                 PROVE  \E i \in 0 .. n + 1 : Leads(i, n + 1)
    OBVIOUS
  <2>2. PICK i \in 0 .. n : Leads(i, n)
    BY <1>2, <2>1
  <2>3. g[i] \in Int /\ g[n + 1] \in Int /\ \A k \in 0 .. n : g[k] \in Int
    BY <2>1
  <2>4. CASE g[n + 1] > g[i]
    <3>1. Leads(n + 1, n + 1)
      BY <2>2, <2>3, <2>4
    <3> HIDE DEF Leads
    <3>2. QED
      BY <3>1
  <2>5. CASE ~(g[n + 1] > g[i])
    <3>1. Leads(i, n + 1)
      BY <2>2, <2>3, <2>5
    <3> HIDE DEF Leads
    <3>2. i \in 0 .. n + 1
      OBVIOUS
    <3>3. QED
      BY <3>1, <3>2
  <2>6. QED
    BY <2>4, <2>5
<1>3. Nat \subseteq S
  <2> HIDE DEF S
  <2>1. QED
    BY <1>1, <1>2, SetInduction
<1>4. N - 1 \in S
  <2> HIDE DEF S
  <2>1. N - 1 \in Nat
    OBVIOUS
  <2>2. QED
    BY <1>3, <2>1
<1>5. PICK i \in 0 .. N - 1 : Leads(i, N - 1)
  BY <1>4
<1>6. QED
  BY <1>5

\* One more for one of the modes is one more in all.
LEMMA TotalOfOneMore ==
  ASSUME BookInv, Constructed, NEW count \in [Modes -> Nat], NEW k \in Modes
  PROVE  LET more == [count EXCEPT ![k] = @ + 1]
         IN  more \in [Modes -> Nat] /\ Total(more) = Total(count) + 1
<1> DEFINE more == [count EXCEPT ![k] = @ + 1]
           d == [m \in 1 .. num_modes |-> count[m - 1]]
           e == [m \in 1 .. num_modes |-> more[m - 1]]
           S == {n \in Nat : n <= num_modes =>
                    Accumulate(e)[n] = Accumulate(d)[n] + IF k < n THEN 1 ELSE 0}
<1>1. num_modes \in Nat \ {0} /\ Modes = 0 .. num_modes - 1
  BY ModesOf
<1>2. more \in [Modes -> Nat]
  <2>1. count[k] + 1 \in Nat
    OBVIOUS
  <2>2. QED
    BY <2>1
<1>3. \A i \in Modes : more[i] = count[i] + IF i = k THEN 1 ELSE 0
  OBVIOUS
<1> HIDE DEF more
<1>4. /\ d \in Seq(Nat) /\ Len(d) = num_modes
      /\ Total(count) = Accumulate(d)[num_modes]
      /\ \A i \in Modes : Accumulate(d)[i + 1] = Accumulate(d)[i] + count[i]
  BY TotalOf
<1>5. /\ e \in Seq(Nat) /\ Len(e) = num_modes
      /\ Total(more) = Accumulate(e)[num_modes]
      /\ \A i \in Modes : Accumulate(e)[i + 1] = Accumulate(e)[i] + more[i]
  BY <1>2, TotalOf
<1> HIDE DEF d, e
<1>6. /\ Accumulate(d)[0] = 0 /\ Accumulate(e)[0] = 0
      /\ \A n \in 0 .. num_modes : Accumulate(d)[n] \in Nat /\ Accumulate(e)[n] \in Nat
  BY <1>1, <1>4, <1>5, AccumulateStep, AccumulateNat
<1>7. 0 \in S
  BY <1>1, <1>6
<1>8. ASSUME NEW n \in Nat, n \in S
      PROVE  n + 1 \in S
  <2>1. SUFFICES ASSUME n + 1 <= num_modes
                 PROVE  Accumulate(e)[n + 1] = Accumulate(d)[n + 1] + IF k < n + 1 THEN 1 ELSE 0
    OBVIOUS
  <2>2. n \in Modes /\ n <= num_modes /\ n \in 0 .. num_modes
    BY <1>1, <2>1
  <2>3. Accumulate(e)[n] = Accumulate(d)[n] + IF k < n THEN 1 ELSE 0
    BY <1>8, <2>2
  <2>4. /\ Accumulate(e)[n + 1] = Accumulate(e)[n] + more[n]
        /\ Accumulate(d)[n + 1] = Accumulate(d)[n] + count[n]
        /\ more[n] = count[n] + IF n = k THEN 1 ELSE 0
    BY <1>3, <1>4, <1>5, <2>2
  <2>5. Accumulate(d)[n] \in Nat /\ count[n] \in Nat /\ k \in Nat
    BY <1>1, <1>6, <2>2
  <2>6. CASE n = k
    BY <2>3, <2>4, <2>5, <2>6
  <2>7. CASE n # k
    BY <2>3, <2>4, <2>5, <2>7
  <2>8. QED
    BY <2>6, <2>7
<1>9. Nat \subseteq S
  <2> HIDE DEF S
  <2>1. QED
    BY <1>7, <1>8, SetInduction
<1>10. num_modes \in S /\ k < num_modes
  <2> HIDE DEF S
  <2>1. QED
    BY <1>1, <1>9
<1>11. Total(more) = Total(count) + 1
  BY <1>1, <1>4, <1>5, <1>10
<1>12. QED
  BY <1>2, <1>11 DEF more

\* A pose more for the mode of the largest fraction: there is one, whatever the
\* unsigned fractions wrap to.
LEMMA AddLargestOf ==
  ASSUME BookInv, Constructed, NEW w \in Nat, NEW count \in [Modes -> Nat]
  PROVE  /\ AddLargest(w, count) \in [Modes -> Nat]
         /\ Total(AddLargest(w, count)) = Total(count) + 1
<1> DEFINE fraction(i) == (w * (mode_length(i) - 2) - count[i] * ModeSum) % kUInt
           g == [i \in Modes |-> fraction(i)]
           First(i) == /\ \A k \in Modes : fraction(i) >= fraction(k)
                       /\ \A k \in Modes : k < i => fraction(i) > fraction(k)
           largest == CHOOSE i \in Modes : First(i)
<1>1. num_modes \in Nat \ {0} /\ Modes = 0 .. num_modes - 1
  BY ModesOf
<1>2. ModeSum \in Nat
  <2> DEFINE I == [i \in Modes |-> Interior(i)]
  <2>1. I \in [Modes -> Nat]
    BY ModesOf DEF Interior
  <2>2. ModeSum = Total(I)
    BY DEF ModeSum
  <2> HIDE DEF I
  <2>3. QED
    BY <2>1, <2>2, TotalOf
<1>3. ASSUME NEW i \in Modes
      PROVE  fraction(i) \in Int
  <2> DEFINE x == w * (mode_length(i) - 2)
             y == count[i] * ModeSum
  <2>1. mode_length(i) - 2 \in Int /\ count[i] \in Nat
    BY ModesOf
  <2>2. x \in Int /\ y \in Int
    BY <1>2, <2>1
  <2> HIDE DEF x, y
  <2>3. x - y \in Int /\ kUInt \in Nat \ {0}
    BY <2>2, DirconAssumption DEF DirconAssumption
  <2>4. (x - y) % kUInt \in Int
    BY <2>3
  <2>5. QED
    BY <2>4 DEF x, y
<1> HIDE DEF fraction
<1>4. g \in [0 .. num_modes - 1 -> Int]
  BY <1>1, <1>3
<1>5. \A i \in Modes : g[i] = fraction(i)
  OBVIOUS
<1> HIDE DEF g
<1>6. \E i \in Modes : First(i)
  <2>1. PICK i \in 0 .. num_modes - 1 : /\ \A k \in 0 .. num_modes - 1 : g[i] >= g[k]
                                        /\ \A k \in 0 .. num_modes - 1 : k < i => g[i] > g[k]
    BY <1>1, <1>4, FirstLargest
  <2>2. i \in Modes /\ First(i)
    BY <1>1, <1>5, <2>1
  <2>3. QED
    BY <2>2
<1>7. largest \in Modes
  BY <1>6, Zenon
<1>8. AddLargest(w, count) = [count EXCEPT ![largest] = @ + 1]
  BY Zenon DEF AddLargest, fraction
<1> HIDE DEF largest
<1> DEFINE more == [count EXCEPT ![largest] = @ + 1]
<1>9. more \in [Modes -> Nat] /\ Total(more) = Total(count) + 1
  BY <1>7, TotalOfOneMore, Zenon
<1> HIDE DEF more
<1>10. QED
  BY <1>8, <1>9 DEF more

\* The loop that gives the rest away ends with as many as were asked for.
LEMMA DividePosesOf ==
  ASSUME BookInv, Constructed, NEW num_poses \in num_modes + 1 .. Knots
  PROVE  /\ DividePoses(num_poses) \in [Modes -> Nat]
         /\ Total(DividePoses(num_poses)) = num_poses - num_modes - 1
<1> DEFINE w == num_poses - num_modes - 1
           R == RoundedDown(w)
           missing == w - Total(R)
           Counts(n, g) == g = [k \in 0 .. n |-> IF k = 0 THEN R ELSE AddLargest(w, g[k - 1])]
           E == {n \in Nat : \E g : Counts(n, g)}
<1>1. w \in Nat /\ num_modes \in Nat
  BY ModesOf, KnotsOf
<1>2. /\ R \in [Modes -> Nat] /\ missing \in Nat
      /\ Total(R) \in Nat /\ Total(R) + missing = w
  <2> HIDE DEF w
  <2>1. QED
    BY <1>1, RoundedDownOf
<1>3. DividePoses(num_poses) = (CHOOSE g : Counts(missing, g))[missing]
  BY Zenon DEF DividePoses
<1> HIDE DEF R, missing
<1>4. 0 \in E
  <2>1. Counts(0, [k \in 0 .. 0 |-> R])
    OBVIOUS
  <2>2. QED
    BY <2>1
<1>5. ASSUME NEW n \in Nat, n \in E
      PROVE  n + 1 \in E
  <2>1. PICK g : Counts(n, g)
    BY <1>5
  <2> DEFINE h == [k \in 0 .. n + 1 |-> IF k = n + 1 THEN AddLargest(w, g[n]) ELSE g[k]]
  <2>2. ASSUME NEW k \in 0 .. n + 1
        PROVE  h[k] = IF k = 0 THEN R ELSE AddLargest(w, h[k - 1])
    <3>1. CASE k = n + 1
      <4>1. k # 0 /\ k - 1 = n /\ n \in 0 .. n + 1 /\ n # n + 1
        BY <3>1
      <4>2. h[k] = AddLargest(w, g[n]) /\ h[k - 1] = g[n]
        BY <3>1, <4>1
      <4>3. QED
        BY <4>1, <4>2
    <3>2. CASE k # n + 1
      <4>1. k \in 0 .. n /\ h[k] = g[k]
        BY <3>2
      <4>2. g[k] = IF k = 0 THEN R ELSE AddLargest(w, g[k - 1])
        BY <2>1, <4>1
      <4>3. k # 0 => h[k - 1] = g[k - 1]
        BY <4>1
      <4>4. QED
        BY <4>1, <4>2, <4>3
    <3>3. QED
      BY <3>1, <3>2
  <2>3. Counts(n + 1, h)
    <3>1. h = [k \in 0 .. n + 1 |-> h[k]]
      OBVIOUS
    <3> HIDE DEF h
    <3>2. QED
      BY <2>2, <3>1, Zenon
  <2> HIDE DEF h
  <2>4. \E f : Counts(n + 1, f)
    BY <2>3
  <2>5. QED
    BY <2>4
<1>6. Nat \subseteq E
  <2> HIDE DEF E
  <2>1. QED
    BY <1>4, <1>5, SetInduction
<1>7. \E g : Counts(missing, g)
  BY <1>2, <1>6
<1> DEFINE counts == CHOOSE g : Counts(missing, g)
<1>8. Counts(missing, counts)
  BY <1>7, Zenon
<1> HIDE DEF counts
<1> DEFINE T == {n \in Nat : n <= missing => /\ counts[n] \in [Modes -> Nat]
                                            /\ Total(counts[n]) = Total(R) + n}
<1>9. ASSUME NEW k \in 0 .. missing
      PROVE  counts[k] = IF k = 0 THEN R ELSE AddLargest(w, counts[k - 1])
  BY <1>8, Zenon
<1> HIDE DEF w
<1>10. 0 \in T
  BY <1>2, <1>9
<1>11. ASSUME NEW n \in Nat, n \in T
       PROVE  n + 1 \in T
  <2>1. SUFFICES ASSUME n + 1 <= missing
                 PROVE  /\ counts[n + 1] \in [Modes -> Nat]
                        /\ Total(counts[n + 1]) = Total(R) + (n + 1)
    OBVIOUS
  <2>2. n + 1 \in 0 .. missing /\ n + 1 # 0 /\ (n + 1) - 1 = n /\ n <= missing
    BY <1>2, <2>1
  <2>3. counts[n] \in [Modes -> Nat] /\ Total(counts[n]) = Total(R) + n
    BY <1>11, <2>2
  <2>4. counts[n + 1] = AddLargest(w, counts[n])
    BY <1>9, <2>2
  <2> DEFINE before == counts[n]
             after == AddLargest(w, before)
  <2>5. before \in [Modes -> Nat] /\ counts[n + 1] = after
    BY <2>3, <2>4
  <2> HIDE DEF before
  <2>6. after \in [Modes -> Nat] /\ Total(after) = Total(before) + 1
    BY <1>1, <2>5, AddLargestOf
  <2> HIDE DEF after
  <2>7. Total(counts[n + 1]) = Total(R) + (n + 1)
    <3>1. Total(before) = Total(R) + n
      BY <2>3 DEF before
    <3>2. QED
      BY <1>2, <2>5, <2>6, <3>1
  <2>8. QED
    BY <2>5, <2>6, <2>7
<1>12. Nat \subseteq T
  <2> HIDE DEF T
  <2>1. QED
    BY <1>10, <1>11, SetInduction
<1>13. counts[missing] \in [Modes -> Nat] /\ Total(counts[missing]) = Total(R) + missing
  BY <1>2, <1>12
<1>14. QED
  BY <1>2, <1>3, <1>13 DEF counts, w

\* The poses are of counts that fit, whoever gave them.
LEMMA PosesForms ==
  ASSUME BookInv, Later
  PROVE  \/ poses_' = poses_
         \/ \E count \in [Modes -> Nat] : CountsFit(count) /\ poses_' = PosesOf(count)
<1> DEFINE Drawn == \/ poses_' = poses_
                    \/ \E count \in [Modes -> Nat] : CountsFit(count) /\ poses_' = PosesOf(count)
<1> SUFFICES Drawn
  OBVIOUS
<1>1. ASSUME NEW call, Fail(call)
      PROVE  Drawn
  BY <1>1 DEF Fail
<1>2. ASSUME NEW variables, SetVariableScaling(variables)
      PROVE  Drawn
  BY <1>2 DEF SetVariableScaling
<1>3. ASSUME NEW count \in [Modes -> Nat], CountsFit(count), DrawPoses(count)
      PROVE  Drawn
  BY <1>3 DEF DrawPoses
<1>4. AddRunningCost => Drawn
  BY <1>1 DEF AddRunningCost
<1>5. AddVelocityCost => Drawn
  BY DEF AddVelocityCost
<1> HIDE DEF Drawn
<1>6. ScaleVariables => Drawn
  BY <1>1, <1>2, Zenon DEF ScaleVariables, ScaleTimeVariables, ScaleStateVariable,
     ScaleInputVariable, ScaleForceVariable, ScaleKinConstraintSlackVariable, ScaleImpulseVariable
<1>7. ASSUME NEW count \in [Modes -> 0 .. Max(Lengths)], CreateVisualizationCallback(count)
      PROVE  Drawn
  <2>1. count \in [Modes -> Nat]
    OBVIOUS
  <2>2. QED
    BY <1>3, <1>7, <2>1 DEF CreateVisualizationCallback
<1>8. ASSUME NEW num_poses \in num_modes + 1 .. Knots, CreateVisualizationCallbackOf(num_poses)
      PROVE  Drawn
  <2>1. Constructed
    BY <1>8, LaterFrame DEF Frame, Constructed
  <2>2. DividePoses(num_poses) \in [Modes -> Nat]
    BY <2>1, DividePosesOf
  <2> DEFINE count == DividePoses(num_poses)
  <2>3. (CountsFit(count) /\ DrawPoses(count)) \/ Fail("poses")
    BY <1>8, Zenon DEF CreateVisualizationCallbackOf
  <2> HIDE DEF count
  <2>4. count \in [Modes -> Nat]
    BY <2>2 DEF count
  <2>5. QED
    BY <1>1, <1>3, <2>3, <2>4
<1>9. Visualize => Drawn
  BY <1>7, <1>8, Zenon DEF Visualize
<1>10. QED
  BY <1>4, <1>5, <1>6, <1>9, Zenon DEF Later

\* What is drawn is about what a later call leaves.
LEMMA PosesPrime ==
  ASSUME modes' = modes, mode_start_' = mode_start_
  PROVE  /\ Modes' = Modes
         /\ \A count : CountsFit(count)' = CountsFit(count) /\ PosesOf(count)' = PosesOf(count)
<1>1. num_modes' = num_modes /\ Modes' = Modes
  BY DEF num_modes, Modes
<1>2. \A i : mode_length(i)' = mode_length(i) /\ mode_start(mode_start_, i)' = mode_start(mode_start_, i)
  BY DEF mode_length, get_mode, mode_start
<1>3. \A count : CountsFit(count)' = CountsFit(count)
  BY <1>1, <1>2 DEF CountsFit
<1>4. \A count : PosesOf(count)' = PosesOf(count)
  BY <1>1, <1>2 DEF PosesOf
<1>5. QED
  BY <1>1, <1>3, <1>4

LEMMA PosesStep ==
  ASSUME BookInv, PosesInv, [Next]_vars
  PROVE  PosesInv'
<1>1. PosesInv' <=> (poses_' = <<>> \/ \E count \in [Modes' -> Nat] :
                                           CountsFit(count)' /\ poses_' = PosesOf(count)')
  BY Zenon DEF PosesInv
<1>2. CASE Later /\ Frame
  BY <1>1, <1>2, PosesForms, PosesPrime DEF PosesInv, Frame
<1>3. CASE UNCHANGED <<stage, modes, mode_start_, constraints_, scale_, cost_, velocity_cost_, poses_, failed_>>
  BY <1>1, <1>3, PosesPrime DEF PosesInv
<1>4. CASE poses_' = <<>>
  BY <1>1, <1>4
<1>5. QED
  BY <1>2, <1>3, <1>4, NotYetConstructed

\* Sequences that go up.
Ascends(s) == \A n \in 1 .. Len(s) - 1 : s[n] < s[n + 1]

\* One goes up after another if it starts above the other's end.
LEMMA ConcatAscends ==
  ASSUME NEW s \in Seq(Nat), NEW t \in Seq(Nat), Ascends(s), Ascends(t),
         Len(s) > 0, Len(t) > 0, s[Len(s)] < t[1]
  PROVE  /\ s \o t \in Seq(Nat) /\ Len(s \o t) = Len(s) + Len(t)
         /\ (s \o t)[1] = s[1] /\ (s \o t)[Len(s) + Len(t)] = t[Len(t)]
         /\ Ascends(s \o t)
<1> DEFINE a == Len(s)
           b == Len(t)
           c == s \o t
<1>1. /\ c \in Seq(Nat) /\ Len(c) = a + b /\ a \in Nat \ {0} /\ b \in Nat \ {0}
      /\ \A i \in 1 .. a : c[i] = s[i]
      /\ \A i \in a + 1 .. a + b : c[i] = t[i - a]
  <2>1. /\ c \in Seq(Nat) /\ Len(c) = a + b
        /\ \A i \in 1 .. a + b : c[i] = IF i <= a THEN s[i] ELSE t[i - a]
    BY ConcatProperties
  <2>2. a \in Nat \ {0} /\ b \in Nat \ {0}
    OBVIOUS
  <2> HIDE DEF a, b, c
  <2>3. \A i \in 1 .. a : i \in 1 .. a + b /\ i <= a
    BY <2>2
  <2>4. \A i \in a + 1 .. a + b : i \in 1 .. a + b /\ ~(i <= a)
    BY <2>2
  <2>5. QED
    BY <2>1, <2>2, <2>3, <2>4
<1>2. /\ \A n \in 1 .. a - 1 : s[n] < s[n + 1]
      /\ \A n \in 1 .. b - 1 : t[n] < t[n + 1]
      /\ s[a] < t[1]
  BY DEF Ascends
<1> HIDE DEF a, b, c
<1>3. c[1] = s[1] /\ c[a + b] = t[b]
  <2>1. 1 \in 1 .. a /\ a + b \in a + 1 .. a + b /\ (a + b) - a = b
    BY <1>1
  <2>2. QED
    BY <1>1, <2>1
<1>4. ASSUME NEW n \in 1 .. a + b - 1
      PROVE  c[n] < c[n + 1]
  <2>1. CASE n < a
    <3>1. n \in 1 .. a /\ n + 1 \in 1 .. a /\ n \in 1 .. a - 1
      BY <1>1, <2>1
    <3>2. QED
      BY <1>1, <1>2, <3>1
  <2>2. CASE n = a
    <3>1. a \in 1 .. a /\ a + 1 \in a + 1 .. a + b /\ (a + 1) - a = 1
      BY <1>1
    <3>2. c[a] = s[a] /\ c[a + 1] = t[1]
      BY <1>1, <3>1
    <3>3. QED
      BY <1>2, <2>2, <3>2
  <2>3. CASE n > a
    <3>1. /\ n \in a + 1 .. a + b /\ n + 1 \in a + 1 .. a + b /\ n - a \in 1 .. b - 1
          /\ (n + 1) - a = (n - a) + 1
      BY <1>1, <2>3
    <3>2. c[n] = t[n - a] /\ c[n + 1] = t[(n + 1) - a]
      BY <1>1, <3>1
    <3>3. QED
      BY <1>2, <3>1, <3>2
  <2>4. QED
    BY <1>1, <2>1, <2>2, <2>3
<1>5. Ascends(c)
  BY <1>1, <1>4 DEF Ascends
<1>6. QED
  BY <1>1, <1>3, <1>5 DEF a, b, c

\* The elements between the ends are in order and apart, if there is room for them.
LEMMA BetweenEndsOf ==
  ASSUME NEW length \in Nat, NEW count \in Nat, count + 1 <= length - 1
  PROVE  /\ BetweenEnds(0, length, count) = 0
         /\ \A j \in 0 .. count : /\ BetweenEnds(j, length, count) \in Nat
                                  /\ BetweenEnds(j, length, count) < length - 1
         /\ \A j \in 0 .. count - 1 : BetweenEnds(j, length, count) < BetweenEnds(j + 1, length, count)
<1> DEFINE e == length - 1
           d == count + 1
           B(j) == BetweenEnds(j, length, count)
<1>1. e \in Nat \ {0} /\ d \in Nat \ {0} /\ d <= e /\ count \in Nat /\ d = count + 1
  OBVIOUS
<1>2. ASSUME NEW j \in Nat
      PROVE  B(j) \in Nat /\ B(j) * d <= j * e /\ j * e < B(j) * d + d /\ j * e \in Nat /\ B(j) * d \in Nat
  <2> DEFINE x == j * e
  <2>1. x \in Nat
    BY <1>1
  <2>2. B(j) = x \div d
    BY DEF BetweenEnds
  <2> HIDE DEF x, B, d
  <2>3. B(j) \in Nat /\ B(j) * d <= x /\ x < B(j) * d + d
    BY <1>1, <2>1, <2>2, QuotientBelow
  <2>4. B(j) * d \in Nat
    BY <1>1, <2>3
  <2>5. QED
    BY <2>1, <2>3, <2>4 DEF x
<1> HIDE DEF B, d, e
<1>3. B(0) = 0
  <2>1. B(0) \in Nat /\ B(0) * d <= 0 * e /\ 0 * e = 0 /\ B(0) * d \in Nat
    BY <1>1, <1>2
  <2>2. 0 < B(0) => 0 * d + d <= B(0) * d
    BY <1>1, <2>1, TimesAscends
  <2>3. 0 * d = 0
    BY <1>1
  <2>4. QED
    BY <1>1, <2>1, <2>2, <2>3
<1>4. ASSUME NEW j \in 0 .. count
      PROVE  B(j) \in Nat /\ B(j) < e
  <2>1. j \in Nat /\ j < d
    BY <1>1
  <2>2. B(j) \in Nat /\ B(j) * d <= j * e /\ j * e \in Nat /\ B(j) * d \in Nat
    BY <1>2, <2>1
  <2>3. j * e + e <= d * e
    BY <1>1, <2>1, TimesAscends
  <2>4. e <= B(j) => e * d <= B(j) * d
    <3>1. e < B(j) => e * d + d <= B(j) * d
      BY <1>1, <2>2, TimesAscends
    <3>2. e * d \in Nat
      BY <1>1
    <3>3. QED
      BY <1>1, <2>2, <3>1, <3>2
  <2>5. e * d = d * e /\ e * d \in Nat
    BY <1>1
  <2>6. QED
    BY <1>1, <2>2, <2>3, <2>4, <2>5
<1>5. ASSUME NEW j \in 0 .. count - 1
      PROVE  B(j) < B(j + 1)
  <2>1. j \in Nat /\ j + 1 \in Nat
    BY <1>1
  <2>2. /\ B(j) \in Nat /\ B(j) * d <= j * e /\ j * e \in Nat /\ B(j) * d \in Nat
        /\ B(j + 1) \in Nat /\ (j + 1) * e < B(j + 1) * d + d /\ B(j + 1) * d \in Nat
    BY <1>2, <2>1
  <2>3. (j + 1) * e = j * e + e
    BY <1>1, <2>1
  <2>4. B(j) * d < B(j + 1) * d
    BY <1>1, <2>2, <2>3
  <2>5. B(j + 1) <= B(j) => B(j + 1) * d <= B(j) * d
    <3>1. B(j + 1) < B(j) => B(j + 1) * d + d <= B(j) * d
      BY <1>1, <2>2, TimesAscends
    <3>2. QED
      BY <1>1, <2>2, <3>1
  <2>6. QED
    BY <2>2, <2>4, <2>5
<1>6. QED
  BY <1>3, <1>4, <1>5 DEF B, e

\* Flattening joins one sequence after another.
LEMMA FlattenSteps ==
  ASSUME NEW seqs, Len(seqs) \in Nat \ {0}
  PROVE  \E f : /\ FlattenSeq(seqs) = f[Len(seqs)]
                /\ \A i \in 1 .. Len(seqs) : f[i] = IF i = 1 THEN seqs[i] ELSE f[i - 1] \o seqs[i]
<1> DEFINE Joins(n, g) == g = [i \in 1 .. n |-> IF i = 1 THEN seqs[i] ELSE g[i - 1] \o seqs[i]]
           E == {n \in Nat : \E g : Joins(n, g)}
           N == Len(seqs)
<1>1. FlattenSeq(seqs) = (CHOOSE g : Joins(N, g))[N]
  <2>1. Len(seqs) # 0
    OBVIOUS
  <2>2. QED
    BY <2>1, Zenon DEF FlattenSeq
<1> HIDE DEF N
<1>2. 0 \in E
  <2>1. Joins(0, [i \in 1 .. 0 |-> 0])
    OBVIOUS
  <2>2. QED
    BY <2>1
<1>3. ASSUME NEW n \in Nat, n \in E
      PROVE  n + 1 \in E
  <2>1. PICK g : Joins(n, g)
    BY <1>3
  <2> DEFINE h == [i \in 1 .. n + 1 |-> IF i # n + 1 THEN g[i]
                                        ELSE IF i = 1 THEN seqs[i] ELSE g[n] \o seqs[i]]
  <2>2. ASSUME NEW i \in 1 .. n + 1
        PROVE  h[i] = IF i = 1 THEN seqs[i] ELSE h[i - 1] \o seqs[i]
    <3>1. CASE i = n + 1
      <4>1. i # 1 => i - 1 = n /\ n \in 1 .. n + 1 /\ n # n + 1
        BY <3>1
      <4>2. i # 1 => h[i] = g[n] \o seqs[i] /\ h[i - 1] = g[n]
        BY <3>1, <4>1
      <4>3. i = 1 => h[i] = seqs[i]
        BY <3>1
      <4> HIDE DEF h
      <4>4. QED
        BY <4>2, <4>3
    <3>2. CASE i # n + 1
      <4>1. i \in 1 .. n /\ h[i] = g[i]
        BY <3>2
      <4>2. g[i] = IF i = 1 THEN seqs[i] ELSE g[i - 1] \o seqs[i]
        BY <2>1, <4>1, Zenon
      <4>3. i # 1 => i - 1 \in 1 .. n + 1 /\ i - 1 # n + 1
        BY <4>1
      <4>4. i # 1 => h[i - 1] = g[i - 1]
        BY <4>3
      <4> HIDE DEF h
      <4>5. QED
        BY <4>1, <4>2, <4>4
    <3>3. QED
      BY <3>1, <3>2
  <2>3. Joins(n + 1, h)
    <3>1. h = [i \in 1 .. n + 1 |-> h[i]]
      OBVIOUS
    <3> HIDE DEF h
    <3>2. QED
      BY <2>2, <3>1, Zenon
  <2> HIDE DEF h
  <2>4. n + 1 \in Nat
    OBVIOUS
  <2>5. QED
    BY <2>3, <2>4, Zenon
<1>4. Nat \subseteq E
  <2> HIDE DEF E
  <2>1. QED
    BY <1>2, <1>3, SetInduction
<1>5. \E g : Joins(N, g)
  BY <1>4 DEF N
<1> DEFINE flat == CHOOSE g : Joins(N, g)
<1>6. Joins(N, flat)
  BY <1>5, Zenon
<1>7. FlattenSeq(seqs) = flat[N]
  BY <1>1
<1> HIDE DEF flat
<1>8. \A i \in 1 .. N : flat[i] = IF i = 1 THEN seqs[i] ELSE flat[i - 1] \o seqs[i]
  BY <1>6, Zenon
<1>9. QED
  BY <1>7, <1>8, Zenon DEF N

\* What is drawn of one mode.
ModePoses(i, count) ==
    [n \in 1 .. count[i] + 1 |->
        start(i) + IF n = 1 THEN 0 ELSE BetweenEnds(n - 1, mode_length(i), count[i])]

\* It goes up, from the mode's first knot to before its last.
LEMMA ModePosesOf ==
  ASSUME BookInv, Constructed, NEW i \in Modes, mode_length(i) > 1,
         NEW count \in [Modes -> Nat], CountsFit(count)
  PROVE  LET s == ModePoses(i, count)
         IN  /\ s \in Seq(Nat) /\ Len(s) > 0
             /\ s[1] = start(i) /\ s[Len(s)] < start(i) + mode_length(i) - 1
             /\ Ascends(s)
<1> DEFINE s == ModePoses(i, count)
           c == count[i]
           L == mode_length(i)
           B(j) == BetweenEnds(j, L, c)
<1>1. start(i) \in Nat /\ L \in Nat \ {0} /\ c \in Nat /\ L > 1
  BY ModesOf
<1>2. c + 1 <= L - 1
  <2>1. c = 0 \/ c + 2 <= L
    BY DEF CountsFit
  <2> HIDE DEF c, L
  <2>2. QED
    BY <1>1, <2>1
<1>3. s = [n \in 1 .. c + 1 |-> start(i) + IF n = 1 THEN 0 ELSE B(n - 1)]
  BY DEF ModePoses
<1> HIDE DEF s, c, L
<1>4. /\ B(0) = 0
      /\ \A j \in 0 .. c : B(j) \in Nat /\ B(j) < L - 1
      /\ \A j \in 0 .. c - 1 : B(j) < B(j + 1)
  BY <1>1, <1>2, BetweenEndsOf
<1> HIDE DEF B
<1>5. ASSUME NEW n \in 1 .. c + 1
      PROVE  s[n] = start(i) + B(n - 1) /\ B(n - 1) \in Nat /\ B(n - 1) < L - 1
  <2>1. n - 1 \in 0 .. c /\ (n = 1 => n - 1 = 0)
    BY <1>1
  <2>2. s[n] = start(i) + IF n = 1 THEN 0 ELSE B(n - 1)
    BY <1>3
  <2>3. B(n - 1) \in Nat /\ B(n - 1) < L - 1
    BY <1>4, <2>1
  <2>4. CASE n = 1
    <3>1. B(n - 1) = 0
      BY <1>4, <2>1, <2>4
    <3>2. QED
      BY <2>2, <2>3, <2>4, <3>1
  <2>5. CASE n # 1
    BY <2>2, <2>3, <2>5
  <2>6. QED
    BY <2>4, <2>5
<1>6. s \in Seq(Nat) /\ Len(s) = c + 1
  <2>1. \A n \in 1 .. c + 1 : s[n] \in Nat
    BY <1>1, <1>5
  <2>2. s = [n \in 1 .. c + 1 |-> s[n]]
    BY <1>3
  <2>3. QED
    BY SMTT(30), <1>1, <2>1, <2>2
<1>7. s[1] = start(i)
  <2>1. 1 \in 1 .. c + 1 /\ 1 - 1 = 0
    BY <1>1
  <2>2. s[1] = start(i) + B(0)
    BY <1>5, <2>1
  <2>3. QED
    BY <1>1, <1>4, <2>2
<1>8. s[c + 1] < start(i) + L - 1
  <2>1. c + 1 \in 1 .. c + 1 /\ (c + 1) - 1 = c
    BY <1>1
  <2>2. s[c + 1] = start(i) + B(c) /\ B(c) \in Nat /\ B(c) < L - 1
    BY <1>5, <2>1
  <2>3. QED
    BY <1>1, <2>2
<1>9. ASSUME NEW n \in 1 .. (c + 1) - 1
      PROVE  s[n] < s[n + 1]
  <2>1. n \in 1 .. c + 1 /\ n + 1 \in 1 .. c + 1 /\ (n + 1) - 1 = (n - 1) + 1 /\ n - 1 \in 0 .. c - 1
    BY <1>1
  <2>2. s[n] = start(i) + B(n - 1) /\ B(n - 1) \in Nat
    BY <1>5, <2>1
  <2>3. s[n + 1] = start(i) + B((n - 1) + 1) /\ B((n - 1) + 1) \in Nat
    <3>1. s[n + 1] = start(i) + B((n + 1) - 1) /\ B((n + 1) - 1) \in Nat
      BY <1>5, <2>1
    <3>2. QED
      BY <2>1, <3>1
  <2>4. B(n - 1) < B((n - 1) + 1)
    BY <1>4, <2>1
  <2>5. QED
    BY <1>1, <2>2, <2>3, <2>4
<1>10. Ascends(s)
  BY <1>6, <1>9 DEF Ascends
<1>11. Len(s) > 0 /\ s[Len(s)] < start(i) + L - 1
  BY <1>1, <1>6, <1>8
<1>12. QED
  BY <1>6, <1>7, <1>10, <1>11 DEF s, L

\* The poses of the first modes go up, from the first knot to before the end of
\* the last of these modes.
LEMMA JoinedPoses ==
  ASSUME BookInv, Constructed, TwoKnotsEach, NEW count \in [Modes -> Nat], CountsFit(count)
  PROVE  LET seqs == [m \in 1 .. num_modes |-> ModePoses(m - 1, count)]
             s    == FlattenSeq(seqs)
         IN  /\ s \in Seq(Nat) /\ Len(s) > 0 /\ s[1] = 0
             /\ s[Len(s)] < Knots - 1
             /\ Ascends(s)
<1> DEFINE seqs == [m \in 1 .. num_modes |-> ModePoses(m - 1, count)]
           End(i) == start(i) + mode_length(i) - 1
           Good(s, i) == /\ s \in Seq(Nat) /\ Len(s) > 0 /\ s[1] = 0
                         /\ s[Len(s)] < End(i)
                         /\ Ascends(s)
<1>1. num_modes \in Nat \ {0} /\ Modes = 0 .. num_modes - 1
  BY ModesOf
<1>2. Len(seqs) = num_modes
  BY <1>1
<1>3. PICK f : /\ FlattenSeq(seqs) = f[num_modes]
               /\ \A i \in 1 .. num_modes : f[i] = IF i = 1 THEN seqs[i] ELSE f[i - 1] \o seqs[i]
  <2> HIDE DEF seqs
  <2>1. QED
    BY <1>1, <1>2, FlattenSteps
<1>4. ASSUME NEW i \in Modes
      PROVE  /\ ModePoses(i, count) \in Seq(Nat) /\ Len(ModePoses(i, count)) > 0
             /\ ModePoses(i, count)[1] = start(i)
             /\ ModePoses(i, count)[Len(ModePoses(i, count))] < End(i)
             /\ Ascends(ModePoses(i, count))
             /\ seqs[i + 1] = ModePoses(i, count)
             /\ i + 1 \in 1 .. num_modes
  <2>1. mode_length(i) > 1
    BY DEF TwoKnotsEach
  <2>2. i + 1 \in 1 .. num_modes /\ (i + 1) - 1 = i
    BY <1>1
  <2>3. seqs[i + 1] = ModePoses(i, count)
    BY <2>2
  <2>4. QED
    BY <2>1, <2>2, <2>3, ModePosesOf
<1> DEFINE S == {n \in Nat : n \in Modes => Good(f[n + 1], n)}
<1>5. 0 \in S
  <2>1. SUFFICES ASSUME 0 \in Modes PROVE Good(f[0 + 1], 0)
    OBVIOUS
  <2>2. 0 + 1 = 1 /\ 0 + 1 \in 1 .. num_modes
    BY <1>1
  <2>3. f[0 + 1] = seqs[0 + 1]
    BY <1>3, <2>2
  <2>4. f[0 + 1] = ModePoses(0, count) /\ start(0) = 0
    BY <1>4, <2>1, <2>3, ModesOf
  <2>5. QED
    BY <1>4, <2>1, <2>4
<1>6. ASSUME NEW n \in Nat, n \in S
      PROVE  n + 1 \in S
  <2>1. SUFFICES ASSUME n + 1 \in Modes PROVE Good(f[n + 1 + 1], n + 1)
    OBVIOUS
  <2> DEFINE k == n + 1
             s == f[k]
             t == ModePoses(k, count)
  <2>2. n \in Modes /\ k \in Modes /\ k + 1 \in 1 .. num_modes /\ k + 1 # 1 /\ (k + 1) - 1 = k
        /\ k > 0 /\ k - 1 = n
    BY <1>1, <2>1
  <2>3. Good(s, n)
    BY <1>6, <2>2
  <2>4. f[k + 1] = s \o t
    <3>1. f[k + 1] = f[(k + 1) - 1] \o seqs[k + 1]
      BY <1>3, <2>2
    <3>2. seqs[k + 1] = t
      BY <1>4, <2>2
    <3>3. QED
      BY <2>2, <3>1, <3>2
  <2> HIDE DEF S, k
  <2>5. start(k) = End(n)
    <3>1. start(k) = start(k - 1) + mode_length(k - 1) - 1
      BY <2>2, ModesOf
    <3>2. QED
      BY <2>2, <3>1
  <2>6. /\ t \in Seq(Nat) /\ Len(t) > 0 /\ t[1] = start(k) /\ t[Len(t)] < End(k) /\ Ascends(t)
    BY <1>4, <2>2
  <2> HIDE DEF s, t
  <2>7. /\ s \o t \in Seq(Nat) /\ Len(s \o t) = Len(s) + Len(t)
        /\ (s \o t)[1] = s[1] /\ (s \o t)[Len(s) + Len(t)] = t[Len(t)]
        /\ Ascends(s \o t)
    BY <2>3, <2>5, <2>6, ConcatAscends
  <2>8. Len(s \o t) > 0
    BY <2>3, <2>6, <2>7
  <2>9. Good(s \o t, k)
    BY <2>3, <2>6, <2>7, <2>8
  <2>10. QED
    BY <2>4, <2>9 DEF k
<1>7. Nat \subseteq S
  <2> HIDE DEF S
  <2>1. QED
    BY <1>5, <1>6, SetInduction
<1> DEFINE last == num_modes - 1
<1>8. last \in Nat /\ last \in Modes /\ last + 1 = num_modes
  BY <1>1
<1>9. Good(f[last + 1], last)
  <2> HIDE DEF last, Good
  <2>1. QED
    BY <1>7, <1>8
<1>10. Good(FlattenSeq(seqs), last)
  <2> HIDE DEF Good, seqs, last
  <2>1. QED
    BY <1>3, <1>8, <1>9
<1>11. End(last) = Knots - 1
  BY KnotsOf
<1> HIDE DEF seqs, last
<1>12. QED
  BY <1>10, <1>11 DEF seqs

\* With the end of the last mode the poses go from the first knot to the last.
LEMMA PosesGoUp == BookInv /\ PosesInv => PosesAscend
<1> SUFFICES ASSUME BookInv, PosesInv, TwoKnotsEach, poses_ # <<>>
             PROVE  /\ poses_[1] = 0 /\ Last(poses_) = Knots - 1
                    /\ \A n \in 1 .. Len(poses_) - 1 : poses_[n] < poses_[n + 1]
  BY DEF PosesAscend
<1>1. Constructed
  BY DEF BookInv, Stages, Typed, Constructed
<1>2. PICK count \in [Modes -> Nat] : CountsFit(count) /\ poses_ = PosesOf(count)
  BY DEF PosesInv
<1> DEFINE seqs == [m \in 1 .. num_modes |-> ModePoses(m - 1, count)]
           s == FlattenSeq(seqs)
           e == start(num_modes - 1) + mode_length(num_modes - 1) - 1
<1>3. PosesOf(count) = s \o <<e>>
  BY Zenon DEF PosesOf, ModePoses, start
<1>4. /\ s \in Seq(Nat) /\ Len(s) > 0 /\ s[1] = 0
      /\ s[Len(s)] < Knots - 1
      /\ Ascends(s)
  BY <1>1, <1>2, JoinedPoses
<1>5. e = Knots - 1 /\ e \in Nat
  <2>1. num_modes - 1 \in Modes
    BY <1>1, ModesOf
  <2>2. start(num_modes - 1) \in Nat /\ mode_length(num_modes - 1) \in Nat \ {0}
    BY <1>1, <2>1, ModesOf
  <2>3. QED
    BY <1>1, <2>2, KnotsOf
<1> HIDE DEF s, e
<1> DEFINE t == <<e>>
<1>6. t \in Seq(Nat) /\ Len(t) = 1 /\ t[1] = e /\ Ascends(t)
  BY <1>5 DEF Ascends
<1>7. poses_ = s \o t
  BY <1>2, <1>3
<1> HIDE DEF t
<1>8. /\ s \o t \in Seq(Nat) /\ Len(s \o t) = Len(s) + Len(t)
      /\ (s \o t)[1] = s[1] /\ (s \o t)[Len(s) + Len(t)] = t[Len(t)]
      /\ Ascends(s \o t)
  <2>1. s[Len(s)] < t[1] /\ Len(t) > 0
    BY <1>4, <1>5, <1>6
  <2>2. QED
    BY <1>4, <1>6, <2>1, ConcatAscends
<1>9. poses_[1] = 0
  BY <1>4, <1>7, <1>8
<1>10. Last(poses_) = Knots - 1
  BY <1>5, <1>6, <1>7, <1>8 DEF Last
<1>11. \A n \in 1 .. Len(poses_) - 1 : poses_[n] < poses_[n + 1]
  BY <1>7, <1>8 DEF Ascends
<1>12. QED
  BY <1>9, <1>10, <1>11

\* dircon.cc:421-550: whatever the number of poses, given for every mode or
\* divided, the picture shows the knots in order, from the first to the last.
THEOREM DirconPosesAscend == Spec => []PosesAscend
<1>1. Init => PosesInv
  BY BookInit
<1>2. BookInv /\ PosesInv /\ [Next]_vars => PosesInv'
  BY PosesStep
<1>3. BookInv /\ PosesInv => PosesAscend
  BY PosesGoUp
<1>4. QED
  BY <1>1, <1>2, <1>3, DirconBook, PTL DEF Spec

\* The poses of the modes are one more for each than was counted between.
LEMMA ModePosesCounted ==
  ASSUME BookInv, Constructed, NEW i \in Modes, NEW count \in [Modes -> Nat]
  PROVE  ModePoses(i, count) \in Seq(Nat) /\ Len(ModePoses(i, count)) = count[i] + 1
<1> DEFINE c == count[i]
           L == mode_length(i)
           s == ModePoses(i, count)
<1>1. start(i) \in Nat /\ L \in Nat \ {0} /\ c \in Nat
  BY ModesOf
<1>2. s = [n \in 1 .. c + 1 |-> start(i) + IF n = 1 THEN 0 ELSE BetweenEnds(n - 1, L, c)]
  BY DEF ModePoses
<1> HIDE DEF s, c, L
<1>3. ASSUME NEW n \in 1 .. c + 1
      PROVE  BetweenEnds(n - 1, L, c) \in Nat
  <2>1. n - 1 \in Nat /\ L - 1 \in Nat /\ c + 1 \in Nat \ {0}
    BY <1>1
  <2> DEFINE x == (n - 1) * (L - 1)
  <2>2. x \in Nat
    BY <2>1
  <2> HIDE DEF x
  <2>3. x \div (c + 1) \in Nat
    BY <2>1, <2>2, DivMod
  <2>4. QED
    BY <2>3 DEF x, BetweenEnds
<1>4. \A n \in 1 .. c + 1 : s[n] \in Nat
  BY <1>1, <1>2, <1>3
<1>5. s = [n \in 1 .. c + 1 |-> s[n]]
  BY <1>2
<1>6. s \in Seq(Nat) /\ Len(s) = c + 1
  <2> DEFINE N == c + 1
  <2>1. N \in Nat
    BY <1>1
  <2>2. s = [n \in 1 .. N |-> s[n]] /\ \A n \in 1 .. N : s[n] \in Nat
    BY <1>4, <1>5
  <2> HIDE DEF N
  <2>3. s \in Seq(Nat) /\ Len(s) = N
    BY <2>1, <2>2
  <2>4. QED
    BY <2>3 DEF N
<1>7. QED
  BY <1>6 DEF s, c

\* As many poses are drawn as are counted, and the ends of the modes.
LEMMA PosesCounted ==
  ASSUME BookInv, Constructed, NEW count \in [Modes -> Nat]
  PROVE  Len(PosesOf(count)) = Total(count) + num_modes + 1
<1> DEFINE seqs == [m \in 1 .. num_modes |-> ModePoses(m - 1, count)]
           d == [m \in 1 .. num_modes |-> count[m - 1]]
           end == start(num_modes - 1) + mode_length(num_modes - 1) - 1
<1>1. num_modes \in Nat \ {0} /\ Modes = 0 .. num_modes - 1
  BY ModesOf
<1>2. Len(seqs) = num_modes
  BY <1>1
<1>3. PICK f : /\ FlattenSeq(seqs) = f[num_modes]
               /\ \A i \in 1 .. num_modes : f[i] = IF i = 1 THEN seqs[i] ELSE f[i - 1] \o seqs[i]
  <2> HIDE DEF seqs
  <2>1. QED
    BY <1>1, <1>2, FlattenSteps
<1>4. ASSUME NEW i \in Modes
      PROVE  /\ seqs[i + 1] \in Seq(Nat) /\ Len(seqs[i + 1]) = count[i] + 1
             /\ i + 1 \in 1 .. num_modes /\ count[i] \in Nat
  <2>1. i + 1 \in 1 .. num_modes /\ (i + 1) - 1 = i
    BY <1>1
  <2>2. seqs[i + 1] = ModePoses(i, count)
    BY <2>1
  <2>3. QED
    BY <2>1, <2>2, ModePosesCounted
<1>5. /\ d \in Seq(Nat) /\ Len(d) = num_modes
      /\ Total(count) = Accumulate(d)[num_modes]
      /\ \A i \in Modes : Accumulate(d)[i + 1] = Accumulate(d)[i] + count[i]
  BY TotalOf
<1> HIDE DEF d, seqs
<1>6. /\ Accumulate(d)[0] = 0
      /\ \A n \in 0 .. num_modes : Accumulate(d)[n] \in Nat
  BY <1>1, <1>5, AccumulateStep, AccumulateNat
<1> DEFINE S == {n \in Nat : n + 1 <= num_modes =>
                    f[n + 1] \in Seq(Nat) /\ Len(f[n + 1]) = Accumulate(d)[n + 1] + (n + 1)}
<1>7. 0 \in S
  <2>1. 0 \in Modes /\ 0 + 1 = 1 /\ 1 \in 1 .. num_modes
    BY <1>1
  <2>2. f[1] = seqs[1]
    BY <1>3, <2>1
  <2>3. seqs[1] \in Seq(Nat) /\ Len(seqs[1]) = count[0] + 1
    BY <1>4, <2>1
  <2>4. Accumulate(d)[1] = 0 + count[0] /\ count[0] \in Nat
    BY <1>4, <1>5, <1>6, <2>1
  <2>5. QED
    BY <2>1, <2>2, <2>3, <2>4
<1>8. ASSUME NEW n \in Nat, n \in S
      PROVE  n + 1 \in S
  <2> DEFINE k == n + 1
  <2>1. SUFFICES ASSUME k + 1 <= num_modes
                 PROVE  f[k + 1] \in Seq(Nat) /\ Len(f[k + 1]) = Accumulate(d)[k + 1] + (k + 1)
    OBVIOUS
  <2>2. k \in Modes /\ k + 1 \in 1 .. num_modes /\ k + 1 # 1 /\ (k + 1) - 1 = k /\ k \in 0 .. num_modes
    BY <1>1, <2>1
  <2>3. f[k] \in Seq(Nat) /\ Len(f[k]) = Accumulate(d)[k] + k
    <3>1. k <= num_modes
      BY <1>1, <2>1
    <3>2. QED
      BY <1>8, <3>1
  <2> HIDE DEF k, S
  <2>4. f[k + 1] = f[k] \o seqs[k + 1]
    BY <1>3, <2>2
  <2>5. seqs[k + 1] \in Seq(Nat) /\ Len(seqs[k + 1]) = count[k] + 1 /\ count[k] \in Nat
    BY <1>4, <2>2
  <2>6. f[k + 1] \in Seq(Nat) /\ Len(f[k + 1]) = Len(f[k]) + Len(seqs[k + 1])
    <3> DEFINE s == f[k]
               t == seqs[k + 1]
    <3>1. s \in Seq(Nat) /\ t \in Seq(Nat) /\ f[k + 1] = s \o t
      BY <2>3, <2>4, <2>5
    <3> HIDE DEF s, t
    <3>2. s \o t \in Seq(Nat) /\ Len(s \o t) = Len(s) + Len(t)
      BY <3>1
    <3>3. QED
      BY <3>1, <3>2 DEF s, t
  <2>7. Accumulate(d)[k + 1] = Accumulate(d)[k] + count[k] /\ Accumulate(d)[k] \in Nat /\ k \in Nat
    BY <1>1, <1>5, <1>6, <2>2
  <2>8. Len(f[k + 1]) = Accumulate(d)[k + 1] + (k + 1)
    <3> DEFINE a == Accumulate(d)[k]
               b == Accumulate(d)[k + 1]
               x == Len(f[k])
               y == Len(seqs[k + 1])
               z == Len(f[k + 1])
               e == count[k]
    <3>1. x = a + k /\ y = e + 1 /\ z = x + y /\ b = a + e
      BY <2>3, <2>5, <2>6, <2>7
    <3>2. a \in Nat /\ e \in Nat /\ k \in Nat
      BY <2>5, <2>7
    <3> HIDE DEF a, b, x, y, z, e
    <3>3. z = b + (k + 1)
      BY <3>1, <3>2
    <3>4. QED
      BY <3>3 DEF b, z
  <2>9. QED
    BY <2>6, <2>8
<1>9. Nat \subseteq S
  <2> HIDE DEF S
  <2>1. QED
    BY <1>7, <1>8, SetInduction
<1>10. num_modes - 1 \in S
  <2> HIDE DEF S
  <2>1. QED
    BY <1>1, <1>9
<1>11. f[num_modes] \in Seq(Nat) /\ Len(f[num_modes]) = Total(count) + num_modes
  <2>1. (num_modes - 1) + 1 = num_modes
    BY <1>1
  <2>2. QED
    BY <1>1, <1>5, <1>10, <2>1
<1>12. end \in Nat
  <2>1. num_modes - 1 \in Modes
    BY <1>1
  <2>2. start(num_modes - 1) \in Nat /\ mode_length(num_modes - 1) \in Nat \ {0}
    BY <2>1, ModesOf
  <2>3. QED
    BY <2>2
<1>13. PosesOf(count) = FlattenSeq(seqs) \o <<end>>
  BY Zenon DEF PosesOf, ModePoses, start, seqs
<1> HIDE DEF end
<1>14. QED
  BY <1>3, <1>11, <1>12, <1>13

\* For every number of poses between that of the modes' ends and that of the
\* knots: what is drawn, if the counts fit, has as many poses as were asked for.
THEOREM DirconAsManyAsAsked == Spec => AsManyAsAsked
<1>1. ASSUME BookInv, NEW num_poses \in num_modes + 1 .. Knots,
             CreateVisualizationCallbackOf(num_poses), failed_' # "poses"
      PROVE  Len(poses_') = num_poses
  <2> DEFINE count == DividePoses(num_poses)
  <2>1. CASE CountsFit(count) /\ DrawPoses(count)
    <3>1. Constructed /\ poses_' = PosesOf(count)
      BY <2>1 DEF DrawPoses, Call, Constructed
    <3>2. count \in [Modes -> Nat] /\ Total(count) = num_poses - num_modes - 1
      BY <1>1, <3>1, DividePosesOf
    <3> HIDE DEF count
    <3>3. Len(PosesOf(count)) = Total(count) + num_modes + 1
      BY <1>1, <3>1, <3>2, PosesCounted
    <3>4. num_modes \in Nat /\ Knots \in Nat
      BY <1>1, <3>1, ModesOf, KnotsOf
    <3>5. QED
      BY <3>1, <3>2, <3>3, <3>4
  <2>2. CASE Fail("poses")
    BY <1>1, <2>2 DEF Fail
  <2>3. QED
    BY <1>1, <2>1, <2>2, Zenon DEF CreateVisualizationCallbackOf
<1>2. BookInv => [\A num_poses \in num_modes + 1 .. Knots :
                     (CreateVisualizationCallbackOf(num_poses) /\ failed_' # "poses")
                         => Len(poses_') = num_poses]_vars
  BY <1>1
<1>3. QED
  BY <1>2, DirconBook, PTL DEF AsManyAsAsked

------------------------------------------------------------------------------
(* The cache of the dynamics that the program evaluates (DynamicsCache), for *)
(* every size and any number of keys, with or without a NaN: the map and the *)
(* queue agree, and the cache remembers exactly what was computed within the *)
(* last max_size_ - 1 misses.                                                *)

CacheTyped ==
    /\ map_ \in SUBSET Keys
    /\ lost \in Nat
    /\ queue_ \in Seq(Keys \cup NaNKeys)
    /\ age \in [Keys -> 0 .. max_size_]

\* The queue holds the keys of the map, and a key's age is its place.
Ages ==
    /\ \A k \in Keys : k \in map_ <=> \E i \in 1 .. Len(queue_) : queue_[i] = k
    /\ \A i \in 1 .. Len(queue_) :
           queue_[i] \in Keys => age[queue_[i]] = Len(queue_) - i
    /\ \A k \in Keys \ map_ : age[k] >= max_size_ - 1

\* The map grows with the queue until the queue has its final length; from then
\* on every computation erases, whether or not the front can be found.
Sizes ==
    /\ Len(queue_) <= max_size_ - 1
    /\ Len(queue_) < max_size_ - 1 => Size = Len(queue_)
    /\ Size >= Len(queue_)
    /\ lost = 0 => /\ Size = Len(queue_)
                   /\ \A i \in 1 .. Len(queue_) : queue_[i] \in Keys

CacheInv == CacheTyped /\ Ages /\ Sizes

------------------------------------------------------------------------------
LEMMA CacheInvInit == CacheInit => CacheInv
<1> SUFFICES ASSUME CacheInit
             PROVE  CacheInv
  OBVIOUS
<1> USE CacheAssumption DEF CacheAssumption
<1>1. CacheTyped
  BY DEF CacheInit, CacheTyped
<1>2. Len(queue_) = 0 /\ 1 .. Len(queue_) = {}
  BY DEF CacheInit
<1>3. Ages
  BY <1>2 DEF CacheInit, Ages
<1>4. Size = 0
  BY FS_EmptySet DEF CacheInit, Size
<1> QED
  BY <1>1, <1>2, <1>3, <1>4 DEF CacheInv, Sizes

\* A computation before the queue has its final length: nothing is erased.
LEMMA ComputeGrowing ==
    ASSUME CacheInv, NEW key \in Keys \cup NaNKeys, key \notin map_, Compute(key),
           Len(queue_) < max_size_ - 1
    PROVE  CacheInv'
<1> USE CacheAssumption DEF CacheAssumption
<1> DEFINE found == IF key \in Keys THEN map_ \cup {key} ELSE map_
           gone  == IF key \in Keys THEN lost ELSE lost + 1
           n     == Len(queue_)
<1>1. /\ map_ \in SUBSET Keys /\ lost \in Nat /\ n \in Nat
      /\ queue_ \in Seq(Keys \cup NaNKeys) /\ age \in [Keys -> 0 .. max_size_]
      /\ Size = n
  BY DEF CacheInv, CacheTyped, Sizes
<1>2. IsFiniteSet(map_) /\ Cardinality(map_) \in Nat
  BY <1>1, FS_Subset, FS_CardinalityType
<1>3. Cardinality(found) + gone = n + 1
  <2>1. Cardinality(map_) + lost = n
    BY <1>1 DEF Size
  <2>2. CASE key \in Keys
    <3>1. Cardinality(map_ \cup {key}) = Cardinality(map_) + 1
      BY <1>2, FS_AddElement
    <3> QED
      BY <3>1, <2>1, <2>2, <1>1, <1>2
  <2>3. CASE key \notin Keys
    BY <2>1, <2>3, <1>1, <1>2
  <2> QED
    BY <2>2, <2>3
<1>4. ~AtLimit(Cardinality(found) + gone)
  BY <1>1, <1>3 DEF AtLimit
<1>5. /\ lost' = gone /\ map_' = found
      /\ queue_' = Append(queue_, key)
      /\ age' = [k \in Keys |-> IF k = key THEN 0
                                ELSE IF age[k] < max_size_ THEN age[k] + 1 ELSE max_size_]
  BY <1>4 DEF Compute
<1>6. /\ queue_' \in Seq(Keys \cup NaNKeys)
      /\ Len(queue_') = n + 1
      /\ queue_'[n + 1] = key
      /\ \A i \in 1 .. n : queue_'[i] = queue_[i]
  BY <1>1, <1>5
<1>7. CacheTyped'
  BY <1>1, <1>5, <1>6 DEF CacheTyped
<1>8. Size' = n + 1
  BY <1>3, <1>5 DEF Size
<1>9. \A i \in 1 .. n + 1 : i = n + 1 \/ i \in 1 .. n
  BY <1>1
<1>10. Ages'
  <2>1. ASSUME NEW k \in Keys
        PROVE  k \in map_' <=> \E i \in 1 .. n + 1 : queue_'[i] = k
    <3>1. k \in map_' <=> k \in map_ \/ k = key
      BY <1>5
    <3>2. k \in map_ <=> \E i \in 1 .. n : queue_[i] = k
      BY DEF CacheInv, Ages
    <3>3. (\E i \in 1 .. n + 1 : queue_'[i] = k) <=> (\E i \in 1 .. n : queue_[i] = k) \/ key = k
      <4>1. n + 1 \in 1 .. n + 1 /\ \A i \in 1 .. n : i \in 1 .. n + 1
        BY <1>1
      <4> QED
        BY <4>1, <1>6, <1>9
    <3> QED
      BY <3>1, <3>2, <3>3
  <2>2. ASSUME NEW i \in 1 .. n + 1, queue_'[i] \in Keys
        PROVE  age'[queue_'[i]] = n + 1 - i
    <3>1. CASE i = n + 1
      BY <3>1, <2>2, <1>1, <1>5, <1>6
    <3>2. CASE i \in 1 .. n
      <4>1. queue_'[i] = queue_[i] /\ queue_[i] \in Keys
        BY <3>2, <2>2, <1>6
      <4>2. age[queue_[i]] = n - i
        BY <4>1, <3>2 DEF CacheInv, Ages
      <4>3. queue_[i] # key
        BY <4>1, <3>2 DEF CacheInv, Ages
      <4>4. age'[queue_[i]] = IF age[queue_[i]] < max_size_ THEN age[queue_[i]] + 1 ELSE max_size_
        BY <4>1, <4>3, <1>5
      <4>5. n - i < max_size_ /\ n - i \in Int
        BY <1>1, <3>2
      <4>6. age'[queue_[i]] = n - i + 1
        BY <4>2, <4>4, <4>5
      <4> QED
        BY <4>1, <4>6, <1>1, <3>2
    <3> QED
      BY <3>1, <3>2, <1>9
  <2>3. ASSUME NEW k \in Keys \ map_'
        PROVE  age'[k] >= max_size_ - 1
    <3>1. k \in Keys \ map_ /\ k # key
      BY <2>3, <1>5
    <3>2. age[k] >= max_size_ - 1 /\ age[k] \in 0 .. max_size_
      BY <3>1, <1>1 DEF CacheInv, Ages
    <3>3. age'[k] = IF age[k] < max_size_ THEN age[k] + 1 ELSE max_size_
      BY <3>1, <1>5
    <3> QED
      BY <3>2, <3>3
  <2> QED
    BY <2>1, <2>2, <2>3, <1>6 DEF Ages
<1>11. lost' = 0 => \A i \in 1 .. n + 1 : queue_'[i] \in Keys
  <2>1. lost' = 0 => lost = 0 /\ key \in Keys
    BY <1>1, <1>5
  <2>2. lost = 0 => \A i \in 1 .. n : queue_[i] \in Keys
    BY DEF CacheInv, Sizes
  <2> QED
    BY <2>1, <2>2, <1>6, <1>9
<1>12. Sizes'
  BY <1>1, <1>6, <1>8, <1>11 DEF Sizes
<1> QED
  BY <1>7, <1>10, <1>12 DEF CacheInv

\* A computation when the queue has its final length: the oldest is erased.
LEMMA ComputeFull ==
    ASSUME CacheInv, NEW key \in Keys \cup NaNKeys, key \notin map_, Compute(key),
           Len(queue_) = max_size_ - 1
    PROVE  CacheInv'
<1> USE CacheAssumption DEF CacheAssumption
<1> DEFINE found == IF key \in Keys THEN map_ \cup {key} ELSE map_
           gone  == IF key \in Keys THEN lost ELSE lost + 1
           n     == Len(queue_)
           old   == Head(queue_)
<1>1. /\ map_ \in SUBSET Keys /\ lost \in Nat /\ n \in Nat /\ n >= 1
      /\ queue_ \in Seq(Keys \cup NaNKeys) /\ age \in [Keys -> 0 .. max_size_]
      /\ Size >= n
      /\ n = max_size_ - 1
  BY DEF CacheInv, CacheTyped, Sizes
<1>2. IsFiniteSet(map_) /\ Cardinality(map_) \in Nat
  BY <1>1, FS_Subset, FS_CardinalityType
<1>3. /\ IsFiniteSet(found) /\ Cardinality(found) \in Nat
      /\ Cardinality(found) + gone = Size + 1
  <2>1. CASE key \in Keys
    <3>1. IsFiniteSet(map_ \cup {key}) /\ Cardinality(map_ \cup {key}) = Cardinality(map_) + 1
      BY <1>2, FS_AddElement
    <3> QED
      BY <3>1, <2>1, <1>1, <1>2 DEF Size
  <2>2. CASE key \notin Keys
    BY <2>2, <1>1, <1>2 DEF Size
  <2> QED
    BY <2>1, <2>2
<1>4. AtLimit(Cardinality(found) + gone)
  BY <1>1, <1>2, <1>3 DEF AtLimit, Size
<1>5. /\ lost' = gone /\ map_' = found \ {old}
      /\ queue_' = Append(Tail(queue_), key)
      /\ age' = [k \in Keys |-> IF k = key THEN 0
                                ELSE IF age[k] < max_size_ THEN age[k] + 1 ELSE max_size_]
  BY <1>4 DEF Compute, Evicted
<1>6. /\ queue_' \in Seq(Keys \cup NaNKeys)
      /\ Len(queue_') = n
      /\ queue_'[n] = key
      /\ \A i \in 1 .. n - 1 : queue_'[i] = queue_[i + 1]
      /\ old = queue_[1]
  <2>1. queue_ # <<>>
    BY <1>1
  <2>2. /\ Tail(queue_) \in Seq(Keys \cup NaNKeys)
        /\ Len(Tail(queue_)) = n - 1
        /\ \A i \in 1 .. n - 1 : Tail(queue_)[i] = queue_[i + 1]
    BY <1>1, <2>1
  <2> QED
    BY <2>1, <2>2, <1>1, <1>5
<1>7. CacheTyped'
  BY <1>1, <1>5, <1>6 DEF CacheTyped
<1>8. Cardinality(map_') = IF old \in found THEN Cardinality(found) - 1 ELSE Cardinality(found)
  BY <1>3, <1>5, FS_RemoveElement
<1>9. /\ \A i \in 1 .. n : i = n \/ (i \in 1 .. n - 1 /\ i + 1 \in 1 .. n)
      /\ \A i \in 1 .. n : i = 1 \/ (i - 1 \in 1 .. n - 1 /\ i \in 1 .. n /\ (i - 1) + 1 = i)
      /\ \A i \in 1 .. n - 1 : i \in 1 .. n
      /\ n \in 1 .. n /\ 1 \in 1 .. n
  BY <1>1
<1>10. /\ \A k \in Keys : k \in map_ <=> \E i \in 1 .. n : queue_[i] = k
       /\ \A i \in 1 .. n : queue_[i] \in Keys => age[queue_[i]] = n - i
       /\ \A k \in Keys \ map_ : age[k] >= max_size_ - 1
  <2>1. Ages
    BY DEF CacheInv
  <2> QED
    BY <2>1, Zenon DEF Ages
<1>11. key \in Keys => old # key
  BY <1>1, <1>6, <1>9, <1>10
<1>12. \A i \in 1 .. n - 1 : queue_[i + 1] \in Keys => queue_[i + 1] # old
  <2> SUFFICES ASSUME NEW i \in 1 .. n - 1, queue_[i + 1] \in Keys, queue_[i + 1] = old
               PROVE  FALSE
    OBVIOUS
  <2>1. i + 1 \in 1 .. n /\ i \in Int /\ i >= 1
    BY <1>1
  <2>2. age[old] = n - 1 /\ age[old] = n - (i + 1)
    BY <2>1, <1>6, <1>9, <1>10
  <2> QED
    BY <2>1, <2>2, <1>1
<1>13. Ages'
  <2>1. ASSUME NEW k \in Keys
        PROVE  k \in map_' <=> \E i \in 1 .. n : queue_'[i] = k
    <3>1. k \in map_' <=> (k \in map_ /\ k # old) \/ k = key
      BY <1>5, <1>11
    <3>2. ASSUME k \in map_, k # old
          PROVE  \E i \in 1 .. n : queue_'[i] = k
      <4>1. PICK i \in 1 .. n : queue_[i] = k
        BY <3>2, <1>10
      <4>2. i # 1
        BY <4>1, <3>2, <1>6
      <4>3. i - 1 \in 1 .. n - 1 /\ i - 1 \in 1 .. n /\ queue_'[i - 1] = queue_[(i - 1) + 1]
            /\ (i - 1) + 1 = i
        BY <4>2, <1>6, <1>9
      <4> QED
        BY <4>1, <4>3
    <3>3. ASSUME NEW i \in 1 .. n, queue_'[i] = k, k # key
          PROVE  k \in map_ /\ k # old
      <4>1. i \in 1 .. n - 1 /\ i + 1 \in 1 .. n /\ queue_'[i] = queue_[i + 1]
        BY <3>3, <1>6, <1>9
      <4> QED
        BY <4>1, <3>3, <1>10, <1>12
    <3>4. k = key => \E i \in 1 .. n : queue_'[i] = k
      BY <1>6, <1>9
    <3> QED
      BY <3>1, <3>2, <3>3, <3>4
  <2>2. ASSUME NEW i \in 1 .. n, queue_'[i] \in Keys
        PROVE  age'[queue_'[i]] = n - i
    <3>1. CASE i = n
      BY <3>1, <2>2, <1>1, <1>5, <1>6
    <3>2. CASE i \in 1 .. n - 1
      <4>1. queue_'[i] = queue_[i + 1] /\ queue_[i + 1] \in Keys /\ i + 1 \in 1 .. n
        BY <3>2, <2>2, <1>6, <1>1
      <4>2. age[queue_[i + 1]] = n - (i + 1)
        BY <4>1, <1>10
      <4>3. queue_[i + 1] # key
        BY <4>1, <1>10
      <4>4. age'[queue_[i + 1]] = IF age[queue_[i + 1]] < max_size_ THEN age[queue_[i + 1]] + 1
                                  ELSE max_size_
        BY <4>1, <4>3, <1>5
      <4>5. n - (i + 1) < max_size_ /\ n - (i + 1) + 1 = n - i
        BY <1>1, <3>2
      <4>6. age'[queue_[i + 1]] = n - i
        BY <4>2, <4>4, <4>5
      <4> QED
        BY <4>1, <4>6
    <3> QED
      BY <3>1, <3>2, <1>9
  <2>3. ASSUME NEW k \in Keys \ map_'
        PROVE  age'[k] >= max_size_ - 1
    <3>1. k # key /\ (k \in Keys \ map_ \/ k = old)
      BY <2>3, <1>5, <1>11
    <3>2. age[k] >= n - 1 /\ age[k] \in 0 .. max_size_
      <4>1. CASE k \in Keys \ map_
        BY <4>1, <1>1, <1>10
      <4>2. CASE k = old
        <5>1. age[k] = n - 1
          BY <4>2, <1>6, <1>9, <1>10
        <5> QED
          BY <5>1, <1>1
      <4> QED
        BY <4>1, <4>2, <3>1
    <3>3. age'[k] = IF age[k] < max_size_ THEN age[k] + 1 ELSE max_size_
      BY <3>1, <1>5
    <3> QED
      BY <3>2, <3>3, <1>1
  <2> QED
    BY <2>1, <2>2, <2>3, <1>6 DEF Ages
<1>14. Size' >= n
  BY <1>1, <1>2, <1>3, <1>5, <1>8 DEF Size
<1>15. lost' = 0 => Size' = n /\ \A i \in 1 .. n : queue_'[i] \in Keys
  <2> SUFFICES ASSUME lost' = 0
               PROVE  Size' = n /\ \A i \in 1 .. n : queue_'[i] \in Keys
    OBVIOUS
  <2>1. lost = 0 /\ key \in Keys
    BY <1>1, <1>5
  <2>2. Size = n /\ \A i \in 1 .. n : queue_[i] \in Keys
    BY <2>1 DEF CacheInv, Sizes
  <2>3. old \in found
    BY <2>2, <1>6, <1>9, <1>10
  <2>4. Size' = n
    BY <2>1, <2>2, <2>3, <1>1, <1>2, <1>3, <1>5, <1>8 DEF Size
  <2>5. \A i \in 1 .. n : queue_'[i] \in Keys
    BY <2>1, <2>2, <1>6, <1>9
  <2> QED
    BY <2>4, <2>5
<1>16. Sizes'
  BY <1>1, <1>6, <1>14, <1>15 DEF Sizes
<1> QED
  BY <1>7, <1>13, <1>16 DEF CacheInv

\* The invariant holds of every size and every set of keys.
THEOREM CacheInvariant == CacheSpec => []CacheInv
<1>1. CacheInv /\ [CacheNext]_cache_vars => CacheInv'
  <2> SUFFICES ASSUME CacheInv, [CacheNext]_cache_vars
               PROVE  CacheInv'
    OBVIOUS
  <2>1. CASE UNCHANGED cache_vars
    <3>1. /\ map_' = map_ /\ lost' = lost /\ queue_' = queue_ /\ age' = age
          /\ Size' = Size
      BY <2>1 DEF cache_vars, Size
    <3>2. CacheTyped' /\ Ages' /\ Sizes'
      BY <3>1 DEF CacheInv, CacheTyped, Ages, Sizes
    <3> QED
      BY <3>2 DEF CacheInv
  <2>2. ASSUME NEW key \in Keys \cup NaNKeys, Miss(key)
        PROVE  CacheInv'
    <3>1. key \notin map_ /\ Compute(key)
      BY <2>2 DEF Miss
    <3>2. Len(queue_) < max_size_ - 1 \/ Len(queue_) = max_size_ - 1
      BY CacheAssumption DEF CacheAssumption, CacheInv, CacheTyped, Sizes
    <3> QED
      BY <3>1, <3>2, ComputeGrowing, ComputeFull
  <2> QED
    BY <2>1, <2>2 DEF CacheNext, Hit, cache_vars
<1> QED
  BY <1>1, CacheInvInit, PTL DEF CacheSpec

\* Type correctness: the map holds keys, the queue also those with a NaN.
THEOREM CacheTypes == CacheSpec => []CacheTypeOK
<1> DEFINE Bounded == lost \in 0 .. MaxLost
<1>1. CacheInit => Bounded
  BY CacheAssumption DEF CacheAssumption, CacheInit
<1>2. CacheInv /\ Bounded /\ [CacheNext]_cache_vars => Bounded'
  <2> SUFFICES ASSUME Bounded, [CacheNext]_cache_vars
               PROVE  lost' \in 0 .. MaxLost
    OBVIOUS
  <2>1. CASE UNCHANGED cache_vars
    BY <2>1 DEF cache_vars
  <2>2. ASSUME NEW key \in Keys, Hit(key) \/ Miss(key)
        PROVE  lost' = lost
    BY <2>2 DEF Hit, Miss, Compute, cache_vars
  <2>3. ASSUME NEW key \in NaNKeys, lost < MaxLost, Miss(key)
        PROVE  lost' = lost + 1
    BY <2>3, CacheAssumption DEF CacheAssumption, Miss, Compute
  <2>4. lost' = lost \/ (lost < MaxLost /\ lost' = lost + 1)
    BY <2>1, <2>2, <2>3 DEF CacheNext, cache_vars
  <2> QED
    BY <2>4, CacheAssumption DEF CacheAssumption
<1>3. CacheInv /\ Bounded => CacheTypeOK
  BY DEF CacheInv, CacheTyped, CacheTypeOK
<1> HIDE DEF Bounded
<1> QED
  BY <1>1, <1>2, <1>3, CacheInvariant, PTL DEF CacheSpec

\* Map and queue name the same keys, none twice, so what is erased is the oldest,
\* and both stay below max_size_ (the map but for entries with a NaN).
THEOREM CacheQueueIsMap == CacheSpec => []QueueIsMap
<1>1. CacheInv => QueueIsMap
  <2> SUFFICES ASSUME CacheInv
               PROVE  QueueIsMap
    OBVIOUS
  <2> USE CacheAssumption DEF CacheAssumption
  <2>1. /\ map_ \in SUBSET Keys /\ Len(queue_) \in Nat
        /\ DOMAIN queue_ = 1 .. Len(queue_)
    BY DEF CacheInv, CacheTyped
  <2>2. map_ = {k \in Keys : \E i \in DOMAIN queue_ : queue_[i] = k}
    BY <2>1 DEF CacheInv, Ages
  <2>3. ASSUME NEW i \in DOMAIN queue_, NEW j \in DOMAIN queue_,
               queue_[i] = queue_[j], queue_[i] \in Keys
        PROVE  i = j
    <3>1. Len(queue_) - i = Len(queue_) - j
      BY <2>1, <2>3 DEF CacheInv, Ages
    <3> QED
      BY <3>1, <2>1
  <2>4. Len(queue_) < max_size_ /\ (lost = 0 => Size < max_size_)
    BY <2>1 DEF CacheInv, Sizes
  <2> QED
    BY <2>2, <2>3, <2>4 DEF QueueIsMap
<1> QED
  BY <1>1, CacheInvariant, PTL

\* "Want to set cache_size > number of decision variables": a key is remembered
\* if and only if fewer than max_size_ - 1 others were computed since.
THEOREM CacheRemembersLatest == CacheSpec => []RemembersLatest
<1>1. CacheInv => RemembersLatest
  <2> SUFFICES ASSUME CacheInv, NEW k \in Keys
               PROVE  k \in map_ <=> age[k] < max_size_ - 1
    BY DEF RemembersLatest
  <2> USE CacheAssumption DEF CacheAssumption
  <2>1. Len(queue_) \in Nat /\ age[k] \in 0 .. max_size_
    BY DEF CacheInv, CacheTyped
  <2>2. ASSUME k \in map_
        PROVE  age[k] < max_size_ - 1
    <3>1. PICK i \in 1 .. Len(queue_) : queue_[i] = k
      BY <2>2 DEF CacheInv, Ages
    <3>2. age[k] = Len(queue_) - i /\ Len(queue_) <= max_size_ - 1
      BY <3>1 DEF CacheInv, Ages, Sizes
    <3> QED
      BY <3>2, <2>1
  <2>3. k \notin map_ => age[k] >= max_size_ - 1
    BY DEF CacheInv, Ages
  <2> QED
    BY <2>1, <2>2, <2>3
<1> QED
  BY <1>1, CacheInvariant, PTL
=============================================================================
