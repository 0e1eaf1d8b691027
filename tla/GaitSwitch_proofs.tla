------------------------- MODULE GaitSwitch_proofs -------------------------
(***************************************************************************)
(* What the walking controller and run_controller_switch guarantee for all *)
(* durations, all clocks, all gaps between messages and restarts at any    *)
(* time.  PhaseInv relates the clock to the period: the remainder is where *)
(* the dwelling machine stands.  HistoryInv says what the last message     *)
(* tells about it while at most one change of state is hidden; WatchInv,   *)
(* SwingInv and OscInv what everyone has remembered of it; SwitchInv how   *)
(* far the switch program is from its threshold.                           *)
(***************************************************************************)
EXTENDS GaitSwitch, WellFoundedInduction, TLAPS

------------------------------------------------------------------------------
(* Arithmetic of a period. *)

\* The natural numbers are well founded.
LEMMA LessWellFounded == IsWellFoundedOn({ss \in Nat \X Nat : ss[1] < ss[2]}, Nat)
  BY NatLessThanWellFounded, Zenon DEF OpToRel

\* Induction, for a set.
LEMMA SetInduction ==
  ASSUME NEW S, 0 \in S, \A n \in Nat : n \in S => n + 1 \in S
  PROVE  Nat \subseteq S
<1> DEFINE T == Nat \ S
<1> DEFINE R == {ss \in Nat \X Nat : ss[1] < ss[2]}
<1>1. SUFFICES ASSUME T # {} PROVE FALSE
  OBVIOUS
<1>2. IsWellFoundedOn(R, Nat)
  BY LessWellFounded
<1>3. PICK x \in T : \A y \in T : ~(<<y, x>> \in R)
  <2> HIDE DEF R
  <2>1. QED
    BY <1>1, <1>2, WFMin
<1>4. x # 0 /\ x \in Nat
  OBVIOUS
<1>5. x - 1 \in Nat /\ x - 1 < x /\ (x - 1) + 1 = x
  BY <1>4
<1>6. <<x - 1, x>> \in R
  BY <1>4, <1>5
<1>7. x - 1 \in S
  BY <1>3, <1>5, <1>6
<1>8. QED
  BY <1>3, <1>5, <1>7

\* A quotient and a remainder are what they ought to be,
LEMMA DivMod ==
  ASSUME NEW P \in Nat \ {0}, NEW x \in Nat
  PROVE  /\ x % P \in 0 .. P - 1
         /\ x \div P \in Nat
         /\ x = P * (x \div P) + (x % P)
  OBVIOUS

\* and nothing else is.
LEMMA DivModUnique ==
  ASSUME NEW P \in Nat \ {0}, NEW x \in Nat, NEW q \in Int, NEW r \in 0 .. P - 1,
         x = P * q + r
  PROVE  x % P = r /\ x \div P = q
  OBVIOUS

\* The remainder of the next number.
LEMMA ModNext ==
  ASSUME NEW P \in Nat \ {0}, NEW x \in Nat
  PROVE  (x + 1) % P = IF (x % P) + 1 = P THEN 0 ELSE (x % P) + 1
<1> DEFINE q == x \div P
           r == x % P
<1>1. q \in Nat /\ r \in 0 .. P - 1 /\ x = P * q + r
  BY DivMod
<1> HIDE DEF q, r
<1>2. CASE r + 1 = P
  <2>1. x + 1 = P * (q + 1) + 0
    BY <1>1, <1>2
  <2>2. (x + 1) % P = 0
    BY <1>1, <2>1, DivModUnique
  <2>3. QED
    BY <1>2, <2>2 DEF r
<1>3. CASE r + 1 # P
  <2>1. x + 1 = P * q + (r + 1) /\ r + 1 \in 0 .. P - 1
    BY <1>1, <1>3
  <2>2. (x + 1) % P = r + 1
    BY <1>1, <2>1, DivModUnique
  <2>3. QED
    BY <1>3, <2>2 DEF r
<1>4. QED
  BY <1>2, <1>3

\* The lengths and elements of the two lists.
LEMMA Lists ==
  /\ Len(States) \in Nat \ {0} /\ Len(Durations) = Len(States)
  /\ DOMAIN States = 1 .. Len(States)
  /\ \A i \in 1 .. Len(States) : Durations[i] \in Nat \ {0}
<1>1. Durations \in Seq(Nat \ {0}) /\ Durations # <<>> /\ Len(States) = Len(Durations)
  BY FsmAssumption DEF FsmAssumption
<1>2. States \in Seq(SingleSupport \cup {double_support_state})
  <2>1. \/ States = <<left_stance_state, right_stance_state>>
        \/ States = <<left_stance_state, double_support_state,
                      right_stance_state, double_support_state>>
    BY WalkAssumption, Zenon DEF WalkAssumption
  <2> DEFINE S == SingleSupport \cup {double_support_state}
  <2>2. left_stance_state \in S /\ right_stance_state \in S /\ double_support_state \in S
    BY DEF SingleSupport
  <2> HIDE DEF S
  <2>3. /\ <<left_stance_state, right_stance_state>> \in Seq(S)
        /\ <<left_stance_state, double_support_state,
             right_stance_state, double_support_state>> \in Seq(S)
    BY <2>2
  <2>4. States \in Seq(S)
    BY <2>1, <2>3, Zenon
  <2>5. QED
    BY <2>4 DEF S
<1>3. QED
  BY <1>1, <1>2

\* Sums of the first durations exist, so they are what their definition says.
LEMMA AccumulatedDef ==
  Accumulated = [i \in 0 .. Len(Durations) |->
                    IF i = 0 THEN 0 ELSE Accumulated[i - 1] + Durations[i]]
<1> DEFINE Sums(n, g) == g = [i \in 0 .. n |-> IF i = 0 THEN 0 ELSE g[i - 1] + Durations[i]]
           S == {n \in Nat : \E g : Sums(n, g)}
<1>1. 0 \in S
  <2>1. Sums(0, [i \in 0 .. 0 |-> 0])
    OBVIOUS
  <2>2. QED
    BY <2>1
<1>2. ASSUME NEW n \in Nat, n \in S
      PROVE  n + 1 \in S
  <2>1. PICK g : Sums(n, g)
    BY <1>2
  <2> DEFINE h == [i \in 0 .. n + 1 |-> IF i = n + 1 THEN g[n] + Durations[n + 1] ELSE g[i]]
  <2>2. ASSUME NEW i \in 0 .. n + 1
        PROVE  h[i] = IF i = 0 THEN 0 ELSE h[i - 1] + Durations[i]
    <3>1. CASE i = n + 1
      BY <3>1
    <3>2. CASE i # n + 1
      <4>1. i \in 0 .. n /\ h[i] = g[i]
        BY <3>2
      <4>2. g[i] = IF i = 0 THEN 0 ELSE g[i - 1] + Durations[i]
        BY <2>1, <4>1
      <4>3. i # 0 => h[i - 1] = g[i - 1]
        BY <4>1
      <4>4. QED
        BY <4>1, <4>2, <4>3
    <3>3. QED
      BY <3>1, <3>2
  <2>3. Sums(n + 1, h)
    <3>1. h = [i \in 0 .. n + 1 |-> h[i]]
      OBVIOUS
    <3> HIDE DEF h
    <3>2. QED
      BY <2>2, <3>1
  <2> HIDE DEF h
  <2>4. \E f : Sums(n + 1, f)
    BY <2>3
  <2>5. QED
    BY <2>4
<1>3. Nat \subseteq S
  <2> HIDE DEF S
  <2>1. QED
    BY <1>1, <1>2, SetInduction
<1>4. Len(Durations) \in Nat
  BY Lists
<1>5. PICK g : Sums(Len(Durations), g)
  BY <1>3, <1>4
<1>6. QED
  BY <1>5 DEF Accumulated

\* The sums ascend by the durations.
LEMMA AccumulatedStep ==
  /\ Accumulated[0] = 0
  /\ \A i \in 1 .. Len(States) : Accumulated[i] = Accumulated[i - 1] + Durations[i]
<1>1. Len(Durations) = Len(States) /\ Len(States) \in Nat
  BY Lists
<1>2. ASSUME NEW i \in 0 .. Len(Durations)
      PROVE  Accumulated[i] = IF i = 0 THEN 0 ELSE Accumulated[i - 1] + Durations[i]
  <2>1. QED
    BY AccumulatedDef, Zenon
<1>3. QED
  BY <1>1, <1>2

\* They are natural numbers,
LEMMA AccumulatedNat == \A i \in 0 .. Len(States) : Accumulated[i] \in Nat
<1> DEFINE S == {n \in Nat : n <= Len(States) => Accumulated[n] \in Nat}
<1>1. 0 \in S
  BY AccumulatedStep
<1>2. ASSUME NEW n \in Nat, n \in S
      PROVE  n + 1 \in S
  <2>1. SUFFICES ASSUME n + 1 <= Len(States) PROVE Accumulated[n + 1] \in Nat
    OBVIOUS
  <2>2. n + 1 \in 1 .. Len(States) /\ Accumulated[n] \in Nat
    BY <1>2, <2>1, Lists
  <2>3. Accumulated[n + 1] = Accumulated[n] + Durations[n + 1]
    BY <2>2, AccumulatedStep
  <2>4. QED
    BY <2>2, <2>3, Lists
<1>3. Nat \subseteq S
  <2> HIDE DEF S
  <2>1. QED
    BY <1>1, <1>2, SetInduction
<1>4. QED
  BY <1>3, Lists

\* and ascend.
LEMMA AccumulatedAscends ==
  \A i, j \in 0 .. Len(States) : i <= j => Accumulated[i] <= Accumulated[j]
<1> DEFINE S == {n \in Nat : \A i \in 0 .. Len(States) :
                                i + n <= Len(States) => Accumulated[i] <= Accumulated[i + n]}
<1>1. 0 \in S
  BY AccumulatedNat, Lists
<1>2. ASSUME NEW n \in Nat, n \in S
      PROVE  n + 1 \in S
  <2>1. SUFFICES ASSUME NEW i \in 0 .. Len(States), i + (n + 1) <= Len(States)
                 PROVE  Accumulated[i] <= Accumulated[i + (n + 1)]
    OBVIOUS
  <2>2. i + (n + 1) \in 1 .. Len(States) /\ i + n \in 0 .. Len(States)
        /\ (i + (n + 1)) - 1 = i + n
    BY <2>1, Lists
  <2>3. Accumulated[i] <= Accumulated[i + n]
    BY <1>2, <2>1, <2>2, Lists
  <2>4. Accumulated[i + (n + 1)] = Accumulated[i + n] + Durations[i + (n + 1)]
    BY <2>2, AccumulatedStep
  <2>5. Durations[i + (n + 1)] \in Nat /\ Accumulated[i + n] \in Nat /\ Accumulated[i] \in Nat
    BY <2>1, <2>2, Lists, AccumulatedNat
  <2> HIDE DEF S
  <2>6. QED
    BY <2>3, <2>4, <2>5
<1>3. Nat \subseteq S
  <2> HIDE DEF S
  <2>1. QED
    BY <1>1, <1>2, SetInduction
<1>4. SUFFICES ASSUME NEW i \in 0 .. Len(States), NEW j \in 0 .. Len(States), i <= j
               PROVE  Accumulated[i] <= Accumulated[j]
  OBVIOUS
<1>5. j - i \in S /\ i + (j - i) = j
  <2>1. j - i \in Nat /\ i + (j - i) = j
    BY <1>4, Lists
  <2> HIDE DEF S
  <2>2. QED
    BY <1>3, <2>1
<1>6. QED
  BY <1>4, <1>5, Lists

\* The period is positive and every state has a part of it.
LEMMA PeriodParts ==
  /\ Period \in Nat \ {0}
  /\ Period = Accumulated[Len(States)]
  /\ \A i \in 1 .. Len(States) : Accumulated[i] <= Period
<1>1. Len(States) \in 1 .. Len(States) /\ Len(Durations) = Len(States)
  BY Lists
<1>2. Period = Accumulated[Len(States)]
  BY <1>1 DEF Period
<1>3. Accumulated[Len(States)] = Accumulated[Len(States) - 1] + Durations[Len(States)]
  BY <1>1, AccumulatedStep
<1>4. Accumulated[Len(States) - 1] \in Nat /\ Durations[Len(States)] \in Nat \ {0}
  BY <1>1, AccumulatedNat, Lists
<1>5. QED
  BY <1>1, <1>2, <1>3, <1>4, AccumulatedAscends, Lists

------------------------------------------------------------------------------
(* The state machine against the machine that dwells. *)

\* A remainder in the part of a state gives that state.
LEMMA StateOf ==
  ASSUME NEW r \in Int, NEW i \in 1 .. Len(States),
         i = 1 \/ Accumulated[i - 1] <= r, r < Accumulated[i]
  PROVE  StatesFor(r) = {States[i]}
<1>1. \A j \in 1 .. i - 1 : ~Within(r, j)
  <2>1. SUFFICES ASSUME NEW j \in 1 .. i - 1 PROVE ~(r < Accumulated[j])
    BY DEF Within
  <2>2. /\ j \in 0 .. Len(States) /\ i - 1 \in 0 .. Len(States) /\ j <= i - 1
        /\ i # 1
    BY <2>1, Lists
  <2>3. Accumulated[j] <= Accumulated[i - 1] /\ Accumulated[j] \in Nat
        /\ Accumulated[i - 1] \in Nat
    BY <2>2, AccumulatedAscends, AccumulatedNat
  <2>4. QED
    BY <2>2, <2>3
<1>2. Within(r, i)
  BY DEF Within
<1> DEFINE First(c) == Within(r, c) /\ \A j \in 1 .. c - 1 : ~Within(r, j)
<1>3. First(i)
  BY <1>1, <1>2
<1>4. ASSUME NEW c \in 1 .. Len(States), First(c)
      PROVE  c = i
  <2>1. ~(c < i)
    BY <1>1, <1>4
  <2>2. ~(i < c)
    BY <1>2, <1>4
  <2>3. QED
    BY <2>1, <2>2, Lists
<1>5. (CHOOSE c \in DOMAIN States : First(c)) = i
  <2>1. \A c \in DOMAIN States : First(c) <=> c = i
    BY <1>3, <1>4, Lists
  <2> HIDE DEF First
  <2>2. i \in DOMAIN States
    BY Lists
  <2>3. QED
    BY <2>1, <2>2
<1>6. \E c \in DOMAIN States : Within(r, c)
  BY <1>2, Lists
<1>7. QED
  BY <1>5, <1>6, Zenon DEF StatesFor

\* A remainder of a whole period gives none.
LEMMA NoStateOf == StatesFor(Period) = Garbage
<1>1. ASSUME NEW i \in DOMAIN States
      PROVE  ~Within(Period, i)
  <2>1. i \in 1 .. Len(States) /\ i \in 0 .. Len(States)
    BY Lists
  <2>2. Accumulated[i] <= Period /\ Accumulated[i] \in Nat /\ Period \in Nat
    BY <2>1, PeriodParts, AccumulatedNat
  <2>3. QED
    BY <2>2 DEF Within
<1>2. QED
  BY <1>1, Zenon DEF StatesFor

\* A remainder a little less than the sum of the first durations gives the last
\* of them, one a little less than 0 the first of all.
LEMMA LessThanSum ==
  ASSUME NEW i \in 1 .. Len(States)
  PROVE  /\ StatesFor(Accumulated[i] - 1) = {States[i]}
         /\ StatesFor(0 - 1) = {States[1]}
<1>1. /\ Accumulated[i] = Accumulated[i - 1] + Durations[i] /\ Durations[i] \in Nat \ {0}
      /\ Accumulated[i - 1] \in Nat
  BY AccumulatedStep, AccumulatedNat, Lists
<1>2. StatesFor(Accumulated[i] - 1) = {States[i]}
  <2>1. /\ Accumulated[i] - 1 \in Int /\ Accumulated[i - 1] <= Accumulated[i] - 1
        /\ Accumulated[i] - 1 < Accumulated[i]
    BY <1>1
  <2>2. QED
    BY <2>1, StateOf
<1>3. StatesFor(0 - 1) = {States[1]}
  <2>1. 1 \in 1 .. Len(States) /\ 0 - 1 < Accumulated[1] /\ 0 - 1 \in Int
    BY AccumulatedNat, Lists
  <2>2. QED
    BY <2>1, StateOf
<1>4. QED
  BY <1>2, <1>3

\* What the state machine shows when the robot has been in its i-th state
\* since e.
LEMMA Shown ==
  ASSUME NEW t \in Nat, NEW i \in 1 .. Len(States), NEW e \in Nat,
         t >= T0, e <= t, t < e + Durations[i],
         (t - T0) % Period = Accumulated[i - 1] + (t - e),
         NEW f \in CalcFiniteState(t)
  PROVE  \/ f = States[i]
         \/ t = e /\ t > T0 /\ (f = States[Before(i)] \/ (f \in Garbage /\ i = 1))
<1>1. T0 \in Nat /\ t - T0 \in Nat /\ Period \in Nat \ {0}
  BY PeriodParts, FsmAssumption DEF FsmAssumption
<1>2. /\ Accumulated[i - 1] \in Nat /\ Accumulated[i] = Accumulated[i - 1] + Durations[i]
      /\ Durations[i] \in Nat \ {0}
  <2>1. i - 1 \in 0 .. Len(States)
    BY Lists
  <2>2. QED
    BY <2>1, AccumulatedNat, AccumulatedStep, Lists
<1> DEFINE r == (t - T0) % Period
<1>3. r \in Nat /\ r = Accumulated[i - 1] + (t - e)
  BY <1>2
<1>4. t = T0 => r = 0
  <2>1. 0 = Period * 0 + 0 /\ 0 \in 0 .. Period - 1
    BY <1>1
  <2>2. 0 % Period = 0
    BY <1>1, <2>1, DivModUnique
  <2>3. QED
    BY <1>1, <2>2
<1>5. PICK q \in Remainders(t) : f \in StatesFor(q)
  BY <1>1 DEF CalcFiniteState
<1>6. \/ q = r \/ q = r - 1
      \/ t > T0 /\ r = 0 /\ (q = Period \/ q = Period - 1)
  BY <1>5 DEF Remainders, PeriodBegins, r
<1> HIDE DEF r
<1>7. i = 1 => Accumulated[i - 1] = 0
  BY AccumulatedStep
<1>8. i # 1 => /\ i - 1 \in 1 .. Len(States) /\ Before(i) = i - 1
               /\ Accumulated[i - 1] # 0
  <2>1. SUFFICES ASSUME i # 1
                 PROVE  i - 1 \in 1 .. Len(States) /\ Before(i) = i - 1 /\ Accumulated[i - 1] # 0
    OBVIOUS
  <2>2. /\ i - 1 \in 1 .. Len(States) /\ (i - 1) - 1 \in 0 .. Len(States)
    BY <2>1, Lists
  <2>3. Accumulated[i - 1] = Accumulated[(i - 1) - 1] + Durations[i - 1]
    BY <2>2, AccumulatedStep
  <2>4. Accumulated[(i - 1) - 1] \in Nat /\ Durations[i - 1] \in Nat \ {0}
    BY <2>2, AccumulatedNat, Lists
  <2>5. QED
    BY <2>1, <2>2, <2>3, <2>4 DEF Before
<1>9. CASE q = r \/ (q = r - 1 /\ t # e)
  <2>1. q \in Int /\ Accumulated[i - 1] <= q /\ q < Accumulated[i]
    BY SMTT(30), <1>2, <1>3, <1>9
  <2>2. StatesFor(q) = {States[i]}
    BY <2>1, StateOf
  <2>3. QED
    BY <1>5, <2>2
<1>10. CASE q = r - 1 /\ t = e
  <2>1. r = Accumulated[i - 1]
    BY <1>2, <1>3, <1>10
  <2>2. CASE i = 1
    <3>1. q = 0 - 1
      BY <1>7, <1>10, <2>1, <2>2
    <3>2. QED
      BY <1>5, <2>2, <3>1, LessThanSum
  <2>3. CASE i # 1
    <3>1. StatesFor(Accumulated[i - 1] - 1) = {States[i - 1]}
      BY <1>8, <2>3, LessThanSum
    <3>2. f = States[Before(i)]
      BY <1>5, <1>8, <1>10, <2>1, <2>3, <3>1
    <3>3. t # T0
      BY <1>4, <1>8, <2>1, <2>3
    <3>4. QED
      BY <1>1, <1>10, <3>2, <3>3
  <2>4. QED
    BY <2>2, <2>3
<1>11. CASE t > T0 /\ r = 0 /\ (q = Period \/ q = Period - 1)
  <2>1. Accumulated[i - 1] = 0 /\ t = e
    BY <1>2, <1>3, <1>11
  <2>2. i = 1
    BY <1>8, <2>1
  <2>3. CASE q = Period
    BY <1>5, <1>11, <2>1, <2>2, <2>3, NoStateOf
  <2>4. CASE q = Period - 1
    <3>1. Len(States) \in 1 .. Len(States) /\ Period = Accumulated[Len(States)]
      BY PeriodParts, Lists
    <3>2. StatesFor(q) = {States[Len(States)]}
      BY <2>4, <3>1, LessThanSum
    <3>3. QED
      BY <1>5, <1>11, <2>1, <2>2, <3>2 DEF Before
  <2>5. QED
    BY <1>11, <2>3, <2>4
<1>12. QED
  BY <1>6, <1>9, <1>10, <1>11

\* Where the clock stands in the period is where the dwelling machine stands.
DwellInv ==
    /\ index = 0 <=> clock < T0
    /\ index # 0 =>
           /\ entered <= clock
           /\ clock < entered + Durations[index]
           /\ (clock - T0) % Period = Accumulated[index - 1] + (clock - entered)

PhaseInv ==
    /\ TypeOK
    /\ DwellInv
    /\ fsm \in CalcFiniteState(timestamp)
    /\ prev_fsm # NoState => prev_fsm = fsm

\* Every remainder is in the part of some state.
LEMMA PartOf ==
  ASSUME NEW q \in Nat, q < Accumulated[Len(States)]
  PROVE  \E i \in 1 .. Len(States) : Accumulated[i - 1] <= q /\ q < Accumulated[i]
<1> DEFINE S == {n \in Nat : n <= Len(States) /\ q < Accumulated[n] =>
                    \E i \in 1 .. Len(States) : Accumulated[i - 1] <= q /\ q < Accumulated[i]}
<1>1. 0 \in S
  BY AccumulatedStep
<1>2. ASSUME NEW n \in Nat, n \in S
      PROVE  n + 1 \in S
  <2>1. SUFFICES ASSUME n + 1 <= Len(States), q < Accumulated[n + 1]
                 PROVE  \E i \in 1 .. Len(States) :
                            Accumulated[i - 1] <= q /\ q < Accumulated[i]
    OBVIOUS
  <2>2. /\ n + 1 \in 1 .. Len(States) /\ n \in 0 .. Len(States) /\ n <= Len(States)
        /\ (n + 1) - 1 = n
    BY <2>1, Lists
  <2>3. CASE q < Accumulated[n]
    BY <1>2, <2>2, <2>3
  <2>4. CASE ~(q < Accumulated[n])
    <3>1. Accumulated[n] <= q
      BY <2>2, <2>4, AccumulatedNat
    <3> HIDE DEF S
    <3>2. QED
      BY <2>1, <2>2, <3>1
  <2>5. QED
    BY <2>3, <2>4
<1>3. Nat \subseteq S
  <2> HIDE DEF S
  <2>1. QED
    BY <1>1, <1>2, SetInduction
<1>4. Len(States) \in Nat /\ Len(States) <= Len(States)
  BY Lists
<1>5. QED
  BY <1>3, <1>4

\* The machine shows a state, the initial one, or garbage.
LEMMA ShownType ==
  ASSUME NEW t \in Nat, NEW f \in CalcFiniteState(t)
  PROVE  f \in ToSet(States) \cup {Initial} \cup Garbage
<1>1. CASE t >= T0
  <2>1. PICK q \in Remainders(t) : f \in StatesFor(q)
    BY <1>1 DEF CalcFiniteState
  <2>2. t - T0 \in Nat
    BY <1>1, FsmAssumption DEF FsmAssumption
  <2>3. Period \in Nat \ {0} /\ Period = Accumulated[Len(States)]
    BY PeriodParts
  <2>4. CASE q = Period
    BY <2>1, <2>4, NoStateOf
  <2>5. CASE q = 0 - 1
    <3>1. 1 \in 1 .. Len(States) /\ States[1] \in ToSet(States)
      BY Lists DEF ToSet
    <3>2. QED
      BY <2>1, <2>5, <3>1, LessThanSum
  <2>6. CASE q # Period /\ q # 0 - 1
    <3>1. q \in Nat /\ q < Accumulated[Len(States)]
      <4>1. (t - T0) % Period \in 0 .. Period - 1
        BY <2>2, <2>3, DivMod
      <4>2. q \in {(t - T0) % Period, ((t - T0) % Period) - 1, Period, Period - 1}
        BY <2>1 DEF Remainders
      <4>3. QED
        BY <2>3, <2>6, <4>1, <4>2
    <3>2. PICK i \in 1 .. Len(States) : Accumulated[i - 1] <= q /\ q < Accumulated[i]
      BY <3>1, PartOf
    <3>3. StatesFor(q) = {States[i]}
      BY <3>1, <3>2, StateOf
    <3>4. States[i] \in ToSet(States)
      BY Lists DEF ToSet
    <3>5. QED
      BY <2>1, <3>3, <3>4
  <2>7. QED
    BY <2>4, <2>5, <2>6
<1>2. CASE ~(t >= T0)
  BY <1>2 DEF CalcFiniteState
<1>3. QED
  BY <1>1, <1>2

\* At time 0, which is where every clock starts, the machine stands at the
\* beginning of the first state or before it.
LEMMA DwellStart ==
  /\ T0 \in Nat
  /\ 0 < Durations[1] /\ 1 \in 1 .. Len(States)
  /\ T0 = 0 => (0 - T0) % Period = Accumulated[0] + (0 - 0)
<1>1. T0 \in Nat
  BY FsmAssumption DEF FsmAssumption
<1>2. 1 \in 1 .. Len(States) /\ 0 < Durations[1]
  BY Lists
<1>3. Period \in Nat \ {0} /\ Accumulated[0] = 0
  BY PeriodParts, AccumulatedStep
<1>4. 0 = Period * 0 + 0 /\ 0 \in 0 .. Period - 1
  BY <1>3
<1>5. 0 % Period = 0
  BY <1>3, <1>4, DivModUnique
<1>6. QED
  BY <1>1, <1>2, <1>3, <1>5

\* The phase starts in PhaseInv.
LEMMA InitPhaseInv == Init => PhaseInv
<1> SUFFICES ASSUME Init PROVE PhaseInv
  OBVIOUS
<1>1. /\ T0 \in Nat /\ 0 < Durations[1] /\ 1 \in 1 .. Len(States)
      /\ T0 = 0 => (0 - T0) % Period = Accumulated[0] + (0 - 0)
  BY DwellStart
<1>2. /\ clock = 0 /\ gap = 0 /\ timestamp = 0 /\ prev_fsm = NoState /\ start = 0
      /\ start_of_interest = 0 /\ entered = 0 /\ passed = 0 /\ misled = FALSE
      /\ fsm \in CalcFiniteState(0)
      /\ index = IF 0 < T0 THEN 0 ELSE 1
  BY DEF Init
<1>3. DwellInv
  <2>1. CASE 0 < T0
    BY <1>1, <1>2, <2>1 DEF DwellInv
  <2>2. CASE ~(0 < T0)
    <3>1. T0 = 0 /\ index = 1 /\ index - 1 = 0
      BY <1>1, <1>2, <2>2
    <3>2. (clock - T0) % Period = Accumulated[index - 1] + (clock - entered)
      BY <1>1, <1>2, <3>1
    <3>3. ~(clock < T0) /\ entered <= clock /\ clock < entered + Durations[index]
      <4>1. Durations[1] \in Nat
        BY Lists
      <4>2. QED
        BY <1>1, <1>2, <3>1, <4>1
    <3>4. QED
      BY <3>1, <3>2, <3>3 DEF DwellInv
  <2>3. QED
    BY <2>1, <2>2
<1>4. TypeOK
  <2>1. fsm \in ToSet(States) \cup {Initial} \cup Garbage
    BY <1>2, ShownType
  <2>2. MaxTime \in Nat /\ MaxGap \in Nat
    BY PhaseAssumption DEF PhaseAssumption
  <2>3. index \in 0 .. Len(States)
    BY <1>1, <1>2, Lists
  <2>4. clock \in 0 .. MaxTime /\ gap \in 0 .. MaxGap /\ passed \in 0 .. 2
    BY <1>2, <2>2
  <2>5. misled \in BOOLEAN
    BY <1>2, Zenon
  <2>6. QED
    BY <1>2, <2>1, <2>2, <2>3, <2>4, <2>5 DEF TypeOK
<1>5. QED
  BY <1>2, <1>3, <1>4 DEF PhaseInv

\* What stays, stays true.
LEMMA TypeParts ==
  ASSUME TypeOK
  PROVE  /\ clock \in Nat /\ clock <= MaxTime /\ MaxTime \in Nat
         /\ timestamp \in Nat /\ timestamp <= MaxTime
         /\ start \in Nat /\ start <= MaxTime /\ start_of_interest \in Nat
         /\ entered \in Nat /\ index \in Nat /\ index <= Len(States)
         /\ passed \in {0, 1, 2}
  BY PhaseAssumption, Lists DEF TypeOK, PhaseAssumption

\* The clock ticks: the machine stays, or goes on to the next state just when
\* the remainder leaves the part of the old one.
LEMMA TickDwells ==
  ASSUME PhaseInv, Tick
  PROVE  /\ DwellInv' /\ TypeOK'
         /\ \/ index' = index /\ entered' = entered /\ passed' = passed
            \/ /\ index' = (index % Len(States)) + 1 /\ entered' = clock'
               /\ passed' = IF passed = 2 THEN 2 ELSE passed + 1
               /\ index # 0 => entered' = entered + Durations[index]
<1>1. TypeOK /\ DwellInv
  BY DEF PhaseInv
<1>2. /\ clock \in Nat /\ clock < MaxTime /\ MaxTime \in Nat /\ entered \in Nat
      /\ entered <= MaxTime
      /\ index \in Nat /\ index <= Len(States) /\ passed \in {0, 1, 2} /\ T0 \in Nat
  BY <1>1, TypeParts, FsmAssumption DEF Tick, FsmAssumption, TypeOK
<1>3. /\ clock' = clock + 1 /\ gap' = gap + 1 /\ gap < MaxGap
      /\ timestamp' = timestamp /\ fsm' = fsm /\ prev_fsm' = prev_fsm /\ start' = start
      /\ start_of_interest' = start_of_interest /\ misled' = misled
      /\ Dwell(clock + 1)
  BY DEF Tick
<1> DEFINE t == clock + 1
<1>4. t - T0 \in Int
  BY <1>2
<1>5. Len(States) \in Nat \ {0}
  BY Lists
<1>6. ASSUME clock >= T0
      PROVE  (t - T0) % Period = IF ((clock - T0) % Period) + 1 = Period
                                 THEN 0 ELSE ((clock - T0) % Period) + 1
  <2>1. clock - T0 \in Nat /\ t - T0 = (clock - T0) + 1
    BY <1>2, <1>6
  <2>2. Period \in Nat \ {0}
    BY PeriodParts
  <2> HIDE DEF t
  <2>3. QED
    BY <2>1, <2>2, ModNext
<1>7. index # 0 => /\ index \in 1 .. Len(States) /\ index - 1 \in 0 .. Len(States)
                   /\ Durations[index] \in Nat \ {0}
                   /\ Accumulated[index] = Accumulated[index - 1] + Durations[index]
                   /\ Accumulated[index] \in Nat /\ Accumulated[index - 1] \in Nat
                   /\ Accumulated[index] <= Period
  BY <1>2, Lists, AccumulatedStep, AccumulatedNat, PeriodParts
<1> DEFINE Typed == index' \in 0 .. Len(States) /\ entered' \in 0 .. MaxTime /\ passed' \in 0 .. 2
<1>8. Typed => TypeOK'
  <2>1. clock' \in 0 .. MaxTime
    BY <1>2, <1>3
  <2>2. gap' \in 0 .. MaxGap
    <3>1. gap \in 0 .. MaxGap /\ MaxGap \in Nat
      BY <1>1, PhaseAssumption DEF TypeOK, PhaseAssumption
    <3>2. QED
      BY <1>3, <3>1
  <2>3. QED
    BY <1>1, <1>3, <2>1, <2>2 DEF TypeOK
<1>9. CASE ~DwellEnds(t)
  <2>1. index' = index /\ entered' = entered /\ passed' = passed
    BY <1>3, <1>9 DEF Dwell
  <2>2. Typed
    BY <1>1, <2>1 DEF TypeOK
  <2>3. CASE index = 0
    <3>1. t < T0
      BY <1>2, <1>9, <2>3 DEF DwellEnds
    <3>2. DwellInv'
      BY <1>3, <2>1, <2>3, <3>1 DEF DwellInv
    <3>3. QED
      BY <1>8, <2>1, <2>2, <3>2
  <2>4. CASE index # 0
    <3>1. t < entered + Durations[index]
      BY <1>2, <1>7, <1>9, <2>4 DEF DwellEnds
    <3>2. /\ clock >= T0 /\ entered <= clock
          /\ (clock - T0) % Period = Accumulated[index - 1] + (clock - entered)
      BY <1>1, <1>2, <2>4 DEF DwellInv
    <3>3. ((clock - T0) % Period) + 1 # Period
      BY SMTT(30), <1>2, <1>7, <2>4, <3>1, <3>2, PeriodParts
    <3>4. (t - T0) % Period = Accumulated[index - 1] + (t - entered)
      BY <1>2, <1>6, <1>7, <2>4, <3>2, <3>3
    <3>5. DwellInv'
      BY <1>2, <1>3, <2>1, <2>4, <3>1, <3>2, <3>4 DEF DwellInv
    <3>6. QED
      BY <1>8, <2>1, <2>2, <3>5
  <2>5. QED
    BY <2>3, <2>4
<1>10. CASE DwellEnds(t)
  <2>1. /\ index' = (index % Len(States)) + 1 /\ entered' = t
        /\ passed' = IF passed = 2 THEN 2 ELSE passed + 1
    BY <1>3, <1>10 DEF Dwell
  <2>2. entered' \in 0 .. MaxTime /\ passed' \in 0 .. 2
    BY <1>2, <2>1
  <2>3. CASE index = 0
    <3>1. t = T0 /\ T0 > 0
      BY <1>1, <1>2, <1>10, <2>3 DEF DwellEnds, DwellInv
    <3>2. index' = 1
      <4>1. 0 = Len(States) * 0 + 0 /\ 0 \in 0 .. Len(States) - 1
        BY <1>5
      <4>2. 0 % Len(States) = 0
        BY <1>5, <4>1, DivModUnique
      <4>3. QED
        BY <2>1, <2>3, <4>2
    <3>3. (t - T0) % Period = 0
      <4>1. Period \in Nat \ {0}
        BY PeriodParts
      <4>2. 0 = Period * 0 + 0 /\ 0 \in 0 .. Period - 1
        BY <4>1
      <4>3. 0 % Period = 0
        BY <4>1, <4>2, DivModUnique
      <4>4. t - T0 = 0
        BY <1>2, <3>1
      <4> HIDE DEF t
      <4>5. QED
        BY <4>3, <4>4
    <3>4. 0 < Durations[1] /\ Durations[1] \in Nat /\ Accumulated[0] = 0 /\ 1 - 1 = 0
      BY Lists, AccumulatedStep
    <3>5. DwellInv'
      BY <1>2, <1>3, <2>1, <3>1, <3>2, <3>3, <3>4 DEF DwellInv
    <3>6. TypeOK'
      BY <1>5, <1>8, <2>2, <3>2
    <3>7. QED
      BY <1>3, <2>1, <2>3, <3>5, <3>6
  <2>4. CASE index # 0
    <3>1. /\ clock >= T0 /\ entered <= clock /\ clock < entered + Durations[index]
          /\ (clock - T0) % Period = Accumulated[index - 1] + (clock - entered)
      BY <1>1, <1>2, <2>4 DEF DwellInv
    <3>2. t = entered + Durations[index]
      BY SMTT(30), <1>2, <1>7, <1>10, <2>4, <3>1 DEF DwellEnds
    <3>3. ((clock - T0) % Period) + 1 = Accumulated[index]
      <4>1. (clock - entered) + 1 = Durations[index]
        BY SMTT(30), <1>2, <1>7, <2>4, <3>2
      <4>2. Accumulated[index - 1] \in Nat /\ Durations[index] \in Nat /\ clock - entered \in Nat
            /\ Accumulated[index] = Accumulated[index - 1] + Durations[index]
        BY <1>2, <1>7, <2>4, <3>1
      <4>3. (Accumulated[index - 1] + (clock - entered)) + 1 = Accumulated[index]
        BY <4>1, <4>2
      <4>4. QED
        BY <3>1, <4>3
    <3>4. CASE index = Len(States)
      <4>1. index' = 1
        <5>1. Len(States) = Len(States) * 1 + 0 /\ 0 \in 0 .. Len(States) - 1
          BY <1>5
        <5>2. Len(States) % Len(States) = 0
          BY <1>5, <5>1, DivModUnique
        <5>3. QED
          BY <2>1, <3>4, <5>2
      <4>2. (t - T0) % Period = 0
        BY <1>6, <3>1, <3>3, <3>4, PeriodParts
      <4>3. 0 < Durations[1] /\ Durations[1] \in Nat /\ Accumulated[0] = 0 /\ 1 - 1 = 0
        BY Lists, AccumulatedStep
      <4>4. DwellInv'
        BY <1>2, <1>3, <2>1, <3>1, <4>1, <4>2, <4>3 DEF DwellInv
      <4>5. TypeOK'
        BY <1>5, <1>8, <2>2, <4>1
      <4>6. QED
        BY <1>3, <2>1, <2>4, <3>2, <4>4, <4>5
    <3>5. CASE index # Len(States)
      <4>1. index' = index + 1
        <5>1. index = Len(States) * 0 + index /\ index \in 0 .. Len(States) - 1
          BY <1>2, <1>5, <3>5
        <5>2. index % Len(States) = index
          BY <1>2, <1>5, <5>1, DivModUnique
        <5>3. QED
          BY <2>1, <5>2
      <4>2. /\ index + 1 \in 1 .. Len(States) /\ (index + 1) - 1 = index
            /\ Durations[index + 1] \in Nat \ {0}
            /\ Accumulated[index + 1] = Accumulated[index] + Durations[index + 1]
            /\ Accumulated[index + 1] <= Period
        <5>1. index + 1 \in 1 .. Len(States) /\ (index + 1) - 1 = index
          BY <1>2, <1>5, <3>5
        <5>2. QED
          BY <5>1, Lists, AccumulatedStep, PeriodParts
      <4>3. Accumulated[index] < Period
        BY <1>7, <2>4, <4>2, PeriodParts
      <4>4. (t - T0) % Period = Accumulated[index]
        BY <1>6, <1>7, <2>4, <3>1, <3>3, <4>3
      <4>5. DwellInv'
        <5>1. t - t = 0 /\ t <= t /\ t < t + Durations[index + 1] /\ ~(t < T0)
              /\ index + 1 # 0 /\ t \in Int
          BY <1>2, <3>1, <4>2
        <5>2. Accumulated[index] + 0 = Accumulated[index]
          BY <1>7, <2>4
        <5>3. clock' = t /\ entered' = t
          BY <1>3, <2>1
        <5> HIDE DEF t
        <5>4. QED
          BY <2>4, <4>1, <4>2, <4>4, <5>1, <5>2, <5>3 DEF DwellInv
      <4>6. TypeOK'
        <5>1. index' \in 0 .. Len(States)
          BY <1>5, <4>1, <4>2
        <5>2. QED
          BY <1>8, <2>2, <5>1
      <4>7. QED
        BY <1>3, <2>1, <2>4, <3>2, <4>5, <4>6
    <3>6. QED
      BY <3>4, <3>5
  <2>5. QED
    BY <2>3, <2>4
<1>11. QED
  BY <1>9, <1>10

\* A clock that starts again starts the machine again.
LEMMA RestartDwells ==
  ASSUME PhaseInv, Restart
  PROVE  PhaseInv'
<1>1. TypeOK /\ DwellInv
  BY DEF PhaseInv
<1>2. /\ clock' = 0 /\ entered' = 0 /\ passed' = 0 /\ misled' = TRUE
      /\ index' = IF 0 < T0 THEN 0 ELSE 1
      /\ gap' = gap /\ timestamp' = timestamp /\ fsm' = fsm /\ prev_fsm' = prev_fsm
      /\ start' = start /\ start_of_interest' = start_of_interest
  BY DEF Restart
<1>3. /\ T0 \in Nat /\ 0 < Durations[1] /\ 1 \in 1 .. Len(States)
      /\ T0 = 0 => (0 - T0) % Period = Accumulated[0] + (0 - 0)
  BY DwellStart
<1>4. DwellInv'
  <2>1. CASE 0 < T0
    BY <1>2, <1>3, <2>1 DEF DwellInv
  <2>2. CASE ~(0 < T0)
    <3>1. T0 = 0 /\ index' = 1 /\ 1 - 1 = 0 /\ 0 <= 0 /\ 0 < 0 + Durations[1] /\ ~(0 < T0)
      <4>1. Durations[1] \in Nat
        BY Lists
      <4>2. QED
        BY <1>2, <1>3, <2>2, <4>1
    <3>2. QED
      BY <1>2, <1>3, <3>1 DEF DwellInv
  <2>3. QED
    BY <2>1, <2>2
<1>5. TypeOK'
  <2>1. index' \in 0 .. Len(States)
    BY <1>2, <1>3, Lists
  <2>2. clock' \in 0 .. MaxTime /\ entered' \in 0 .. MaxTime /\ passed' \in 0 .. 2
    BY <1>1, <1>2, TypeParts
  <2>3. misled' \in BOOLEAN
    BY <1>2, Zenon
  <2>4. QED
    BY <1>1, <1>2, <2>1, <2>2, <2>3 DEF TypeOK
<1>6. QED
  BY <1>2, <1>4, <1>5 DEF PhaseInv

\* A message shows the state at its time.
LEMMA MessagePhase ==
  ASSUME PhaseInv, Message
  PROVE  PhaseInv'
<1>1. TypeOK /\ DwellInv
  BY DEF PhaseInv
<1>2. /\ timestamp' = clock /\ gap' = 0 /\ fsm' \in CalcFiniteState(clock)
      /\ prev_fsm' = fsm' /\ passed' \in {0, 1}
      /\ clock' = clock /\ index' = index /\ entered' = entered
      /\ start' \in {clock, start} /\ start_of_interest' \in {clock, start_of_interest}
      /\ misled' = ((misled \/ passed = 2) /\ fsm' = prev_fsm)
  BY DEF Message
<1>3. DwellInv'
  BY <1>1, <1>2 DEF DwellInv
<1>4. TypeOK'
  <2>1. fsm' \in ToSet(States) \cup {Initial} \cup Garbage
    BY <1>1, <1>2, ShownType, TypeParts
  <2>2. gap' \in 0 .. MaxGap /\ passed' \in 0 .. 2
    BY <1>2, PhaseAssumption DEF PhaseAssumption
  <2>3. misled' \in BOOLEAN
    BY <1>2, Zenon
  <2>4. QED
    BY <1>1, <1>2, <2>1, <2>2, <2>3 DEF TypeOK
<1>5. QED
  BY <1>2, <1>3, <1>4 DEF PhaseInv

\* Every step keeps PhaseInv.
LEMMA NextPhaseInv == PhaseInv /\ [Next]_vars => PhaseInv'
<1> SUFFICES ASSUME PhaseInv, [Next]_vars PROVE PhaseInv'
  OBVIOUS
<1>1. CASE Tick
  <2>1. DwellInv' /\ TypeOK'
    BY <1>1, TickDwells
  <2>2. fsm' = fsm /\ timestamp' = timestamp /\ prev_fsm' = prev_fsm
    BY <1>1 DEF Tick
  <2>3. QED
    BY <2>1, <2>2 DEF PhaseInv
<1>2. CASE Restart
  BY <1>2, RestartDwells
<1>3. CASE Message
  BY <1>3, MessagePhase
<1>4. CASE UNCHANGED vars
  BY <1>4 DEF vars, PhaseInv, TypeOK, DwellInv
<1>5. QED
  BY <1>1, <1>2, <1>3, <1>4 DEF Next

\* While the last message shows the clock as it is, it shows where the dwelling
\* machine is, or was, at the instant at which the doubles may round.
LEMMA PhaseStays == PhaseInv => StaysForDuration
<1> SUFFICES ASSUME PhaseInv, Fresh
             PROVE  \/ fsm = IF index = 0 THEN Initial ELSE States[index]
                    \/ /\ index # 0 /\ clock = entered /\ clock > T0
                       /\ fsm = States[Before(index)] \/ (fsm \in Garbage /\ index = 1)
  BY DEF StaysForDuration
<1>1. /\ TypeOK /\ DwellInv /\ timestamp = clock /\ fsm \in CalcFiniteState(clock)
  BY DEF PhaseInv, Fresh
<1>2. /\ clock \in Nat /\ entered \in Nat /\ index \in Nat /\ index <= Len(States)
      /\ T0 \in Nat
  BY <1>1, TypeParts, FsmAssumption DEF FsmAssumption
<1>3. CASE index = 0
  BY <1>1, <1>2, <1>3 DEF DwellInv, CalcFiniteState
<1>4. CASE index # 0
  <2>1. /\ index \in 1 .. Len(States) /\ clock >= T0 /\ entered <= clock
        /\ clock < entered + Durations[index]
        /\ (clock - T0) % Period = Accumulated[index - 1] + (clock - entered)
    BY <1>1, <1>2, <1>4, Lists DEF DwellInv
  <2>2. QED
    BY <1>1, <1>2, <1>4, <2>1, Shown
<1>5. QED
  BY <1>3, <1>4

------------------------------------------------------------------------------
(* The walking controller. *)

\* Single supports have one duration, which is not 0; no two states in a row
\* are the same, and a double support is between different single supports.
LEMMA Gait ==
  /\ Len(States) \in {2, 4}
  /\ States[1] = left_stance_state
  /\ \A i \in 1 .. Len(States) :
        /\ States[i] \in SingleSupport \cup {double_support_state}
        /\ Before(i) \in 1 .. Len(States) /\ Before(i) # i
        /\ (i % Len(States)) + 1 \in 1 .. Len(States)
        /\ Before((i % Len(States)) + 1) = i
        /\ States[Before(i)] # States[i]
        /\ States[i] = double_support_state =>
              /\ i # 1 /\ States[i - 1] \in SingleSupport
              /\ States[(i % Len(States)) + 1] \in SingleSupport
              /\ States[(i % Len(States)) + 1] # States[i - 1]
<1>1. CASE States = <<left_stance_state, right_stance_state>>
  <2>1. Len(States) = 2 /\ States[1] = left_stance_state /\ States[2] = right_stance_state
    BY <1>1
  <2>2. 1 .. Len(States) = {1, 2}
    BY <2>1
  <2>3. (1 % 2) + 1 = 2 /\ (2 % 2) + 1 = 1
    OBVIOUS
  <2>4. QED
    BY <2>1, <2>2, <2>3, WalkAssumption DEF WalkAssumption, SingleSupport, Before
<1>2. CASE States = <<left_stance_state, double_support_state,
                      right_stance_state, double_support_state>>
  <2>1. /\ Len(States) = 4 /\ States[1] = left_stance_state /\ States[2] = double_support_state
        /\ States[3] = right_stance_state /\ States[4] = double_support_state
    BY <1>2
  <2>2. 1 .. Len(States) = {1, 2, 3, 4}
    BY <2>1
  <2>3. (1 % 4) + 1 = 2 /\ (2 % 4) + 1 = 3 /\ (3 % 4) + 1 = 4 /\ (4 % 4) + 1 = 1
    OBVIOUS
  <2>4. QED
    BY <2>1, <2>2, <2>3, WalkAssumption DEF WalkAssumption, SingleSupport, Before
<1>3. QED
  BY <1>1, <1>2, WalkAssumption DEF WalkAssumption

\* The next state after the one before is the state itself.
LEMMA Cycle == \A i \in 1 .. Len(States) : (Before(i) % Len(States)) + 1 = i
<1>1. CASE Len(States) = 2
  <2>1. 1 .. Len(States) = {1, 2} /\ (1 % 2) + 1 = 2 /\ (2 % 2) + 1 = 1
    BY <1>1
  <2>2. QED
    BY <1>1, <2>1 DEF Before
<1>2. CASE Len(States) = 4
  <2>1. /\ 1 .. Len(States) = {1, 2, 3, 4}
        /\ (1 % 4) + 1 = 2 /\ (2 % 4) + 1 = 3 /\ (3 % 4) + 1 = 4 /\ (4 % 4) + 1 = 1
    BY <1>2
  <2>2. QED
    BY <1>2, <2>1 DEF Before
<1>3. QED
  BY <1>1, <1>2, Gait

\* What a generator takes for the duration of a state is the machine's.
LEMMA DurationOf ==
  /\ \A i \in 1 .. Len(States) : StateDuration(States[i]) = Durations[i]
  /\ \A s : StateDuration(s) \in Nat \ {0}
  /\ \A s \in SingleSupport : StateDuration(s) = StateDuration(left_stance_state)
<1> DEFINE Known(s) == IF s \in ToSet(States) THEN s ELSE left_stance_state
<1> DEFINE At(s) == CHOOSE i \in DOMAIN States : States[i] = Known(s)
<1>1. /\ DOMAIN States = 1 .. Len(States) /\ 1 \in DOMAIN States
      /\ \A i \in 1 .. Len(States) : Durations[i] \in Nat \ {0}
  BY Lists
<1>2. ASSUME NEW s
      PROVE  At(s) \in 1 .. Len(States) /\ States[At(s)] = Known(s)
  <2>1. \E i \in DOMAIN States : States[i] = Known(s)
    BY <1>1, Gait DEF ToSet
  <2>2. At(s) \in DOMAIN States /\ States[At(s)] = Known(s)
    BY <2>1, Zenon
  <2> HIDE DEF At, Known
  <2>3. QED
    BY <1>1, <2>2
<1>3. \A s : StateDuration(s) = Durations[At(s)]
  BY DEF StateDuration
<1>4. \A i, j \in DOMAIN States :
          States[i] = States[j] \/ {States[i], States[j]} = SingleSupport =>
              Durations[i] = Durations[j]
  BY WalkAssumption DEF WalkAssumption
<1>5. ASSUME NEW i \in 1 .. Len(States)
      PROVE  StateDuration(States[i]) = Durations[i]
  <2>1. Known(States[i]) = States[i]
    BY <1>1 DEF ToSet
  <2>2. At(States[i]) \in 1 .. Len(States) /\ States[At(States[i])] = States[i]
    BY <1>2, <2>1
  <2> HIDE DEF At, Known
  <2>3. QED
    BY <1>1, <1>3, <1>4, <2>2
<1>6. ASSUME NEW s
      PROVE  StateDuration(s) \in Nat \ {0}
  <2> HIDE DEF At, Known
  <2>1. QED
    BY <1>1, <1>2, <1>3
<1>7. ASSUME NEW s \in SingleSupport
      PROVE  StateDuration(s) = StateDuration(left_stance_state)
  <2>1. /\ left_stance_state \in ToSet(States) /\ right_stance_state \in ToSet(States)
    <3>1. CASE States = <<left_stance_state, right_stance_state>>
      BY <3>1 DEF ToSet
    <3>2. CASE States = <<left_stance_state, double_support_state,
                          right_stance_state, double_support_state>>
      BY <3>2 DEF ToSet
    <3>3. QED
      BY <3>1, <3>2, WalkAssumption DEF WalkAssumption
  <2>2. Known(s) = s /\ Known(left_stance_state) = left_stance_state
    BY <2>1 DEF SingleSupport
  <2>3. /\ At(s) \in 1 .. Len(States) /\ States[At(s)] = s
        /\ At(left_stance_state) \in 1 .. Len(States)
        /\ States[At(left_stance_state)] = left_stance_state
    BY <1>2, <2>2
  <2> HIDE DEF At, Known
  <2>4. s = left_stance_state \/ {s, left_stance_state} = SingleSupport
    BY DEF SingleSupport
  <2>5. QED
    BY <1>1, <1>3, <1>4, <2>3, <2>4
<1>8. QED
  BY <1>5, <1>6, <1>7

\* The last message showed the robot's i-th state, or the rounding that hides it.
LastAt(i) == fsm = States[i] \/ (fsm \in Garbage /\ i = 1)

HistoryInv ==
    /\ gap = 0 => passed # 2
    /\ prev_fsm # NoState /\ ~misled =>
           /\ start <= timestamp /\ timestamp <= clock
           /\ timestamp <= start + StateDuration(fsm_int)
           /\ passed = 0 => /\ entered <= start
                            /\ timestamp < start + StateDuration(fsm_int)
                            /\ LastAt(index)
                            /\ fsm \in Garbage => entered = timestamp
           /\ passed = 1 => /\ timestamp <= entered
                            /\ entered <= start + Durations[Before(index)]
                            /\ LastAt(Before(index))

\* At the controller's times the robot is in some state.
LEMMA InSomeState ==
  ASSUME PhaseInv
  PROVE  /\ T0 = 0 /\ index \in 1 .. Len(States)
         /\ entered <= clock /\ clock < entered + Durations[index]
         /\ clock \in Nat /\ entered \in Nat /\ Durations[index] \in Nat
  BY TypeParts, Lists, WalkAssumption DEF PhaseInv, DwellInv, WalkAssumption

\* What a message shows: the robot's state, or the one before it or none at the
\* instant at which the robot's begins.
LEMMA ShownInTime ==
  ASSUME PhaseInv, Message
  PROVE  /\ fsm' \in ToSet(States) \cup Garbage
         /\ fsm' # NoState /\ fsm' # Initial
         /\ \/ fsm' = States[index] /\ passed' = 0
            \/ fsm' = States[Before(index)] /\ clock = entered /\ passed' = 1
            \/ fsm' \in Garbage /\ index = 1 /\ clock = entered /\ passed' = 0
         /\ index \in 1 .. Len(States) /\ Before(index) \in 1 .. Len(States)
         /\ States[index] # States[Before(index)]
         /\ States[index] \notin Garbage /\ States[Before(index)] \notin Garbage
         /\ States[index] # NoState /\ States[Before(index)] # NoState
<1>1. /\ index \in 1 .. Len(States)
      /\ entered <= clock /\ clock < entered + Durations[index]
      /\ clock \in Nat /\ entered \in Nat
  BY InSomeState
<1>2. \/ fsm' = States[index]
      \/ clock = entered /\ (fsm' = States[Before(index)] \/ (fsm' \in Garbage /\ index = 1))
  <2>1. fsm' \in CalcFiniteState(clock) /\ clock >= T0
    BY InSomeState DEF Message
  <2>2. (clock - T0) % Period = Accumulated[index - 1] + (clock - entered)
    BY <1>1, Lists DEF PhaseInv, DwellInv
  <2>3. QED
    BY <1>1, <2>1, <2>2, Shown
<1>3. /\ Before(index) \in 1 .. Len(States) /\ States[Before(index)] # States[index]
  BY <1>1, Gait
<1>4. States[index] \in ToSet(States) /\ States[Before(index)] \in ToSet(States)
  <2>1. index \in DOMAIN States /\ Before(index) \in DOMAIN States
    BY <1>1, <1>3, Lists
  <2>2. QED
    BY <2>1 DEF ToSet
<1>5. /\ ToSet(States) \cap Garbage = {}
      /\ Initial \notin ToSet(States) \cup Garbage
      /\ NoState \notin ToSet(States) \cup Garbage
  BY FsmAssumption, PhaseAssumption DEF FsmAssumption, PhaseAssumption
<1>6. passed' = IF index # 0 /\ fsm' \in ToSet(States) \ {States[index]} THEN 1 ELSE 0
  BY DEF Message
<1>7. index # 0
  BY <1>1
<1>8. QED
  BY <1>1, <1>2, <1>3, <1>4, <1>5, <1>6, <1>7

\* Ticks hide changes of state, one by one.
LEMMA TickHistory ==
  ASSUME PhaseInv, HistoryInv, Tick
  PROVE  HistoryInv'
<1>1. /\ timestamp' = timestamp /\ fsm' = fsm /\ prev_fsm' = prev_fsm /\ start' = start
      /\ misled' = misled /\ clock' = clock + 1 /\ gap' = gap + 1
  BY DEF Tick
<1>2. /\ index \in 1 .. Len(States) /\ clock \in Nat /\ timestamp \in Nat
      /\ passed \in {0, 1, 2} /\ entered \in Nat /\ start \in Nat
      /\ Durations[index] \in Nat /\ index # 0
  BY InSomeState, TypeParts, Lists DEF PhaseInv
<1>3. gap' # 0
  BY <1>1, PhaseAssumption DEF PhaseInv, TypeOK, PhaseAssumption
<1>4. timestamp <= clock => timestamp' <= clock'
  BY <1>1, <1>2
<1>5. CASE index' = index /\ entered' = entered /\ passed' = passed
  BY <1>1, <1>3, <1>4, <1>5 DEF HistoryInv, LastAt, fsm_int, ToInt
<1>6. CASE /\ index' = (index % Len(States)) + 1 /\ entered' = clock'
           /\ passed' = IF passed = 2 THEN 2 ELSE passed + 1
           /\ entered' = entered + Durations[index]
  <2>1. Before(index') = index
    BY <1>2, <1>6, Gait
  <2>2. passed' # 0 /\ (passed' = 1 => passed = 0)
    BY <1>2, <1>6
  <2>3. timestamp <= clock => timestamp' <= entered'
    BY <1>4, <1>6
  <2>4. entered <= start => entered' <= start' + Durations[index]
    BY <1>1, <1>2, <1>6
  <2>5. SUFFICES ASSUME prev_fsm # NoState, ~misled
                 PROVE  /\ start' <= timestamp' /\ timestamp' <= clock'
                        /\ timestamp' <= start' + StateDuration(fsm_int)
                        /\ passed' = 1 => /\ timestamp' <= entered'
                                          /\ entered' <= start' + Durations[index]
                                          /\ LastAt(index)
    BY <1>1, <1>3, <2>1, <2>2 DEF HistoryInv, LastAt, fsm_int, ToInt
  <2>6. /\ start <= timestamp /\ timestamp <= clock
        /\ timestamp <= start + StateDuration(fsm_int)
        /\ passed = 0 => entered <= start /\ LastAt(index)
    BY <2>5 DEF HistoryInv
  <2>7. QED
    BY <1>1, <1>4, <2>2, <2>3, <2>4, <2>6
<1>7. QED
  BY <1>2, <1>5, <1>6, TickDwells

\* Two messages in a row that show the same state, with no two changes hidden
\* between them, are of the same visit, or the second is of the instant at which
\* it ends; and no two are garbage.
LEMMA SameVisit ==
  ASSUME PhaseInv, HistoryInv, Message, fsm' = prev_fsm, ~misled'
  PROVE  /\ prev_fsm # NoState /\ ~misled /\ fsm' \notin Garbage
         /\ \/ passed = 0 /\ fsm' = States[index] /\ passed' = 0
            \/ /\ passed = 1 /\ fsm' = States[Before(index)] /\ clock = entered
               /\ passed' = 1
<1>1. /\ index \in 1 .. Len(States) /\ passed \in {0, 1, 2}
      /\ clock \in Nat /\ entered \in Nat /\ start \in Nat /\ timestamp \in Nat
  BY InSomeState, TypeParts DEF PhaseInv
<1>2. prev_fsm # NoState /\ fsm = prev_fsm
  BY ShownInTime DEF PhaseInv
<1>3. ~misled /\ passed # 2
  <2>1. misled' = ((misled \/ passed = 2) /\ fsm' = prev_fsm)
    BY DEF Message
  <2>2. QED
    BY <2>1, Zenon
<1>4. clock # timestamp
  BY <1>2 DEF Message
<1>5. CASE passed = 0
  <2>1. /\ entered <= start /\ start <= timestamp /\ timestamp <= clock
        /\ LastAt(index) /\ (fsm \in Garbage => entered = timestamp)
    BY <1>2, <1>3, <1>5 DEF HistoryInv
  <2>2. clock # entered
    BY <1>1, <1>4, <2>1
  <2>3. QED
    BY <1>2, <1>3, <1>5, <2>2, ShownInTime
<1>6. CASE passed = 1
  <2>1. LastAt(Before(index))
    BY <1>2, <1>3, <1>6 DEF HistoryInv
  <2>2. Before(index) # index
    BY <1>1, Gait
  <2>3. fsm' # States[index]
    BY <1>2, <2>1, ShownInTime DEF LastAt
  <2>4. fsm' \notin Garbage
    BY <1>2, <2>1, <2>2, <2>3, ShownInTime DEF LastAt
  <2>5. QED
    BY <1>2, <1>3, <1>6, <2>3, <2>4, ShownInTime
<1>7. QED
  BY <1>1, <1>3, <1>5, <1>6

\* A message begins a history or goes on with it.
LEMMA MessageHistory ==
  ASSUME PhaseInv, HistoryInv, Message
  PROVE  HistoryInv'
<1>1. /\ index \in 1 .. Len(States) /\ Before(index) \in 1 .. Len(States)
      /\ entered <= clock /\ clock < entered + Durations[index]
      /\ clock \in Nat /\ entered \in Nat /\ start \in Nat /\ timestamp \in Nat
      /\ Durations[index] \in Nat /\ Durations[Before(index)] \in Nat
      /\ Before(index) # index
  BY InSomeState, TypeParts, Gait, Lists DEF PhaseInv
<1>2. /\ timestamp' = clock /\ gap' = 0 /\ prev_fsm' = fsm'
      /\ clock' = clock /\ index' = index /\ entered' = entered
      /\ start' = IF fsm' # prev_fsm THEN clock ELSE start
  BY DEF Message, Changed
<1>3. /\ passed' = 0 => LastAt(index)' /\ (fsm' \in Garbage => entered' = timestamp')
      /\ passed' = 1 => LastAt(Before(index))' /\ entered' = timestamp'
      /\ passed' \in {0, 1}
  BY <1>2, ShownInTime DEF LastAt
<1>4. SUFFICES ASSUME ~misled'
               PROVE  /\ start' <= timestamp'
                      /\ timestamp' <= start' + StateDuration(fsm_int')
                      /\ passed' = 0 => /\ entered' <= start'
                                        /\ timestamp' < start' + StateDuration(fsm_int')
                      /\ passed' = 1 => entered' <= start' + Durations[Before(index)]
  <2>1. timestamp' <= clock' /\ passed' # 2
    BY <1>1, <1>2, <1>3
  <2>2. passed' = 1 => timestamp' <= entered'
    BY <1>1, <1>2, <1>3
  <2>3. Durations[Before(index)]' = Durations[Before(index)]
    BY <1>2 DEF Before
  <2>4. QED
    BY <1>2, <1>3, <1>4, <2>1, <2>2, <2>3 DEF HistoryInv
<1>5. CASE fsm' # prev_fsm
  <2>1. start' = clock
    BY <1>2, <1>5
  <2>2. StateDuration(fsm_int') \in Nat \ {0}
    BY DurationOf
  <2>3. QED
    BY <1>1, <1>2, <2>1, <2>2
<1>6. CASE fsm' = prev_fsm
  <2>1. /\ prev_fsm # NoState /\ ~misled /\ fsm' \notin Garbage
        /\ \/ passed = 0 /\ fsm' = States[index] /\ passed' = 0
           \/ /\ passed = 1 /\ fsm' = States[Before(index)] /\ clock = entered
              /\ passed' = 1
    BY <1>4, <1>6, SameVisit
  <2>2. start' = start /\ start <= timestamp /\ timestamp <= clock
    BY <1>2, <1>6, <2>1 DEF HistoryInv
  <2>3. fsm_int' = fsm'
    BY <2>1 DEF fsm_int, ToInt
  <2>4. CASE passed = 0 /\ fsm' = States[index] /\ passed' = 0
    <3>1. StateDuration(fsm_int') = Durations[index]
      BY <1>1, <2>3, <2>4, DurationOf
    <3>2. entered <= start
      BY <2>1, <2>4 DEF HistoryInv
    <3>3. QED
      BY <1>1, <1>2, <2>2, <2>4, <3>1, <3>2
  <2>5. CASE /\ passed = 1 /\ fsm' = States[Before(index)] /\ clock = entered
             /\ passed' = 1
    <3>1. StateDuration(fsm_int') = Durations[Before(index)]
      BY <1>1, <2>3, <2>5, DurationOf
    <3>2. entered <= start + Durations[Before(index)]
      BY <2>1, <2>5 DEF HistoryInv
    <3>3. QED
      BY <1>1, <1>2, <2>2, <2>5, <3>1, <3>2
  <2>6. QED
    BY <2>1, <2>4, <2>5
<1>7. QED
  BY <1>5, <1>6

\* Everyone who watches the state has recorded the same start, whenever the
\* state shown is one of interest; the swing foot generator remembers every
\* single support that is shown.
WatchInv ==
    /\ prev_fsm_state = prev_fsm
    /\ prev_event_time = start
    /\ touchdown_com = start
    /\ lipm_prev_fsm = IF prev_fsm = NoState THEN Initial ELSE prev_fsm
    /\ InterestAgrees
    /\ ToInt(prev_fsm) \in SingleSupport => swing_prev_fsm = prev_fsm
    /\ prev_fsm = NoState => swing_prev_fsm = NoState

\* The swing foot generator's last single support, for a message that came in
\* the i-th state.
Latest(i) ==
    IF States[i] \in SingleSupport
    THEN swing_prev_fsm = States[i] \/ swing_prev_fsm \in Garbage
    ELSE swing_prev_fsm \in {States[Before(i)], NoState} \cup Garbage

SwingInv ==
    ~unlatched =>
        /\ ~misled
        /\ prev_fsm # NoState =>
               /\ fsm_int \in SingleSupport =>
                      liftoff_pos = [foot |-> SwingFoot(fsm_int), at |-> start_of_interest]
               /\ fsm \in Garbage => swing_prev_fsm = fsm
               /\ passed = 0 => Latest(index)
               /\ passed = 1 => Latest(Before(index))

\* The program is that of the last message.
OscInv ==
    /\ sol # NoState \/ stage = "advanced" => prev_fsm # NoState
    /\ Answered =>
           /\ "pelvis_heading_traj" \in costs <=> timestamp - start >= PeriodOfNoHeadingControl
           /\ forces = Osc!ActiveContacts(fsm_int)

WalkInv == PhaseInv /\ HistoryInv /\ WatchInv /\ SwingInv /\ OscInv

\* All watches see what the first of them sees.
LEMMA MessageWatch ==
  ASSUME WalkInv, WalkMessage
  PROVE  WatchInv'
<1>1. PhaseInv /\ WatchInv /\ Message
  BY DEF WalkInv, WalkMessage
<1>2. fsm' # NoState /\ fsm' # Initial
  BY <1>1, ShownInTime
<1>3. /\ timestamp' = clock /\ prev_fsm' = fsm'
      /\ start' = IF fsm' # prev_fsm THEN clock ELSE start
      /\ start_of_interest' = IF fsm' # prev_fsm /\ ToInt(fsm') \in Interest
                              THEN clock ELSE start_of_interest
  BY <1>1 DEF Message, Changed, OfInterest
<1>4. /\ prev_fsm_state' = fsm'
      /\ prev_event_time' = IF fsm' # prev_fsm_state THEN timestamp' ELSE prev_event_time
      /\ lipm_prev_fsm' = fsm'
      /\ touchdown_com' = IF fsm' # lipm_prev_fsm THEN timestamp' ELSE touchdown_com
  BY DEF WalkMessage, Osc!DiscreteVariableUpdate, LipmUpdate
<1>5. prev_event_time' = start'
  BY <1>1, <1>3, <1>4 DEF WatchInv
<1>6. touchdown_com' = start'
  BY <1>1, <1>2, <1>3, <1>4 DEF WatchInv
<1>7. InterestAgrees'
  BY <1>1, <1>3 DEF WatchInv, InterestAgrees, ToInt
<1>8. ToInt(prev_fsm') \in SingleSupport => swing_prev_fsm' = prev_fsm'
  <2>1. fsm_int' = ToInt(fsm')
    BY DEF fsm_int, ToInt
  <2>2. QED
    BY <1>3, <2>1 DEF WalkMessage, SwingUpdate, EntersSwing
<1>9. ToInt(prev_fsm)' = ToInt(prev_fsm')
  BY DEF ToInt
<1>10. QED
  BY <1>2, <1>3, <1>4, <1>5, <1>6, <1>7, <1>8, <1>9 DEF WatchInv

\* As long as nothing is hidden the generator's memory is of the last single
\* support, so it measures every lift-off.
LEMMA MessageSwing ==
  ASSUME WalkInv, WalkMessage
  PROVE  SwingInv'
<1>1. PhaseInv /\ HistoryInv /\ WatchInv /\ SwingInv /\ Message
  BY DEF WalkInv, WalkMessage
<1>2. /\ fsm' # NoState /\ index \in 1 .. Len(States) /\ Before(index) \in 1 .. Len(States)
      /\ \/ fsm' = States[index] /\ passed' = 0
         \/ fsm' = States[Before(index)] /\ clock = entered /\ passed' = 1
         \/ fsm' \in Garbage /\ index = 1 /\ passed' = 0
      /\ States[index] \notin Garbage /\ States[Before(index)] \notin Garbage
      /\ States[index] # NoState /\ States[Before(index)] # States[index]
  BY <1>1, ShownInTime
<1>3. /\ timestamp' = clock /\ prev_fsm' = fsm' /\ index' = index
      /\ start_of_interest' = IF fsm' # prev_fsm /\ ToInt(fsm') \in Interest
                              THEN clock ELSE start_of_interest
      /\ misled' = ((misled \/ passed = 2) /\ fsm' = prev_fsm)
  BY <1>1 DEF Message, Changed, OfInterest
<1>4. unlatched' = (~EntersSwing /\ (unlatched \/ passed = 2 \/ fsm' \in Garbage))
  BY DEF WalkMessage
<1>5. fsm_int' = ToInt(fsm') /\ Interest = SingleSupport
  BY WalkAssumption DEF fsm_int, ToInt, WalkAssumption
<1>6. SUFFICES ASSUME ~unlatched'
               PROVE  /\ ~misled'
                      /\ fsm_int' \in SingleSupport =>
                             liftoff_pos' = [foot |-> SwingFoot(fsm_int'),
                                             at |-> start_of_interest']
                      /\ fsm' \in Garbage => swing_prev_fsm' = fsm'
                      /\ passed' = 0 => Latest(index)'
                      /\ passed' = 1 => Latest(Before(index))'
  <2>1. SwingFoot(fsm_int)' = SwingFoot(fsm_int')
    BY DEF SwingFoot
  <2>2. QED
    BY <2>1 DEF SwingInv
<1>7. CASE EntersSwing
  <2>1. /\ fsm_int' \in SingleSupport /\ fsm' # swing_prev_fsm
        /\ swing_prev_fsm' = fsm'
        /\ liftoff_pos' = [foot |-> SwingFoot(fsm_int'), at |-> timestamp']
    BY <1>7 DEF WalkMessage, SwingUpdate, EntersSwing
  <2>2. fsm' # prev_fsm
    BY <1>1, <1>5, <2>1 DEF WatchInv
  <2>3. start_of_interest' = clock /\ ~misled'
    BY <1>3, <1>5, <2>1, <2>2
  <2>4. /\ passed' = 0 => Latest(index)'
        /\ passed' = 1 => Latest(Before(index))'
    <3>1. CASE fsm' \in Garbage
      <4>1. States[index] \in SingleSupport /\ passed' = 0
        BY <1>2, <3>1, Gait DEF SingleSupport
      <4>2. QED
        BY <1>3, <2>1, <3>1, <4>1 DEF Latest
    <3>2. CASE fsm' = States[index] /\ passed' = 0
      <4>1. fsm_int' = fsm'
        BY <1>2, <1>5, <3>2 DEF ToInt
      <4>2. QED
        BY <1>3, <2>1, <3>2, <4>1 DEF Latest
    <3>3. CASE fsm' = States[Before(index)] /\ passed' = 1
      <4>1. fsm_int' = fsm' /\ Before(index)' = Before(index)
        BY <1>2, <1>3, <1>5, <3>3 DEF ToInt, Before
      <4>2. QED
        BY <2>1, <3>3, <4>1 DEF Latest
    <3>4. QED
      BY <1>2, <3>1, <3>2, <3>3
  <2>5. QED
    BY <1>3, <2>1, <2>3, <2>4
<1>8. CASE ~EntersSwing /\ fsm' = States[index] /\ passed' = 0
  <2>1. ~unlatched /\ passed # 2 /\ fsm' \notin Garbage
    BY <1>4, <1>6, <1>8, Zenon
  <2>2. fsm' = States[index] /\ passed' = 0 /\ fsm_int' = fsm' /\ ~misled /\ ~misled'
    <3>1. fsm_int' = fsm'
      BY <1>5, <2>1 DEF ToInt
    <3>2. ~misled
      BY <1>1, <2>1 DEF SwingInv
    <3>3. ~misled'
      BY <1>3, <2>1, <3>2, Zenon
    <3>4. QED
      BY <1>8, <3>1, <3>2, <3>3
  <2>3. /\ swing_prev_fsm' = swing_prev_fsm /\ liftoff_pos' = liftoff_pos
        /\ fsm' \in SingleSupport => fsm' = swing_prev_fsm
    BY <1>8, <2>2 DEF WalkMessage, SwingUpdate, EntersSwing
  <2>4. passed \in {0, 1}
    BY <1>1, <2>1, TypeParts DEF PhaseInv
  <2>5. Latest(index)' <=> Latest(index)
    BY <1>3, <2>3 DEF Latest
  <2>6. States[Before(index)] \notin Garbage /\ States[index] # NoState
        /\ States[Before(index)] # States[index] /\ Before(index) \in 1 .. Len(States)
    <3>1. Before(index) \in DOMAIN States /\ index \in DOMAIN States
      BY <1>2, Gait, Lists
    <3>2. States[Before(index)] \in ToSet(States)
      BY <3>1 DEF ToSet
    <3>3. QED
      BY <1>2, <2>2, <3>1, <3>2, Gait, FsmAssumption DEF FsmAssumption
  <2>7. CASE prev_fsm = NoState
    <3>1. swing_prev_fsm = NoState
      BY <1>1, <2>7 DEF WatchInv
    <3>2. States[index] \notin SingleSupport
      BY <2>2, <2>3, <2>6, <3>1
    <3>3. Latest(index)
      BY <3>1, <3>2 DEF Latest
    <3>4. QED
      BY <2>1, <2>2, <2>5, <3>2, <3>3
  <2>8. CASE prev_fsm # NoState /\ passed = 0
    <3>1. fsm = prev_fsm /\ LastAt(index) /\ Latest(index)
      BY <1>1, <2>1, <2>2, <2>8 DEF PhaseInv, HistoryInv, SwingInv
    <3>2. CASE fsm' \in SingleSupport
      <4>1. fsm \notin Garbage
        BY <1>1, <2>1, <2>3, <2>8, <3>2 DEF SwingInv
      <4>2. fsm = fsm' /\ fsm_int = fsm
        BY <2>2, <3>1, <4>1 DEF LastAt, fsm_int, ToInt
      <4>3. liftoff_pos = [foot |-> SwingFoot(fsm_int), at |-> start_of_interest]
        BY <1>1, <2>1, <2>8, <3>2, <4>2 DEF SwingInv
      <4>4. start_of_interest' = start_of_interest
        BY <1>3, <3>1, <4>2
      <4>5. QED
        BY <2>1, <2>2, <2>3, <2>5, <3>1, <4>2, <4>3, <4>4
    <3>3. CASE fsm' \notin SingleSupport
      BY <2>1, <2>2, <2>5, <3>1, <3>3
    <3>4. QED
      BY <3>2, <3>3
  <2>9. CASE prev_fsm # NoState /\ passed = 1
    <3>1. Latest(Before(index))
      BY <1>1, <2>1, <2>9 DEF SwingInv
    <3>2. CASE States[index] \in SingleSupport
      <4>1. CASE States[Before(index)] \in SingleSupport
        BY <2>1, <2>2, <2>3, <2>6, <3>1, <3>2, <4>1 DEF Latest
      <4>2. CASE States[Before(index)] \notin SingleSupport
        <5>1. States[Before(index)] = double_support_state
          BY <2>6, <4>2, Gait
        <5>2. /\ Before(index) # 1
              /\ States[(Before(index) % Len(States)) + 1] # States[Before(index) - 1]
          BY <2>6, <5>1, Gait
        <5>3. (Before(index) % Len(States)) + 1 = index
          BY <1>2, Cycle
        <5>4. Before(Before(index)) = Before(index) - 1
          BY <5>2 DEF Before
        <5>5. QED
          BY <2>1, <2>2, <2>3, <2>6, <3>1, <3>2, <4>2, <5>2, <5>3, <5>4 DEF Latest
      <4>3. QED
        BY <4>1, <4>2
    <3>3. CASE States[index] \notin SingleSupport
      <4>1. States[index] = double_support_state
        BY <1>2, <3>3, Gait
      <4>2. States[Before(index)] \in SingleSupport
        BY <1>2, <4>1, Gait DEF Before
      <4>3. Latest(index)
        BY <3>1, <3>3, <4>2 DEF Latest
      <4>4. QED
        BY <2>1, <2>2, <2>5, <3>3, <4>3
    <3>4. QED
      BY <3>2, <3>3
  <2>10. QED
    BY <2>4, <2>7, <2>8, <2>9
<1>9. CASE ~EntersSwing /\ fsm' = States[Before(index)] /\ clock = entered /\ passed' = 1
  <2>1. ~unlatched /\ passed # 2 /\ fsm' \notin Garbage
    BY <1>4, <1>6, <1>9, Zenon
  <2>2. fsm_int' = fsm' /\ ~misled /\ ~misled'
    <3>1. fsm_int' = fsm'
      BY <1>5, <2>1 DEF ToInt
    <3>2. ~misled
      BY <1>1, <2>1 DEF SwingInv
    <3>3. ~misled'
      BY <1>3, <2>1, <3>2, Zenon
    <3>4. QED
      BY <3>1, <3>2, <3>3
  <2>3. /\ swing_prev_fsm' = swing_prev_fsm /\ liftoff_pos' = liftoff_pos
        /\ fsm' \in SingleSupport => fsm' = swing_prev_fsm
    BY <1>9, <2>2 DEF WalkMessage, SwingUpdate, EntersSwing
  <2>4. Latest(Before(index))' <=> Latest(Before(index))
    BY <1>3, <2>3 DEF Latest, Before
  <2>5. CASE prev_fsm = NoState
    <3>1. swing_prev_fsm = NoState
      BY <1>1, <2>5 DEF WatchInv
    <3>2. States[Before(index)] \notin SingleSupport
      BY <1>2, <1>9, <2>3, <3>1
    <3>3. Latest(Before(index))
      BY <3>1, <3>2 DEF Latest
    <3>4. QED
      BY <1>9, <2>1, <2>2, <2>4, <3>2, <3>3
  <2>6. CASE prev_fsm # NoState
    <3>1. passed = 1
      <4>1. SUFFICES ASSUME passed = 0 PROVE FALSE
        BY <1>1, <2>1, TypeParts DEF PhaseInv
      <4>2. entered <= start /\ start <= timestamp /\ timestamp <= clock
        BY <1>1, <2>2, <2>6, <4>1 DEF HistoryInv
      <4>3. clock # timestamp
        BY <1>1, <2>6 DEF Message
      <4>4. clock \in Nat /\ entered \in Nat /\ start \in Nat /\ timestamp \in Nat
        BY <1>1, TypeParts DEF PhaseInv
      <4>5. QED
        BY <1>9, <4>2, <4>3, <4>4
    <3>2. fsm = prev_fsm /\ LastAt(Before(index)) /\ Latest(Before(index))
      BY <1>1, <2>1, <2>2, <2>6, <3>1 DEF PhaseInv, HistoryInv, SwingInv
    <3>3. CASE fsm' \in SingleSupport
      <4>1. fsm \notin Garbage
        BY <1>1, <2>1, <2>3, <2>6, <3>3 DEF SwingInv
      <4>2. fsm = fsm' /\ fsm_int = fsm
        BY <1>9, <3>2, <4>1 DEF LastAt, fsm_int, ToInt
      <4>3. liftoff_pos = [foot |-> SwingFoot(fsm_int), at |-> start_of_interest]
        BY <1>1, <2>1, <2>6, <3>3, <4>2 DEF SwingInv
      <4>4. start_of_interest' = start_of_interest
        BY <1>3, <3>2, <4>2
      <4>5. QED
        BY <1>9, <2>1, <2>2, <2>3, <2>4, <3>2, <4>2, <4>3, <4>4
    <3>4. CASE fsm' \notin SingleSupport
      BY <1>9, <2>1, <2>2, <2>4, <3>2, <3>4
    <3>5. QED
      BY <3>3, <3>4
  <2>7. QED
    BY <2>5, <2>6
<1>10. CASE ~EntersSwing /\ fsm' \in Garbage
  BY <1>4, <1>6, <1>10, Zenon
<1>11. QED
  BY <1>2, <1>7, <1>8, <1>9, <1>10

\* A command is made for the state and the time of its message.
LEMMA PublishOsc ==
  ASSUME WalkInv, Publish
  PROVE  WalkInv'
<1>1. PhaseInv /\ HistoryInv /\ WatchInv /\ SwingInv /\ OscInv
  BY DEF WalkInv
<1>2. /\ clock' = clock /\ gap' = gap /\ timestamp' = timestamp /\ fsm' = fsm
      /\ prev_fsm' = prev_fsm /\ start' = start /\ start_of_interest' = start_of_interest
      /\ index' = index /\ entered' = entered /\ passed' = passed /\ misled' = misled
      /\ unlatched' = unlatched /\ lipm_prev_fsm' = lipm_prev_fsm
      /\ touchdown_com' = touchdown_com /\ swing_prev_fsm' = swing_prev_fsm
      /\ liftoff_pos' = liftoff_pos /\ stage = "advanced" /\ stage' = "published"
      /\ prev_fsm_state' = prev_fsm_state /\ prev_event_time' = prev_event_time
  BY DEF Publish, phaseVars, vars, genVars, Osc!CalcOptimalInput
<1>3. PhaseInv'
  BY <1>1, <1>2 DEF PhaseInv, TypeOK, DwellInv
<1>4. HistoryInv'
  BY <1>1, <1>2 DEF HistoryInv, LastAt, fsm_int, ToInt
<1>5. WatchInv'
  BY <1>1, <1>2 DEF WatchInv, InterestAgrees, ToInt
<1>6. SwingInv'
  BY <1>1, <1>2 DEF SwingInv, Latest, SwingFoot, fsm_int, ToInt
<1>7. OscInv'
  <2>1. prev_fsm' # NoState
    BY <1>1, <1>2 DEF OscInv
  <2>2. /\ forces' = Osc!ActiveContacts(fsm_int)
        /\ costs' = {d \in Osc!TrackingData : Osc!TracksAt(d, fsm_int)
                                              /\ Osc!InWindow(d, timestamp)}
    BY DEF Publish, Osc!CalcOptimalInput, Osc!SolveQp, Osc!CostsFor
  <2>3. /\ "pelvis_heading_traj" \in Osc!TrackingData
        /\ Osc!TracksAt("pelvis_heading_traj", fsm_int)
    <3>1. TrackedStates["pelvis_heading_traj"] = {}
      BY DEF TrackedStates
    <3>2. QED
      BY <3>1 DEF Osc!TrackingData, Osc!TracksAt, TrackedStates
  <2>4. Osc!InWindow("pelvis_heading_traj", timestamp)
            <=> timestamp - start >= PeriodOfNoHeadingControl
    <3>1. /\ timestamp \in Nat /\ start \in Nat /\ timestamp <= MaxTime /\ MaxTime \in Nat
          /\ prev_event_time = start
      BY <1>1, TypeParts DEF PhaseInv, WatchInv
    <3>2. Forever \in Nat /\ Forever >= MaxTime /\ PeriodOfNoHeadingControl \in Nat
      BY WalkAssumption DEF WalkAssumption
    <3>3. timestamp - prev_event_time <= Forever
      BY <3>1, <3>2
    <3>4. PeriodOfNoHeadingControl <= timestamp - prev_event_time
              <=> timestamp - start >= PeriodOfNoHeadingControl
      BY <3>1, <3>2
    <3>5. "pelvis_heading_traj" \in DOMAIN TrackedStates
      BY DEF TrackedStates
    <3>6. QED
      BY <3>3, <3>4, <3>5 DEF Osc!InWindow, Osc!Elapsed
  <2>5. fsm_int' = fsm_int
    BY <1>2 DEF fsm_int, ToInt
  <2>6. Osc!ActiveContacts(fsm_int)' = Osc!ActiveContacts(fsm_int)
    BY <2>5 DEF Osc!ActiveContacts
  <2>7. QED
    BY <1>2, <2>1, <2>2, <2>3, <2>4, <2>6 DEF OscInv
<1>8. QED
  BY <1>3, <1>4, <1>5, <1>6, <1>7 DEF WalkInv

\* While the clock ticks or starts again the last command stays as it is.
LEMMA ClockKeeps ==
  ASSUME WalkInv, WalkTick \/ WalkRestart
  PROVE  WalkInv'
<1>1. PhaseInv /\ HistoryInv /\ WatchInv /\ SwingInv /\ OscInv
  BY DEF WalkInv
<1>2. /\ timestamp' = timestamp /\ fsm' = fsm /\ prev_fsm' = prev_fsm /\ start' = start
      /\ start_of_interest' = start_of_interest /\ stage' = stage
      /\ prev_fsm_state' = prev_fsm_state /\ prev_event_time' = prev_event_time
      /\ forces' = forces /\ costs' = costs /\ sol' = sol
      /\ lipm_prev_fsm' = lipm_prev_fsm /\ touchdown_com' = touchdown_com
      /\ swing_prev_fsm' = swing_prev_fsm /\ liftoff_pos' = liftoff_pos
  BY DEF WalkTick, WalkRestart, Tick, Restart, oscVars, genVars
<1>3. fsm_int' = fsm_int
  BY <1>2 DEF fsm_int, ToInt
<1>4. PhaseInv'
  BY <1>1, NextPhaseInv DEF WalkTick, WalkRestart, Next
<1>5. WatchInv'
  BY <1>1, <1>2 DEF WatchInv, InterestAgrees, ToInt
<1>6. OscInv'
  <2>1. Osc!ActiveContacts(fsm_int)' = Osc!ActiveContacts(fsm_int)
    BY <1>3 DEF Osc!ActiveContacts
  <2>2. QED
    BY <1>1, <1>2, <2>1 DEF OscInv, Answered
<1>7. HistoryInv' /\ SwingInv'
  <2>1. CASE WalkTick
    <3>1. Tick /\ unlatched' = unlatched
      BY <2>1 DEF WalkTick
    <3>2. HistoryInv'
      BY <1>1, <3>1, TickHistory
    <3>3. misled' = misled
      BY <3>1 DEF Tick
    <3>4. \/ index' = index /\ passed' = passed
          \/ /\ index' = (index % Len(States)) + 1
             /\ passed' = IF passed = 2 THEN 2 ELSE passed + 1
      BY <1>1, <3>1, TickDwells
    <3>5. Before((index % Len(States)) + 1) = index /\ passed \in {0, 1, 2}
      BY <1>1, InSomeState, Gait, TypeParts DEF PhaseInv
    <3>6. \/ index' = index /\ passed' = passed
          \/ passed' # 0 /\ (passed' = 1 => passed = 0) /\ Before(index') = index
      BY <3>4, <3>5
    <3>7. SwingInv'
      <4>1. SUFFICES ASSUME ~unlatched
                     PROVE  /\ ~misled'
                            /\ prev_fsm' # NoState =>
                                  /\ fsm_int' \in SingleSupport =>
                                        liftoff_pos' = [foot |-> SwingFoot(fsm_int'),
                                                        at |-> start_of_interest']
                                  /\ fsm' \in Garbage => swing_prev_fsm' = fsm'
                                  /\ passed' = 0 => Latest(index)'
                                  /\ passed' = 1 => Latest(Before(index))'
        BY <3>1 DEF SwingInv, SwingFoot
      <4>2. /\ ~misled
            /\ prev_fsm # NoState =>
                  /\ fsm_int \in SingleSupport =>
                        liftoff_pos = [foot |-> SwingFoot(fsm_int), at |-> start_of_interest]
                  /\ fsm \in Garbage => swing_prev_fsm = fsm
                  /\ passed = 0 => Latest(index)
                  /\ passed = 1 => Latest(Before(index))
        BY <1>1, <4>1 DEF SwingInv
      <4>3. /\ Latest(index)' <=> Latest(index')
            /\ Latest(Before(index))' <=> Latest(Before(index'))
        BY <1>2 DEF Latest, Before
      <4>4. prev_fsm # NoState =>
                /\ passed' = 0 => Latest(index')
                /\ passed' = 1 => Latest(Before(index'))
        BY <3>6, <4>2
      <4>5. QED
        BY <1>2, <1>3, <3>3, <4>2, <4>3, <4>4
    <3>8. QED
      BY <3>2, <3>7
  <2>2. CASE WalkRestart
    <3>1. misled' = TRUE /\ passed' = 0 /\ unlatched' = TRUE
      BY <2>2 DEF WalkRestart, Restart
    <3>2. QED
      BY <3>1 DEF HistoryInv, SwingInv
  <2>3. QED
    BY <2>1, <2>2
<1>8. QED
  BY <1>1, <1>4, <1>5, <1>6, <1>7 DEF WalkInv

\* Nothing is known before the first message.
LEMMA InitWalkInv == WalkInit => WalkInv
<1> SUFFICES ASSUME WalkInit PROVE WalkInv
  OBVIOUS
<1>1. /\ Init /\ stage = "published" /\ prev_fsm_state = NoState /\ prev_event_time = 0
      /\ sol = NoState /\ lipm_prev_fsm = Initial /\ touchdown_com = 0
      /\ swing_prev_fsm = NoState
  BY DEF WalkInit, Osc!Start
<1>2. /\ prev_fsm = NoState /\ start = 0 /\ passed = 0 /\ misled = FALSE
  BY <1>1 DEF Init
<1>3. PhaseInv
  BY <1>1, InitPhaseInv
<1>4. HistoryInv
  BY <1>2 DEF HistoryInv
<1>5. WatchInv
  <2>1. ToInt(NoState) = NoState /\ NoState \notin Interest /\ Interest = SingleSupport
    BY PhaseAssumption, WalkAssumption DEF PhaseAssumption, WalkAssumption, ToInt
  <2>2. QED
    BY <1>1, <1>2, <2>1 DEF WatchInv, InterestAgrees
<1>6. SwingInv
  BY <1>2 DEF SwingInv
<1>7. OscInv
  BY <1>1 DEF OscInv, Answered
<1>8. QED
  BY <1>3, <1>4, <1>5, <1>6, <1>7 DEF WalkInv

\* Every step of the controller keeps WalkInv.
LEMMA NextWalkInv == WalkInv /\ [WalkNext]_walkVars => WalkInv'
<1> SUFFICES ASSUME WalkInv, [WalkNext]_walkVars PROVE WalkInv'
  OBVIOUS
<1>1. CASE WalkTick \/ WalkRestart
  BY <1>1, ClockKeeps
<1>2. CASE WalkMessage
  <2>1. PhaseInv /\ HistoryInv /\ Message
    BY <1>2 DEF WalkInv, WalkMessage
  <2>2. PhaseInv'
    BY <2>1, MessagePhase
  <2>3. HistoryInv'
    BY <2>1, MessageHistory
  <2>4. OscInv'
    <3>1. prev_fsm' # NoState
      BY <2>1, ShownInTime DEF Message
    <3>2. stage' = "advanced"
      BY <1>2 DEF WalkMessage
    <3>3. QED
      BY <3>1, <3>2 DEF OscInv, Answered
  <2>5. QED
    BY <1>2, <2>2, <2>3, <2>4, MessageWatch, MessageSwing DEF WalkInv
<1>3. CASE Publish
  BY <1>3, PublishOsc
<1>4. CASE UNCHANGED walkVars
  <2>1. /\ UNCHANGED vars /\ stage' = stage /\ UNCHANGED oscVars /\ UNCHANGED genVars
        /\ unlatched' = unlatched
    BY <1>4 DEF walkVars, phaseVars
  <2>2. fsm_int' = fsm_int
    BY <2>1 DEF vars, fsm_int, ToInt
  <2>3. Osc!ActiveContacts(fsm_int)' = Osc!ActiveContacts(fsm_int)
    BY <2>2 DEF Osc!ActiveContacts
  <2>4. PhaseInv'
    BY <2>1, NextPhaseInv DEF WalkInv
  <2>5. HistoryInv'
    BY <2>1, <2>2 DEF WalkInv, vars, HistoryInv, LastAt, Before
  <2>6. WatchInv'
    BY <2>1 DEF WalkInv, vars, oscVars, genVars, WatchInv, InterestAgrees, ToInt
  <2>7. SwingInv'
    BY <2>1, <2>2 DEF WalkInv, vars, genVars, SwingInv, Latest, SwingFoot
  <2>8. OscInv'
    BY <2>1, <2>3 DEF WalkInv, vars, oscVars, OscInv, Answered
  <2>9. QED
    BY <2>4, <2>5, <2>6, <2>7, <2>8 DEF WalkInv
<1>5. QED
  BY <1>1, <1>2, <1>3, <1>4 DEF WalkNext

------------------------------------------------------------------------------
(* What WalkInv says of the properties. *)

\* A message that is not older than the clock shows the visit from its start on,
\* or comes at the instant that ends the visit it shows.
LEMMA FreshHistory ==
  ASSUME PhaseInv, HistoryInv, Fresh, ~misled
  PROVE  \/ entered <= start /\ timestamp < start + StateDuration(fsm_int)
         \/ timestamp = entered /\ fsm # States[index]
<1>1. /\ gap = 0 /\ timestamp = clock /\ prev_fsm # NoState
      /\ passed \in {0, 1, 2} /\ passed # 2
  BY TypeParts DEF Fresh, PhaseInv, HistoryInv
<1>2. CASE passed = 0
  BY <1>1, <1>2 DEF HistoryInv
<1>3. CASE passed = 1
  <2>1. timestamp <= entered /\ LastAt(Before(index))
    BY <1>1, <1>3 DEF HistoryInv
  <2>2. index \in 1 .. Len(States) /\ entered <= clock /\ clock \in Nat /\ entered \in Nat
    BY InSomeState
  <2>3. timestamp = entered
    BY <1>1, <2>1, <2>2
  <2>4. States[Before(index)] # States[index] /\ States[index] \notin Garbage
    <3>1. States[index] \in ToSet(States)
      BY <2>2, Lists DEF ToSet
    <3>2. QED
      BY <2>2, <3>1, Gait, FsmAssumption DEF FsmAssumption
  <2>5. QED
    BY <2>1, <2>3, <2>4 DEF LastAt
<1>4. QED
  BY <1>1, <1>2, <1>3

\* The heading is left alone for the first part of every visit.
LEMMA WindowsHold == WalkInv => WindowsFromStart
<1> SUFFICES ASSUME WalkInv, Answered
             PROVE  LET heading == "pelvis_heading_traj" \in costs
                    IN  /\ heading <=> timestamp - start >= PeriodOfNoHeadingControl
                        /\ heading /\ Fresh /\ ~misled /\ fsm = States[index] =>
                               timestamp - entered >= PeriodOfNoHeadingControl
  BY DEF WindowsFromStart
<1>1. "pelvis_heading_traj" \in costs <=> timestamp - start >= PeriodOfNoHeadingControl
  BY DEF WalkInv, OscInv
<1>2. ASSUME Fresh, ~misled, fsm = States[index],
             timestamp - start >= PeriodOfNoHeadingControl
      PROVE  timestamp - entered >= PeriodOfNoHeadingControl
  <2>1. entered <= start
    BY <1>2, FreshHistory DEF WalkInv
  <2>2. timestamp \in Nat /\ start \in Nat /\ entered \in Nat
    BY TypeParts DEF WalkInv, PhaseInv
  <2>3. PeriodOfNoHeadingControl \in Nat
    BY WalkAssumption DEF WalkAssumption
  <2>4. QED
    BY <1>2, <2>1, <2>2, <2>3
<1>3. QED
  BY <1>1, <1>2

\* The generators' margin fits into every state.
LEMMA MarginFits == Margin \in Nat \ {0} /\ \A s : Margin <= StateDuration(s)
<1>1. Margin \in Nat \ {0} /\ \A i \in DOMAIN Durations : Margin <= Durations[i]
  BY WalkAssumption DEF WalkAssumption
<1>2. ASSUME NEW s
      PROVE  Margin <= StateDuration(s)
  <2> DEFINE Known == IF s \in ToSet(States) THEN s ELSE left_stance_state
             At == CHOOSE i \in DOMAIN States : States[i] = Known
  <2>1. \E i \in DOMAIN States : States[i] = Known
    BY Gait, Lists DEF ToSet
  <2>2. At \in DOMAIN States
    BY <2>1, Zenon
  <2>3. StateDuration(s) = Durations[At]
    BY DEF StateDuration
  <2> HIDE DEF At
  <2>4. DOMAIN Durations = DOMAIN States
    <3>1. Durations \in Seq(Nat \ {0}) /\ DOMAIN States = 1 .. Len(Durations)
      BY Lists, FsmAssumption DEF FsmAssumption
    <3>2. QED
      BY <3>1
  <2>5. QED
    BY <1>1, <2>2, <2>3, <2>4
<1>3. QED
  BY <1>1, <1>2

\* Every trajectory is made for an interval that the message falls into.
LEMMA CoversHolds == WalkInv => CoversNow
<1> SUFFICES ASSUME WalkInv, Answered
             PROVE  /\ ComFromTouchdown.from = touchdown_com
                    /\ ~misled =>
                           /\ ComFromTouchdown.from <= ComFromCurrent.from
                           /\ ComFromCurrent.from <= timestamp
                           /\ timestamp - ComFromCurrent.from <= Margin
                           /\ timestamp <= ComFromTouchdown.to
                           /\ Fresh /\ timestamp = ComFromTouchdown.to =>
                                  timestamp = entered /\ fsm # States[index]
                    /\ fsm_int \in SingleSupport /\ ~misled =>
                           SwingTraj.from <= timestamp /\ timestamp <= SwingTraj.to
  BY DEF CoversNow
<1>1. PhaseInv /\ HistoryInv /\ WatchInv /\ prev_fsm # NoState
  BY DEF WalkInv, OscInv, Answered
<1>2. timestamp \in Nat /\ start \in Nat /\ start_of_interest \in Nat
  BY <1>1, TypeParts DEF PhaseInv
<1>3. /\ StateDuration(fsm_int) \in Nat \ {0}
      /\ Margin \in Nat \ {0} /\ Margin <= StateDuration(fsm_int)
  BY DurationOf, MarginFits
<1>4. ComFromTouchdown = [from |-> start, to |-> start + StateDuration(fsm_int)]
  BY DEF ComFromTouchdown
<1>5. touchdown_com = start
  BY <1>1 DEF WatchInv
<1>6. ASSUME ~misled
      PROVE  /\ start <= timestamp /\ timestamp <= start + StateDuration(fsm_int)
             /\ start <= ComFromCurrent.from /\ ComFromCurrent.from <= timestamp
             /\ timestamp - ComFromCurrent.from <= Margin
  <2>1. start <= timestamp /\ timestamp <= start + StateDuration(fsm_int)
    BY <1>1, <1>6 DEF HistoryInv
  <2>2. ComFromCurrent.from = Least(timestamp, (start + StateDuration(fsm_int)) - Margin)
    BY DEF ComFromCurrent
  <2>3. QED
    BY <1>2, <1>3, <2>1, <2>2 DEF Least
<1>7. ASSUME ~misled, Fresh, timestamp = start + StateDuration(fsm_int)
      PROVE  timestamp = entered /\ fsm # States[index]
  BY <1>1, <1>2, <1>3, <1>7, FreshHistory
<1>8. ASSUME fsm_int \in SingleSupport
      PROVE  SwingTraj = [from |-> start, to |-> start + StateDuration(fsm_int)]
  <2>1. start_of_interest = start
    <3>1. ToInt(prev_fsm) = fsm_int /\ Interest = SingleSupport
      BY <1>1, WalkAssumption DEF PhaseInv, fsm_int, WalkAssumption
    <3>2. QED
      BY <1>1, <1>8, <3>1 DEF WatchInv, InterestAgrees
  <2>2. start <= (start + StateDuration(fsm_int)) - Margin
    BY <1>2, <1>3
  <2>3. QED
    BY <2>1, <2>2 DEF SwingTraj, Least
<1>9. QED
  BY <1>4, <1>5, <1>6, <1>7, <1>8

\* Both generators and the speed control agree on the end of the swing.
LEMMA EndsHold == WalkInv => EndsTogether
<1> SUFFICES ASSUME WalkInv, Answered, fsm_int \in SingleSupport
             PROVE  ComFromCurrent.to = SwingTraj.to /\ SpeedControlEnd = SwingTraj.to
  BY DEF EndsTogether
<1>1. PhaseInv /\ WatchInv /\ prev_fsm # NoState
  BY DEF WalkInv, OscInv, Answered
<1>2. start_of_interest = start
  <2>1. ToInt(prev_fsm) = fsm_int /\ Interest = SingleSupport
    BY <1>1, WalkAssumption DEF PhaseInv, fsm_int, WalkAssumption
  <2>2. QED
    BY <1>1, <2>1 DEF WatchInv, InterestAgrees
<1>3. StateDuration(fsm_int) = StateDuration(left_stance_state)
  BY DurationOf
<1>4. QED
  BY <1>2, <1>3 DEF ComFromCurrent, SwingTraj, SpeedControlEnd

\* The swing starts where its foot was at lift-off.
LEMMA SwingHolds == WalkInv => SwingFromLiftoff
<1> SUFFICES ASSUME WalkInv, Answered, fsm_int \in SingleSupport, ~unlatched
             PROVE  /\ liftoff_pos = [foot |-> PointToTrack(fsm_int), at |-> SwingTraj.from]
                    /\ \A c \in forces : c[1] # liftoff_pos.foot
  BY DEF SwingFromLiftoff
<1>1. PhaseInv /\ WatchInv /\ SwingInv /\ OscInv /\ prev_fsm # NoState
  BY DEF WalkInv, OscInv, Answered
<1>2. liftoff_pos = [foot |-> SwingFoot(fsm_int), at |-> start_of_interest]
  BY <1>1 DEF SwingInv
<1>3. SwingTraj.from = start_of_interest
  <2>1. /\ start_of_interest \in Nat /\ StateDuration(fsm_int) \in Nat \ {0}
        /\ Margin \in Nat /\ Margin <= StateDuration(fsm_int)
    BY <1>1, TypeParts, DurationOf, MarginFits DEF PhaseInv
  <2>2. start_of_interest <= (start_of_interest + StateDuration(fsm_int)) - Margin
    BY <2>1
  <2>3. QED
    BY <2>2 DEF SwingTraj, Least
<1>4. SwingFoot(fsm_int) = PointToTrack(fsm_int)
  BY DEF SwingFoot, PointToTrack
<1>5. \A c \in forces : c[1] # SwingFoot(fsm_int)
  <2>1. forces = Osc!ActiveContacts(fsm_int)
    BY <1>1 DEF OscInv
  <2>2. ASSUME NEW c \in forces
        PROVE  c[1] \in StanceFeet(fsm_int)
    BY <2>1, <2>2 DEF Osc!ActiveContacts, ContactCalls
  <2>3. SwingFoot(fsm_int) \notin StanceFeet(fsm_int)
    <3>1. CASE fsm_int = left_stance_state
      BY <3>1, WalkAssumption, Zenon DEF SwingFoot, StanceFeet, WalkAssumption, SingleSupport
    <3>2. CASE fsm_int = right_stance_state
      BY <3>2, WalkAssumption, Zenon DEF SwingFoot, StanceFeet, WalkAssumption, SingleSupport
    <3>3. QED
      BY <3>1, <3>2 DEF SingleSupport
  <2>4. QED
    BY <2>2, <2>3
<1>6. QED
  BY <1>2, <1>3, <1>4, <1>5

------------------------------------------------------------------------------
(* The switch program. *)

\* Where the i + 1-st state of the k + 1-st period begins.
Begin(k, i) == k * Period + Accumulated[i]

\* The threshold rounds to where some state begins, and until the program has
\* published, and unless it missed a message, the last message was not after it.
Meets(thr, t, k, i) == thr \in {Begin(k, i), Begin(k, i) + 1} /\ t <= Begin(k, i)

SwitchInv ==
    n_period_delay > 0 =>
        /\ pub_count \in Nat
        /\ ~started => pub_count = 0
        /\ started /\ pub_count = 0 /\ ~missed =>
               \E k \in Nat, i \in 0 .. Len(States) - 1 : Meets(t_threshold, timestamp, k, i)
        /\ started => \E k \in Nat, i \in 0 .. Len(States) - 1 :
                          t_threshold \in {Begin(k, i), Begin(k, i) + 1}

\* Natural numbers.
LEMMA BeginNat == \A k \in Nat, i \in 0 .. Len(States) - 1 : Begin(k, i) \in Nat
<1>1. ASSUME NEW k \in Nat, NEW i \in 0 .. Len(States) - 1
      PROVE  Begin(k, i) \in Nat
  <2>1. Accumulated[i] \in Nat /\ Period \in Nat
    BY AccumulatedNat, PeriodParts, Lists
  <2>2. QED
    BY <2>1 DEF Begin
<1>2. QED
  BY <1>1

\* The periods that are over at t, give or take the one that ends there.
LEMMA PeriodsOver ==
  ASSUME NEW t \in Nat, NEW q \in Switch!Periods(t)
  PROVE  q \in Nat /\ t <= Period * q + Period
<1> DEFINE d == t \div Period
           r == t % Period
<1>1. Period \in Nat \ {0}
  BY PeriodParts
<1>2. d \in Nat /\ r \in 0 .. Period - 1 /\ t = Period * d + r
  BY <1>1, DivMod
<1>3. q = d \/ (q = d - 1 /\ t > 0 /\ r = 0)
  BY DEF Switch!Periods
<1> HIDE DEF d, r
<1>4. CASE q = d
  <2>1. Period * q \in Nat
    BY <1>1, <1>2, <1>4
  <2>2. QED
    BY <1>1, <1>2, <1>4, <2>1
<1>5. CASE q = d - 1 /\ t > 0 /\ r = 0
  <2>1. d # 0
    BY <1>1, <1>2, <1>5
  <2>2. q \in Nat /\ d = q + 1
    BY <1>2, <1>5, <2>1
  <2>3. Period * (q + 1) = Period * q + Period
    BY <1>1, <2>2
  <2>4. Period * q \in Nat
    BY <1>1, <2>2
  <2>5. QED
    BY <1>1, <1>2, <1>5, <2>2, <2>3, <2>4
<1>6. QED
  BY <1>3, <1>4, <1>5

\* The first message sets a threshold that it is not beyond.
LEMMA ThresholdAhead ==
  ASSUME NEW t \in Nat, n_period_delay > 0, NEW thr \in Switch!Thresholds(t)
  PROVE  \E k \in Nat, i \in 0 .. Len(States) - 1 : Meets(thr, t, k, i)
<1>1. Period \in Nat \ {0}
  BY PeriodParts
<1>2. PICK q \in Switch!Periods(t), e \in {0, 1} :
          thr = (q + n_period_delay) * Period + fsm_offset + e
  BY DEF Switch!Thresholds
<1>3. q \in Nat /\ t <= Period * q + Period
  BY PeriodsOver
<1>4. PICK i \in 0 .. Len(States) - 1 : fsm_offset = Accumulated[i]
  BY GaitAssumption, Lists DEF GaitAssumption
<1>5. fsm_offset \in Nat
  BY <1>4, AccumulatedNat, Lists
<1>6. n_period_delay \in Nat /\ n_period_delay >= 1 /\ q + n_period_delay \in Nat
  BY <1>3, GaitAssumption DEF GaitAssumption
<1>7. (q + n_period_delay) * Period >= Period * q + Period
  <2>1. PICK d \in Nat : n_period_delay = d + 1
    <3>1. n_period_delay - 1 \in Nat /\ n_period_delay = (n_period_delay - 1) + 1
      BY <1>6
    <3>2. QED
      BY <3>1
  <2>2. (q + n_period_delay) * Period = (Period * q + Period) + d * Period
    BY <1>1, <1>3, <2>1
  <2>3. d * Period \in Nat /\ Period * q \in Nat
    BY <1>1, <1>3, <2>1
  <2>4. QED
    BY <1>1, <2>2, <2>3
<1>8. (q + n_period_delay) * Period \in Nat /\ Period * q \in Nat
  BY <1>1, <1>3, <1>6
<1>9. Meets(thr, t, q + n_period_delay, i)
  <2> DEFINE a == (q + n_period_delay) * Period
             c == Period * q
  <2>1. a \in Nat /\ c \in Nat /\ a >= c + Period /\ t <= c + Period
        /\ thr = a + fsm_offset + e /\ Begin(q + n_period_delay, i) = a + fsm_offset
    BY <1>2, <1>3, <1>4, <1>7, <1>8 DEF Begin
  <2> HIDE DEF a, c
  <2>2. QED
    BY <1>1, <1>2, <1>5, <2>1 DEF Meets
<1>10. QED
  BY <1>6, <1>9

\* A state that begins by now began when the robot's state did or before.
LEMMA Boundary ==
  ASSUME PhaseInv, NEW k \in Nat, NEW i \in 0 .. Len(States) - 1, Begin(k, i) <= clock
  PROVE  Begin(k, i) <= entered
<1> DEFINE q == clock \div Period
           r == clock % Period
           b == k * Period + Accumulated[i]
<1>1. /\ index \in 1 .. Len(States) /\ clock \in Nat /\ entered \in Nat
      /\ clock < entered + Durations[index] /\ T0 = 0
  BY InSomeState
<1>2. Period \in Nat \ {0}
  BY PeriodParts
<1>3. q \in Nat /\ r \in 0 .. Period - 1 /\ clock = Period * q + r
  BY <1>1, <1>2, DivMod
<1>4. r = Accumulated[index - 1] + (clock - entered)
  <2>1. clock - T0 = clock /\ index # 0
    BY <1>1, Lists
  <2>2. QED
    BY <2>1 DEF PhaseInv, DwellInv
<1>5. /\ i \in 0 .. Len(States) /\ i + 1 \in 1 .. Len(States) /\ (i + 1) - 1 = i
      /\ index - 1 \in 0 .. Len(States) /\ index \in 0 .. Len(States)
  BY <1>1, Lists
<1>6. /\ Accumulated[i] \in Nat /\ Accumulated[index - 1] \in Nat /\ Accumulated[index] \in Nat
      /\ Accumulated[index] = Accumulated[index - 1] + Durations[index]
      /\ Accumulated[index] <= Period
  BY <1>1, <1>5, AccumulatedNat, AccumulatedStep, PeriodParts
<1>7. Accumulated[i] < Period
  <2>1. /\ Accumulated[i + 1] = Accumulated[i] + Durations[i + 1]
        /\ Durations[i + 1] \in Nat \ {0} /\ Accumulated[i + 1] <= Period
    BY <1>5, AccumulatedStep, Lists, PeriodParts
  <2>2. QED
    BY <1>2, <1>6, <2>1
<1>8. b = Period * k + Accumulated[i] /\ b \in Nat /\ b <= clock
  BY <1>2, <1>6 DEF Begin
<1>9. b \div Period = k /\ b % Period = Accumulated[i]
  <2> HIDE DEF b
  <2>1. Accumulated[i] \in 0 .. Period - 1
    BY <1>2, <1>6, <1>7
  <2>2. k \in Int /\ Period \in Nat \ {0} /\ b \in Nat /\ b = Period * k + Accumulated[i]
    BY <1>2, <1>8
  <2>3. QED
    BY <2>1, <2>2, DivModUnique, Zenon
<1> HIDE DEF q, r, b
<1>10. SUFFICES ASSUME entered < b PROVE FALSE
  BY <1>1, <1>8 DEF b, Begin
<1> DEFINE s == b - Period * q
<1>11. Period * q \in Nat
  BY <1>2, <1>3
<1>12. /\ entered = Period * q + Accumulated[index - 1]
       /\ clock < Period * q + Accumulated[index]
  <2> DEFINE c == Period * q
  <2>1. c \in Nat /\ clock = c + r
    BY <1>3, <1>11
  <2> HIDE DEF c
  <2>2. Durations[index] \in Nat
    BY <1>1, Lists
  <2>3. entered = c + Accumulated[index - 1] /\ clock < c + Accumulated[index]
    <3> DEFINE e == Accumulated[index - 1]
               d == Durations[index]
    <3>1. /\ e \in Nat /\ d \in Nat /\ r \in Int /\ r = e + (clock - entered)
          /\ Accumulated[index] = e + d /\ clock < entered + d
      BY <1>1, <1>3, <1>4, <1>6, <2>2
    <3> HIDE DEF e, d
    <3>2. entered = c + e
      BY <1>1, <2>1, <3>1
    <3>3. clock < c + (e + d)
      BY <1>1, <2>1, <3>1, <3>2
    <3>4. clock < c + Accumulated[index]
      BY <3>1, <3>3, Zenon
    <3>5. QED
      BY <3>2, <3>4 DEF e
  <2>4. QED
    BY <2>3 DEF c
<1>13. Accumulated[index - 1] < s /\ s < Accumulated[index] /\ s \in 0 .. Period - 1
       /\ b = Period * q + s
  <2> DEFINE c == Period * q
  <2>1. /\ c \in Nat /\ s = b - c /\ entered = c + Accumulated[index - 1]
        /\ clock < c + Accumulated[index]
    BY <1>11, <1>12
  <2>2. b = c + (b - c)
    BY <1>8, <2>1
  <2> HIDE DEF c, s
  <2>3. Accumulated[index - 1] < s /\ s < Accumulated[index] /\ s \in 0 .. Period - 1
        /\ b = c + s
    <3> DEFINE e == Accumulated[index - 1]
               f == Accumulated[index]
    <3>1. /\ e \in Nat /\ f \in Nat /\ f <= Period /\ Period \in Nat
          /\ entered = c + e /\ clock < c + f
      BY <1>2, <1>6, <2>1
    <3> HIDE DEF e, f
    <3>2. e < s /\ s < f /\ s \in Int
      BY SMTT(30), <1>1, <1>8, <1>10, <2>1, <3>1
    <3>3. s \in 0 .. Period - 1 /\ b = c + s
      BY <1>8, <2>1, <3>1, <3>2
    <3>4. QED
      BY <3>2, <3>3 DEF e, f
  <2>4. QED
    BY <2>3 DEF c, s
<1> HIDE DEF s
<1>14. b % Period = s
  <2>1. q \in Int /\ Period \in Nat \ {0} /\ b \in Nat
    BY <1>2, <1>3, <1>8
  <2>2. QED
    BY <1>13, <2>1, DivModUnique, Zenon
<1>15. Accumulated[index - 1] < Accumulated[i] /\ Accumulated[i] < Accumulated[index]
  BY <1>9, <1>13, <1>14
<1>16. i <= index - 1 => Accumulated[i] <= Accumulated[index - 1]
  BY <1>5, AccumulatedAscends
<1>17. index <= i => Accumulated[index] <= Accumulated[i]
  BY <1>5, AccumulatedAscends
<1>18. i <= index - 1 \/ index <= i
  BY <1>1
<1>19. QED
  BY <1>6, <1>15, <1>16, <1>17, <1>18

LEMMA InitGaitInv == GaitInit => WalkInv /\ SwitchInv
<1> SUFFICES ASSUME GaitInit PROVE WalkInv /\ SwitchInv
  OBVIOUS
<1>1. WalkInv
  BY InitWalkInv DEF GaitInit
<1>2. SwitchInv
  BY DEF GaitInit, Switch!SwitchInit, SwitchInv
<1>3. QED
  BY <1>1, <1>2

\* Every step of the two is a step of the controller or leaves it alone.
LEMMA GaitWalks == [GaitNext]_gaitVars => [WalkNext]_walkVars
  BY DEF GaitNext, GaitMessage, Alone, WalkNext, gaitVars

\* Every step keeps SwitchInv.
LEMMA NextSwitchInv ==
  ASSUME WalkInv, SwitchInv, [GaitNext]_gaitVars
  PROVE  SwitchInv'
<1> DEFINE Met(thr, t) == \E k \in Nat, i \in 0 .. Len(States) - 1 : Meets(thr, t, k, i)
           Begins(thr) == \E k \in Nat, i \in 0 .. Len(States) - 1 :
                              thr \in {Begin(k, i), Begin(k, i) + 1}
<1> SUFFICES ASSUME n_period_delay > 0
             PROVE  /\ pub_count' \in Nat
                    /\ ~started' => pub_count' = 0
                    /\ started' /\ pub_count' = 0 /\ ~missed' => Met(t_threshold', timestamp')
                    /\ started' => Begins(t_threshold')
  BY DEF SwitchInv
<1>1. /\ pub_count \in Nat
      /\ ~started => pub_count = 0
      /\ started /\ pub_count = 0 /\ ~missed => Met(t_threshold, timestamp)
      /\ started => Begins(t_threshold)
  BY DEF SwitchInv
<1>2. \A thr, t : Met(thr, t) => Begins(thr)
  BY Zenon DEF Meets
<1>3. CASE GaitMessage
  <2>1. timestamp' = clock /\ clock \in Nat
    BY <1>3, TypeParts DEF GaitMessage, WalkMessage, Message, WalkInv, PhaseInv
  <2>2. CASE Switch!FirstMessage(timestamp') /\ missed' = FALSE
    <3>1. /\ ~started /\ started' = TRUE /\ t_threshold' \in Switch!Thresholds(clock)
          /\ pub_count' = pub_count
      BY <2>1, <2>2 DEF Switch!FirstMessage
    <3>2. Met(t_threshold', timestamp')
      BY <2>1, <3>1, ThresholdAhead
    <3> HIDE DEF Met, Begins
    <3>3. QED
      BY <1>1, <1>2, <3>1, <3>2
  <2>3. CASE Switch!LaterMessage(timestamp') /\ missed' = FALSE
    <3>1. /\ started' = started /\ started /\ t_threshold' = t_threshold
          /\ pub_count' = IF timestamp' >= t_threshold THEN pub_count + 1 ELSE pub_count
      BY <2>3 DEF Switch!LaterMessage
    <3>2. ASSUME ~(timestamp' >= t_threshold)
          PROVE  Met(t_threshold, timestamp')
      <4>1. PICK k \in Nat, i \in 0 .. Len(States) - 1 :
                t_threshold \in {Begin(k, i), Begin(k, i) + 1}
        BY <1>1, <3>1
      <4>2. Begin(k, i) \in Nat
        BY BeginNat
      <4>3. timestamp' <= Begin(k, i)
        BY <2>1, <3>2, <4>1, <4>2
      <4>4. QED
        BY <4>1, <4>3 DEF Meets
    <3>3. pub_count' \in Nat /\ (pub_count' = 0 => ~(timestamp' >= t_threshold))
      BY <1>1, <3>1
    <3> HIDE DEF Met, Begins
    <3>4. QED
      BY <1>1, <3>1, <3>2, <3>3
  <2>4. CASE missed' = TRUE /\ UNCHANGED <<started, t_threshold, pub_count>>
    <3> HIDE DEF Met, Begins
    <3>1. QED
      BY <1>1, <2>4
  <2>5. QED
    BY <1>3, <2>2, <2>3, <2>4 DEF GaitMessage, Switch!HandleState
<1>4. CASE Alone \/ UNCHANGED gaitVars
  <2>1. timestamp' = timestamp /\ UNCHANGED switchVars
    BY <1>4 DEF Alone, gaitVars, walkVars, phaseVars, vars, WalkTick, WalkRestart, Publish,
                Tick, Restart
  <2> HIDE DEF Met, Begins
  <2>2. QED
    BY <1>1, <2>1 DEF switchVars
<1>5. QED
  BY <1>3, <1>4 DEF GaitNext

\* The step with which the program publishes first.
LEMMA PublishesAtStart ==
  ASSUME WalkInv, SwitchInv, [GaitNext]_gaitVars,
         pub_count = 0, pub_count' = 1, n_period_delay > 0, ~missed, ~misled'
  PROVE  \/ timestamp' = start'
         \/ timestamp' = entered
         \/ start' = timestamp /\ timestamp = entered
<1>1. GaitMessage
  BY DEF GaitNext, Alone, gaitVars, switchVars
<1>2. Switch!LaterMessage(timestamp')
  BY <1>1 DEF GaitMessage, Switch!HandleState, Switch!FirstMessage
<1>3. started /\ timestamp' >= t_threshold
  BY <1>2 DEF Switch!LaterMessage
<1>4. PICK k \in Nat, i \in 0 .. Len(States) - 1 : Meets(t_threshold, timestamp, k, i)
  BY <1>3 DEF SwitchInv
<1>5. PhaseInv /\ HistoryInv /\ Message
  BY <1>1 DEF WalkInv, GaitMessage, WalkMessage
<1>6. timestamp' = clock /\ start' = IF fsm' # prev_fsm THEN clock ELSE start
  BY <1>5 DEF Message, Changed
<1>7. SUFFICES ASSUME fsm' = prev_fsm
               PROVE  clock = entered \/ (start = timestamp /\ timestamp = entered)
  BY <1>6
<1>8. /\ prev_fsm # NoState /\ ~misled
      /\ passed = 0 \/ clock = entered
  BY <1>5, <1>7, SameVisit
<1>9. SUFFICES ASSUME passed = 0 PROVE start = timestamp /\ timestamp = entered
  BY <1>8
<1>10. entered <= start /\ start <= timestamp
  BY <1>5, <1>8, <1>9 DEF HistoryInv
<1>11. Begin(k, i) \in Nat /\ clock \in Nat /\ entered \in Nat /\ start \in Nat /\ timestamp \in Nat
  BY <1>5, BeginNat, TypeParts DEF PhaseInv
<1>12. timestamp <= Begin(k, i) /\ Begin(k, i) <= clock
  BY <1>3, <1>4, <1>6, <1>11 DEF Meets
<1>13. Begin(k, i) <= entered
  BY <1>5, <1>12, Boundary
<1>14. QED
  BY <1>10, <1>11, <1>12, <1>13

------------------------------------------------------------------------------
(* The theorems. *)

\* The controller and the switch program keep what they remember of the phase.
THEOREM GaitInvariant == GaitSpec => [](WalkInv /\ SwitchInv)
<1>1. GaitInit => WalkInv /\ SwitchInv
  BY InitGaitInv
<1>2. WalkInv /\ SwitchInv /\ [GaitNext]_gaitVars => (WalkInv /\ SwitchInv)'
  <2>1. SUFFICES ASSUME WalkInv, SwitchInv, [GaitNext]_gaitVars
                 PROVE  WalkInv' /\ SwitchInv'
    OBVIOUS
  <2>2. WalkInv'
    BY <2>1, GaitWalks, NextWalkInv
  <2>3. SwitchInv'
    BY <2>1, NextSwitchInv
  <2>4. QED
    BY <2>2, <2>3
<1>3. QED
  BY <1>1, <1>2, PTL DEF GaitSpec

\* CalcFiniteState, which takes remainders, shows the state of a machine that
\* stays in each state for its duration, but for what rounding makes of the very
\* instant at which a state begins.
THEOREM GaitStaysForDuration == GaitSpec => []StaysForDuration
<1>1. WalkInv => StaysForDuration
  BY PhaseStays DEF WalkInv
<1>2. QED
  BY <1>1, GaitInvariant, PTL

\* The tracking windows of the operational space controller count from the start
\* that the event time system records, and never from before the robot entered
\* the state.
THEOREM GaitWindowsFromStart == GaitSpec => []WindowsFromStart
  BY WindowsHold, GaitInvariant, PTL

\* Trajectories are made for intervals that the message falls into, at their end
\* only where rounding shows a state at the instant that ends it.
THEOREM GaitCoversNow == GaitSpec => []CoversNow
  BY CoversHolds, GaitInvariant, PTL

\* The generators plan for the same end of the swing.
THEOREM GaitEndsTogether == GaitSpec => []EndsTogether
  BY EndsHold, GaitInvariant, PTL

\* The swing foot trajectory begins where its foot was when it left the ground.
THEOREM GaitSwingFromLiftoff == GaitSpec => []SwingFromLiftoff
  BY SwingHolds, GaitInvariant, PTL

\* The switch program first publishes at the message with which the controller
\* sees a state begin, or next to it where a message comes at the very instant.
THEOREM GaitSwitchStartsState == GaitSpec => SwitchStartsState
<1>1. WalkInv /\ SwitchInv /\ [GaitNext]_gaitVars =>
          [pub_count = 0 /\ pub_count' = 1 /\ n_period_delay > 0 /\ ~missed /\ ~misled'
               => \/ timestamp' = start'
                  \/ timestamp' = entered
                  \/ start' = timestamp /\ timestamp = entered]_gaitVars
  BY PublishesAtStart
<1>2. QED
  BY <1>1, GaitInvariant, PTL DEF GaitSpec, SwitchStartsState
=============================================================================
