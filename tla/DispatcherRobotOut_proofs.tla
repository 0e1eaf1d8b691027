---------------------- MODULE DispatcherRobotOut_proofs ----------------------
(***************************************************************************)
(* Proofs about DispatcherRobotOut, for every set of message times whose   *)
(* gaps are longer than eps_, every period of the network publishers and   *)
(* every time from which eps_ is lost.                                     *)
(***************************************************************************)
EXTENDS DispatcherRobotOut, TLAPS

\* What is assumed of the constants, in the form the steps use.
LEMMA ConstantFacts ==
    /\ Eps \in Nat /\ Eps > 0 /\ Vanish \in Nat /\ MaxTime \in Nat
    /\ Second \in Nat /\ PubPeriod \in Nat /\ PubPeriod > 0
    /\ Times \subseteq 0 .. MaxTime
    /\ Sources \subseteq BOOLEAN
    /\ \A s \in Times, t \in Times : s < t => t - s > Eps
    /\ \A m \in TestModes : m \in {-1, 0, 1, 2}
BY EstimatorAssumption, DispatcherAssumption DEF EstimatorAssumption, DispatcherAssumption

\* The network publishers' next time is later.
LEMMA NextPublishLater ==
    ASSUME NEW t \in Nat
    PROVE  NextPublish(t) \in Nat /\ NextPublish(t) > t
BY ConstantFacts DEF NextPublish

\* What a step of AdvanceTo does to the time: it goes on, not beyond the
\* boundary, and not beyond an event that is wanted.
LEMMA StepTarget ==
    ASSUME TypeOK, StepTo, next_message_time = time, ctx =< time
    PROVE  /\ ctx' \in 0 .. MaxTime
           /\ ctx =< ctx' /\ ctx' =< time
           /\ WantsEvent(ctx) => ctx' =< EventTime
<1> USE ConstantFacts
<1>1. ctx \in Nat /\ time \in Nat /\ MaxTime \in Nat /\ time =< MaxTime
  BY DEF TypeOK
<1>2. PICK t \in Stops : (\A u \in Stops : t =< u) /\ ctx' = t
  BY DEF StepTo
<1>3. time \in Stops
  BY DEF Stops
<1>4. EventTime \in Int
  BY <1>1 DEF EventTime
<1>5. ctx =< t
  BY <1>1, <1>2, <1>4, NextPublishLater DEF Stops, WantsEvent
<1>6. WantsEvent(ctx) => t =< EventTime
  BY <1>2 DEF Stops
<1>7. t \in Int
  BY <1>1, <1>2, <1>4, NextPublishLater DEF Stops
<1>8. QED
  BY <1>1, <1>2, <1>3, <1>5, <1>6, <1>7

------------------------------------------------------------------------------
\* The initial states.
LEMMA RobotOutInit == Init => RobotOutInv
<1> SUFFICES ASSUME Init PROVE RobotOutInv
  OBVIOUS
<1> USE DEF Init, EstimatorInit
<1>1. /\ next_message_time = -1 /\ prev_t = 0 /\ dt = 0 /\ 0 \in 0 .. MaxTime
      /\ 0 \in -MaxTime .. MaxTime /\ ctx = 0 /\ time = 0 /\ updates = 0
  BY ConstantFacts DEF NoTime
<1>2. test_mode \in TestModes /\ hardware_test_mode \in {-1, 0, 1, 2}
  BY ConstantFacts
<1>3. contact \in BOOLEAN \X BOOLEAN /\ bothSeen = FALSE /\ current \in BOOLEAN
  OBVIOUS
<1>4. EstimatorTypeOK
  BY <1>1, <1>2, <1>3 DEF EstimatorTypeOK, NoTime
<1>5. simulation \in Sources /\ pending = FALSE /\ advanced = FALSE /\ jumped = FALSE
  OBVIOUS
<1>6. TypeOK
  <2>1. ctx \in 0 .. MaxTime /\ time \in 0 .. MaxTime /\ updates \in 0 .. 1
    BY <1>1
  <2>2. QED
    BY <1>4, <1>5, <2>1, Zenon DEF TypeOK
<1>7. TestModeHolds
  BY <1>3 DEF TestModeHolds
<1>8. QED
  BY <1>1, <1>5, <1>6, <1>7 DEF RobotOutInv, FailsOnlyOnSmallStepsBack, FreshAtPublish

\* The estimator's update keeps its types and the test mode's meaning.
LEMMA UpdateKeepsEstimator ==
    ASSUME EstimatorTypeOK, TestModeHolds, NEW t \in 0 .. MaxTime, EstimatorUpdate(t)
    PROVE  EstimatorTypeOK' /\ TestModeHolds'
<1> USE ConstantFacts
<1>1. PICK est \in BOOLEAN \X BOOLEAN :
        /\ dt' = t - prev_t
        /\ prev_t' = StoredTime(t)
        /\ hardware_test_mode' = ModeAfter(est)
        /\ contact' = Override(est, hardware_test_mode')
        /\ bothSeen' = (bothSeen \/ est = <<TRUE, TRUE>>)
        /\ current' = TRUE
        /\ UNCHANGED <<next_message_time, test_mode>>
  BY DEF EstimatorUpdate
<1>2. dt' \in -MaxTime .. MaxTime /\ prev_t' \in 0 .. MaxTime
  BY <1>1 DEF EstimatorTypeOK, StoredTime
<1>3. hardware_test_mode' \in {-1, 0, 1, 2}
  BY <1>1 DEF EstimatorTypeOK, ModeAfter
<1>4. contact' \in BOOLEAN \X BOOLEAN
  BY <1>1 DEF Override
<1>5. bothSeen' \in BOOLEAN /\ current' \in BOOLEAN
  BY <1>1 DEF EstimatorTypeOK
<1>6. EstimatorTypeOK'
  BY <1>1, <1>2, <1>3, <1>4, <1>5 DEF EstimatorTypeOK
<1>7. est[1] /\ est[2] <=> est = <<TRUE, TRUE>>
  <2>1. PICK l \in BOOLEAN, r \in BOOLEAN : est = <<l, r>>
    BY <1>1
  <2>2. l /\ r <=> <<l, r>> = <<TRUE, TRUE>>
    BY Zenon
  <2>3. QED
    BY <2>1, <2>2
<1>8. TestModeHolds'
  <2>1. CASE est = <<TRUE, TRUE>>
    BY <1>1, <1>7, <2>1 DEF TestModeHolds, ModeAfter, EstimatorTypeOK
  <2>2. CASE est # <<TRUE, TRUE>>
    BY <1>1, <1>7, <2>2 DEF TestModeHolds, ModeAfter, EstimatorTypeOK
  <2>3. QED
    BY <2>1, <2>2
<1>9. QED
  BY <1>6, <1>8

\* A message keeps the invariant.
LEMMA MessageKeepsInv ==
    ASSUME RobotOutInv, NEW t \in Times, Message(t)
    PROVE  RobotOutInv'
<1> USE ConstantFacts
<1>1. /\ TypeOK /\ TestModeHolds /\ pc = "wait" /\ time \in Times /\ ctx = time
      /\ t \in 0 .. MaxTime /\ t \in Nat /\ time \in Nat
  BY DEF RobotOutInv, Message, TypeOK
<1>2. TooFar(t) \in BOOLEAN /\ jumped' \in BOOLEAN /\ advanced' \in BOOLEAN
  BY <1>1 DEF TooFar, Message, TypeOK
<1>3. EstimatorTypeOK'
  BY <1>1 DEF Message, TypeOK, EstimatorTypeOK
<1>4. TypeOK'
  BY <1>1, <1>2, <1>3 DEF Message, TypeOK
<1>5. TestModeHolds'
  BY <1>1 DEF Message, TestModeHolds
<1>6. FailsOnlyOnSmallStepsBack'
  BY <1>1 DEF Message, FailsOnlyOnSmallStepsBack, TooFar, TypeOK
<1>7. ctx' = (IF TooFar(t) THEN t ELSE ctx) /\ updates' = 0 /\ time' = t
      /\ next_message_time' = t /\ pending' = pending
      /\ advanced' = (t > ctx /\ ~TooFar(t))
  BY DEF Message
<1>8. pending => time >= Vanish
  BY <1>1 DEF RobotOutInv
<1>9. pc' = "advance" => Approach'
  <2>1. CASE advanced' /\ time' < Vanish
    <3>1. t > time /\ t - time > Eps /\ ctx' = time
      BY <1>1, <1>7, <2>1
    <3>2. EventTime' = t - Eps
      BY <1>7, <2>1 DEF EventTime
    <3>3. ~pending
      BY <1>1, <1>7, <1>8, <2>1, <3>1
    <3>4. QED
      BY <1>1, <1>7, <3>1, <3>2, <3>3 DEF Approach
  <2>2. CASE ~(advanced' /\ time' < Vanish) /\ pc' = "advance"
    <3>1. EventTime' = IF t < Vanish THEN t - Eps ELSE t
      BY <1>7 DEF EventTime
    <3>2. ctx' = t \/ t >= Vanish
      <4>1. ~(t < ctx')
        BY <2>2, "failed" # "advance" DEF Message
      <4>2. CASE TooFar(t)
        BY <1>7, <4>2
      <4>3. CASE ~TooFar(t)
        <5>1. ctx' = time /\ t >= time
          BY <1>1, <1>7, <4>1, <4>3
        <5>2. t > ctx => advanced'
          BY <1>7, <4>3, Zenon
        <5>3. QED
          BY <1>1, <1>7, <2>2, <5>1, <5>2
      <4>4. QED
        BY <4>2, <4>3
    <3>3. ctx' >= EventTime' \/ EventTime' = time'
      BY <1>1, <1>7, <3>1, <3>2
    <3>4. updates' = 0 /\ ~(advanced' /\ time' < Vanish)
      BY <1>7, <2>2
    <3>5. QED
      BY <3>3, <3>4, SMT DEF Approach
  <2>3. QED
    BY <2>1, <2>2
<1>10. pc' \in {"failed", "advance"} /\ (pc' = "advance" => ctx' =< time')
  BY <1>1, <1>7 DEF Message
<1>11. QED
  BY <1>4, <1>5, <1>6, <1>7, <1>9, <1>10 DEF RobotOutInv, FreshAtPublish
\* The first message keeps the invariant.
LEMMA FirstMessageKeepsInv ==
    ASSUME RobotOutInv, NEW t \in Times, FirstMessage(t)
    PROVE  RobotOutInv'
<1> USE ConstantFacts
<1>1. /\ TypeOK /\ TestModeHolds /\ ~pending /\ t \in 0 .. MaxTime
  BY DEF RobotOutInv, FirstMessage
<1>2. EstimatorTypeOK'
  BY <1>1 DEF FirstMessage, TypeOK, EstimatorTypeOK
<1>3. TypeOK'
  BY <1>1, <1>2 DEF FirstMessage, TypeOK
<1>4. TestModeHolds'
  BY <1>1 DEF FirstMessage, TestModeHolds
<1>5. QED
  BY <1>1, <1>3, <1>4 DEF FirstMessage, RobotOutInv, FailsOnlyOnSmallStepsBack, FreshAtPublish

\* The update keeps the invariant: if the message advanced the clock it is at
\* its event's time, otherwise at the time it was left pending at.
LEMMA HandlePendingKeepsInv ==
    ASSUME RobotOutInv, HandlePending
    PROVE  RobotOutInv'
<1> USE ConstantFacts
<1>1. /\ TypeOK /\ TestModeHolds /\ pc = "advance" /\ pending /\ updates = 0
      /\ Approach /\ ctx =< time /\ next_message_time = time /\ time \in Times
  BY DEF RobotOutInv, HandlePending, Approach
<1>2. /\ ctx \in 0 .. MaxTime /\ time \in Nat /\ EstimatorTypeOK
  BY <1>1 DEF TypeOK
<1>3. EstimatorUpdate(ctx)
  BY DEF HandlePending
<1>4. EstimatorTypeOK' /\ TestModeHolds'
  BY <1>1, <1>2, <1>3, UpdateKeepsEstimator
<1>5. /\ UNCHANGED <<pc, simulation, ctx, time, advanced, next_message_time>>
      /\ prev_t' = ctx /\ current' = TRUE /\ pending' = FALSE /\ jumped' = FALSE
  BY <1>3 DEF HandlePending, EstimatorUpdate, StoredTime
<1>6. updates' = 1
  BY <1>1 DEF HandlePending
<1>7. TypeOK'
  <2>1. updates' \in 0 .. 1 /\ ctx' \in 0 .. MaxTime /\ time' \in 0 .. MaxTime
    BY <1>1, <1>5, <1>6 DEF TypeOK
  <2>2. QED
    BY <1>1, <1>4, <1>5, <2>1, Zenon DEF TypeOK
<1>8. EventTime' = EventTime
  BY <1>5 DEF EventTime
<1>9. advanced /\ time < Vanish => ctx = EventTime
  <2>1. updates # 1
    BY <1>1
  <2>2. QED
    BY <1>1, <2>1, Zenon DEF Approach
<1>10. ctx >= EventTime \/ EventTime = time
  BY <1>1, Zenon DEF Approach
<1>11. Approach'
  BY <1>2, <1>5, <1>6, <1>8, <1>9, <1>10 DEF Approach
<1>12. QED
  BY <1>1, <1>4, <1>5, <1>7, <1>11 DEF RobotOutInv, FailsOnlyOnSmallStepsBack, FreshAtPublish

\* A step keeps the invariant: it does not pass an event that is wanted, and at
\* the boundary either the update has run or it is left pending, past Vanish.
LEMMA StepToKeepsInv ==
    ASSUME RobotOutInv, StepTo
    PROVE  RobotOutInv'
<1> USE ConstantFacts
<1>1. /\ TypeOK /\ TestModeHolds /\ pc = "advance" /\ ~pending
      /\ Approach /\ ctx =< time /\ next_message_time = time /\ time \in Times
  BY DEF RobotOutInv, StepTo
<1>2. /\ ctx \in Nat /\ time \in Nat /\ EventTime \in Int /\ updates \in 0 .. 1
      /\ EventTime = IF time < Vanish THEN time - Eps ELSE time
  BY <1>1 DEF TypeOK, EventTime
<1>3. /\ ctx' \in 0 .. MaxTime /\ ctx =< ctx' /\ ctx' =< time
      /\ WantsEvent(ctx) => ctx' =< EventTime
  BY <1>1, StepTarget
<1>4. /\ UNCHANGED <<simulation, time, advanced, updates, jumped>>
      /\ UNCHANGED estvars
  BY DEF StepTo
<1>5. pending' = (WantsEvent(ctx) /\ ctx' = EventTime)
  BY DEF StepTo
<1>6. pc' = IF ctx' >= time THEN "publish" ELSE "advance"
  BY DEF StepTo
<1>7. EstimatorTypeOK' /\ TestModeHolds'
  BY <1>1, <1>4 DEF TypeOK, EstimatorTypeOK, TestModeHolds, estvars
<1>8. TypeOK'
  <2>1. pc' \in {"publish", "advance"} /\ pending' \in BOOLEAN
    BY <1>5, <1>6
  <2>2. QED
    BY <1>1, <1>3, <1>4, <1>7, <2>1 DEF TypeOK
<1>9. EventTime' = EventTime /\ next_message_time' = time'
  BY <1>1, <1>4 DEF EventTime, estvars
<1>10. pending' => ctx' = EventTime /\ (pc' = "advance" => updates = 0)
  <2>1. pending' => WantsEvent(ctx) /\ ctx' = EventTime
    BY <1>5, Zenon
  <2>2. WantsEvent(ctx) => ctx < EventTime /\ EventTime =< time
    BY <1>2 DEF WantsEvent
  <2>3. updates = 1 => ctx >= EventTime \/ EventTime = time
    BY <1>1 DEF Approach
  <2>4. ctx' = time => pc' = "publish"
    BY <1>2, <1>6
  <2>5. QED
    BY <1>2, <2>1, <2>2, <2>3, <2>4
<1>11. CASE advanced /\ time < Vanish
  <2>1. CASE updates = 0
    <3>1. ctx < EventTime
      BY <1>1, <2>1, <1>11 DEF Approach
    <3>2. ctx' =< EventTime /\ (pending' <=> ctx' = EventTime)
      BY <1>3, <1>5, <3>1 DEF WantsEvent
    <3>3. pc' = "advance"
      BY <1>2, <1>3, <1>6, <1>11, <3>2
    <3>4. Approach'
      <4>1. ctx' \in Int /\ EventTime' \in Int /\ updates' = 0
        BY <1>2, <1>3, <1>4, <1>9, <2>1
      <4>2. CASE ctx' = EventTime
        BY <1>9, <2>1, <3>2, <4>1, <4>2 DEF Approach
      <4>3. CASE ctx' < EventTime
        BY <1>9, <2>1, <3>2, <4>1, <4>3 DEF Approach
      <4>4. QED
        BY <1>9, <3>2, <4>1, <4>2, <4>3
    <3>5. QED
      BY <1>1, <1>3, <1>4, <1>7, <1>8, <1>9, <3>3, <3>4
      DEF RobotOutInv, FailsOnlyOnSmallStepsBack, FreshAtPublish
  <2>2. CASE updates = 1
    <3>1. ctx >= EventTime /\ current /\ prev_t = EventTime
      BY <1>1, <2>2, <1>11 DEF Approach
    <3>2. ~pending' /\ ctx' >= EventTime'
      <4>1. ~WantsEvent(ctx) /\ ctx' >= EventTime
        BY <1>2, <1>3, <3>1 DEF WantsEvent
      <4>2. ~pending'
        BY <1>5, <4>1, Zenon
      <4>3. QED
        BY <1>9, <4>1, <4>2
    <3>3. current' /\ prev_t' = EventTime' /\ updates' = 1
      BY <1>4, <1>9, <2>2, <3>1 DEF estvars
    <3>4. Approach'
      BY <3>2, <3>3 DEF Approach
    <3>5. QED
      BY <1>1, <1>2, <1>3, <1>4, <1>6, <1>7, <1>8, <1>9, <3>2, <3>3, <3>4
      DEF RobotOutInv, FailsOnlyOnSmallStepsBack, FreshAtPublish
  <2>3. QED
    BY <1>2, <2>1, <2>2
<1>12. CASE ~(advanced /\ time < Vanish)
  <2>1. updates = 1 => ctx' >= EventTime' \/ EventTime' = time'
    BY <1>1, <1>2, <1>3, <1>4, <1>9 DEF Approach
  <2>2. pc' = "advance" => Approach'
    BY <1>2, <1>3, <1>4, <1>9, <1>10, <1>12, <2>1 DEF Approach
  <2>3. pending' /\ pc' = "publish" => time' >= Vanish
    BY <1>2, <1>3, <1>4, <1>6, <1>10
  <2>4. QED
    BY <1>1, <1>2, <1>3, <1>4, <1>6, <1>7, <1>8, <1>9, <1>12, <2>2, <2>3
    DEF RobotOutInv, FailsOnlyOnSmallStepsBack, FreshAtPublish
<1>13. QED
  BY <1>11, <1>12

\* The forced publish and stuttering keep the invariant.
LEMMA PublishKeepsInv ==
    ASSUME RobotOutInv, Publish \/ UNCHANGED vars
    PROVE  RobotOutInv'
<1>1. CASE Publish
  <2>1. /\ UNCHANGED <<simulation, ctx, time, pending, advanced, updates, jumped>>
        /\ UNCHANGED estvars /\ pc = "publish" /\ pc' = "wait"
    BY <1>1 DEF Publish
  <2>2. TypeOK' /\ TestModeHolds'
    BY <2>1 DEF RobotOutInv, TypeOK, EstimatorTypeOK, TestModeHolds, estvars
  <2>3. QED
    BY <2>1, <2>2 DEF RobotOutInv, FailsOnlyOnSmallStepsBack, FreshAtPublish
<1>2. CASE UNCHANGED vars
  BY <1>2 DEF vars, loopvars, estvars, RobotOutInv, TypeOK, EstimatorTypeOK, TestModeHolds,
              FailsOnlyOnSmallStepsBack, FreshAtPublish, Approach, EventTime
<1>3. QED
  BY <1>1, <1>2

\* The inductive invariant holds of every run of the dispatcher.
THEOREM RobotOutInvariant == Spec => []RobotOutInv
<1>1. RobotOutInv /\ [Next]_vars => RobotOutInv'
  BY FirstMessageKeepsInv, MessageKeepsInv, HandlePendingKeepsInv, StepToKeepsInv, PublishKeepsInv
  DEF Next, AdvanceStep
<1>2. QED
  BY RobotOutInit, <1>1, PTL DEF Spec

------------------------------------------------------------------------------
\* The numbers that SpanInv is about.
LEMMA SpanNumbers ==
    ASSUME TypeOK
    PROVE  /\ ctx \in Nat /\ time \in Nat /\ prev_t \in Nat
           /\ next_message_time = time =>
                EventTime = IF time < Vanish THEN time - Eps ELSE time
           /\ EventTime \in Int /\ Second \in Nat /\ Eps \in Nat
BY ConstantFacts DEF TypeOK, EstimatorTypeOK, EventTime, NoTime

\* At the start.
LEMMA SpanInit == Init => SpanInv
BY DEF Init, EstimatorInit, SpanInv

\* The first message sets all times alike.
LEMMA FirstMessageKeepsSpan ==
    ASSUME RobotOutInv, NEW t \in Times, FirstMessage(t)
    PROVE  SpanInv'
<1>1. ~pending' /\ pc' = "wait" /\ ctx' = t /\ prev_t' = t /\ time' = t
  BY DEF FirstMessage, RobotOutInv
<1>2. t \in Nat
  BY ConstantFacts
<1>3. QED
  BY <1>1, <1>2, ConstantFacts DEF SpanInv

\* A message that is not too far is at most a second ahead; if no event is
\* wanted for it, it does not advance the clock at all.
LEMMA MessageKeepsSpan ==
    ASSUME RobotOutInv, SpanInv, NEW t \in Times, Message(t)
    PROVE  SpanInv'
<1> USE ConstantFacts
<1>1. /\ TypeOK /\ pc = "wait" /\ ctx = time /\ time \in Times /\ t \in Nat
      /\ prev_t \in Nat /\ time \in Nat
  BY SpanNumbers DEF RobotOutInv, Message
<1>2. /\ ctx' = (IF TooFar(t) THEN t ELSE ctx) /\ time' = t
      /\ next_message_time' = t /\ UNCHANGED <<pending, prev_t>>
      /\ pc' = IF t < ctx' THEN "failed" ELSE "advance"
  BY DEF Message
<1>3. ~TooFar(t) => t =< ctx + Second
  BY <1>1 DEF TooFar
<1>4. ~jumped' => ~jumped /\ ~TooFar(t)
  BY Zenon DEF Message
<1>5. EventTime' = IF t < Vanish THEN t - Eps ELSE t
  BY <1>2 DEF EventTime
<1>6. pc' = "advance" => time' - ctx' =< Second + Eps /\ t >= ctx'
  BY <1>1, <1>2, <1>3
<1>7. ~jumped' => prev_t' =< ctx' /\ ctx' = time
  BY <1>1, <1>2, <1>4 DEF SpanInv
<1>8. ~jumped' /\ pc' = "advance" =>
        IF pending' THEN ctx' - prev_t' =< Second + Eps
        ELSE time' - prev_t' =< IF ctx' < EventTime' THEN Second + Eps ELSE Eps
  <2> SUFFICES ASSUME ~jumped', pc' = "advance"
               PROVE  IF pending THEN time - prev_t =< Second + Eps
                      ELSE t - prev_t =< IF time < EventTime' THEN Second + Eps ELSE Eps
    BY <1>2, <1>7
  <2>1. time - prev_t =< IF pending THEN Second + Eps ELSE Eps
    BY <1>1, <1>4 DEF SpanInv
  <2>2. t =< time + Second /\ t >= time
    BY <1>1, <1>3, <1>4, <1>6, <1>7
  <2>3. ~(time < EventTime') => t = time
    BY <1>1, <1>5, <2>2
  <2>4. QED
    BY <1>1, <2>1, <2>2, <2>3
<1>9. QED
  BY <1>2, <1>6, <1>7, <1>8 DEF SpanInv, WantsEvent

\* After an update the filter is at the context's time.
LEMMA HandlePendingKeepsSpan ==
    ASSUME RobotOutInv, SpanInv, HandlePending
    PROVE  SpanInv'
<1> USE ConstantFacts
<1>1. TypeOK /\ pc = "advance" /\ pending /\ next_message_time = time
  BY DEF RobotOutInv, HandlePending
<1>2. /\ UNCHANGED <<pc, ctx, time, next_message_time>>
      /\ prev_t' = ctx /\ pending' = FALSE
  BY DEF HandlePending, EstimatorUpdate, StoredTime
<1>3. time - ctx =< Second + Eps
  BY <1>1 DEF SpanInv
<1>4. EventTime' = EventTime
  BY <1>2 DEF EventTime
<1>5. time - ctx =< IF ctx < EventTime THEN Second + Eps ELSE Eps
  BY <1>1, <1>3, SpanNumbers
<1>6. QED
  BY <1>1, <1>2, <1>4, <1>5, SpanNumbers DEF SpanInv, WantsEvent

\* A step leaves the filter alone and comes to the event if one is wanted.
LEMMA StepToKeepsSpan ==
    ASSUME RobotOutInv, SpanInv, StepTo
    PROVE  SpanInv'
<1> USE ConstantFacts
<1>1. TypeOK /\ pc = "advance" /\ ~pending /\ next_message_time = time /\ ctx =< time
  BY DEF RobotOutInv, StepTo
<1>2. /\ ctx \in Nat /\ time \in Nat /\ prev_t \in Nat /\ EventTime \in Int
      /\ EventTime = IF time < Vanish THEN time - Eps ELSE time
  BY <1>1, SpanNumbers
<1>3. /\ ctx' \in Int /\ ctx =< ctx' /\ ctx' =< time
      /\ ctx < EventTime => ctx' =< EventTime
  BY <1>1, StepTarget DEF WantsEvent
<1>4. UNCHANGED <<time, jumped, prev_t, next_message_time>>
  BY DEF StepTo, estvars
<1>5. EventTime' = EventTime
  BY <1>4 DEF EventTime
<1>6. pending' <=> ctx < EventTime /\ ctx' = EventTime
  BY Zenon DEF StepTo, WantsEvent
<1>7. pc' = IF ctx' >= time THEN "publish" ELSE "advance"
  BY DEF StepTo
<1>8. pending' => time - ctx' =< Second + Eps
  <2>1. pending' => ctx' = EventTime
    BY <1>6, Zenon
  <2>2. EventTime >= time - Eps /\ Second \in Nat /\ Eps \in Nat
    BY <1>2
  <2>3. ctx' = EventTime => time - ctx' =< Second + Eps
    BY <1>2, <2>2
  <2>4. QED
    BY <2>1, <2>3
<1>9. CASE jumped
  <2>1. jumped' /\ pc' # "failed" /\ time' = time
    BY <1>4, <1>7, <1>9
  <2>2. QED
    BY <1>8, <2>1 DEF SpanInv
<1>10. CASE ~jumped
  <2>1. /\ prev_t =< ctx
        /\ time - prev_t =< IF ctx < EventTime THEN Second + Eps ELSE Eps
    BY <1>1, <1>10 DEF SpanInv, WantsEvent
  <2>2. prev_t =< ctx'
    BY <1>2, <1>3, <2>1
  <2>3. pc' = "publish" => time - prev_t =< IF pending' THEN Second + Eps ELSE Eps
    BY <1>2, <1>3, <1>6, <1>7, <2>1
  <2>4. IF pending' THEN ctx' - prev_t =< Second + Eps
        ELSE time - prev_t =< IF ctx' < EventTime THEN Second + Eps ELSE Eps
    <3>1. CASE ctx < EventTime /\ ctx' = EventTime
      <4>1. pending'
        BY <1>6, <3>1, Zenon
      <4>2. ctx' - prev_t =< Second + Eps
        BY <1>2, <1>3, <2>1, <3>1
      <4>3. QED
        BY <4>1, <4>2
    <3>2. CASE ~(ctx < EventTime /\ ctx' = EventTime)
      <4>1. ~pending'
        BY <1>6, <3>2, Zenon
      <4>2. ctx < EventTime <=> ctx' < EventTime
        BY <1>2, <1>3, <3>2
      <4>3. QED
        BY <2>1, <4>1, <4>2
    <3>3. QED
      BY <3>1, <3>2
  <2>5. pc' \in {"publish", "advance"} /\ (pc' = "publish" => ctx' = time)
    BY <1>2, <1>3, <1>7
  <2>6. time' = time /\ prev_t' = prev_t
    BY <1>4
  <2>7. QED
    BY <1>5, <1>8, <2>2, <2>3, <2>4, <2>5, <2>6 DEF SpanInv, WantsEvent
<1>11. QED
  BY <1>9, <1>10

\* The forced publish and stuttering leave all of this alone.
LEMMA PublishKeepsSpan ==
    ASSUME RobotOutInv, SpanInv, Publish \/ UNCHANGED vars
    PROVE  SpanInv'
<1>1. CASE Publish
  <2>1. /\ UNCHANGED <<ctx, time, pending, jumped, prev_t, next_message_time>>
        /\ pc = "publish" /\ pc' = "wait"
    BY <1>1 DEF Publish, estvars
  <2>2. QED
    BY <2>1 DEF SpanInv
<1>2. CASE UNCHANGED vars
  BY <1>2 DEF vars, loopvars, estvars, SpanInv, WantsEvent, EventTime
<1>3. QED
  BY <1>1, <1>2

\* So does the bound on how far the filter is behind.
THEOREM SpanInvariant == Spec => []SpanInv
<1>1. RobotOutInv /\ SpanInv /\ [Next]_vars => SpanInv'
  BY FirstMessageKeepsSpan, MessageKeepsSpan, HandlePendingKeepsSpan, StepToKeepsSpan, PublishKeepsSpan
  DEF Next, AdvanceStep
<1>2. QED
  BY SpanInit, RobotOutInvariant, <1>1, PTL DEF Spec

------------------------------------------------------------------------------
(* The properties that the runs check. *)

\* Every variable has its type; above all no message gets two updates by the time
\* it is published.
THEOREM RobotOutTypeOK == Spec => []TypeOK
<1>1. RobotOutInv => TypeOK
  BY DEF RobotOutInv
<1>2. QED
  BY RobotOutInvariant, <1>1, PTL

\* Test mode 2 ends with the first estimate of both feet in contact.
THEOREM RobotOutTestMode == Spec => []TestModeHolds
<1>1. RobotOutInv => TestModeHolds
  BY DEF RobotOutInv
<1>2. QED
  BY RobotOutInvariant, <1>1, PTL

\* The published state was estimated from the message it is published for.
THEOREM RobotOutFresh == Spec => []FreshAtPublish
<1>1. RobotOutInv => FreshAtPublish
  BY DEF RobotOutInv
<1>2. QED
  BY RobotOutInvariant, <1>1, PTL

\* Only a simulation whose clock goes back by at most a second ends the program.
THEOREM RobotOutFails == Spec => []FailsOnlyOnSmallStepsBack
<1>1. RobotOutInv => FailsOnlyOnSmallStepsBack
  BY DEF RobotOutInv
<1>2. QED
  BY RobotOutInvariant, <1>1, PTL

\* The filter propagates forward, over no more than a second and eps_.
THEOREM RobotOutPropagates == Spec => PropagatesForward
<1>1. ASSUME RobotOutInv, SpanInv, HandlePending, ~jumped
      PROVE  dt' \in 0 .. Second + Eps
  <2>1. TypeOK /\ pc = "advance" /\ pending
    BY <1>1 DEF RobotOutInv, HandlePending
  <2>2. dt' = ctx - prev_t
    BY <1>1 DEF HandlePending, EstimatorUpdate
  <2>3. prev_t =< ctx /\ ctx - prev_t =< Second + Eps
    BY <1>1, <2>1 DEF SpanInv
  <2>4. QED
    BY <2>1, <2>2, <2>3, SpanNumbers
<1>2. RobotOutInv /\ SpanInv => [HandlePending /\ ~jumped => dt' \in 0 .. Second + Eps]_vars
  BY <1>1
<1>3. QED
  BY RobotOutInvariant, SpanInvariant, <1>2, PTL DEF PropagatesForward
=============================================================================
