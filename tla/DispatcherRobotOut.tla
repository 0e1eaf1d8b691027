------------------------- MODULE DispatcherRobotOut -------------------------
(***************************************************************************)
(* examples/Cassie/dispatcher_robot_out.cc: the process that turns the     *)
(* robot's messages into state estimates.  A loop takes a message, over    *)
(* LCM from a simulation or over UDP from the robot, advances the diagram  *)
(* to its time and publishes.  On the way Drake's simulator runs the       *)
(* estimator's update and, every PubPeriod, the publishers of the network. *)
(*                                                                         *)
(* AdvanceTo is the steps HandlePending and StepTo: an update that is due  *)
(* is run at the head of a step; a step goes to the next event or to the   *)
(* boundary, where an update stays pending until the next AdvanceTo.       *)
(***************************************************************************)
EXTENDS CassieStateEstimator

CONSTANTS
    Times,      \* times of messages, in ticks
    Second,     \* 1.0, in ticks
    PubPeriod,  \* FLAGS_pub_rate, in ticks
    Sources     \* values of FLAGS_simulation

ASSUME DispatcherAssumption ==
    /\ Times \subseteq 0 .. MaxTime
    /\ \A s \in Times, t \in Times : s < t => t - s > Eps
    /\ Second \in Nat
    /\ PubPeriod \in Nat \ {0}
    /\ Sources \subseteq BOOLEAN

VARIABLES
    pc,
    simulation,  \* FLAGS_simulation
    ctx,         \* the simulator's time
    time,        \* the time of the message being handled
    pending,     \* an update is due
    advanced,    \* ghost: the message is later than the one before, and near
    updates,     \* ghost: updates since the message came
    jumped       \* ghost: ctx was set since the last update

loopvars == <<pc, simulation, ctx, time, pending, advanced, updates, jumped>>
vars == <<loopvars, estvars>>

Init ==
    /\ EstimatorInit
    /\ pc = "first"
    /\ simulation \in Sources
    /\ ctx = 0
    /\ time = 0
    /\ pending = FALSE
    /\ advanced = FALSE
    /\ updates = 0
    /\ jumped = FALSE

\* The first message gives the context and the estimator their time.
FirstMessage(t) ==
    /\ pc = "first"
    /\ ctx' = t
    /\ time' = t
    /\ prev_t' = t
    /\ pc' = "wait"
    /\ UNCHANGED <<simulation, pending, advanced, updates, jumped, next_message_time,
                   hardware_test_mode, contact, test_mode, bothSeen, current, dt>>

\* Mutant: the robot's branch looks ahead only.
TooFar_AheadOnly(t) == t > ctx + Second

\* The check for a restart of the driving clock, which differs in the branches.
TooFar(t) ==
    \/ t > ctx + Second
    \/ simulation /\ t < ctx - Second
    \/ ~simulation /\ t < ctx

\* A message is written into the input ports; AdvanceTo refuses to go back.
\* Messages of the robot are timed by a steady clock as they come.
Message(t) ==
    /\ pc = "wait"
    /\ ~simulation => t >= time
    /\ time' = t
    /\ ctx' = IF TooFar(t) THEN t ELSE ctx
    /\ next_message_time' = t
    /\ pc' = IF t < ctx' THEN "failed" ELSE "advance"
    /\ current' = FALSE
    /\ advanced' = (t > ctx /\ ~TooFar(t))
    /\ updates' = 0
    /\ jumped' = (jumped \/ TooFar(t))
    /\ UNCHANGED <<simulation, pending, prev_t, hardware_test_mode, contact,
                   test_mode, bothSeen, dt>>

------------------------------------------------------------------------------
(* AdvanceTo. *)

\* The network publishers' next time after t.
NextPublish(t) == t + PubPeriod - (t % PubPeriod)

\* The simulator's times to stop at: the boundary and the events' times.
Stops == {time, NextPublish(ctx)} \cup {e \in {EventTime} : WantsEvent(ctx)}

HandlePending ==
    /\ pc = "advance"
    /\ pending
    /\ EstimatorUpdate(ctx)
    /\ pending' = FALSE
    /\ updates' = updates + 1
    /\ jumped' = FALSE
    /\ UNCHANGED <<pc, simulation, ctx, time, advanced>>

\* A step to the next stop, at the boundary the last.
StepTo ==
    /\ pc = "advance"
    /\ ~pending
    /\ \E t \in Stops : (\A u \in Stops : t =< u) /\ ctx' = t
    /\ pending' = (WantsEvent(ctx) /\ ctx' = EventTime)
    /\ pc' = IF ctx' >= time THEN "publish" ELSE "advance"
    /\ UNCHANGED <<simulation, time, advanced, updates, jumped, estvars>>

\* The forced publish of state and contacts.
Publish ==
    /\ pc = "publish"
    /\ pc' = "wait"
    /\ UNCHANGED <<simulation, ctx, time, pending, advanced, updates, jumped, estvars>>

AdvanceStep == HandlePending \/ StepTo

Next ==
    \/ \E t \in Times : FirstMessage(t) \/ Message(t)
    \/ AdvanceStep
    \/ Publish

Spec == Init /\ [][Next]_vars

------------------------------------------------------------------------------
(* Properties. *)

TypeOK ==
    /\ EstimatorTypeOK
    /\ pc \in {"first", "wait", "advance", "publish", "failed"}
    /\ simulation \in Sources
    /\ ctx \in 0 .. MaxTime
    /\ time \in 0 .. MaxTime
    /\ pending \in BOOLEAN
    /\ advanced \in BOOLEAN
    /\ updates \in 0 .. 1
    /\ jumped \in BOOLEAN

\* The state that is published was estimated from the message it is published
\* for, as of that message's time, by exactly one update, however many network
\* publishers interrupted the way; unless the clock did not advance or jumped.
FreshAtPublish ==
    pc = "publish" /\ advanced /\ time < Vanish =>
        current /\ updates = 1 /\ prev_t = EventTime

\* The filter propagates forward, and at most over the time that two messages
\* may be apart, unless the clock jumped in between.
PropagatesForward ==
    [][HandlePending /\ ~jumped => dt' \in 0 .. Second + Eps]_vars

\* The dispatcher only dies of a simulation whose clock goes back by no more
\* than a second: the robot's branch cannot fail.
FailsOnlyOnSmallStepsBack ==
    pc = "failed" => simulation /\ time < ctx /\ ctx - time <= Second

\* How an AdvanceTo stands with the update of its message.
Approach ==
    /\ pending => updates = 0
    /\ pending \/ updates = 1 => ctx >= EventTime \/ EventTime = time
    /\ advanced /\ time < Vanish =>
         \/ updates = 0 /\ ctx < EventTime /\ ~pending
         \/ updates = 0 /\ ctx = EventTime /\ pending
         \/ updates = 1 /\ ctx >= EventTime /\ ~pending /\ current
                        /\ prev_t = EventTime

\* The strengthening that makes these inductive.  Between messages the context
\* is at the last one's time; an update that is pending there was due there,
\* past Vanish; a message that advances the clock meets its event exactly once.
RobotOutInv ==
    /\ TypeOK
    /\ TestModeHolds
    /\ FailsOnlyOnSmallStepsBack
    /\ FreshAtPublish
    /\ pc # "first" => time \in Times
    /\ pc \in {"advance", "publish"} => next_message_time = time
    /\ pc \in {"wait", "publish"} => ctx = time
    /\ pc = "advance" => ctx =< time
    /\ pc = "first" => ~pending /\ ~jumped /\ ctx = 0 /\ updates = 0
    /\ pending /\ pc \in {"wait", "publish"} => time >= Vanish
    /\ pc = "advance" => Approach

\* How far the filter is behind, unless the clock jumped.
SpanInv ==
    /\ pc = "advance" /\ pending => time - ctx =< Second + Eps
    /\ ~jumped /\ pc # "failed" => prev_t =< ctx
    /\ ~jumped /\ pc \in {"wait", "publish"} =>
         time - prev_t =< IF pending THEN Second + Eps ELSE Eps
    /\ ~jumped /\ pc = "advance" =>
         IF pending THEN ctx - prev_t =< Second + Eps
         ELSE time - prev_t =< IF WantsEvent(ctx) THEN Second + Eps ELSE Eps
=============================================================================
