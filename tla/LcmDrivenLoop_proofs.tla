----------------------- MODULE LcmDrivenLoop_proofs ------------------------
(***************************************************************************)
(* Safety of the LCM driven loop for every set of channels, every clock    *)
(* and every end time: LoopInv is inductive, hence the type invariant, the *)
(* range of every AdvanceTo and the freshness of every command, and every  *)
(* step of the loop is a step of CommandRouter or none.                    *)
(***************************************************************************)
EXTENDS LcmDrivenLoop, TLAPS

\* The loop starts in LoopInv.
LEMMA InitLoopInv == Init => LoopInv
<1> SUFFICES ASSUME Init PROVE LoopInv
  OBVIOUS
<1> USE LoopAssumption DEF LoopAssumption, Init
<1>1. TypeOK
  <2>1. inbox \in [Channels -> Times \cup {NoMessage}]
    OBVIOUS
  <2>2. ctx \in Times /\ time \in Times
    BY DEF Times
  <2>3. QED
    BY <2>1, <2>2 DEF TypeOK
<1>2. AdvanceInRange
  BY DEF AdvanceInRange
<1>3. NoStaleCommand
  BY DEF NoStaleCommand
<1>4. QED
  BY <1>1, <1>2, <1>3 DEF LoopInv

\* Every step of the loop and of the senders keeps LoopInv.
LEMMA StepLoopInv == LoopInv /\ [Next]_vars => LoopInv'
<1> SUFFICES ASSUME LoopInv, [Next]_vars PROVE LoopInv'
  OBVIOUS
<1> USE LoopAssumption DEF LoopAssumption, LoopInv, TypeOK, AdvanceInRange, NoStaleCommand, Times
<1>1. ASSUME NEW c \in Channels, NEW t \in Times, ReceiveInput(c, t)
      PROVE  LoopInv'
  BY <1>1 DEF ReceiveInput
<1>2. ASSUME NEW n \in Channels \cup UnknownNames, ReceiveSwitch(n)
      PROVE  LoopInv'
  BY <1>2 DEF ReceiveSwitch
<1>3. CASE FirstMessage
  BY <1>3 DEF FirstMessage, EnterLoop
<1>4. CASE TestPredicate
  BY <1>4 DEF TestPredicate, Branch
<1>5. CASE EndPump
  BY <1>5 DEF EndPump
<1>6. CASE HandleInput
  <2> DEFINE t == inbox[active]
             from == AfterReset(t)
  <2>1. t \in Times /\ ctx \in Times
    BY <1>6 DEF HandleInput
  <2>2. from \in Times /\ from =< t /\ t - from =< Second
    BY <2>1 DEF AfterReset
  <2>3. span' = t - from /\ span' \in 0 .. Second /\ ctx' = t /\ time' = t
    BY <1>6, <2>1, <2>2 DEF HandleInput, AdvanceTo
  <2>4. pc' \in {"switch", "test", "done"}
    BY <1>6, <2>3 DEF HandleInput, EnterLoop
  <2>5. inbox' = [inbox EXCEPT ![active] = NoMessage]
    BY <1>6 DEF HandleInput, ClearHandled
  <2>6. TypeOK'
    <3>1. newInput' \in BOOLEAN /\ newSwitch' \in BOOLEAN
      BY <1>6 DEF HandleInput
    <3>2. inbox' \in [Channels -> Times \cup {NoMessage}]
      BY <2>5
    <3>3. pc' \in {"first", "test", "pump", "input", "switch", "failed", "done"}
      BY <2>4
    <3>4. ctx' \in Times /\ time' \in Times /\ span' \in Int
      BY <2>1, <2>3
    <3>5. UNCHANGED <<active, previous, switchBox, since>>
      BY <1>6 DEF HandleInput
    <3>6. QED
      BY <3>1, <3>2, <3>3, <3>4, <3>5
  <2>7. AdvanceInRange'
    BY <2>3, <2>4
  <2>8. inbox'[active'] = NoMessage
    BY <1>6, <2>5 DEF HandleInput
  <2>9. QED
    BY <1>6, <2>3, <2>4, <2>6, <2>7, <2>8 DEF HandleInput
<1>7. CASE HandleSwitch
  <2>1. ctx = time /\ ctx' = time /\ span' = 0
    BY <1>7 DEF HandleSwitch, AdvanceTo
  <2>2. pc' \in {"test", "done"}
    BY <1>7, <2>1 DEF HandleSwitch, EnterLoop
  <2>3. active' \in Channels
    BY <1>7 DEF HandleSwitch, Requested
  <2>4. inbox' \in [Channels -> Times \cup {NoMessage}]
    BY <1>7, <2>3 DEF HandleSwitch, ClearSelected
  <2>5. inbox'[active'] = NoMessage
    BY <1>7, <2>3 DEF HandleSwitch, ClearSelected
  <2>6. TypeOK' /\ AdvanceInRange'
    <3>1. newInput' \in BOOLEAN /\ newSwitch' \in BOOLEAN
      BY <1>7 DEF HandleSwitch
    <3>2. pc' \in {"first", "test", "pump", "input", "switch", "failed", "done"}
      BY <2>2
    <3>3. ctx' \in Times /\ time' \in Times /\ span' \in 0 .. Second
      BY <1>7, <2>1 DEF HandleSwitch
    <3>4. previous' \in Channels /\ since' \in SUBSET Channels
      BY <1>7, <2>3 DEF HandleSwitch
    <3>5. switchBox' = NoMessage
      BY <1>7 DEF HandleSwitch
    <3>6. QED
      BY <3>1, <3>2, <3>3, <3>4, <3>5, <2>2, <2>3, <2>4
  <2>7. QED
    BY <2>6, <1>7, <2>1, <2>2, <2>3, <2>4, <2>5 DEF HandleSwitch
<1>8. CASE UNCHANGED vars
  BY <1>8 DEF vars
<1>9. QED
  BY <1>1, <1>2, <1>3, <1>4, <1>5, <1>6, <1>7, <1>8 DEF Next, LoopStep

\* Every reachable state of the loop satisfies LoopInv.
THEOREM LoopInvariant == Spec => []LoopInv
  BY InitLoopInv, StepLoopInv, PTL DEF Spec

\* The loop's variables keep their types.
THEOREM LoopTypeOK == Spec => []TypeOK
<1>1. LoopInv => TypeOK
  BY DEF LoopInv
<1>2. QED
  BY <1>1, LoopInvariant, PTL

\* No AdvanceTo of the loop throws or spans more than a second, whatever the
\* senders' clocks do.
THEOREM LoopAdvanceInRange == Spec => []AdvanceInRange
<1>1. LoopInv => AdvanceInRange
  BY DEF LoopInv
<1>2. QED
  BY <1>1, LoopInvariant, PTL

\* No command sent before its channel became active is ever handled.
THEOREM LoopNoStaleCommand == Spec => []NoStaleCommand
<1>1. LoopInv => NoStaleCommand
  BY DEF LoopInv
<1>2. QED
  BY <1>1, LoopInvariant, PTL

\* The loop starts where a command router starts.
LEMMA InitRouter == Init => Router!RouterInit
  BY DEF Init, Router!RouterInit

\* Every step of the loop is a step of the command router, or none of its.
LEMMA StepRouter == LoopInv /\ [Next]_vars => [Router!RouterNext]_(Router!rvars)
<1> SUFFICES ASSUME LoopInv, [Next]_vars
             PROVE  [Router!RouterNext]_(Router!rvars)
  OBVIOUS
<1> USE DEF LoopInv, TypeOK, Router!rvars
<1>1. ASSUME NEW c \in Channels, NEW t \in Times, ReceiveInput(c, t)
      PROVE  Router!RouterNext
  BY <1>1 DEF ReceiveInput, Router!RouterNext, Router!Hear, Times
<1>2. ASSUME NEW n \in Channels \cup UnknownNames, ReceiveSwitch(n)
      PROVE  UNCHANGED Router!rvars
  BY <1>2 DEF ReceiveSwitch
<1>3. CASE FirstMessage \/ TestPredicate \/ EndPump
  BY <1>3 DEF FirstMessage, TestPredicate, EndPump
<1>4. CASE HandleInput
  BY <1>4 DEF HandleInput, ClearHandled, Router!RouterNext, Router!Apply
<1>5. CASE HandleSwitch
  <2>1. active' \in Channels
    BY <1>5 DEF HandleSwitch, Requested
  <2>2. CASE active' = active
    BY <1>5, <2>2 DEF HandleSwitch, ClearSelected
  <2>3. CASE active' # active
    <3>1. Router!Redirect(active')
      BY <1>5, <2>3 DEF HandleSwitch, ClearSelected, Router!Redirect
    <3>2. QED
      BY <2>1, <3>1 DEF Router!RouterNext
  <2>4. QED
    BY <2>2, <2>3
<1>6. CASE UNCHANGED vars
  BY <1>6 DEF vars
<1>7. QED
  BY <1>1, <1>2, <1>3, <1>4, <1>5, <1>6 DEF Next, LoopStep

\* The loop implements the command router.
THEOREM LoopRefinesRouter == Spec => RefinesRouter
  BY InitRouter, StepRouter, LoopInvariant, PTL
  DEF Spec, RefinesRouter, Router!RouterSpec
=============================================================================
