----------------------- MODULE UDPDrivenLoop_proofs ------------------------
(***************************************************************************)
(* Safety of the UDP driven loop for any number and sizes of packets, any  *)
(* buffer and any stop time: UdpInv is inductive, every step is a step of  *)
(* Mailbox or none, and for as long as the clock fits an int no AdvanceTo  *)
(* is asked to go back.                                                    *)
(***************************************************************************)
EXTENDS UDPDrivenLoop, TLAPS

\* What a context holds after an update.
Contexts == [msg : Packets \cup {NoPacket}, no : Nat, utime : Int]

\* Processing a message keeps a context well formed, with the latest number.
LEMMA ProcessedType ==
    ASSUME TypeOK, NEW context \in Contexts
    PROVE  /\ Processed(context) \in Contexts
           /\ Processed(context).no = count
           /\ received # NoPacket => Processed(context).msg = received
<1> USE SubscriberAssumption DEF SubscriberAssumption
<1>1. ToInt(now) \in Int
  BY DEF ToInt, TypeOK, SubscriberTypeOK
<1>2. received \in Packets \cup {NoPacket} /\ count \in Nat
  BY DEF TypeOK, SubscriberTypeOK
<1>3. context.msg \in Packets \cup {NoPacket}
  BY DEF Contexts
<1>4. QED
  BY <1>1, <1>2, <1>3 DEF Processed, Utime, Contexts

\* The program starts in UdpInv.
LEMMA InitUdpInv == Init => UdpInv
<1> SUFFICES ASSUME Init PROVE UdpInv
  OBVIOUS
<1> USE SubscriberAssumption DEF SubscriberAssumption, Init, SubscriberInit, Empty
<1>1. SubscriberTypeOK
  <2>1. socket \in Seq(Packets)
    OBVIOUS
  <2>2. sent \in 0 .. MaxPackets /\ now \in 0 .. MaxNow
    OBVIOUS
  <2>3. keep \in BOOLEAN /\ asleep \in BOOLEAN
    OBVIOUS
  <2>4. QED
    BY <2>1, <2>2, <2>3 DEF SubscriberTypeOK
<1>2. sub \in Contexts /\ diag \in Contexts
  BY DEF Contexts
<1>3. due \in BOOLEAN
  OBVIOUS
<1>4. TypeOK
  BY <1>1, <1>2, <1>3 DEF TypeOK, Contexts
<1>5. QED
  BY <1>4 DEF UdpInv

\* The steps of the world and of the polling thread keep UdpInv.
LEMMA PollerUdpInv ==
    ASSUME UdpInv, World \/ Poll, UNCHANGED loopvars
    PROVE  UdpInv'
<1> USE SubscriberAssumption
    DEF SubscriberAssumption, UdpInv, TypeOK, SubscriberTypeOK, loopvars
<1>1. CASE Tick
  BY <1>1 DEF Tick
<1>2. ASSUME NEW p \in Packets, Arrive(p)
      PROVE  UdpInv'
  <2>1. socket' \in Seq(Packets)
    BY <1>2 DEF Arrive
  <2>2. sent' \in 0 .. MaxPackets
    BY <1>2 DEF Arrive
  <2>3. QED
    BY <1>2, <2>1, <2>2 DEF Arrive
<1>3. CASE TestKeepPolling
  BY <1>3 DEF TestKeepPolling
<1>4. CASE Receive
  <2>1. Head(socket) \in Packets /\ Tail(socket) \in Seq(Packets)
    BY <1>4 DEF Receive
  <2>2. socket' = Tail(socket)
    BY <1>4 DEF Receive
  <2>3. CASE LongEnough(Head(socket))
    <3>1. buffer' = Head(socket) /\ Head(socket).size # "short"
      BY <1>4, <2>3 DEF Receive, LongEnough
    <3>2. buffer' \in {p \in Packets : p.size # "short"} /\ buffer' # NoPacket
      BY <2>1, <3>1
    <3>3. QED
      BY <1>4, <2>1, <2>2, <2>3, <3>2 DEF Receive
  <2>4. CASE ~LongEnough(Head(socket))
    BY <1>4, <2>1, <2>2, <2>4 DEF Receive
  <2>5. QED
    BY <2>3, <2>4
<1>5. CASE HandleMessage
  <2>1. received' = buffer /\ received' # NoPacket
    BY <1>5 DEF HandleMessage
  <2>2. count' \in Nat /\ count' # 0 /\ sub'.no < count'
    BY <1>5 DEF HandleMessage
  <2>3. asleep' \in BOOLEAN
    BY <1>5 DEF HandleMessage, Notified
  <2>4. received' \in {p \in Packets : p.size # "short"}
    BY <2>1
  <2>5. QED
    BY <1>5, <2>1, <2>2, <2>3, <2>4 DEF HandleMessage
<1>6. QED
  BY <1>1, <1>2, <1>3, <1>4, <1>5 DEF World, Poll

\* The steps of the loop's thread keep UdpInv.
LEMMA LoopUdpInv ==
    ASSUME UdpInv, LoopStep \/ SpuriousWakeup
    PROVE  UdpInv'
<1> USE DEF UdpInv, TypeOK, SubscriberTypeOK
<1>1. CASE WaitForMessage
  <2>1. asleep' \in BOOLEAN
    BY <1>1 DEF WaitForMessage
  <2>2. pc' = "waking" \/ (pc' = "update" /\ sub.no < count)
    BY <1>1 DEF WaitForMessage, Recheck, MustWait
  <2>3. UNCHANGED <<pollvars, sub, diag, sim, due>>
    BY <1>1 DEF WaitForMessage
  <2>4. QED
    BY <2>1, <2>2, <2>3 DEF pollvars
<1>2. CASE SpuriousWakeup
  <2>1. asleep' \in BOOLEAN
    BY <1>2 DEF SpuriousWakeup
  <2>2. UNCHANGED <<pollvars, loopvars>>
    BY <1>2 DEF SpuriousWakeup
  <2>3. QED
    BY <2>1, <2>2 DEF pollvars, loopvars
<1>3. CASE UpdateContext
  <2>1. sub \in Contexts
    BY DEF Contexts
  <2>2. sub' = Processed(sub)
    BY <1>3 DEF UpdateContext, HasUpdate
  <2>3. sub' \in Contexts /\ sub'.no = count
    BY <2>1, <2>2, ProcessedType
  <2>4. pc' \in {"stop", "failed", "advance"}
    BY <1>3 DEF UpdateContext, AfterUpdate
  <2>5. QED
    BY <1>3, <2>3, <2>4 DEF UpdateContext, subvars, pollvars, Contexts
<1>4. CASE UpdateDiagram
  <2>1. diag \in Contexts
    BY DEF Contexts
  <2>2. diag' \in Contexts
    BY <1>4, <2>1, ProcessedType DEF UpdateDiagram
  <2>3. QED
    BY <1>4, <2>2 DEF UpdateDiagram, subvars, pollvars, Contexts
<1>5. CASE ReachBoundary
  BY <1>5 DEF ReachBoundary, HasUpdate, subvars, pollvars
<1>6. CASE Publish
  BY <1>6 DEF Publish, subvars, pollvars
<1>7. CASE StopPolling
  BY <1>7 DEF StopPolling, KeepAfterStop
<1>8. CASE Join
  BY <1>8 DEF Join, subvars, pollvars
<1>9. QED
  BY <1>1, <1>2, <1>3, <1>4, <1>5, <1>6, <1>7, <1>8 DEF LoopStep

\* A stutter changes nothing.
LEMMA StutterUdpInv == UdpInv /\ UNCHANGED vars => UdpInv'
  BY DEF UdpInv, TypeOK, SubscriberTypeOK, vars, subvars, pollvars, loopvars

\* UdpInv always holds.
THEOREM UdpInvariant == Spec => []UdpInv
<1>1. UdpInv /\ [Next]_vars => UdpInv'
  BY PollerUdpInv, LoopUdpInv, StutterUdpInv DEF Next
<1>2. QED
  BY <1>1, InitUdpInv, PTL DEF Spec

\* The type invariant, for any number and sizes of packets.
THEOREM UdpTypeOK == Spec => []TypeOK
<1>1. UdpInv => TypeOK
  BY DEF UdpInv
<1>2. QED
  BY <1>1, UdpInvariant, PTL

\* Every pass of the loop has a message that no pass had before.
THEOREM UdpEveryPassIsNew == Spec => EveryPassIsNew
<1>1. UdpInv /\ [Next]_vars => [pc = "update" /\ pc' # pc => sub'.no > sub.no]_vars
  <2> SUFFICES ASSUME UdpInv, [Next]_vars, pc = "update", pc' # pc
               PROVE  sub'.no > sub.no
    OBVIOUS
  <2>1. UpdateContext
    BY DEF Next, LoopStep, vars, loopvars, SpuriousWakeup, WaitForMessage,
           UpdateDiagram, ReachBoundary, Publish, StopPolling, Join
  <2>2. sub \in Contexts /\ TypeOK /\ sub.no < count
    BY DEF UdpInv, TypeOK, Contexts
  <2>3. sub'.no = count
    BY <2>1, <2>2, ProcessedType DEF UpdateContext, HasUpdate
  <2>4. QED
    BY <2>2, <2>3 DEF Contexts, TypeOK, SubscriberTypeOK
<1>2. QED
  BY <1>1, UdpInvariant, PTL DEF Spec, EveryPassIsNew

\* The program starts as a mailbox.
LEMMA InitMailbox == Init => Box!MailboxInit
  BY DEF Init, SubscriberInit, Empty, Box!MailboxInit

\* Every step of the program is a step of the mailbox, or none of its.
LEMMA StepMailbox == UdpInv /\ [Next]_vars => [Box!MailboxNext]_(Box!mvars)
<1> SUFFICES ASSUME UdpInv, [Next]_vars
             PROVE  [Box!MailboxNext]_(Box!mvars)
  OBVIOUS
<1> USE DEF Box!mvars
<1>1. CASE World /\ UNCHANGED loopvars
  BY <1>1 DEF World, Tick, Arrive, loopvars
<1>2. CASE Poll /\ UNCHANGED loopvars
  <2>1. CASE HandleMessage
    <3>1. buffer \in Packets
      BY <2>1 DEF HandleMessage, UdpInv, TypeOK, SubscriberTypeOK
    <3>2. Box!Post(buffer)
      BY <1>2, <2>1 DEF HandleMessage, Box!Post, loopvars
    <3>3. QED
      BY <3>1, <3>2 DEF Box!MailboxNext
  <2>2. CASE TestKeepPolling \/ Receive
    BY <1>2, <2>2 DEF TestKeepPolling, Receive, loopvars
  <2>3. QED
    BY <1>2, <2>1, <2>2 DEF Poll
<1>3. CASE UpdateContext
  <2>1. sub \in Contexts /\ TypeOK /\ sub.no < count
    BY <1>3 DEF UdpInv, TypeOK, Contexts, UpdateContext
  <2>2. sub' = Processed(sub) /\ received # NoPacket
    BY <1>3, <2>1 DEF UpdateContext, HasUpdate, UdpInv, TypeOK, SubscriberTypeOK, Contexts
  <2>3. sub'.no = count /\ sub'.msg = received
    BY <2>1, <2>2, ProcessedType
  <2>4. UNCHANGED <<received, count>>
    BY <1>3 DEF UpdateContext, subvars, pollvars
  <2>5. pc = "update" /\ count > sub.no
    BY <1>3, <2>1 DEF UpdateContext, TypeOK, SubscriberTypeOK, Contexts
  <2>6. Box!Take
    BY <2>3, <2>4, <2>5 DEF Box!Take
  <2>7. QED
    BY <2>6 DEF Box!MailboxNext
<1>4. CASE WaitForMessage \/ SpuriousWakeup
  BY <1>4 DEF WaitForMessage, SpuriousWakeup, pollvars, loopvars
<1>5. CASE UpdateDiagram \/ ReachBoundary \/ Publish \/ Join
  BY <1>5 DEF UpdateDiagram, ReachBoundary, Publish, Join, subvars, pollvars
<1>6. CASE StopPolling
  BY <1>6 DEF StopPolling
<1>7. CASE UNCHANGED vars
  BY <1>7 DEF vars, subvars, pollvars, loopvars
<1>8. QED
  BY <1>1, <1>2, <1>3, <1>4, <1>5, <1>6, <1>7 DEF Next, LoopStep

\* The subscriber and the loop implement the mailbox's safety.
THEOREM UdpRefinesMailbox == Spec => RefinesMailboxSafe
  BY InitMailbox, StepMailbox, UdpInvariant, PTL
  DEF Spec, RefinesMailboxSafe, Box!MailboxSafe

\* While the clock fits an int, the conversion to int changes nothing.
LEMMA ToIntInRange ==
    ASSUME NEW n \in Nat, n < HalfRange
    PROVE  ToInt(n) = n
<1>1. HalfRange \in Nat /\ n + HalfRange \in 0 .. 2 * HalfRange - 1
  BY SubscriberAssumption DEF SubscriberAssumption
<1>2. (n + HalfRange) % (2 * HalfRange) = n + HalfRange
  BY <1>1, SMT
<1>3. QED
  BY <1>1, <1>2 DEF ToInt

\* For every stop time and any packets, the loop never asks the simulator to
\* go back as long as the clock fits an int.
THEOREM UdpNeverFails ==
    ASSUME MaxNow < HalfRange
    PROVE  Spec => []NeverFails
<1>1. Init => ClockInv
  <2> SUFFICES ASSUME Init PROVE ClockInv
    OBVIOUS
  <2>1. UdpInv
    BY InitUdpInv
  <2>2. QED
    BY <2>1 DEF ClockInv, Init, SubscriberInit, Empty, NeverFails
<1>2. ClockInv /\ UdpInv' /\ [Next]_vars => ClockInv'
  <2> SUFFICES ASSUME ClockInv, UdpInv', [Next]_vars PROVE ClockInv'
    OBVIOUS
  <2>1. now \in Nat /\ now < HalfRange /\ sim \in Int /\ sub.utime \in Int
    BY SubscriberAssumption
    DEF SubscriberAssumption, ClockInv, UdpInv, TypeOK, SubscriberTypeOK
  <2>2. ToInt(now) = now
    BY <2>1, ToIntInRange
  <2>3. CASE UpdateContext
    <3>1. UNCHANGED <<now, sim>>
      BY <2>3 DEF UpdateContext, subvars, pollvars
    <3>2. sub'.utime \in {now, sub.utime}
      BY <2>2, <2>3 DEF UpdateContext, Processed, Utime
    <3>3. sub'.utime \in 0 .. now /\ sim <= sub'.utime
      BY <2>1, <3>2 DEF ClockInv
    <3>4. pc' # "failed"
      BY <2>1, <2>3, <3>3 DEF UpdateContext, AfterUpdate
    <3>5. QED
      BY <3>1, <3>3, <3>4 DEF ClockInv, NeverFails
  <2>4. CASE ReachBoundary
    BY <2>1, <2>4 DEF ReachBoundary, ClockInv, NeverFails, subvars, pollvars
  <2>5. CASE World /\ UNCHANGED loopvars
    BY <2>1, <2>5 DEF World, Tick, Arrive, ClockInv, NeverFails, loopvars
  <2>6. CASE Poll /\ UNCHANGED loopvars
    BY <2>6 DEF Poll, TestKeepPolling, Receive, HandleMessage, ClockInv,
                NeverFails, loopvars
  <2>7. CASE WaitForMessage \/ SpuriousWakeup \/ UpdateDiagram \/ Publish
    BY <2>7 DEF WaitForMessage, SpuriousWakeup, UpdateDiagram, Publish, ClockInv,
                NeverFails, subvars, pollvars, loopvars
  <2>8. CASE StopPolling \/ Join
    BY <2>8 DEF StopPolling, Join, ClockInv, NeverFails, subvars, pollvars
  <2>9. CASE UNCHANGED vars
    BY <2>9 DEF ClockInv, NeverFails, vars, subvars, pollvars, loopvars
  <2>10. QED
    BY <2>3, <2>4, <2>5, <2>6, <2>7, <2>8, <2>9 DEF Next, LoopStep
<1>3. ClockInv => NeverFails
  BY DEF ClockInv
<1>4. QED
  BY <1>1, <1>2, <1>3, UdpInvariant, PTL DEF Spec

\* While the simulator advances it is not asked to go back, even if the clock's
\* int overflows: the loop fails before.
AdvanceInv == pc = "advance" => sim <= sub.utime

\* For every stop time, any packets and any clock: what is published at a new
\* time is computed from the message the loop waited for or a later one.
THEOREM UdpDiagramKeepsUp == Spec => DiagramKeepsUp
<1>1. Init => AdvanceInv
  BY DEF Init, AdvanceInv
<1>2. UdpInv /\ UdpInv' /\ AdvanceInv /\ [Next]_vars => AdvanceInv'
  <2> SUFFICES ASSUME UdpInv, UdpInv', AdvanceInv, [Next]_vars PROVE AdvanceInv'
    OBVIOUS
  <2>1. sim \in Int /\ sub'.utime \in Int
    BY DEF UdpInv, TypeOK
  <2>2. CASE UpdateContext
    <3>1. pc' = AfterUpdate(sub'.utime) /\ sim' = sim
      BY <2>2 DEF UpdateContext
    <3>2. QED
      BY <2>1, <3>1 DEF AfterUpdate, AdvanceInv
  <2>3. CASE WaitForMessage \/ SpuriousWakeup \/ ReachBoundary \/ Publish \/ StopPolling \/ Join
    BY <2>3 DEF WaitForMessage, SpuriousWakeup, ReachBoundary, Publish, StopPolling, Join,
                AdvanceInv, loopvars
  <2>4. CASE UpdateDiagram
    BY <2>4 DEF UpdateDiagram, AdvanceInv
  <2>5. CASE UNCHANGED loopvars
    BY <2>5 DEF AdvanceInv, loopvars
  <2>6. QED
    BY <2>2, <2>3, <2>4, <2>5 DEF Next, LoopStep, vars
<1>3. UdpInv /\ AdvanceInv => (ReachBoundary /\ sim' # sim => diag.no >= sub.no)
  <2> SUFFICES ASSUME UdpInv, AdvanceInv, ReachBoundary, sim' # sim
               PROVE  diag.no >= sub.no
    OBVIOUS
  <2>1. sim \in Int /\ sub.utime \in Int /\ sub.no \in Nat /\ sub.no <= count /\ count \in Nat
    BY DEF UdpInv, TypeOK, SubscriberTypeOK
  <2>2. pc = "advance" /\ ~EventInStep /\ sim' = sub.utime
    BY DEF ReachBoundary
  <2>3. sim < sub.utime
    BY <2>1, <2>2 DEF AdvanceInv
  <2>4. diag.no = count
    BY <2>2, <2>3 DEF EventInStep, HasUpdate
  <2>5. QED
    BY <2>1, <2>4
<1>4. QED
  BY <1>1, <1>2, <1>3, UdpInvariant, PTL DEF Spec, DiagramKeepsUp
=============================================================================
