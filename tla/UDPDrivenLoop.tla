--------------------------- MODULE UDPDrivenLoop ---------------------------
(***************************************************************************)
(* examples/Cassie/networking/udp_driven_loop.cc: the loop that lets a     *)
(* CassieUDPSubscriber drive a diagram, with the subscriber's thread       *)
(* running beside it, and the end of the program as its test has it        *)
(* (examples/Cassie/networking/test/udp_driven_loop_test.cc:57-62).        *)
(*                                                                         *)
(* The subscriber has two contexts: sub_context_, which the loop updates   *)
(* itself, and the one in the simulator's diagram, which AdvanceTo updates.*)
(***************************************************************************)
EXTENDS CassieUDPSubscriber

CONSTANT StopTime   \* the stop_time argument, in microseconds

ASSUME LoopAssumption == StopTime \in Int

VARIABLES
    pc,      \* where the loop's thread is
    sub,     \* the state in sub_context_
    diag,    \* the state in the diagram's context
    sim,     \* the time of the simulator's context
    due      \* an update of diag was due at the last boundary

loopvars == <<pc, sub, diag, sim, due>>
vars == <<subvars, loopvars>>

Init ==
    /\ SubscriberInit
    /\ pc = "wait"
    /\ sub = Empty
    /\ diag = Empty
    /\ sim = 0
    /\ due = FALSE

\* The while loop of WaitForMessage tests again after every wake-up.
Recheck(old) == MustWait(old)

\* WaitForMessage(GetMessageCount(*sub_context_)): test, and sleep or return.
WaitForMessage ==
    /\ pc \in {"wait", "waking"}
    /\ ~asleep
    /\ IF Recheck(sub.no)
       THEN asleep' = TRUE /\ pc' = "waking"
       ELSE pc' = "update" /\ UNCHANGED asleep
    /\ UNCHANGED <<pollvars, sub, diag, sim, due>>

\* The condition variable may wake the reader for no reason.
SpuriousWakeup ==
    /\ asleep
    /\ asleep' = FALSE
    /\ UNCHANGED <<pollvars, loopvars>>

\* Where the loop goes with a message processed at time t.
AfterUpdate(t) ==
    IF t >= StopTime THEN "stop" ELSE IF t < sim THEN "failed" ELSE "advance"

\* The rest of UDPDrivenLoop::WaitForMessage: process the latest message.
UpdateContext ==
    /\ pc = "update"
    /\ sub' = IF HasUpdate(sub) THEN Processed(sub) ELSE sub
    /\ pc' = AfterUpdate(sub'.utime)
    /\ UNCHANGED <<subvars, diag, sim, due>>

\* Mutant: only an update that was due at the last boundary is run.
EventInStep_DueOnly == due

\* AdvanceTo has an update of the diagram's subscriber to run.
EventInStep == due \/ (sim < sub.utime /\ HasUpdate(diag))

\* AdvanceTo runs the updates of the diagram's subscriber on its way ...
UpdateDiagram ==
    /\ pc = "advance"
    /\ EventInStep
    /\ diag' = Processed(diag)
    /\ due' = FALSE
    /\ UNCHANGED <<subvars, pc, sub, sim>>

\* ... and leaves one that is due at the boundary for the next time.
ReachBoundary ==
    /\ pc = "advance"
    /\ ~EventInStep
    /\ sim' = sub.utime
    /\ due' = HasUpdate(diag)
    /\ pc' = "publish"
    /\ UNCHANGED <<subvars, sub, diag>>

Publish ==
    /\ pc = "publish"
    /\ pc' = "wait"
    /\ UNCHANGED <<subvars, sub, diag, sim, due>>

\* Mutant: polling goes on.
KeepAfterStop_On == TRUE

KeepAfterStop == FALSE

StopPolling ==
    /\ pc = "stop"
    /\ keep' = KeepAfterStop
    /\ pc' = "join"
    /\ UNCHANGED <<socket, sent, poller, buffer, received, count, now,
                   asleep, sub, diag, sim, due>>

\* The subscriber's destructor joins the polling thread.
Join ==
    /\ pc = "join"
    /\ poller = "end"
    /\ pc' = "done"
    /\ UNCHANGED <<subvars, sub, diag, sim, due>>

LoopStep ==
    \/ WaitForMessage \/ UpdateContext \/ UpdateDiagram \/ ReachBoundary
    \/ Publish \/ StopPolling \/ Join

World == Tick \/ \E p \in Packets : Arrive(p)

Next ==
    \/ World /\ UNCHANGED loopvars
    \/ Poll /\ UNCHANGED loopvars
    \/ LoopStep
    \/ SpuriousWakeup

Spec == Init /\ [][Next]_vars

\* Both threads keep running; nothing is assumed of the senders or the clock,
\* and nothing of wake-ups other than the notified ones.
FairSpec == Spec /\ WF_vars(Poll /\ UNCHANGED loopvars) /\ WF_vars(LoopStep)

------------------------------------------------------------------------------
(* Properties. *)

TypeOK ==
    /\ SubscriberTypeOK
    /\ pc \in {"wait", "waking", "update", "advance", "publish", "stop",
               "join", "done", "failed"}
    /\ sub \in [msg : Packets \cup {NoPacket}, no : Nat, utime : Int]
    /\ diag \in [msg : Packets \cup {NoPacket}, no : Nat, utime : Int]
    /\ sim \in Int
    /\ due \in BOOLEAN

\* A message and its number belong together in what the loop processes, no
\* message is processed twice, none is overlooked while the loop runs: the
\* subscriber and the loop together are a mailbox.
Box == INSTANCE Mailbox WITH
    Messages <- Packets, NoMessage <- NoPacket,
    latest <- received, posted <- count, taken <- sub.msg, takenNo <- sub.no,
    open <- pc \notin {"stop", "join", "done", "failed"}
RefinesMailbox == Box!MailboxSpec
RefinesMailboxSafe == Box!MailboxSafe

\* Every pass of the loop has a message that no pass had before, however the
\* reader was woken.
EveryPassIsNew == [][pc = "update" /\ pc' # pc => sub'.no > sub.no]_vars

\* What is published at a new time is computed from the message the loop waited
\* for or a later one, although the diagram processed it on its own.
DiagramKeepsUp == [][ReachBoundary /\ sim' # sim => diag.no >= sub.no]_vars

\* The destructor waits for at most one more packet that is long enough.
StopIsSeen == pc = "join" /\ poller = "handle" ~> pc = "done"

\* AdvanceTo is never asked to go back, which would end the process.
NeverFails == pc # "failed"

\* What makes these inductive: the numbers only grow, and the loop leaves its
\* wait only for a larger one; and while the clock fits an int, the context's
\* message is never from before the simulator's time.
UdpInv ==
    /\ TypeOK
    /\ poller = "handle" => buffer # NoPacket
    /\ received = NoPacket <=> count = 0
    /\ sub.no <= count
    /\ pc = "update" => sub.no < count

ClockInv ==
    /\ UdpInv
    /\ NeverFails
    /\ sub.utime \in 0 .. now
    /\ sim <= sub.utime

=============================================================================
