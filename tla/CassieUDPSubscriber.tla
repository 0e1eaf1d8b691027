------------------------ MODULE CassieUDPSubscriber ------------------------
(***************************************************************************)
(* examples/Cassie/networking/cassie_udp_subscriber.cc: a Drake system     *)
(* that receives UDP packets on a thread of its own and hands the latest   *)
(* to the thread that runs the diagram.                                    *)
(*                                                                         *)
(* received, count and the condition variable are only touched under       *)
(* received_message_mutex_, so a critical section is one step.  So are     *)
(* poll, FIONREAD and recv together: nobody else reads the socket.         *)
(***************************************************************************)
EXTENDS Integers, Sequences

CONSTANTS
    MaxPackets,  \* bound: packets the senders send
    Room,        \* bound: packets the socket's buffer holds
    Sizes,       \* sizes of the packets that come, see Packets
    MaxNow,      \* bound: latest time of the steady clock, in microseconds
    HalfRange,   \* 2^31, half the range of an int
    NoPacket

\* A packet is shorter than, as long as, or longer than 2 + CASSIE_OUT_T_LEN.
Packets == [id : 1 .. MaxPackets, size : Sizes]

ASSUME SubscriberAssumption ==
    /\ MaxPackets \in Nat
    /\ Room \in Nat
    /\ Sizes \subseteq {"short", "exact", "long"}
    /\ MaxNow \in Nat
    /\ HalfRange \in Nat \ {0}
    /\ NoPacket \notin Packets

VARIABLES
    socket,    \* the socket's receive buffer
    sent,      \* how many packets were sent
    poller,    \* where the polling thread is
    buffer,    \* its receive_buffer
    keep,      \* keep_polling_
    received,  \* received_message_
    count,     \* received_message_count_
    asleep,    \* the reader waits on received_message_condition_variable_
    now        \* the steady clock, since start_

pollvars == <<socket, sent, poller, buffer, keep, received, count, now>>
subvars == <<pollvars, asleep>>

SubscriberInit ==
    /\ socket = <<>>
    /\ sent = 0
    /\ poller = "loop"
    /\ buffer = NoPacket
    /\ keep = TRUE
    /\ received = NoPacket
    /\ count = 0
    /\ asleep = FALSE
    /\ now = 0

------------------------------------------------------------------------------
\* The world.

\* A packet reaches the socket, or is lost when its buffer is full.
Arrive(p) ==
    /\ sent < MaxPackets
    /\ p.id = sent + 1
    /\ sent' = sent + 1
    /\ socket' = IF Len(socket) < Room THEN Append(socket, p) ELSE socket
    /\ UNCHANGED <<poller, buffer, keep, received, count, asleep, now>>

Tick ==
    /\ now < MaxNow
    /\ now' = now + 1
    /\ UNCHANGED <<socket, sent, poller, buffer, keep, received, count, asleep>>

------------------------------------------------------------------------------
\* The polling thread.

\* The head of the outer while loop.
TestKeepPolling ==
    /\ poller = "loop"
    /\ poller' = IF keep THEN "poll" ELSE "end"
    /\ UNCHANGED <<socket, sent, buffer, keep, received, count, asleep, now>>

\* des_len <= nbytes: recv then returns des_len, whatever is cut off.
LongEnough(p) == p.size \in {"exact", "long"}

\* poll blocks until there is a packet; it is read, or discarded if short.
Receive ==
    /\ poller = "poll"
    /\ socket # <<>>
    /\ socket' = Tail(socket)
    /\ IF LongEnough(Head(socket))
       THEN /\ buffer' = Head(socket)
            /\ poller' = "handle"
       ELSE UNCHANGED <<buffer, poller>>
    /\ UNCHANGED <<sent, keep, received, count, asleep, now>>

\* Mutant: the reader is not notified.
Notified_Never == asleep

\* Whether the reader still sleeps after notify_all.
Notified == FALSE

HandleMessage ==
    /\ poller = "handle"
    /\ received' = buffer
    /\ count' = count + 1
    /\ asleep' = Notified
    /\ poller' = "loop"
    /\ UNCHANGED <<socket, sent, buffer, keep, now>>

Poll == TestKeepPolling \/ Receive \/ HandleMessage

------------------------------------------------------------------------------
\* What the reader calls, with what its context holds.

\* A context's state: the message, its number and its utime.
Empty == [msg |-> NoPacket, no |-> 0, utime |-> 0]

\* A 64-bit count of microseconds stored in an int.
ToInt(n) == ((n + HalfRange) % (2 * HalfRange)) - HalfRange

\* Mutant: the time since the message before.
Utime_Elapsed(context) == ToInt(now - context.utime)

\* The time since start_, when the message is processed.
Utime(context) == ToInt(now)

\* ProcessMessageAndStoreToAbstractState.
Processed(context) ==
    [msg   |-> IF received = NoPacket THEN context.msg ELSE received,
     no    |-> count,
     utime |-> Utime(context)]

\* The condition under which WaitForMessage(old) waits.
MustWait(old) == old >= count

\* DoCalcNextUpdateTime schedules an update.
HasUpdate(context) == context.no # count

SubscriberTypeOK ==
    /\ socket \in Seq(Packets)
    /\ sent \in 0 .. MaxPackets
    /\ poller \in {"loop", "poll", "handle", "end"}
    /\ buffer \in {p \in Packets : p.size # "short"} \cup {NoPacket}
    /\ keep \in BOOLEAN
    /\ received \in {p \in Packets : p.size # "short"} \cup {NoPacket}
    /\ count \in Nat
    /\ asleep \in BOOLEAN
    /\ now \in 0 .. MaxNow
=============================================================================
