--------------------------- MODULE LcmDrivenLoop ---------------------------
(***************************************************************************)
(* systems/framework/lcm_driven_loop.h: the loop that lets incoming LCM    *)
(* messages drive a Drake diagram.  Several input channels may exist, one  *)
(* of them is active, and a message on the switch channel names another.   *)
(*                                                                         *)
(* Time is counted in ticks; Second is the number of ticks in the 1.0 s    *)
(* after which the loop decides that the driving clock was restarted.      *)
(* A drake::lcm::Subscriber keeps the latest message and a count, of which *)
(* the loop only asks whether it is positive: a mailbox here holds the     *)
(* utime of the latest message or NoMessage.  The LCM object is polled by  *)
(* the loop's own thread, so messages enter the mailboxes only while       *)
(* LcmHandleSubscriptionsUntil pumps (pc = "first" or "pump"), and each    *)
(* branch of the loop's body is one action.                                *)
(***************************************************************************)
EXTENDS Integers

CONSTANTS
    Channels,       \* the names in input_channels
    UnknownNames,   \* names a switch message may carry that are not inputs
    InitialActive,  \* the active_channel argument
    Second,         \* ticks in 1.0 s
    MaxTime,        \* bound: largest utime of a message, in ticks
    EndTime,        \* the end_time argument of Simulate
    NoMessage       \* an empty mailbox

\* lcm_driven_loop.h:97-126, the three DRAKE_DEMANDs of the constructor,
\* and the shape of the other constants
ASSUME LoopAssumption ==
    /\ InitialActive \in Channels
    /\ UnknownNames \cap Channels = {}
    /\ NoMessage \notin Channels \cup UnknownNames
    /\ NoMessage \notin Int
    /\ Second \in Nat
    /\ MaxTime \in Nat
    /\ EndTime \in Int

VARIABLES
    pc,         \* where the loop's thread is
    active,     \* active_channel_
    previous,   \* previous_active_channel_name
    inbox,      \* the subscribers of name_to_input_sub_map_
    switchBox,  \* switch_sub_
    newInput,   \* is_new_input_message
    newSwitch,  \* is_new_switch_message
    ctx,        \* the time of the diagram's context
    time,       \* the local "simulator" time
    span,       \* ghost: how far the last AdvanceTo was asked to go
    since       \* ghost: channels heard since the active channel last changed

vars == <<pc, active, previous, inbox, switchBox, newInput, newSwitch,
          ctx, time, span, since>>

Times == 0 .. MaxTime

\* A single-input loop has no switch subscriber.
MultiInput == \E c, d \in Channels : c # d

TypeOK ==
    /\ pc \in {"first", "test", "pump", "input", "switch", "failed", "done"}
    /\ active \in Channels
    /\ previous \in Channels
    /\ inbox \in [Channels -> Times \cup {NoMessage}]
    /\ switchBox \in Channels \cup UnknownNames \cup {NoMessage}
    /\ newInput \in BOOLEAN
    /\ newSwitch \in BOOLEAN
    /\ ctx \in Times
    /\ time \in Times
    /\ span \in Int
    /\ since \in SUBSET Channels

Init ==
    /\ pc = "first"
    /\ active = InitialActive
    /\ previous = InitialActive
    /\ inbox = [c \in Channels |-> NoMessage]
    /\ switchBox = NoMessage
    /\ newInput = FALSE
    /\ newSwitch = FALSE
    /\ ctx = 0
    /\ time = 0
    /\ span = 0
    /\ since = {}

------------------------------------------------------------------------------
\* What the pump of LcmHandleSubscriptionsUntil delivers.

\* A message with utime t arrives on input channel c; an older one is lost.
ReceiveInput(c, t) ==
    /\ pc \in {"first", "pump"}
    /\ inbox' = [inbox EXCEPT ![c] = t]
    /\ since' = since \cup {c}
    /\ UNCHANGED <<pc, active, previous, switchBox, newInput, newSwitch,
                   ctx, time, span>>

\* A switch message naming channel n arrives.
ReceiveSwitch(n) ==
    /\ pc \in {"first", "pump"}
    /\ MultiInput
    /\ switchBox' = n
    /\ UNCHANGED <<pc, active, previous, inbox, newInput, newSwitch,
                   ctx, time, span, since>>

------------------------------------------------------------------------------
\* The loop.

\* The head of the while loop, which resets both flags.
EnterLoop(t) == pc' = IF t < EndTime THEN "test" ELSE "done"

\* The first message of the active channel sets the context's time.
FirstMessage ==
    /\ pc = "first"
    /\ inbox[active] # NoMessage
    /\ ctx' = inbox[active]
    /\ EnterLoop(time)
    /\ UNCHANGED <<active, previous, inbox, switchBox, newInput, newSwitch,
                   time, span, since>>

\* Mutants: the switch branch goes first; only inputs end the wait.
Branch_SwitchFirst(input, switch) ==
    IF switch THEN "switch" ELSE IF input THEN "input" ELSE "pump"
Branch_InputOnly(input, switch) == IF input THEN "input" ELSE "pump"

\* Where an iteration goes once the wait's predicate is evaluated.
Branch(input, switch) ==
    IF input THEN "input" ELSE IF switch THEN "switch" ELSE "pump"

\* The predicate handed to LcmHandleSubscriptionsUntil: it is evaluated
\* before the first pump and after every pump.
TestPredicate ==
    /\ pc = "test"
    /\ newInput'  = (inbox[active] # NoMessage)
    /\ newSwitch' = (MultiInput /\ switchBox # NoMessage)
    /\ pc' = Branch(newInput', newSwitch')
    /\ UNCHANGED <<active, previous, inbox, switchBox, ctx, time, span, since>>

\* HandleSubscriptions returns.
EndPump ==
    /\ pc = "pump"
    /\ pc' = "test"
    /\ UNCHANGED <<active, previous, inbox, switchBox, newInput, newSwitch,
                   ctx, time, span, since>>

\* Mutant: a message from the past does not reset the context.
AfterReset_ForwardOnly(t) == IF t > ctx + Second THEN t ELSE ctx

\* "Check if we are very far ahead or behind": SetTime to the message's time.
AfterReset(t) == IF t > ctx + Second \/ t < ctx THEN t ELSE ctx

\* simulator_->AdvanceTo(to) with the context at from.  Drake throws when the
\* boundary time is in the past, and leaves the context at the boundary.
AdvanceTo(from, to) ==
    /\ span' = to - from
    /\ ctx' = IF to < from THEN from ELSE to

\* Mutant: the handled channel is not cleared.
ClearHandled_Never == inbox

\* The input branch clears the mailbox it handled.
ClearHandled == [inbox EXCEPT ![active] = NoMessage]

\* The input branch: fix the message into lcm_parser, advance, publish, clear.
HandleInput ==
    /\ pc = "input"
    /\ LET t == inbox[active] IN
         /\ time' = t
         /\ AdvanceTo(AfterReset(t), t)
         /\ IF span' < 0 THEN pc' = "failed"
            ELSE IF newSwitch THEN pc' = "switch" ELSE EnterLoop(t)
    /\ inbox' = ClearHandled
    /\ newInput' = FALSE
    /\ UNCHANGED <<active, previous, switchBox, newSwitch, since>>

\* The channel a switch message selects: unknown names change nothing.
Requested == IF switchBox \in Channels THEN switchBox ELSE active

\* Mutant: the new channel keeps what it holds.
ClearSelected_Never(c) == inbox

\* The new channel's mailbox is cleared if the active channel changed.
ClearSelected(c) ==
    IF previous # c THEN [inbox EXCEPT ![c] = NoMessage] ELSE inbox

\* The switch branch: take the name if it is an input, advance to the time
\* the context already has and publish again, and clear the mailboxes.
HandleSwitch ==
    /\ pc = "switch"
    /\ active' = Requested
    /\ AdvanceTo(ctx, time)
    /\ IF span' < 0 THEN pc' = "failed" ELSE EnterLoop(time)
    /\ switchBox' = NoMessage
    /\ inbox' = ClearSelected(active')
    /\ since' = IF active' # active THEN {} ELSE since
    /\ previous' = active'
    /\ newSwitch' = FALSE
    /\ UNCHANGED <<newInput, time>>

LoopStep == FirstMessage \/ TestPredicate \/ EndPump \/ HandleInput \/ HandleSwitch

Next ==
    \/ \E c \in Channels, t \in Times : ReceiveInput(c, t)
    \/ \E n \in Channels \cup UnknownNames : ReceiveSwitch(n)
    \/ LoopStep

Spec == Init /\ [][Next]_vars

\* The loop's thread keeps running; nothing is assumed of the senders.
FairSpec == Spec /\ WF_vars(LoopStep)

------------------------------------------------------------------------------
(* Properties. *)

\* Every AdvanceTo of the loop, in either branch and whatever the senders'
\* clocks did, is asked for a boundary that is neither in the past (Drake
\* would throw, and the process with it) nor more than a second ahead.
AdvanceInRange == pc # "failed" /\ span \in 0 .. Second

\* The command the loop would handle next was sent after its channel last
\* became active: what a controller sent while another was active never
\* reaches the robot.
NoStaleCommand == inbox[active] # NoMessage => active \in since

\* The strengthening that makes the properties above inductive: a branch runs
\* with what its flag says, the switch branch only once the old channel's last
\* command was handled, and then the context stands at the loop's time.
LoopInv ==
    /\ TypeOK
    /\ AdvanceInRange
    /\ NoStaleCommand
    /\ previous = active
    /\ pc = "input" => inbox[active] # NoMessage
    /\ pc = "switch" => inbox[active] = NoMessage
    /\ pc \in {"pump", "switch"} => ctx = time
    /\ pc = "test" => ctx = time \/ inbox[active] # NoMessage

\* A request to switch to an input channel makes that channel active unless a
\* later request replaces it or the loop reaches its end time.  The loop only
\* looks at requests after the first input of the initial channel.
SwitchHonoured ==
    \A c \in Channels :
        pc # "first" /\ switchBox = c ~>
            active = c \/ switchBox \notin {c, NoMessage} \/ pc = "done"

\* A command on the active channel is handled.
CommandHandled ==
    \A c \in Channels :
        active = c /\ inbox[c] # NoMessage ~> inbox[c] = NoMessage \/ pc = "done"

\* The loop is a command router.
Router == INSTANCE CommandRouter
RefinesRouter == Router!RouterSpec
=============================================================================
