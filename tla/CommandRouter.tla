--------------------------- MODULE CommandRouter ---------------------------
(***************************************************************************)
(* What LcmDrivenLoop promises to the diagram it drives: the latest        *)
(* command of one active channel at a time, where a change of channel      *)
(* neither abandons a command of the old channel nor lets through one that *)
(* the new channel sent before the change.                                 *)
(***************************************************************************)
EXTENDS Integers

CONSTANTS Channels, InitialActive, MaxTime, NoMessage

VARIABLES active, inbox

rvars == <<active, inbox>>

RouterInit ==
    /\ active = InitialActive
    /\ inbox = [c \in Channels |-> NoMessage]

\* A channel's latest message replaces the one before it.
Hear(c, t) ==
    /\ inbox' = [inbox EXCEPT ![c] = t]
    /\ UNCHANGED active

\* The diagram consumes the active channel's command.
Apply ==
    /\ inbox[active] # NoMessage
    /\ inbox' = [inbox EXCEPT ![active] = NoMessage]
    /\ UNCHANGED active

\* Another channel becomes active, with an empty mailbox.
Redirect(c) ==
    /\ c # active
    /\ inbox[active] = NoMessage
    /\ active' = c
    /\ inbox' = [inbox EXCEPT ![c] = NoMessage]

RouterNext ==
    \/ \E c \in Channels, t \in 0 .. MaxTime : Hear(c, t)
    \/ Apply
    \/ \E c \in Channels : Redirect(c)

RouterSpec == RouterInit /\ [][RouterNext]_rvars
=============================================================================
