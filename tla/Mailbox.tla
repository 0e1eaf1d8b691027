------------------------------ MODULE Mailbox ------------------------------
(***************************************************************************)
(* What an asynchronous subscriber promises to the one thread that reads   *)
(* it: a mailbox of the latest message.  Every take sees a message that no *)
(* take saw before, together with its number, and a message that is there  *)
(* while the mailbox is open is taken unless a later one replaces it.      *)
(***************************************************************************)
EXTENDS Naturals

CONSTANTS Messages, NoMessage

VARIABLES latest, posted, taken, takenNo, open

mvars == <<latest, posted, taken, takenNo, open>>

MailboxInit ==
    /\ latest = NoMessage
    /\ posted = 0
    /\ taken = NoMessage
    /\ takenNo = 0
    /\ open = TRUE

Post(m) ==
    /\ latest' = m
    /\ posted' = posted + 1
    /\ UNCHANGED <<taken, takenNo, open>>

\* The reader may leave once it has seen the message.
Take ==
    /\ open
    /\ posted > takenNo
    /\ taken' = latest
    /\ takenNo' = posted
    /\ open' \in BOOLEAN
    /\ UNCHANGED <<latest, posted>>

MailboxNext == Take \/ \E m \in Messages : Post(m)

MailboxSafe == MailboxInit /\ [][MailboxNext]_mvars

MailboxSpec == MailboxSafe /\ WF_mvars(Take)
=============================================================================
