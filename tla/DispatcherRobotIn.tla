------------------------- MODULE DispatcherRobotIn -------------------------
(***************************************************************************)
(* examples/Cassie/dispatcher_robot_in.cc: the process that takes commands *)
(* of several controllers over LCM and sends torques to the robot.  An     *)
(* LcmDrivenLoop advances a diagram in which RobotInputReceiver feeds      *)
(* InputSupervisor, and publishes its outputs; LcmSubscriberSystems on the *)
(* same LCM object feed the supervisor's switch, state and radio ports.    *)
(*                                                                         *)
(* What one AdvanceTo of Drake's Simulator does, between a branch of the   *)
(* loop and its publish, is the phase machine below.  It first runs the    *)
(* events that were due at the time it starts from, LCM updates before     *)
(* sampled ones.  If it has time to go, it then latches messages that came *)
(* in meanwhile and runs the sampled updates on the way; an event due at   *)
(* the boundary itself stays pending until the next AdvanceTo.             *)
(* One tick is the supervisor's period, and a command's time may fall just *)
(* before, at, or just after the sample of its tick.                       *)
(***************************************************************************)
EXTENDS InputSupervisor

CONSTANTS
    Channels, UnknownNames, InitialActive, Second, EndTime, NoMessage,
    EffortOf,    \* the effort each controller commands
    SwitchTimes, \* bound: utimes of switch messages, a subset of Times
    Speeding,    \* values overspeed may take: a subset of BOOLEAN
    Radio        \* values radioStop may take: a subset of BOOLEAN

\* What LcmDrivenLoop assumes of its constants, and the shape of the others.
ASSUME DispatcherAssumption ==
    /\ InitialActive \in Channels
    /\ UnknownNames \cap Channels = {}
    /\ NoMessage \notin Channels \cup UnknownNames
    /\ NoMessage \notin Int
    /\ Second \in Nat
    /\ EndTime \in Int
    /\ EffortOf \in [Channels -> Efforts]
    /\ SwitchTimes \subseteq Times
    /\ Speeding \subseteq BOOLEAN
    /\ Radio \subseteq BOOLEAN

VARIABLES
    \* the loop
    pc, active, previous, inbox, switchBox, newInput, newSwitch, ctx, time,
    span, since,
    \* the simulator
    phase,       \* "loop", or how far AdvanceTo and the publish have got
    sample,      \* the sampled update of ctx's tick: done, pending or ahead
    due,         \* sampled updates left in this AdvanceTo
    pendSwitch,  \* an LCM update of the switch subscriber is pending
    mail,        \* the switch message its LcmSubscriberSystem received last
    mailNew,     \* ... and it is not latched
    \* ghosts
    owed,        \* the message that made the active channel active is not latched
    fromNew,     \* the command came after the active channel last changed
    heard,       \* how many commands were handled: none, one or more (0, 1, 2)
    rewound,     \* the clock was restarted and no update has run since
    gapNow       \* the command is more than MaxDelay after the one before it

Loop == INSTANCE LcmDrivenLoop

loopVars == <<pc, active, previous, inbox, switchBox, newInput, newSwitch,
              ctx, time, span, since>>
simVars == <<phase, sample, due, pendSwitch, mail, mailNew>>
history == <<owed, fromNew, heard, rewound, gapNow>>
vars == <<loopVars, svars, simVars, history>>

Init ==
    /\ Loop!Init
    /\ SupervisorInit
    /\ phase = "loop"
    /\ sample \in {"pending", "ahead"}
    /\ due = 0
    /\ pendSwitch = FALSE
    /\ mail = [utime |-> 0, blend |-> 0]
    /\ mailNew = FALSE
    /\ owed = FALSE
    /\ fromNew = TRUE
    /\ rewound = FALSE
    /\ heard = 0
    /\ gapNow = FALSE

------------------------------------------------------------------------------
(* The loop's steps, possible while no AdvanceTo runs. *)

ReceiveInput(c, t) ==
    /\ phase = "loop"
    /\ Loop!ReceiveInput(c, t)
    /\ UNCHANGED <<svars, simVars, history>>

\* Both the loop's subscriber and the switch LcmSubscriberSystem hear it.
ReceiveSwitch(n, m) ==
    /\ phase = "loop"
    /\ Loop!ReceiveSwitch(n)
    /\ mail' = m
    /\ mailNew' = TRUE
    /\ UNCHANGED <<svars, phase, sample, due, pendSwitch, history>>

Wait ==
    /\ phase = "loop"
    /\ Loop!FirstMessage \/ Loop!TestPredicate \/ Loop!EndPump
    /\ UNCHANGED <<svars, simVars, history>>

\* Other messages that may be latched when an AdvanceTo starts.
Sense ==
    /\ overspeed' \in Speeding
    /\ radioStop' \in Radio

\* The utime of the message that the parser's port is fixed to.
FixedTime == inbox[active]

\* The parser's port is fixed to the message before AdvanceTo.
HandleInput ==
    /\ phase = "loop"
    /\ Loop!HandleInput
    /\ command' = [ts |-> FixedTime, u |-> EffortOf[active]]
    /\ Sense
    /\ phase' = "pending"
    /\ IF Loop!AfterReset(inbox[active]) = ctx \/ sample = "pending"
       THEN UNCHANGED sample
       ELSE sample' \in {"done", "ahead"}
    /\ fromNew' = TRUE
    /\ heard' = IF heard < 2 THEN heard + 1 ELSE 2
    /\ rewound' = (rewound \/ inbox[active] < ctx)
    /\ gapNow' = (heard > 0 /\ ~rewound /\ inbox[active] - command.ts > MaxDelay)
    /\ UNCHANGED <<switchMsg, state, outputs, ghosts, due, pendSwitch, mail,
                   mailNew, owed>>

\* Mutant: no AdvanceTo after a switch, only the publish.
PhaseAfterSwitch_NoAdvance == "publish"

\* The switch branch advances before it publishes, like the input branch.
PhaseAfterSwitch == "pending"

HandleSwitch ==
    /\ phase = "loop"
    /\ Loop!HandleSwitch
    /\ Sense
    /\ phase' = PhaseAfterSwitch
    /\ IF active' # active
       THEN owed' = (mailNew \/ pendSwitch) /\ fromNew' = FALSE
       ELSE UNCHANGED <<owed, fromNew>>
    /\ UNCHANGED <<command, switchMsg, state, outputs, ghosts, sample, due,
                   pendSwitch, mail, mailNew, heard, rewound,
                   gapNow>>

------------------------------------------------------------------------------
(* AdvanceTo and the publish. *)

\* The switch LcmSubscriberSystem copies the latest message to its output.
LatchSwitch ==
    /\ switchMsg' = mail
    /\ mailNew' = FALSE
    /\ owed' = FALSE

PendingLatch ==
    /\ phase = "pending"
    /\ pendSwitch
    /\ LatchSwitch
    /\ pendSwitch' = FALSE
    /\ UNCHANGED <<loopVars, command, overspeed, radioStop, state, outputs,
                   ghosts, phase, sample, due, mail, fromNew, heard, rewound, gapNow>>

\* A sampled update of the supervisor, the only periodic one of the diagram.
Update ==
    /\ UpdateErrorFlag
    /\ rewound' = FALSE
    /\ UNCHANGED <<owed, fromNew, heard, gapNow>>

PendingUpdate ==
    /\ phase = "pending"
    /\ ~pendSwitch
    /\ sample = "pending"
    /\ Update
    /\ sample' = "done"
    /\ UNCHANGED <<loopVars, phase, due, pendSwitch, mail, mailNew>>

\* No time to go: a new message's update is scheduled for now, and waits.
ReachBoundary ==
    /\ phase = "pending"
    /\ ~pendSwitch
    /\ sample # "pending"
    /\ span = 0
    /\ pendSwitch' = mailNew
    /\ phase' = "publish"
    /\ UNCHANGED <<loopVars, svars, sample, due, mail, mailNew, history>>

\* A new message's update runs at once; the samples strictly inside follow.
Depart ==
    /\ phase = "pending"
    /\ ~pendSwitch
    /\ sample # "pending"
    /\ span > 0
    /\ IF mailNew THEN LatchSwitch ELSE UNCHANGED <<switchMsg, mailNew, owed>>
    /\ Sense
    /\ sample' \in {"done", "pending", "ahead"}
    /\ due' = span - 1 + (IF sample = "ahead" THEN 1 ELSE 0)
                       + (IF sample' = "done" THEN 1 ELSE 0)
    /\ phase' = "run"
    /\ UNCHANGED <<loopVars, command, state, outputs, ghosts, pendSwitch, mail,
                   fromNew, heard, rewound, gapNow>>

RunUpdate ==
    /\ phase = "run"
    /\ due > 0
    /\ Update
    /\ due' = due - 1
    /\ UNCHANGED <<loopVars, phase, sample, pendSwitch, mail, mailNew>>

\* AdvanceTo returned.
Publishing == phase = "publish" \/ (phase = "run" /\ due = 0)

\* The forced publish evaluates both outputs of the supervisor.
ForcedPublish ==
    /\ Publishing
    /\ Publish
    /\ phase' = "loop"
    /\ UNCHANGED <<loopVars, sample, due, pendSwitch, mail, mailNew, history>>

AdvanceStep == \/ PendingLatch \/ PendingUpdate \/ ReachBoundary \/ Depart
               \/ RunUpdate \/ ForcedPublish

Next ==
    \/ \E c \in Channels, t \in Times : ReceiveInput(c, t)
    \/ \E n \in Channels \cup UnknownNames, m \in [utime : SwitchTimes, blend : Blends] :
          ReceiveSwitch(n, m)
    \/ Wait
    \/ HandleInput
    \/ HandleSwitch
    \/ AdvanceStep

Spec == Init /\ [][Next]_vars

------------------------------------------------------------------------------
(* Properties. *)

\* The extra AdvanceTo of the switch branch does what its comment says: no
\* update of the supervisor sees a command of the new controller before it
\* sees the switch message, so a blend never starts from the new controller.
SwitchSeenFirst ==
    [][PendingUpdate \/ RunUpdate => ~(owed /\ fromNew)]_vars

\* A command that comes more than MaxDelay after the one before it never
\* reaches the motors, although updates of the same AdvanceTo have already
\* recorded a time for it.
GapShutsDown ==
    Publishing /\ gapNow =>
        radioStop \/ Blending \/ SetMotorTorques.val = 0

\* "If there has been an error, set the command to all zeros"
\* (for commands that are not older than the switch)
ErrorMeansZero ==
    Publishing /\ SinceSwitch >= 0 /\ IsError /\ ~radioStop =>
        SetMotorTorques.kind = "effort" /\ SetMotorTorques.val = 0

=============================================================================
