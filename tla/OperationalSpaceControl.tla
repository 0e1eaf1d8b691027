---------------------- MODULE OperationalSpaceControl ----------------------
(***************************************************************************)
(* systems/controllers/osc/: which contacts and which costs are in the     *)
(* quadratic program that turns a message of the robot into a command.     *)
(* The program is built once and its coefficients are overwritten for      *)
(* every message; the state of the finite state machine chooses them, and  *)
(* so does the time since that state was last seen to change.  The numbers *)
(* themselves are left out, and so is use without a state machine.         *)
(*                                                                         *)
(* A controller INSTANCEs this module and says when its operators run.     *)
(***************************************************************************)
EXTENDS Integers

CONSTANTS
    ContactCalls,   \* arguments of AddStateAndContactPoint, [state, contact]
    TrackedStates,  \* name of a tracking data -> its state_, a set
    Lower, Upper    \* t_s_vec_ and t_e_vec_, by name

VARIABLES
    prev_fsm_state, prev_event_time,    \* discrete state
    forces,     \* contacts with a Jacobian in the dynamics
    cones,      \* contacts whose friction constraints are bounded below by 0
    tracked,    \* tracking data with track_at_current_state_
    costs,      \* tracking data whose cost is not zero
    sol,        \* u_sol_ and the others: the time of the message they are of
    debug       \* the lcmt_osc_output: what it names, and the message it is of

Contacts == {c.contact : c \in ContactCalls}

TrackingData == DOMAIN TrackedStates

\* Nothing in the program yet; friction constraints are made with bound 0.
Build ==
    /\ forces = {}
    /\ cones = Contacts
    /\ tracked = {}
    /\ costs = {}

Start(none) ==
    /\ Build
    /\ prev_fsm_state = none
    /\ prev_event_time = 0
    /\ sol = none
    /\ debug = [tracking_data |-> {}, sol |-> none]

\* Records the time at which the state was seen to change.
DiscreteVariableUpdate(fsm_state, timestamp) ==
    /\ prev_fsm_state' = fsm_state
    /\ prev_event_time' =
          IF fsm_state # prev_fsm_state THEN timestamp ELSE prev_event_time

\* A state without an entry in contact_indices_map_ has no active contact.
ActiveContacts(fsm_state) ==
    {c.contact : c \in {d \in ContactCalls : d.state = fsm_state}}

\* UpdateTrackingFlag: no state at all means every state.
TracksAt(d, fsm_state) ==
    TrackedStates[d] = {} \/ fsm_state \in TrackedStates[d]

Elapsed(timestamp) == timestamp - prev_event_time

\* Mutant: the window is of the clock, not of the time in the state.
InWindow_Clock(d, timestamp) == Lower[d] <= timestamp /\ timestamp <= Upper[d]

InWindow(d, timestamp) ==
    /\ Lower[d] <= Elapsed(timestamp)
    /\ Elapsed(timestamp) <= Upper[d]

\* Mutant: a cost that is no longer tracked keeps its coefficients.
CostsFor_Kept(fsm_state, timestamp) ==
    costs \cup {d \in TrackingData : TracksAt(d, fsm_state) /\ InWindow(d, timestamp)}

\* Whose coefficients are set; those of all others become zero.
CostsFor(fsm_state, timestamp) ==
    {d \in TrackingData : TracksAt(d, fsm_state) /\ InWindow(d, timestamp)}

\* The lower bounds are 0 for the active contacts and minus infinity otherwise.
ConesFor(fsm_state) == ActiveContacts(fsm_state)

\* The coefficients are overwritten and the program solved; the result of the
\* solver is taken as it is.
SolveQp(fsm_state, timestamp) ==
    /\ forces' = ActiveContacts(fsm_state)
    /\ cones' = ConesFor(fsm_state)
    /\ tracked' = {d \in TrackingData : TracksAt(d, fsm_state)}
    /\ costs' = CostsFor(fsm_state, timestamp)
    /\ sol' = timestamp

CalcOptimalInput(fsm_state, timestamp) ==
    /\ SolveQp(fsm_state, timestamp)
    /\ UNCHANGED <<prev_fsm_state, prev_event_time, debug>>

\* The debug message works out again which tracking data are in use, from the
\* flags and solutions that the last CalcOptimalInput left.
AssignOscLcmOutput(timestamp) ==
    /\ debug' = [tracking_data |-> {d \in tracked : InWindow(d, timestamp)},
                 sol |-> sol]
    /\ UNCHANGED <<prev_fsm_state, prev_event_time, forces, cones, tracked, costs, sol>>
=============================================================================
