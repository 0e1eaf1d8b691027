---------------------- MODULE JumpingController_proofs ----------------------
(***************************************************************************)
(* What the jumping controller guarantees for every delay, all transition  *)
(* times, both kinds of guards and messages of any time and contacts: the  *)
(* machine keeps its order and its delay, and the controller follows what  *)
(* the phase is made of.  JumpInv is inductive; it says what the machine's *)
(* memory is worth between two updates, and how old the controller's is.   *)
(***************************************************************************)
EXTENDS JumpingController, TLAPS

\* What the machine remembers of the guard is true of the run it is in.
MemoryInv ==
    /\ stage # "advanced" => updated
    /\ updated => prev_time <= timestamp
    /\ timestamp < prev_time => firstSeen = None
    /\ ~hidden /\ prev_time <= timestamp /\ Delayed(fsm_state) =>
           /\ transition_flag <=> firstSeen # None
           /\ firstSeen # None => state_trigger_time = firstSeen

\* The generator's measurement belongs to the landing, or is about to.
LandingInv ==
    fsm_state = LAND /\ config.init_state \in {BALANCE, CROUCH} =>
        \/ com_fsm_state = LAND /\ com_x_offset >= prev_time
        \/ com_fsm_state = FLIGHT /\ (updated => timestamp = prev_time)

JumpTypeOK ==
    /\ TypeOK
    /\ stage \in {"advanced", "commanded", "published"}
    /\ com_fsm_state \in Phases
    /\ com_x_offset \in Times
    /\ prev_event_time \in Times
    /\ restarted \in BOOLEAN

\* The debug message works from flags and times that are still the command's.
FollowInv ==
    /\ ~restarted => prev_event_time <= timestamp
    /\ Commanded =>
           /\ tracked = {d \in Names : fsm_state \in StatesToTrack[d]}
           /\ costs = {d \in tracked : prev_event_time <= timestamp}
           /\ sol = timestamp
    /\ FollowsThePhase
    /\ FollowsFreshTrajectories

JumpInv == JumpTypeOK /\ MemoryInv /\ LandingInv /\ FollowInv

------------------------------------------------------------------------------
(* The machine. *)

\* The update's reset, part by part.
LEMMA ResetParts ==
  ASSUME TypeOK
  PROVE  /\ Now \in Memory
         /\ Reset(Now) \in Memory
         /\ timestamp < prev_time =>
                Reset(Now) = [phase |-> config.init_state, since |-> timestamp,
                              trigger |-> state_trigger_time, flag |-> FALSE]
         /\ prev_time <= timestamp => Reset(Now) = Now
<1> USE JumpAssumption DEF JumpAssumption, TypeOK, Memory, Now, Reset, Times, Config
<1>1. Now \in Memory
  OBVIOUS
<1>2. config.init_state \in Phases /\ timestamp \in Int /\ prev_time \in Int
  OBVIOUS
<1>3. CASE timestamp < prev_time
  <2>1. Reset(Now) = [phase |-> config.init_state, since |-> timestamp,
                      trigger |-> state_trigger_time, flag |-> FALSE]
    BY <1>3
  <2>2. Reset(Now) \in Memory
    BY <1>1, <1>2, <2>1
  <2>3. QED
    BY <1>1, <1>2, <1>3, <2>1, <2>2
<1>4. CASE prev_time <= timestamp
  BY <1>1, <1>2, <1>4
<1>5. QED
  BY <1>2, <1>3, <1>4

\* A transition enters the next phase and forgets the guard; without one a
\* guard that was seen is remembered from when it was seen first.
LEMMA TransitionParts ==
  ASSUME TypeOK, NEW s \in Memory
  PROVE  /\ Transition(s) \in Memory
         /\ Transition(s).phase \in {s.phase, s.phase + 1}
         /\ Transition(s).phase = s.phase =>
                /\ Transition(s).since = s.since
                /\ Delayed(s.phase) =>
                       /\ Transition(s).flag <=> s.flag \/ Guard(s.phase)
                       /\ Transition(s).trigger =
                             IF ~s.flag /\ Guard(s.phase) THEN timestamp ELSE s.trigger
         /\ Transition(s).phase # s.phase =>
                Transition(s).since = timestamp /\ Transition(s).flag = FALSE
         /\ Delayed(s.phase) =>
                (Transition(s).phase = s.phase + 1 <=>
                    \/ s.flag /\ timestamp - s.trigger >= config.delay
                    \/ ~s.flag /\ Guard(s.phase) /\ config.delay = 0)
<1> USE JumpAssumption DEF JumpAssumption, Memory, Phases, BALANCE, CROUCH, FLIGHT, LAND
<1>1. timestamp \in Times /\ timestamp \in Int /\ config.delay \in Nat
  BY DEF TypeOK, Times, Config
<1>2. ASSUME NEW e \in Memory, NEW p \in Phases
      PROVE  /\ Enter(p, e) \in Memory
             /\ Enter(p, e).phase = p /\ Enter(p, e).since = timestamp
             /\ Enter(p, e).flag = FALSE
  <2> DEFINE a == [e EXCEPT !.phase = p]
  <2> DEFINE b == [a EXCEPT !.since = timestamp]
  <2>1. a \in Memory /\ a.phase = p
    OBVIOUS
  <2>2. b \in Memory /\ b.phase = p /\ b.since = timestamp
    BY <1>1, <2>1
  <2>3. Enter(p, e) = [b EXCEPT !.flag = FALSE]
    BY Zenon DEF Enter
  <2> HIDE DEF b
  <2>4. QED
    BY <2>2, <2>3
<1>3. CASE s.phase = BALANCE
  <2>1. ~Delayed(s.phase) /\ CROUCH \in Phases /\ CROUCH = s.phase + 1
    BY <1>3 DEF Delayed
  <2>2. CASE timestamp > TransitionTimes[BALANCE]
    <3> DEFINE e == Enter(CROUCH, s)
    <3>1. Transition(s) = e
      BY <1>3, <2>1, <2>2, Zenon DEF Transition
    <3>2. /\ e \in Memory /\ e.phase = CROUCH
          /\ e.since = timestamp /\ e.flag = FALSE
      BY <1>2, <2>1
    <3> HIDE DEF e
    <3>3. QED
      BY <1>3, <2>1, <3>1, <3>2
  <2>3. CASE ~(timestamp > TransitionTimes[BALANCE])
    <3>1. Transition(s) = s
      BY <1>3, <2>1, <2>3, Zenon DEF Transition
    <3>2. QED
      BY <1>3, <2>1, <3>1
  <2>4. QED
    BY <2>2, <2>3
<1>4. CASE s.phase = LAND
  BY <1>1, <1>4 DEF Transition, Delayed
<1>5. CASE Delayed(s.phase)
  <2> DEFINE d == Detect(s)
  <2>1. /\ d \in Memory /\ d.phase = s.phase /\ d.since = s.since
        /\ d.flag <=> s.flag \/ Guard(s.phase)
        /\ d.trigger = IF ~s.flag /\ Guard(s.phase) THEN timestamp ELSE s.trigger
    <3>1. CASE Guard(s.phase) /\ ~s.flag
      <4> DEFINE a == [s EXCEPT !.trigger = timestamp]
      <4>1. a \in Memory /\ a.phase = s.phase /\ a.since = s.since /\ a.trigger = timestamp
        BY <1>1
      <4>2. d = [a EXCEPT !.flag = TRUE]
        BY <3>1, Zenon DEF Detect
      <4> HIDE DEF a, d
      <4>3. /\ d \in Memory /\ d.phase = s.phase /\ d.since = s.since
            /\ d.flag = TRUE /\ d.trigger = timestamp
        BY <4>1, <4>2
      <4>4. QED
        BY <3>1, <4>3, Zenon
    <3>2. CASE ~(Guard(s.phase) /\ ~s.flag)
      <4>1. d = s
        BY <3>2, Zenon DEF Detect
      <4>2. QED
        BY <3>2, <4>1, Zenon
    <3>3. QED
      BY <3>1, <3>2, Zenon
  <2>2. Transition(s) = IF d.flag /\ timestamp - d.trigger >= config.delay
                        THEN Enter(s.phase + 1, d) ELSE d
    BY <1>5 DEF Transition, Delayed
  <2>3. s.phase + 1 \in Phases /\ s.phase + 1 # s.phase
    BY <1>5 DEF Delayed
  <2> HIDE DEF d
  <2>4. d.flag /\ timestamp - d.trigger >= config.delay <=>
            \/ s.flag /\ timestamp - s.trigger >= config.delay
            \/ ~s.flag /\ Guard(s.phase) /\ config.delay = 0
    <3>1. timestamp - timestamp >= config.delay <=> config.delay = 0
      BY <1>1
    <3>2. QED
      BY <2>1, <3>1
  <2>5. CASE d.flag /\ timestamp - d.trigger >= config.delay
    <3>1. Transition(s) = Enter(s.phase + 1, d)
      BY <2>2, <2>5
    <3>2. QED
      <4> DEFINE e == Enter(s.phase + 1, d)
      <4>1. /\ e \in Memory /\ e.phase = s.phase + 1
            /\ e.since = timestamp /\ e.flag = FALSE
        BY <1>2, <2>1, <2>3
      <4>2. Transition(s) = e
        BY <3>1
      <4> HIDE DEF e
      <4>3. QED
        BY <2>3, <2>4, <2>5, <4>1, <4>2
  <2>6. CASE ~(d.flag /\ timestamp - d.trigger >= config.delay)
    <3>1. Transition(s) = d
      BY <2>2, <2>6
    <3>2. QED
      BY <2>1, <2>3, <2>4, <2>6, <3>1
  <2>7. QED
    BY <2>5, <2>6
<1>6. s.phase = BALANCE \/ s.phase = LAND \/ Delayed(s.phase)
  BY DEF Delayed
<1>7. QED
  BY <1>3, <1>4, <1>5, <1>6

\* The whole update.
LEMMA UpdateParts ==
  ASSUME TypeOK, DiscreteVariableUpdate
  PROVE  \E r \in Memory, s \in Memory :
            /\ r = Reset(Now) /\ s = Transition(r)
            /\ fsm_state' = s.phase /\ prev_time' = s.since
            /\ state_trigger_time' = s.trigger /\ transition_flag' = s.flag
            /\ firstSeen' = IF s.phase = r.phase THEN Seen(s) ELSE None
            /\ hidden' = (hidden /\ s.since = prev_time)
            /\ updated' = TRUE
            /\ config' = config /\ timestamp' = timestamp /\ contacts' = contacts
  BY ResetParts, TransitionParts DEF DiscreteVariableUpdate

\* The machine's memory keeps its types.
LEMMA UpdateTypes ==
  ASSUME TypeOK, DiscreteVariableUpdate
  PROVE  TypeOK'
<1>1. PICK r \in Memory, s \in Memory :
            /\ r = Reset(Now) /\ s = Transition(r)
            /\ fsm_state' = s.phase /\ prev_time' = s.since
            /\ state_trigger_time' = s.trigger /\ transition_flag' = s.flag
            /\ firstSeen' = IF s.phase = r.phase THEN Seen(s) ELSE None
            /\ hidden' = (hidden /\ s.since = prev_time)
            /\ updated' = TRUE
            /\ config' = config /\ timestamp' = timestamp /\ contacts' = contacts
  BY UpdateParts
<1>2. s = [phase |-> s.phase, since |-> s.since, trigger |-> s.trigger, flag |-> s.flag]
  BY DEF Memory
<1>3. Now' = s
  BY <1>1, <1>2 DEF Now
<1>4. firstSeen' \in Times \cup {None}
  BY <1>1 DEF Seen, TypeOK
<1>5. hidden' \in BOOLEAN
  BY <1>1
<1>6. QED
  BY <1>1, <1>3, <1>4, <1>5 DEF TypeOK, Times, Memory

\* The update keeps the memory true: what it remembers of a guard was seen in
\* this phase and in this run.
LEMMA UpdateMemory ==
  ASSUME JumpInv, Update
  PROVE  MemoryInv'
<1>1. TypeOK /\ MemoryInv /\ DiscreteVariableUpdate
  BY DEF JumpInv, JumpTypeOK, Update
<1>2. PICK r \in Memory, s \in Memory :
            /\ r = Reset(Now) /\ s = Transition(r)
            /\ fsm_state' = s.phase /\ prev_time' = s.since
            /\ state_trigger_time' = s.trigger /\ transition_flag' = s.flag
            /\ firstSeen' = IF s.phase = r.phase THEN Seen(s) ELSE None
            /\ hidden' = (hidden /\ s.since = prev_time)
            /\ updated' = TRUE
            /\ config' = config /\ timestamp' = timestamp /\ contacts' = contacts
  BY <1>1, UpdateParts
<1>3. /\ s.phase \in {r.phase, r.phase + 1}
      /\ s.phase = r.phase =>
            /\ s.since = r.since
            /\ Delayed(r.phase) =>
                   /\ s.flag <=> r.flag \/ Guard(r.phase)
                   /\ s.trigger = IF ~r.flag /\ Guard(r.phase) THEN timestamp ELSE r.trigger
      /\ s.phase # r.phase => s.since = timestamp /\ s.flag = FALSE
  BY <1>1, <1>2, TransitionParts
<1>4. timestamp \in Int /\ prev_time \in Int /\ timestamp \in Times /\ None \notin Times
  BY <1>1, JumpAssumption DEF TypeOK, Times, Memory, Now, JumpAssumption
<1>5. r.since <= timestamp
  BY <1>1, <1>2, <1>4, ResetParts DEF Now
<1>6. prev_time' <= timestamp'
  BY <1>2, <1>3, <1>4, <1>5
<1>7. ~hidden' /\ Delayed(fsm_state') =>
          /\ transition_flag' <=> firstSeen' # None
          /\ firstSeen' # None => state_trigger_time' = firstSeen'
  <2>1. CASE s.phase # r.phase
    BY <1>2, <1>3, <2>1
  <2>2. CASE s.phase = r.phase /\ timestamp < prev_time
    <3>1. r.flag = FALSE /\ firstSeen = None
      BY <1>1, <2>2, <1>2, ResetParts DEF MemoryInv
    <3>2. Seen(s) = IF Delayed(s.phase) /\ Guard(s.phase) THEN timestamp ELSE None
      BY <3>1 DEF Seen
    <3>3. QED
      BY <1>2, <1>3, <1>4, <2>2, <3>1, <3>2
  <2>3. CASE s.phase = r.phase /\ prev_time <= timestamp
    <3>1. r.phase = fsm_state /\ r.flag = transition_flag /\ r.trigger = state_trigger_time
          /\ r.since = prev_time
      BY <1>1, <1>2, <2>3, ResetParts DEF Now
    <3>2. hidden' = hidden
      BY <1>1, <1>2, <1>3, <2>3, <3>1 DEF TypeOK
    <3>3. ASSUME ~hidden, Delayed(fsm_state)
          PROVE  /\ transition_flag <=> firstSeen # None
                 /\ firstSeen # None => state_trigger_time = firstSeen
      BY <1>1, <2>3, <3>3 DEF MemoryInv
    <3>4. Delayed(s.phase) =>
             Seen(s) = IF firstSeen = None /\ Guard(s.phase) THEN timestamp ELSE firstSeen
      BY DEF Seen
    <3>5. QED
      BY <1>2, <1>3, <1>4, <2>3, <3>1, <3>2, <3>3, <3>4
  <2>4. QED
    BY <1>4, <2>1, <2>2, <2>3
<1>8. stage' = "advanced" /\ updated' = TRUE
  BY <1>2 DEF Update
<1>9. timestamp' \in Int /\ prev_time' \in Int
  BY <1>1, UpdateTypes DEF TypeOK, Times, Memory, Now
<1>10. QED
  BY <1>6, <1>7, <1>8, <1>9 DEF MemoryInv

\* The machine's step from the memory the invariant describes: in a phase with a
\* delay it goes on exactly when the delay since the first sight has passed.
LEMMA UpdateDelay ==
  ASSUME JumpInv, Update, ~hidden, timestamp >= prev_time, Delayed(fsm_state)
  PROVE  fsm_state' = fsm_state + 1 <=>
             Seen(Now) # None /\ timestamp - Seen(Now) >= config.delay
<1>1. TypeOK /\ MemoryInv /\ DiscreteVariableUpdate
  BY DEF JumpInv, JumpTypeOK, Update
<1>2. /\ timestamp \in Int /\ prev_time \in Int /\ timestamp \in Times
      /\ None \notin Int /\ config.delay \in Nat
  BY <1>1, JumpAssumption DEF TypeOK, Times, Memory, Now, JumpAssumption, Config
<1>3. Reset(Now) = Now /\ Now \in Memory
  BY <1>1, <1>2, ResetParts
<1>4. Now.phase = fsm_state /\ Now.flag = transition_flag /\ Now.trigger = state_trigger_time
  BY DEF Now
<1>5. fsm_state' = Transition(Now).phase
  BY <1>1, <1>3 DEF DiscreteVariableUpdate
<1>6. fsm_state' = fsm_state + 1 <=>
          \/ transition_flag /\ timestamp - state_trigger_time >= config.delay
          \/ ~transition_flag /\ Guard(fsm_state) /\ config.delay = 0
  BY <1>1, <1>3, <1>4, <1>5, TransitionParts
<1>7. /\ transition_flag <=> firstSeen # None
      /\ firstSeen # None => state_trigger_time = firstSeen
  BY <1>1, <1>2 DEF MemoryInv
<1>8. Seen(Now) = IF firstSeen = None /\ Guard(fsm_state) THEN timestamp ELSE firstSeen
  BY <1>4 DEF Seen
<1>9. timestamp # None /\ (timestamp - timestamp >= config.delay <=> config.delay = 0)
  BY <1>2
<1>10. QED
  BY <1>6, <1>7, <1>8, <1>9

\* Where the phase can go in one update.
LEMMA UpdateOrder ==
  ASSUME TypeOK, DiscreteVariableUpdate
  PROVE  /\ prev_time <= timestamp => fsm_state' \in {fsm_state, fsm_state + 1}
         /\ timestamp < prev_time =>
                fsm_state' \in {config.init_state, config.init_state + 1}
         /\ fsm_state' # fsm_state /\ prev_time <= timestamp => prev_time' = timestamp
         /\ fsm_state' = fsm_state /\ prev_time <= timestamp => prev_time' = prev_time
         /\ timestamp < prev_time => prev_time' = timestamp
<1>1. /\ fsm_state' = Transition(Reset(Now)).phase
      /\ prev_time' = Transition(Reset(Now)).since
  BY DEF DiscreteVariableUpdate
<1>2. Now.phase = fsm_state /\ Now.since = prev_time
  BY DEF Now
<1>3. Reset(Now) \in Memory
  BY ResetParts
<1>4. /\ timestamp < prev_time =>
             Reset(Now).phase = config.init_state /\ Reset(Now).since = timestamp
      /\ prev_time <= timestamp =>
             Reset(Now).phase = fsm_state /\ Reset(Now).since = prev_time
  BY <1>2, ResetParts
<1> DEFINE r == Reset(Now)
<1>5. /\ Transition(r).phase \in {r.phase, r.phase + 1}
      /\ Transition(r).phase = r.phase => Transition(r).since = r.since
      /\ Transition(r).phase # r.phase => Transition(r).since = timestamp
  BY <1>3, TransitionParts
<1> HIDE DEF r
<1>6. QED
  BY <1>1, <1>4, <1>5 DEF r

------------------------------------------------------------------------------
(* The controller. *)

\* The generator sees the touchdown by the update after it.
LEMMA UpdateLanding ==
  ASSUME JumpInv, Update
  PROVE  LandingInv'
<1>1. TypeOK /\ JumpTypeOK /\ LandingInv /\ DiscreteVariableUpdate /\ ComUpdate
  BY DEF JumpInv, JumpTypeOK, Update
<1>2. /\ timestamp \in Int /\ prev_time \in Int /\ fsm_state \in Phases
      /\ config.init_state \in Phases
  BY <1>1, JumpAssumption DEF TypeOK, Times, Memory, Now, JumpAssumption, Config
<1>3. /\ com_fsm_state' = fsm_state
      /\ com_x_offset' = IF com_fsm_state # fsm_state THEN timestamp ELSE com_x_offset
      /\ timestamp' = timestamp /\ config' = config /\ updated' = TRUE
  BY <1>1 DEF ComUpdate, DiscreteVariableUpdate
<1>4. SUFFICES ASSUME fsm_state' = LAND, config.init_state \in {BALANCE, CROUCH}
               PROVE  \/ com_fsm_state' = LAND /\ com_x_offset' >= prev_time'
                      \/ com_fsm_state' = FLIGHT /\ timestamp' = prev_time'
  BY <1>3 DEF LandingInv
<1>5. prev_time <= timestamp
  BY <1>1, <1>2, <1>4, UpdateOrder DEF BALANCE, CROUCH, LAND
<1>6. CASE fsm_state = LAND
  <2>1. prev_time' = prev_time
    BY <1>1, <1>4, <1>5, <1>6, UpdateOrder
  <2>2. com_fsm_state = LAND => com_x_offset >= prev_time
    BY <1>1, <1>4, <1>6 DEF LandingInv, LAND, FLIGHT
  <2>3. QED
    BY <1>3, <1>5, <1>6, <2>1, <2>2, <1>2
<1>7. CASE fsm_state # LAND
  <2>1. fsm_state = FLIGHT
    BY <1>1, <1>2, <1>4, <1>5, <1>7, UpdateOrder DEF Phases, BALANCE, CROUCH, FLIGHT, LAND
  <2>2. prev_time' = timestamp
    BY <1>1, <1>4, <1>5, <1>7, UpdateOrder
  <2>3. QED
    BY <1>3, <2>1, <2>2
<1>8. QED
  BY <1>6, <1>7

\* The controller's record of the last change is of this run, or it is known
\* that the clock was restarted.
LEMMA UpdateFollow ==
  ASSUME JumpInv, Update
  PROVE  FollowInv' /\ prev_event_time' \in Times /\ restarted' \in BOOLEAN
<1>1. TypeOK /\ JumpTypeOK /\ FollowInv
  BY DEF JumpInv, JumpTypeOK
<1>2. /\ timestamp \in Times /\ timestamp \in Int
      /\ prev_event_time \in Times
      /\ timestamp' = timestamp /\ stage' = "advanced"
      /\ restarted' = (restarted /\ fsm_state = prev_fsm_state)
      /\ prev_event_time' = IF fsm_state # prev_fsm_state THEN timestamp ELSE prev_event_time
  BY <1>1 DEF JumpTypeOK, TypeOK, Times, Update, DiscreteVariableUpdate,
              Osc!DiscreteVariableUpdate
<1>3. ~Commanded'
  BY <1>2 DEF Commanded
<1>4. ~restarted' => prev_event_time' <= timestamp'
  <2>1. ~restarted' => ~restarted \/ fsm_state # prev_fsm_state
    BY <1>2, Zenon
  <2>2. ~restarted => prev_event_time <= timestamp
    BY <1>1 DEF FollowInv
  <2>3. timestamp <= timestamp
    BY <1>2
  <2>4. QED
    BY <1>2, <2>1, <2>2, <2>3, Zenon
<1>5. QED
  BY <1>2, <1>3, <1>4 DEF FollowInv, FollowsThePhase, FollowsFreshTrajectories

\* A command is made of the phase that the machine is in.
LEMMA CommandFollows ==
  ASSUME JumpInv, PublishCommand
  PROVE  FollowInv'
<1>1. TypeOK /\ JumpTypeOK /\ FollowInv
  BY DEF JumpInv, JumpTypeOK
<1>2. /\ timestamp \in Times /\ timestamp \in Int /\ prev_event_time \in Times
      /\ fsm_state \in Phases /\ MaxTime \in Nat
  BY <1>1, JumpAssumption DEF JumpTypeOK, TypeOK, Times, Memory, Now, JumpAssumption
<1>3. /\ timestamp' = timestamp /\ fsm_state' = fsm_state /\ restarted' = restarted
      /\ prev_event_time' = prev_event_time /\ stage' = "commanded"
      /\ sol' = timestamp
      /\ fresh' = {d \in Names : Generates(d)}
  BY DEF PublishCommand, fsmVars, vars, Osc!CalcOptimalInput, Osc!SolveQp
<1>4. /\ forces' = Osc!ActiveContacts(fsm_state)
      /\ cones' = Osc!ActiveContacts(fsm_state)
      /\ tracked' = {d \in Osc!TrackingData : Osc!TracksAt(d, fsm_state)}
      /\ costs' = {d \in Osc!TrackingData : Osc!TracksAt(d, fsm_state)
                                             /\ Osc!InWindow(d, timestamp)}
  BY DEF PublishCommand, Osc!CalcOptimalInput, Osc!SolveQp, Osc!CostsFor, Osc!ConesFor
<1>5. Osc!TrackingData = Names
  BY DEF Osc!TrackingData, StatesToTrack
<1>6. ASSUME NEW d \in Names
      PROVE  /\ Osc!TracksAt(d, fsm_state) <=> fsm_state \in StatesToTrack[d]
             /\ Osc!InWindow(d, timestamp) <=> prev_event_time <= timestamp
  <2>1. StatesToTrack[d] = IF d \in InFlight THEN {FLIGHT} ELSE StanceModes
    BY DEF StatesToTrack
  <2>2. StatesToTrack[d] # {}
    BY <2>1 DEF StanceModes
  <2>3. timestamp - prev_event_time <= MaxTime
    BY <1>2 DEF Times
  <2>4. 0 <= timestamp - prev_event_time <=> prev_event_time <= timestamp
    BY <1>2 DEF Times
  <2>5. QED
    BY <2>2, <2>3, <2>4 DEF Osc!TracksAt, Osc!InWindow, Osc!Elapsed
<1>7. /\ tracked' = {d \in Names : fsm_state \in StatesToTrack[d]}
      /\ costs' = {d \in Names : fsm_state \in StatesToTrack[d]
                                 /\ prev_event_time <= timestamp}
  BY <1>4, <1>5, <1>6
<1>8. Osc!ActiveContacts(fsm_state) = IF fsm_state = FLIGHT THEN {} ELSE Feet
  <2>1. CASE fsm_state = FLIGHT
    BY <2>1 DEF Osc!ActiveContacts, StanceContacts, StanceModes, BALANCE, CROUCH, FLIGHT, LAND
  <2>2. CASE fsm_state # FLIGHT
    <3>1. fsm_state \in StanceModes
      BY <1>2, <2>2 DEF StanceModes, Phases, BALANCE, CROUCH, FLIGHT, LAND
    <3>2. ASSUME NEW f \in Feet
          PROVE  \E c \in {e \in StanceContacts : e.state = fsm_state} : c.contact = f
      <4>1. [state |-> fsm_state, contact |-> f] \in StanceContacts
        BY <3>1 DEF StanceContacts
      <4>2. QED
        BY <4>1
    <3>3. \A c \in StanceContacts : c.contact \in Feet
      BY DEF StanceContacts
    <3>4. QED
      BY <2>2, <3>2, <3>3 DEF Osc!ActiveContacts
  <2>3. QED
    BY <2>1, <2>2
<1>9. FollowsThePhase'
  <2>1. ~restarted' => costs' = {d \in Names : fsm_state' \in StatesToTrack[d]}
    BY <1>1, <1>3, <1>7 DEF FollowInv
  <2>2. costs' \subseteq {d \in Names : fsm_state' \in StatesToTrack[d]}
    BY <1>3, <1>7
  <2>3. stage' # "published"
    BY <1>3
  <2>4. QED
    BY <1>3, <1>4, <1>8, <2>1, <2>2, <2>3 DEF FollowsThePhase
<1>10. FollowsFreshTrajectories'
  <2>1. ASSUME NEW d \in Names, fsm_state \in StatesToTrack[d]
        PROVE  Generates(d)
    <3>1. CASE d \in InFlight
      BY <2>1, <3>1 DEF StatesToTrack, Generates, InFlight
    <3>2. CASE d \notin InFlight
      BY <2>1, <3>2 DEF StatesToTrack, Generates, InFlight
    <3>3. QED
      BY <3>1, <3>2
  <2>2. costs' \subseteq fresh'
    BY <1>3, <1>7, <2>1
  <2>3. QED
    BY <2>2 DEF FollowsFreshTrajectories
<1>11. costs' = {d \in tracked' : prev_event_time' <= timestamp'}
  BY <1>3, <1>7
<1>12. QED
  BY <1>1, <1>3, <1>7, <1>9, <1>10, <1>11 DEF FollowInv

\* The debug message names what the command was made of.
LEMMA DebugFollows ==
  ASSUME JumpInv, PublishDebug
  PROVE  FollowInv'
<1>1. TypeOK /\ JumpTypeOK /\ FollowInv
  BY DEF JumpInv, JumpTypeOK
<1>2. /\ timestamp \in Int /\ prev_event_time \in Int /\ MaxTime \in Nat
      /\ timestamp \in Times /\ prev_event_time \in Times
  BY <1>1, JumpAssumption DEF JumpTypeOK, TypeOK, Times, JumpAssumption
<1>3. /\ timestamp' = timestamp /\ fsm_state' = fsm_state /\ restarted' = restarted
      /\ prev_event_time' = prev_event_time /\ stage = "commanded" /\ stage' = "published"
      /\ sol' = sol /\ fresh' = fresh /\ forces' = forces /\ cones' = cones
      /\ tracked' = tracked /\ costs' = costs
      /\ debug' = [tracking_data |-> {d \in tracked : Osc!InWindow(d, timestamp)}, sol |-> sol]
  BY DEF PublishDebug, fsmVars, vars, Osc!AssignOscLcmOutput
<1>4. CASE sol = NoPhase
  <2>1. ~Commanded'
    BY <1>3, <1>4 DEF Commanded
  <2>2. QED
    BY <1>1, <1>3, <2>1 DEF FollowInv, FollowsThePhase, FollowsFreshTrajectories
<1>5. CASE sol # NoPhase
  <2>1. Commanded /\ Commanded'
    BY <1>3, <1>5 DEF Commanded
  <2>2. /\ tracked = {d \in Names : fsm_state \in StatesToTrack[d]}
        /\ costs = {d \in tracked : prev_event_time <= timestamp}
        /\ sol = timestamp
    BY <1>1, <2>1 DEF FollowInv
  <2>3. ASSUME NEW d \in Names
        PROVE  Osc!InWindow(d, timestamp) <=> prev_event_time <= timestamp
    <3>1. timestamp - prev_event_time <= MaxTime
      BY <1>2 DEF Times
    <3>2. 0 <= timestamp - prev_event_time <=> prev_event_time <= timestamp
      BY <1>2
    <3>3. QED
      BY <3>1, <3>2 DEF Osc!InWindow, Osc!Elapsed
  <2>4. debug' = [tracking_data |-> costs', sol |-> timestamp']
    BY <1>3, <2>2, <2>3
  <2>5. FollowsThePhase'
    BY <1>1, <1>3, <2>1, <2>4 DEF FollowInv, FollowsThePhase
  <2>6. FollowsFreshTrajectories'
    BY <1>1, <1>3, <2>1 DEF FollowInv, FollowsFreshTrajectories
  <2>7. QED
    BY <1>1, <1>3, <2>1, <2>2, <2>5, <2>6 DEF FollowInv
<1>6. QED
  BY <1>4, <1>5

------------------------------------------------------------------------------
(* The invariant. *)

\* The program starts in JumpInv.
LEMMA InitJumpInv == JumpInit => JumpInv
<1> SUFFICES ASSUME JumpInit PROVE JumpInv
  OBVIOUS
<1> USE JumpAssumption DEF JumpAssumption, JumpInit, Init, Osc!Start
<1>1. config \in Config /\ config.init_state \in Phases
  BY DEF Config
<1>2. TypeOK
  <2>1. 0 \in Times
    BY DEF Times
  <2>2. Now \in Memory
    BY <1>1, <2>1 DEF Memory, Now
  <2>3. contacts \in BOOLEAN /\ updated \in BOOLEAN /\ hidden \in BOOLEAN
    BY Zenon
  <2>4. QED
    BY <1>1, <2>1, <2>2, <2>3 DEF TypeOK
<1>3. JumpTypeOK
  <2>1. 0 \in Times /\ BALANCE \in Phases
    BY DEF Times, Phases, BALANCE, LAND
  <2>2. restarted \in BOOLEAN
    BY Zenon
  <2>3. QED
    BY <1>2, <2>1, <2>2 DEF JumpTypeOK
<1>4. MemoryInv
  BY DEF MemoryInv
<1>5. LandingInv
  BY DEF LandingInv, BALANCE, CROUCH, LAND
<1>6. FollowInv
  BY DEF FollowInv, Commanded, FollowsThePhase, FollowsFreshTrajectories
<1>7. QED
  BY <1>3, <1>4, <1>5, <1>6 DEF JumpInv

\* A message keeps what is remembered, or tells that the clock was restarted.
LEMMA MessageKeeps ==
  ASSUME JumpInv, NEW t \in Times, NEW touching \in BOOLEAN, JumpMessage(t, touching)
  PROVE  JumpInv'
<1>1. /\ TypeOK /\ JumpTypeOK /\ MemoryInv /\ LandingInv /\ FollowInv
      /\ Message(t, touching)
  BY DEF JumpInv, JumpTypeOK, JumpMessage
<1>2. /\ timestamp \in Int /\ prev_time \in Int /\ prev_event_time \in Int /\ t \in Int
  BY <1>1, JumpAssumption DEF TypeOK, JumpTypeOK, Times, Memory, Now, JumpAssumption
<1>3. /\ updated /\ updated' = FALSE /\ timestamp' = t /\ contacts' = touching
      /\ firstSeen' = IF t < timestamp THEN None ELSE firstSeen
      /\ hidden' = IF t < timestamp THEN t >= prev_time ELSE hidden
      /\ config' = config /\ fsm_state' = fsm_state /\ prev_time' = prev_time
      /\ state_trigger_time' = state_trigger_time /\ transition_flag' = transition_flag
  BY <1>1 DEF Message
<1>4. /\ stage' = "advanced" /\ restarted' = (restarted \/ t < timestamp)
      /\ com_fsm_state' = com_fsm_state /\ com_x_offset' = com_x_offset
      /\ prev_event_time' = prev_event_time
  BY DEF JumpMessage, oscVars, comVars
<1>5. TypeOK'
  <2>1. Now' = Now
    BY <1>3 DEF Now
  <2>2. hidden' \in BOOLEAN
    <3>1. CASE t < timestamp
      <4>1. hidden' = (t >= prev_time)
        BY <1>3, <3>1, Zenon
      <4>2. (t >= prev_time) \in BOOLEAN
        BY <1>2
      <4>3. QED
        BY <4>1, <4>2, Zenon
    <3>2. CASE ~(t < timestamp)
      BY <1>1, <1>3, <3>2, Zenon DEF TypeOK
    <3>3. QED
      BY <3>1, <3>2, Zenon
  <2>3. firstSeen' \in Times \cup {None}
    BY <1>1, <1>3 DEF TypeOK
  <2>4. QED
    BY <1>1, <1>3, <2>1, <2>2, <2>3 DEF TypeOK, Memory, Times
<1>6. JumpTypeOK'
  BY <1>1, <1>4, <1>5 DEF JumpTypeOK, Times
<1>7. MemoryInv'
  <2>1. prev_time <= timestamp
    BY <1>1, <1>3 DEF MemoryInv
  <2>2. t < prev_time => firstSeen' = None
    BY <1>2, <1>3, <2>1
  <2>3. ASSUME ~hidden', prev_time <= t, Delayed(fsm_state)
        PROVE  /\ transition_flag <=> firstSeen' # None
               /\ firstSeen' # None => state_trigger_time = firstSeen'
    <3>1. ~(t < timestamp) /\ ~hidden /\ firstSeen' = firstSeen
      BY <1>2, <1>3, <2>3
    <3>2. QED
      BY <1>1, <2>1, <2>3, <3>1 DEF MemoryInv
  <2>4. QED
    BY <1>3, <1>4, <2>2, <2>3 DEF MemoryInv, Delayed
<1>8. LandingInv'
  BY <1>1, <1>3, <1>4 DEF LandingInv
<1>9. FollowInv'
  <2>1. ~Commanded'
    BY <1>4 DEF Commanded
  <2>2. ~restarted' => ~restarted /\ ~(t < timestamp)
    BY <1>4, Zenon
  <2>3. ~restarted => prev_event_time <= timestamp
    BY <1>1 DEF FollowInv
  <2>4. ~(t < timestamp) /\ prev_event_time <= timestamp => prev_event_time <= t
    BY <1>2
  <2>5. ~restarted' => prev_event_time' <= timestamp'
    BY <1>3, <1>4, <2>2, <2>3, <2>4, Zenon
  <2>6. QED
    BY <2>1, <2>5 DEF FollowInv, FollowsThePhase, FollowsFreshTrajectories
<1>10. QED
  BY <1>6, <1>7, <1>8, <1>9 DEF JumpInv

\* A publisher changes nothing of the machine or the generator.
LEMMA PublishKeeps ==
  ASSUME JumpInv, PublishCommand \/ PublishDebug
  PROVE  JumpTypeOK' /\ MemoryInv' /\ LandingInv'
<1>1. /\ TypeOK /\ JumpTypeOK /\ MemoryInv /\ LandingInv
  BY DEF JumpInv, JumpTypeOK
<1>2. /\ config' = config /\ timestamp' = timestamp /\ contacts' = contacts
      /\ updated' = updated /\ fsm_state' = fsm_state /\ prev_time' = prev_time
      /\ state_trigger_time' = state_trigger_time /\ transition_flag' = transition_flag
      /\ firstSeen' = firstSeen /\ hidden' = hidden
      /\ com_fsm_state' = com_fsm_state /\ com_x_offset' = com_x_offset
      /\ prev_event_time' = prev_event_time /\ restarted' = restarted
      /\ stage' \in {"commanded", "published"}
  BY DEF PublishCommand, PublishDebug, fsmVars, vars, comVars,
         Osc!CalcOptimalInput, Osc!AssignOscLcmOutput
<1>3. updated
  BY <1>1 DEF MemoryInv, PublishCommand, PublishDebug
<1>4. TypeOK'
  BY <1>1, <1>2 DEF TypeOK, Now
<1>5. JumpTypeOK'
  BY <1>1, <1>2, <1>4 DEF JumpTypeOK
<1>6. MemoryInv'
  BY <1>1, <1>2, <1>3 DEF MemoryInv, Delayed
<1>7. LandingInv'
  BY <1>1, <1>2 DEF LandingInv
<1>8. QED
  BY <1>5, <1>6, <1>7

\* An update keeps the types.
LEMMA UpdateKeepsTypes ==
  ASSUME JumpInv, Update
  PROVE  JumpTypeOK'
<1>1. TypeOK /\ JumpTypeOK /\ DiscreteVariableUpdate /\ ComUpdate
  BY DEF JumpInv, JumpTypeOK, Update
<1>2. TypeOK'
  BY <1>1, UpdateTypes
<1>3. fsm_state \in Phases /\ timestamp \in Times
  BY <1>1 DEF TypeOK, Memory, Now
<1>4. com_fsm_state' \in Phases /\ com_x_offset' \in Times
  BY <1>1, <1>3 DEF ComUpdate, JumpTypeOK
<1>5. prev_event_time' \in Times /\ restarted' \in BOOLEAN
  BY UpdateFollow
<1>6. stage' = "advanced"
  BY DEF Update
<1>7. QED
  BY <1>2, <1>4, <1>5, <1>6 DEF JumpTypeOK

\* Every step keeps JumpInv.
LEMMA NextJumpInv == JumpInv /\ [JumpNext]_jumpVars => JumpInv'
<1> SUFFICES ASSUME JumpInv, [JumpNext]_jumpVars PROVE JumpInv'
  OBVIOUS
<1>1. CASE \E t \in Times, touching \in BOOLEAN : JumpMessage(t, touching)
  BY <1>1, MessageKeeps
<1>2. CASE Update
  BY <1>2, UpdateKeepsTypes, UpdateMemory, UpdateLanding, UpdateFollow DEF JumpInv
<1>3. CASE PublishCommand
  BY <1>3, PublishKeeps, CommandFollows DEF JumpInv
<1>4. CASE PublishDebug
  BY <1>4, PublishKeeps, DebugFollows DEF JumpInv
<1>5. CASE UNCHANGED jumpVars
  BY <1>5 DEF jumpVars, fsmVars, vars, oscVars, comVars, JumpInv, JumpTypeOK, TypeOK, Now,
              MemoryInv, Delayed, LandingInv, FollowInv, Commanded, FollowsThePhase,
              FollowsFreshTrajectories
<1>6. QED
  BY <1>1, <1>2, <1>3, <1>4, <1>5 DEF JumpNext

------------------------------------------------------------------------------
(* The theorems. *)

\* The machine's memory is true, the controller's is of this run unless it is
\* known not to be, and a command is made of the phase.
THEOREM JumpInvariant == JumpSpec => []JumpInv
<1>1. QED
  BY InitJumpInv, NextJumpInv, PTL DEF JumpSpec

\* The program that is solved is the phase's, for all messages.
THEOREM JumpFollowsThePhase == JumpSpec => []FollowsThePhase
<1>1. JumpInv => FollowsThePhase
  BY DEF JumpInv, FollowInv
<1>2. QED
  BY <1>1, JumpInvariant, PTL

\* No trajectory of an earlier message is followed.
THEOREM JumpFollowsFresh == JumpSpec => []FollowsFreshTrajectories
<1>1. JumpInv => FollowsFreshTrajectories
  BY DEF JumpInv, FollowInv
<1>2. QED
  BY <1>1, JumpInvariant, PTL

\* The landing is shifted by a measurement of the landing, but for its first
\* message.
THEOREM JumpLandingOffset == JumpSpec => []LandingOffset
<1>1. JumpInv => LandingOffset
  <2>1. SUFFICES ASSUME JumpInv, Commanded PROVE LandingOffset
    BY DEF LandingOffset
  <2>2. updated
    BY <2>1 DEF JumpInv, MemoryInv, Commanded
  <2>3. QED
    BY <2>1, <2>2 DEF JumpInv, LandingInv, LandingOffset
<1>2. QED
  BY <1>1, JumpInvariant, PTL

\* A step of the program is a step of the machine or leaves it alone.
LEMMA StepsOfTheMachine ==
  ASSUME [JumpNext]_jumpVars
  PROVE  \/ \E t \in Times, touching \in BOOLEAN : Message(t, touching)
         \/ Update
         \/ UNCHANGED vars
  BY DEF JumpNext, JumpMessage, PublishCommand, PublishDebug, jumpVars, fsmVars

\* A phase is left a delay after its guard was first seen to hold, neither
\* earlier nor later than the updates allow, for every delay.
THEOREM JumpDelayIsExact == JumpSpec => DelayIsExact
<1>1. JumpInv /\ [JumpNext]_jumpVars =>
          [DiscreteVariableUpdate
              /\ ~hidden /\ timestamp >= prev_time /\ Delayed(fsm_state) =>
             (fsm_state' = fsm_state + 1 <=>
                 Seen(Now) # None /\ timestamp - Seen(Now) >= config.delay)]_vars
  <2>1. SUFFICES ASSUME JumpInv, [JumpNext]_jumpVars, vars' # vars, DiscreteVariableUpdate,
                        ~hidden, timestamp >= prev_time, Delayed(fsm_state)
                 PROVE  fsm_state' = fsm_state + 1 <=>
                            Seen(Now) # None /\ timestamp - Seen(Now) >= config.delay
    OBVIOUS
  <2>2. updated' = TRUE
    BY <2>1 DEF DiscreteVariableUpdate
  <2>3. Update
    BY <2>1, <2>2, StepsOfTheMachine DEF Message
  <2>4. QED
    BY <2>1, <2>3, UpdateDelay
<1>2. QED
  BY <1>1, JumpInvariant, PTL DEF JumpSpec, DelayIsExact

\* The phases keep their order; only a restart takes the jump back.
THEOREM JumpPhasesInOrder == JumpSpec => PhasesInOrder
<1>1. JumpInv /\ [JumpNext]_jumpVars =>
          [fsm_state' # fsm_state =>
             \/ fsm_state' = fsm_state + 1
             \/ /\ timestamp < prev_time
                /\ fsm_state' \in {config.init_state, config.init_state + 1}]_vars
  <2>1. SUFFICES ASSUME JumpInv, [JumpNext]_jumpVars, fsm_state' # fsm_state
                 PROVE  \/ fsm_state' = fsm_state + 1
                        \/ /\ timestamp < prev_time
                           /\ fsm_state' \in {config.init_state, config.init_state + 1}
    OBVIOUS
  <2>2. Update
    BY <2>1, StepsOfTheMachine DEF Message, vars
  <2>3. TypeOK /\ DiscreteVariableUpdate
    BY <2>1, <2>2 DEF Update, JumpInv, JumpTypeOK
  <2>4. timestamp \in Int /\ prev_time \in Int
    BY <2>3 DEF TypeOK, Times, Memory, Now
  <2>5. QED
    BY <2>1, <2>3, <2>4, UpdateOrder
<1>2. QED
  BY <1>1, JumpInvariant, PTL DEF JumpSpec, PhasesInOrder
=============================================================================
