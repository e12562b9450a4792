------------------------ MODULE RobotControllerProofs ------------------------
(***************************************************************************)
(* The safety gate under every sequence of calls, for every deadman and    *)
(* every set of velocities: the proofs that it keeps its invariants.       *)
(***************************************************************************)
EXTENDS RobotControllerSpec, RobotControllerTheorems

\* A stored velocity is as old as the last acceptance, and the gate has been open
\* ever since.
Fresh ==
  controller.has_velocity => ~interrupted /\ since = controller.velocity_age

\* What the controller has pending is the request its callers know to be
\* outstanding.
PendingIsOutstanding == controller.pending_mode = outstanding

IInv == TypeOK /\ GateHolds /\ Fresh /\ PendingIsOutstanding

\* A call that stores no new velocity, and leaves the request pending that its
\* caller leaves outstanding, keeps the invariant.
LEMMA CallKeeps ==
  ASSUME IInv,
         NEW d \in ControllerStates, GateInv(d), NoNewVelocity(controller, d),
         NEW reached \in Modes \cup {NoMode},
         Call(d, d.pending_mode, reached)
  PROVE  IInv'
<1>1. TypeOK'
  BY DEF Call, IInv, TypeOK, ControllerStates
<1>2. GateHolds'
  BY DEF Call, GateHolds
<1>3. Fresh'
  <2>1. d.has_velocity => movement_ready(d)
    BY DEF GateInv, VelocityNeedsGate
  <2> QED
    BY <2>1 DEF Call, IInv, Fresh, NoNewVelocity
<1>4. PendingIsOutstanding'
  BY DEF Call, PendingIsOutstanding
<1> QED
  BY <1>1, <1>2, <1>3, <1>4 DEF IInv

\* Every call leaves pending what its caller leaves outstanding.
LEMMA CallsAgree ==
  ASSUME NEW c \in ControllerStates
  PROVE  /\ trigger_estop(c).pending_mode = c.pending_mode
         /\ clear_estop(c).pending_mode = c.pending_mode
         /\ \A name : request_mode(c, name).pending_mode =
                         IF mode_accepted(c, name) THEN kModes[name] ELSE c.pending_mode
         /\ \A b \in BOOLEAN :
              /\ complete_mode_transition(c, b).pending_mode = NoMode
              /\ set_driver_ready(c, b).pending_mode = IF b THEN c.pending_mode ELSE NoMode
         /\ invalidate_connection(c).pending_mode = NoMode
         /\ \A st \in ControllerStatuses :
              update_robot_state(c, st).pending_mode =
                IF StatusUsable(st) THEN c.pending_mode ELSE NoMode
<1>1. /\ trigger_estop(c).pending_mode = c.pending_mode
      /\ clear_estop(c).pending_mode = c.pending_mode
  BY DEF trigger_estop, clear_estop, force_zero, ControllerStates
<1>2. ASSUME NEW name
      PROVE  request_mode(c, name).pending_mode =
               IF mode_accepted(c, name) THEN kModes[name] ELSE c.pending_mode
  BY DEF request_mode, force_zero, ControllerStates
<1>3. ASSUME NEW b \in BOOLEAN
      PROVE  /\ complete_mode_transition(c, b).pending_mode = NoMode
             /\ set_driver_ready(c, b).pending_mode = IF b THEN c.pending_mode ELSE NoMode
  BY DEF complete_mode_transition, set_driver_ready, drop_transition, force_zero,
         ControllerStates
<1>4. invalidate_connection(c).pending_mode = NoMode
  BY DEF invalidate_connection, drop_transition, force_zero, ControllerStates
<1>5. ASSUME NEW st \in ControllerStatuses
      PROVE  update_robot_state(c, st).pending_mode =
               IF StatusUsable(st) THEN c.pending_mode ELSE NoMode
  BY DEF update_robot_state, drop_transition, force_zero, ControllerStates
<1> QED
  BY <1>1, <1>2, <1>3, <1>4, <1>5

\* The invariant holds at first and is kept by every action.
LEMMA IInvHolds == Spec => []IInv
<1>1. Init => IInv
  BY InitialKeeps, DeadmanAssumption
  DEF Init, IInv, TypeOK, GateHolds, Fresh, PendingIsOutstanding, InitialController
<1>2. IInv /\ [Next]_vars => IInv'
  <2> SUFFICES ASSUME IInv, [Next]_vars PROVE IInv'
    OBVIOUS
  <2>0. /\ controller \in ControllerStates /\ GateInv(controller)
        /\ controller.pending_mode = outstanding
        /\ outstanding \in Modes \cup {NoMode} /\ NoMode \in Modes \cup {NoMode}
    BY DEF IInv, TypeOK, GateHolds, PendingIsOutstanding
  <2>1. ASSUME NEW finite \in BOOLEAN, NEW v \in VelocityInputs,
               AcceptVelocity(finite, v)
        PROVE  IInv'
    <3> DEFINE d == accept_velocity(controller, finite, v)
    <3>1. d \in ControllerStates /\ GateInv(d)
      BY <2>0, VelocityInputsAssumption, AcceptVelocityKeeps
    <3>2. TypeOK' /\ GateHolds'
      <4>1. controller' = d
        BY <2>1 DEF AcceptVelocity
      <4>2. /\ since' \in 0..(Deadman + 1) /\ interrupted' \in BOOLEAN
            /\ outstanding' \in Modes \cup {NoMode} /\ confirmed' \in Modes \cup {NoMode}
        BY <2>1, Zeros DEF AcceptVelocity, IInv, TypeOK
      <4> QED
        BY <3>1, <4>1, <4>2 DEF TypeOK, GateHolds
    <3>5. PendingIsOutstanding'
      BY <2>0, <2>1 DEF AcceptVelocity, accept_velocity, force_zero, ControllerStates,
                        PendingIsOutstanding
    <3>3. CASE finite /\ movement_ready(controller)
      <4>1. d.velocity_age = 0
        BY <3>3, <2>0 DEF accept_velocity, ControllerStates
      <4> QED
        BY <2>1, <3>2, <3>3, <3>5, <4>1 DEF AcceptVelocity, IInv, Fresh
    <3>4. CASE ~(finite /\ movement_ready(controller))
      <4>1. ~d.has_velocity
        BY <3>4, <2>0, ForceZero DEF accept_velocity
      <4> QED
        BY <2>1, <3>2, <3>5, <4>1 DEF AcceptVelocity, IInv, Fresh
    <3> QED
      BY <3>3, <3>4
  <2>2. CASE TriggerEstop
    BY <2>0, <2>2, EstopKeeps, OnlyAcceptStores, CallsAgree, CallKeeps DEF TriggerEstop
  <2>3. CASE ClearEstop
    BY <2>0, <2>3, EstopKeeps, OnlyAcceptStores, CallsAgree, CallKeeps DEF ClearEstop
  <2>4. ASSUME NEW name, RequestMode(name) PROVE IInv'
    <3> DEFINE d == request_mode(controller, name)
    <3>1. d \in ControllerStates /\ GateInv(d) /\ NoNewVelocity(controller, d)
      BY <2>0, <2>4, RequestModeKeeps, OnlyAcceptStores
    <3>2. Call(d, d.pending_mode, NoMode)
      BY <2>0, <2>4, CallsAgree DEF RequestMode
    <3> HIDE DEF d
    <3> QED
      BY <2>0, <3>1, <3>2, CallKeeps
  <2>5. ASSUME NEW success \in BOOLEAN, CompleteModeTransition(success) PROVE IInv'
    <3> DEFINE d == complete_mode_transition(controller, success)
    <3>1. d \in ControllerStates /\ GateInv(d) /\ NoNewVelocity(controller, d)
      BY <2>0, <2>5, CompleteKeeps, OnlyAcceptStores
    <3>2. Call(d, d.pending_mode, IF success THEN outstanding ELSE NoMode)
      BY <2>0, <2>5, CallsAgree DEF CompleteModeTransition
    <3> HIDE DEF d
    <3> QED
      BY <2>0, <3>1, <3>2, CallKeeps
  <2>6. ASSUME NEW ready \in BOOLEAN, SetDriverReady(ready) PROVE IInv'
    <3> DEFINE d == set_driver_ready(controller, ready)
    <3>1. d \in ControllerStates /\ GateInv(d) /\ NoNewVelocity(controller, d)
      BY <2>0, <2>6, ReadyKeeps, OnlyAcceptStores
    <3>2. Call(d, d.pending_mode, NoMode)
      BY <2>0, <2>6, CallsAgree DEF SetDriverReady
    <3> HIDE DEF d
    <3> QED
      BY <2>0, <3>1, <3>2, CallKeeps
  <2>7. CASE InvalidateConnection
    BY <2>0, <2>7, InvalidateKeeps, OnlyAcceptStores, CallsAgree, CallKeeps
    DEF InvalidateConnection
  <2>8. ASSUME NEW st \in ControllerStatuses, UpdateRobotState(st) PROVE IInv'
    <3> DEFINE d == update_robot_state(controller, st)
    <3>1. d \in ControllerStates /\ GateInv(d) /\ NoNewVelocity(controller, d)
      BY <2>0, <2>8, UpdateKeeps, OnlyAcceptStores
    <3>2. Call(d, d.pending_mode, NoMode)
      BY <2>0, <2>8, CallsAgree DEF UpdateRobotState
    <3> HIDE DEF d
    <3> QED
      BY <2>0, <3>1, <3>2, CallKeeps
  <2>9. CASE Tick
    <3>1. TypeOK' /\ GateHolds'
      BY <2>0, <2>9, GrowOlderKeeps, DeadmanAssumption
      DEF Tick, IInv, TypeOK, GateHolds
    <3>2. Fresh'
      <4>1. controller.velocity_age \in Int
        BY <2>0, DeadmanAssumption DEF ControllerStates
      <4>2. CASE controller.has_velocity /\ controller.velocity_age <= Deadman
        BY <2>0, <2>9, <4>1, <4>2, DeadmanAssumption
        DEF Tick, IInv, Fresh, grow_older, ControllerStates
      <4>3. CASE ~(controller.has_velocity /\ controller.velocity_age <= Deadman)
        BY <2>0, <2>9, <4>1, <4>3, DeadmanAssumption DEF Tick, IInv, Fresh, grow_older
      <4> QED
        BY <4>2, <4>3
    <3>3. PendingIsOutstanding'
      BY <2>0, <2>9 DEF Tick, grow_older, ControllerStates, PendingIsOutstanding
    <3> QED
      BY <3>1, <3>2, <3>3 DEF IInv
  <2>10. CASE UNCHANGED vars
    BY <2>10 DEF vars, IInv, TypeOK, GateHolds, Fresh, PendingIsOutstanding
  <2> QED
    BY <2>1, <2>2, <2>3, <2>4, <2>5, <2>6, <2>7, <2>8, <2>9, <2>10 DEF Next
<1> QED
  BY <1>1, <1>2, PTL DEF Spec

\* The members keep their types under every sequence of calls.
THEOREM TypeCorrect == Spec => []TypeOK
  BY IInvHolds, PTL DEF IInv

\* A velocity is stored only behind an open gate, and a transition is pending only
\* behind a closed one with readiness, link and authority standing: no sequence of
\* calls of robot_controller.cpp's methods breaks the gate.
THEOREM GateCorrect == Spec => []GateHolds
  BY IInvHolds, PTL DEF IInv

\* The velocity velocity_for_tick grants was accepted at most Deadman ticks ago,
\* and the gate has not closed since.
THEOREM TickFreshness == Spec => []TickIsFresh
<1>1. IInv => TickIsFresh
  BY DeadmanAssumption
  DEF IInv, TypeOK, Fresh, TickIsFresh, velocity_for_tick, ControllerStates
<1> QED
  BY <1>1, IInvHolds, PTL

\* A closed transition gate opens only in a complete_mode_transition(true) for an
\* accepted "move" that is still outstanding, while readiness, link and authority
\* stand: a failed or a second completion, and every other call, leaves it closed.
THEOREM GateOpening == Spec => GateOpensOnConfirmedMove
<1> DEFINE Opens == controller.motion_transition_gate
                      /\ ~controller'.motion_transition_gate
           Allowed == /\ confirmed' = "move"
                      /\ controller.driver_ready /\ StatusUsable(controller.status)
                      /\ ~controller'.has_velocity
<1>1. IInv /\ [Next]_vars => [Opens => Allowed]_vars
  <2> SUFFICES ASSUME IInv, Next, Opens PROVE Allowed
    OBVIOUS
  <2>0. /\ controller \in ControllerStates /\ PendingIsGuarded(controller)
        /\ controller.pending_mode = outstanding
    BY DEF IInv, TypeOK, GateHolds, GateInv, PendingIsOutstanding
  <2>1. ASSUME NEW finite \in BOOLEAN, NEW v \in VelocityInputs,
               AcceptVelocity(finite, v)
        PROVE  FALSE
    BY <2>0, <2>1 DEF AcceptVelocity, accept_velocity, force_zero, ControllerStates
  <2>2. CASE TriggerEstop \/ ClearEstop
    BY <2>0, <2>2 DEF TriggerEstop, ClearEstop, Call, trigger_estop, clear_estop,
                      force_zero, ControllerStates
  <2>3. ASSUME NEW name, RequestMode(name) PROVE FALSE
    BY <2>0, <2>3 DEF RequestMode, Call, request_mode, force_zero, ControllerStates
  <2>4. ASSUME NEW success \in BOOLEAN, CompleteModeTransition(success)
        PROVE  Allowed
    <3>1. /\ success /\ controller.mode_transition_pending
          /\ controller.pending_mode = "move"
          /\ ~controller'.has_velocity
      BY <2>0, <2>4 DEF CompleteModeTransition, Call, complete_mode_transition,
                        force_zero, ControllerStates
    <3>2. confirmed' = "move"
      BY <2>0, <2>4, <3>1 DEF CompleteModeTransition, Call
    <3> QED
      BY <2>0, <3>1, <3>2 DEF PendingIsGuarded
  <2>5. ASSUME NEW ready \in BOOLEAN, SetDriverReady(ready) PROVE FALSE
    BY <2>0, <2>5 DEF SetDriverReady, Call, set_driver_ready, drop_transition,
                      force_zero, ControllerStates
  <2>6. CASE InvalidateConnection
    BY <2>0, <2>6 DEF InvalidateConnection, Call, invalidate_connection,
                      drop_transition, force_zero, ControllerStates
  <2>7. ASSUME NEW st \in ControllerStatuses, UpdateRobotState(st) PROVE FALSE
    BY <2>0, <2>7 DEF UpdateRobotState, Call, update_robot_state, drop_transition,
                      force_zero, ControllerStates
  <2>8. CASE Tick
    BY <2>0, <2>8 DEF Tick, grow_older, ControllerStates
  <2> QED
    BY <2>1, <2>2, <2>3, <2>4, <2>5, <2>6, <2>7, <2>8 DEF Next
<1> QED
  BY <1>1, IInvHolds, PTL DEF Spec, GateOpensOnConfirmedMove

\* Only clear_estop lifts the latch, and it restores nothing.
THEOREM Release == Spec => ReleaseRestoresNothing
<1> DEFINE Lifts == controller.estop_latched /\ ~controller'.estop_latched
           Plain == controller' = force_zero([controller EXCEPT !.estop_latched = FALSE])
<1>1. IInv /\ [Next]_vars => [Lifts => Plain]_vars
  <2> SUFFICES ASSUME IInv, Next, Lifts PROVE Plain
    OBVIOUS
  <2>0. controller \in ControllerStates
    BY DEF IInv, TypeOK
  <2>1. ASSUME NEW finite \in BOOLEAN, NEW v \in VelocityInputs,
               AcceptVelocity(finite, v)
        PROVE  FALSE
    BY <2>0, <2>1 DEF AcceptVelocity, accept_velocity, force_zero, ControllerStates
  <2>2. CASE TriggerEstop
    BY <2>0, <2>2 DEF TriggerEstop, Call, trigger_estop, force_zero, ControllerStates
  <2>3. CASE ClearEstop
    BY <2>3 DEF ClearEstop, Call, clear_estop
  <2>4. ASSUME NEW name, RequestMode(name) PROVE FALSE
    BY <2>0, <2>4 DEF RequestMode, Call, request_mode, force_zero, ControllerStates
  <2>5. ASSUME NEW b \in BOOLEAN, CompleteModeTransition(b) \/ SetDriverReady(b)
        PROVE  FALSE
    BY <2>0, <2>5 DEF CompleteModeTransition, SetDriverReady, Call,
                      complete_mode_transition, set_driver_ready, drop_transition,
                      force_zero, ControllerStates
  <2>6. CASE InvalidateConnection
    BY <2>0, <2>6 DEF InvalidateConnection, Call, invalidate_connection,
                      drop_transition, force_zero, ControllerStates
  <2>7. ASSUME NEW st \in ControllerStatuses, UpdateRobotState(st) PROVE FALSE
    BY <2>0, <2>7 DEF UpdateRobotState, Call, update_robot_state, drop_transition,
                      force_zero, ControllerStates
  <2>8. CASE Tick
    BY <2>0, <2>8 DEF Tick, grow_older, ControllerStates
  <2> QED
    BY <2>1, <2>2, <2>3, <2>4, <2>5, <2>6, <2>7, <2>8 DEF Next
<1> QED
  BY <1>1, IInvHolds, PTL DEF Spec, ReleaseRestoresNothing
=============================================================================
