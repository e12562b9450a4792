----------------------- MODULE RobotControllerTheorems -----------------------
(***************************************************************************)
(* What each method of the safety gate keeps, for every deadman: the type  *)
(* of the controller's members, and GateInv.  The specifications that call *)
(* the methods cite these lemmas instead of opening the definitions.       *)
(***************************************************************************)
EXTENDS RobotController, TLAPS

\* The zero velocity and the zero age are values the members may hold.
LEMMA Zeros == 0 \in Velocities /\ 0 \in 0..(Deadman + 1)
  BY DeadmanAssumption DEF Velocities, Limit

\* force_zero forgets the velocity and touches nothing else.
LEMMA ForceZero ==
  ASSUME NEW c \in ControllerStates
  PROVE  /\ force_zero(c) \in ControllerStates
         /\ ~force_zero(c).has_velocity
         /\ PendingIsGuarded(c) => GateInv(force_zero(c))
<1>1. force_zero(c) \in ControllerStates
  BY Zeros DEF ControllerStates, force_zero
<1>2. ~force_zero(c).has_velocity
  BY DEF ControllerStates, force_zero
<1>3. PendingIsGuarded(c) => PendingIsGuarded(force_zero(c))
  BY DEF ControllerStates, force_zero, PendingIsGuarded
<1> QED
  BY <1>1, <1>2, <1>3 DEF GateInv, VelocityNeedsGate

\* drop_transition leaves nothing pending.
LEMMA DropTransition ==
  ASSUME NEW c \in ControllerStates
  PROVE  /\ drop_transition(c) \in ControllerStates
         /\ PendingIsGuarded(drop_transition(c))
  BY DEF ControllerStates, drop_transition, PendingIsGuarded, NoMode

\* A mode request is recorded under a vendor mode.
LEMMA VendorModes == ASSUME NEW n \in ModeNames PROVE kModes[n] \in Modes /\ kModes[n] # NoMode
  BY DEF ModeNames, kModes, Modes, NoMode

\* accept_velocity stores a clamped velocity behind an open gate or forgets it.
LEMMA AcceptVelocityKeeps ==
  ASSUME NEW c \in ControllerStates, GateInv(c),
         NEW finite \in BOOLEAN, NEW v \in Int
  PROVE  /\ accept_velocity(c, finite, v) \in ControllerStates
         /\ GateInv(accept_velocity(c, finite, v))
<1>1. clamp(v) \in Velocities
  BY DEF clamp, Velocities, Limit
<1>2. CASE finite /\ movement_ready(c)
  <2> DEFINE d == [c EXCEPT !.latest_velocity = clamp(v), !.has_velocity = TRUE,
                            !.velocity_age = 0]
  <2>1. d \in ControllerStates
    BY <1>1, Zeros DEF ControllerStates
  <2>2. GateInv(d)
    BY <1>2 DEF ControllerStates, GateInv, VelocityNeedsGate, PendingIsGuarded,
               movement_ready
  <2> QED
    BY <1>2, <2>1, <2>2 DEF accept_velocity
<1>3. CASE ~(finite /\ movement_ready(c))
  BY <1>3, ForceZero DEF accept_velocity, GateInv
<1> QED
  BY <1>2, <1>3

\* Latching and releasing the emergency stop.
LEMMA EstopKeeps ==
  ASSUME NEW c \in ControllerStates, GateInv(c)
  PROVE  /\ trigger_estop(c) \in ControllerStates
         /\ GateInv(trigger_estop(c))
         /\ clear_estop(c) \in ControllerStates
         /\ GateInv(clear_estop(c))
<1>1. ASSUME NEW b \in BOOLEAN
      PROVE  /\ [c EXCEPT !.estop_latched = b] \in ControllerStates
             /\ PendingIsGuarded([c EXCEPT !.estop_latched = b])
  BY DEF ControllerStates, GateInv, PendingIsGuarded
<1> QED
  BY <1>1, ForceZero DEF trigger_estop, clear_estop

\* A mode request is recorded together with the gate it closes.
LEMMA RequestModeKeeps ==
  ASSUME NEW c \in ControllerStates, GateInv(c), NEW name
  PROVE  /\ request_mode(c, name) \in ControllerStates
         /\ GateInv(request_mode(c, name))
<1>1. CASE mode_accepted(c, name)
  <2> DEFINE d == [c EXCEPT !.mode_transition_pending = TRUE,
                            !.pending_mode = kModes[name],
                            !.motion_transition_gate = TRUE]
  <2>1. kModes[name] \in Modes /\ kModes[name] # NoMode
    BY <1>1, VendorModes DEF mode_accepted
  <2>2. d \in ControllerStates
    BY <2>1 DEF ControllerStates
  <2>3. PendingIsGuarded(d)
    BY <1>1, <2>1 DEF mode_accepted, PendingIsGuarded, ControllerStates
  <2> QED
    BY <1>1, <2>2, <2>3, ForceZero DEF request_mode
<1> QED
  BY <1>1 DEF request_mode

\* Completing a transition, whether or not one was pending.
LEMMA CompleteKeeps ==
  ASSUME NEW c \in ControllerStates, NEW success \in BOOLEAN
  PROVE  /\ complete_mode_transition(c, success) \in ControllerStates
         /\ GateInv(complete_mode_transition(c, success))
         /\ ~complete_mode_transition(c, success).mode_transition_pending
<1> DEFINE open == ~(success /\ c.mode_transition_pending /\ c.pending_mode = "move")
           d == [c EXCEPT !.mode_transition_pending = FALSE,
                          !.pending_mode = NoMode,
                          !.motion_transition_gate = open]
<1>1. open \in BOOLEAN
  OBVIOUS
<1>2. d \in ControllerStates
  BY <1>1 DEF ControllerStates
<1>3. PendingIsGuarded(d) /\ ~d.mode_transition_pending
  BY DEF PendingIsGuarded, ControllerStates
<1>4. force_zero(d).mode_transition_pending = d.mode_transition_pending
  BY <1>2 DEF force_zero, ControllerStates
<1> QED
  BY <1>2, <1>3, <1>4, ForceZero DEF complete_mode_transition

\* Readiness: arming it opens nothing by itself, withdrawing it drops everything.
LEMMA ReadyKeeps ==
  ASSUME NEW c \in ControllerStates, GateInv(c), NEW ready \in BOOLEAN
  PROVE  /\ set_driver_ready(c, ready) \in ControllerStates
         /\ GateInv(set_driver_ready(c, ready))
<1>1. CASE ready
  <2>1. [c EXCEPT !.driver_ready = TRUE] \in ControllerStates
    BY DEF ControllerStates
  <2>2. GateInv([c EXCEPT !.driver_ready = TRUE])
    BY DEF ControllerStates, GateInv, VelocityNeedsGate, PendingIsGuarded,
           movement_ready
  <2> QED
    BY <1>1, <2>1, <2>2 DEF set_driver_ready
<1>2. CASE ~ready
  <2>1. [c EXCEPT !.driver_ready = FALSE] \in ControllerStates
    BY DEF ControllerStates
  <2> QED
    BY <1>2, <2>1, DropTransition, ForceZero DEF set_driver_ready
<1> QED
  BY <1>1, <1>2

\* A lost connection, in whatever state it finds the controller.
LEMMA InvalidateKeeps ==
  ASSUME NEW c \in ControllerStates
  PROVE  /\ invalidate_connection(c) \in ControllerStates
         /\ GateInv(invalidate_connection(c))
<1>1. [c EXCEPT !.driver_ready = FALSE] \in ControllerStates
  BY DEF ControllerStates
<1> QED
  BY <1>1, DropTransition, ForceZero DEF invalidate_connection

\* A status report keeps the velocity only across two open gates.
LEMMA UpdateKeeps ==
  ASSUME NEW c \in ControllerStates, GateInv(c), NEW st \in ControllerStatuses
  PROVE  /\ update_robot_state(c, st) \in ControllerStates
         /\ GateInv(update_robot_state(c, st))
<1> DEFINE told == [c EXCEPT !.status = st]
           next == IF StatusUsable(st) THEN told ELSE drop_transition(told)
<1>1. told \in ControllerStates
  BY DEF ControllerStates
<1>2. next \in ControllerStates
  BY <1>1, DropTransition
<1>3. PendingIsGuarded(next)
  <2>1. CASE StatusUsable(st)
    BY <2>1 DEF PendingIsGuarded, GateInv, ControllerStates
  <2>2. CASE ~StatusUsable(st)
    BY <2>2, <1>1, DropTransition
  <2> QED
    BY <2>1, <2>2
<1>4. CASE movement_ready(c) /\ movement_ready(next)
  BY <1>2, <1>3, <1>4 DEF update_robot_state, GateInv, VelocityNeedsGate
<1>5. CASE ~(movement_ready(c) /\ movement_ready(next))
  BY <1>2, <1>3, <1>5, ForceZero DEF update_robot_state
<1> QED
  BY <1>4, <1>5

\* The clock touches only the age.
LEMMA GrowOlderKeeps ==
  ASSUME NEW c \in ControllerStates, GateInv(c)
  PROVE  /\ grow_older(c) \in ControllerStates
         /\ GateInv(grow_older(c))
<1> DEFINE d == [c EXCEPT !.velocity_age = @ + 1]
<1>1. CASE c.has_velocity /\ c.velocity_age <= Deadman
  <2>1. d \in ControllerStates
    BY <1>1, DeadmanAssumption DEF ControllerStates
  <2>2. GateInv(d)
    BY DEF ControllerStates, GateInv, VelocityNeedsGate, PendingIsGuarded,
           movement_ready
  <2> QED
    BY <1>1, <2>1, <2>2 DEF grow_older
<1> QED
  BY <1>1 DEF grow_older

\* d holds no velocity, or the one c holds, no older and no younger.
NoNewVelocity(c, d) ==
  d.has_velocity => c.has_velocity /\ d.velocity_age = c.velocity_age

\* Apart from accept_velocity no method stores or refreshes a velocity.
LEMMA OnlyAcceptStores ==
  ASSUME NEW c \in ControllerStates
  PROVE  /\ NoNewVelocity(c, trigger_estop(c))
         /\ NoNewVelocity(c, clear_estop(c))
         /\ \A name : NoNewVelocity(c, request_mode(c, name))
         /\ \A b \in BOOLEAN : NoNewVelocity(c, complete_mode_transition(c, b))
         /\ \A b \in BOOLEAN : NoNewVelocity(c, set_driver_ready(c, b))
         /\ NoNewVelocity(c, invalidate_connection(c))
         /\ \A st \in ControllerStatuses :
              NoNewVelocity(c, update_robot_state(c, st))
<1>1. NoNewVelocity(c, trigger_estop(c)) /\ NoNewVelocity(c, clear_estop(c))
  BY DEF NoNewVelocity, trigger_estop, clear_estop, force_zero, ControllerStates
<1>2. ASSUME NEW name PROVE NoNewVelocity(c, request_mode(c, name))
  BY DEF NoNewVelocity, request_mode, force_zero, ControllerStates
<1>3. ASSUME NEW b \in BOOLEAN
      PROVE  /\ NoNewVelocity(c, complete_mode_transition(c, b))
             /\ NoNewVelocity(c, set_driver_ready(c, b))
  BY DEF NoNewVelocity, complete_mode_transition, set_driver_ready,
         drop_transition, force_zero, ControllerStates
<1>4. NoNewVelocity(c, invalidate_connection(c))
  BY DEF NoNewVelocity, invalidate_connection, drop_transition, force_zero,
         ControllerStates
<1>5. ASSUME NEW st \in ControllerStatuses
      PROVE  NoNewVelocity(c, update_robot_state(c, st))
  BY DEF NoNewVelocity, update_robot_state, drop_transition, force_zero,
         ControllerStates
<1> QED
  BY <1>1, <1>2, <1>3, <1>4, <1>5

\* d was told no other status than c and is ready only if c was.
SameReport(c, d) ==
  d.status = c.status /\ (d.driver_ready => c.driver_ready)

\* Only update_robot_state changes the status, and only set_driver_ready(true)
\* makes the driver ready.
LEMMA OnlyUpdateReports ==
  ASSUME NEW c \in ControllerStates
  PROVE  /\ \A finite, v : SameReport(c, accept_velocity(c, finite, v))
         /\ SameReport(c, trigger_estop(c))
         /\ SameReport(c, clear_estop(c))
         /\ \A name : SameReport(c, request_mode(c, name))
         /\ \A b : SameReport(c, complete_mode_transition(c, b))
         /\ SameReport(c, grow_older(c))
         /\ set_driver_ready(c, TRUE).status = c.status
         /\ ~invalidate_connection(c).driver_ready
         /\ invalidate_connection(c).status = c.status
<1> USE DEF ControllerStates, SameReport, force_zero
<1>1. \A finite, v : SameReport(c, accept_velocity(c, finite, v))
  BY DEF accept_velocity
<1>2. SameReport(c, trigger_estop(c)) /\ SameReport(c, clear_estop(c))
  BY DEF trigger_estop, clear_estop
<1>3. \A name : SameReport(c, request_mode(c, name))
  BY DEF request_mode
<1>4. \A b : SameReport(c, complete_mode_transition(c, b))
  BY DEF complete_mode_transition
<1>5. SameReport(c, grow_older(c)) /\ set_driver_ready(c, TRUE).status = c.status
  BY DEF grow_older, set_driver_ready
<1>6. /\ ~invalidate_connection(c).driver_ready
      /\ invalidate_connection(c).status = c.status
  BY DEF invalidate_connection, drop_transition
<1> QED
  BY <1>1, <1>2, <1>3, <1>4, <1>5, <1>6

\* update_robot_state keeps the report it is given and leaves readiness alone.
LEMMA UpdateReports ==
  ASSUME NEW c \in ControllerStates, NEW st
  PROVE  /\ update_robot_state(c, st).status = st
         /\ update_robot_state(c, st).driver_ready = c.driver_ready
  BY DEF update_robot_state, drop_transition, force_zero, ControllerStates

\* d has a transition pending only if c had one.
NoNewPending(c, d) == d.mode_transition_pending => c.mode_transition_pending

\* Only request_mode makes a transition pending, and a completed or invalidated
\* controller has none.
LEMMA OnlyRequestPends ==
  ASSUME NEW c \in ControllerStates
  PROVE  /\ \A finite, v : NoNewPending(c, accept_velocity(c, finite, v))
         /\ NoNewPending(c, trigger_estop(c))
         /\ NoNewPending(c, clear_estop(c))
         /\ \A b : ~complete_mode_transition(c, b).mode_transition_pending
         /\ NoNewPending(c, set_driver_ready(c, TRUE))
         /\ NoNewPending(c, grow_older(c))
         /\ ~invalidate_connection(c).mode_transition_pending
<1> USE DEF ControllerStates, NoNewPending, force_zero
<1>1. \A finite, v : NoNewPending(c, accept_velocity(c, finite, v))
  BY DEF accept_velocity
<1>2. NoNewPending(c, trigger_estop(c)) /\ NoNewPending(c, clear_estop(c))
  BY DEF trigger_estop, clear_estop
<1>3. \A b : ~complete_mode_transition(c, b).mode_transition_pending
  BY DEF complete_mode_transition
<1>4. NoNewPending(c, set_driver_ready(c, TRUE)) /\ NoNewPending(c, grow_older(c))
  BY DEF set_driver_ready, grow_older
<1>5. ~invalidate_connection(c).mode_transition_pending
  BY DEF invalidate_connection, drop_transition
<1> QED
  BY <1>1, <1>2, <1>3, <1>4, <1>5

\* A status report at most drops the pending transition.
LEMMA UpdatePends ==
  ASSUME NEW c \in ControllerStates, NEW st
  PROVE  NoNewPending(c, update_robot_state(c, st))
  BY DEF NoNewPending, update_robot_state, drop_transition, force_zero, ControllerStates

\* d has the emergency stop latched exactly when c had.
SameLatch(c, d) == d.estop_latched = c.estop_latched

\* Only trigger_estop and clear_estop touch the latch: in particular no lost
\* connection releases it.
LEMMA OnlyEstopLatches ==
  ASSUME NEW c \in ControllerStates
  PROVE  /\ \A finite, v : SameLatch(c, accept_velocity(c, finite, v))
         /\ \A name : SameLatch(c, request_mode(c, name))
         /\ \A b : SameLatch(c, complete_mode_transition(c, b))
         /\ SameLatch(c, set_driver_ready(c, TRUE))
         /\ SameLatch(c, grow_older(c))
         /\ SameLatch(c, invalidate_connection(c))
         /\ trigger_estop(c).estop_latched
         /\ ~clear_estop(c).estop_latched
<1> USE DEF ControllerStates, SameLatch, force_zero
<1>1. \A finite, v : SameLatch(c, accept_velocity(c, finite, v))
  BY DEF accept_velocity
<1>2. \A name : SameLatch(c, request_mode(c, name))
  BY DEF request_mode
<1>3. \A b : SameLatch(c, complete_mode_transition(c, b))
  BY DEF complete_mode_transition
<1>4. SameLatch(c, set_driver_ready(c, TRUE)) /\ SameLatch(c, grow_older(c))
  BY DEF set_driver_ready, grow_older
<1>5. SameLatch(c, invalidate_connection(c))
  BY DEF invalidate_connection, drop_transition
<1>6. trigger_estop(c).estop_latched /\ ~clear_estop(c).estop_latched
  BY DEF trigger_estop, clear_estop
<1> QED
  BY <1>1, <1>2, <1>3, <1>4, <1>5, <1>6

\* A status report leaves the latch alone.
LEMMA UpdateLatches ==
  ASSUME NEW c \in ControllerStates, NEW st
  PROVE  SameLatch(c, update_robot_state(c, st))
  BY DEF SameLatch, update_robot_state, drop_transition, force_zero, ControllerStates

\* With the stop latched a motion tick sends zero.
LEMMA LatchedIsZero ==
  ASSUME NEW c \in ControllerStates, c.estop_latched
  PROVE  velocity_for_tick(c) = 0
  BY DEF velocity_for_tick, movement_ready

\* The initial controller.
LEMMA InitialKeeps ==
  InitialController \in ControllerStates /\ GateInv(InitialController)
  BY DeadmanAssumption
  DEF InitialController, ControllerStates, ControllerStatuses, NoStatus,
      SportStatuses, Velocities, Limit, Modes, NoMode, GateInv,
      VelocityNeedsGate, PendingIsGuarded
=============================================================================
