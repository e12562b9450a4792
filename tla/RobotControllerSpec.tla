------------------------- MODULE RobotControllerSpec -------------------------
(***************************************************************************)
(* The safety gate under every sequence of calls: callers submit           *)
(* velocities, request modes, engage and release the emergency stop; the   *)
(* runtime reports status, arms readiness, completes transitions and       *)
(* invalidates the connection; the clock ticks in between.  No order is    *)
(* assumed, because the methods are called from several threads.           *)
(***************************************************************************)
EXTENDS RobotController

CONSTANT
  VelocityInputs   \* velocities callers submit, some outside the limit

ASSUME VelocityInputsAssumption == VelocityInputs \subseteq Int

VARIABLES
  controller,   \* the object's members
  since,        \* history: ticks since the last accepted velocity, saturating
  interrupted,  \* history: the gate was closed since that acceptance
  outstanding,  \* history: the mode of the last accepted request, until a call
                \* completes it or withdraws what it needs
  confirmed     \* history: the mode the last step reported as reached, if any

vars == <<controller, since, interrupted, outstanding, confirmed>>

Init ==
  /\ controller = InitialController
  /\ since = Deadman + 1
  /\ interrupted = TRUE
  /\ outstanding = NoMode
  /\ confirmed = NoMode

\* A call that accepts no velocity. The history notes whether it closed the gate,
\* which request it leaves outstanding and which mode it says was reached; it
\* follows what the callers say, not the controller's own flags.
Call(c, left, reached) ==
  /\ controller' = c
  /\ interrupted' = (interrupted \/ ~movement_ready(c))
  /\ outstanding' = left
  /\ confirmed' = reached
  /\ UNCHANGED since

AcceptVelocity(finite, v) ==
  /\ controller' = accept_velocity(controller, finite, v)
  /\ IF finite /\ movement_ready(controller)
     THEN since' = 0 /\ interrupted' = FALSE
     ELSE UNCHANGED <<since, interrupted>>
  /\ confirmed' = NoMode
  /\ UNCHANGED outstanding

TriggerEstop == Call(trigger_estop(controller), outstanding, NoMode)

ClearEstop == Call(clear_estop(controller), outstanding, NoMode)

RequestMode(name) ==
  Call(request_mode(controller, name),
       IF mode_accepted(controller, name) THEN kModes[name] ELSE outstanding,
       NoMode)

CompleteModeTransition(success) ==
  Call(complete_mode_transition(controller, success), NoMode,
       IF success THEN outstanding ELSE NoMode)

SetDriverReady(ready) ==
  Call(set_driver_ready(controller, ready),
       IF ready THEN outstanding ELSE NoMode, NoMode)

InvalidateConnection == Call(invalidate_connection(controller), NoMode, NoMode)

UpdateRobotState(st) ==
  Call(update_robot_state(controller, st),
       IF StatusUsable(st) THEN outstanding ELSE NoMode, NoMode)

Tick ==
  /\ controller' = grow_older(controller)
  /\ since' = IF since <= Deadman THEN since + 1 ELSE since
  /\ confirmed' = NoMode
  /\ UNCHANGED <<interrupted, outstanding>>

Next ==
  \/ \E finite \in BOOLEAN, v \in VelocityInputs : AcceptVelocity(finite, v)
  \/ TriggerEstop
  \/ ClearEstop
  \/ \E name \in ModeNames \cup {"unknown"} : RequestMode(name)
  \/ \E success \in BOOLEAN : CompleteModeTransition(success)
  \/ \E ready \in BOOLEAN : SetDriverReady(ready)
  \/ InvalidateConnection
  \/ \E st \in ControllerStatuses : UpdateRobotState(st)
  \/ Tick

Spec == Init /\ [][Next]_vars

-----------------------------------------------------------------------------
\* The members and the history keep their types.
TypeOK ==
  /\ controller \in ControllerStates
  /\ since \in 0..(Deadman + 1)
  /\ interrupted \in BOOLEAN
  /\ outstanding \in Modes \cup {NoMode}
  /\ confirmed \in Modes \cup {NoMode}

\* A velocity is only remembered while the gate is open, and a transition is
\* only pending while motion is gated and readiness, link and authority stand
\* (the force_zero_locked and pending resets scattered over the methods of
\* robot_controller.cpp).
GateHolds == GateInv(controller)

\* What a motion tick sends was accepted at most Deadman ticks ago, is within
\* the limit, and the gate has not closed even once since then
\* (RobotController::velocity_for_tick; "no velocity is replayed").
TickIsFresh ==
  velocity_for_tick(controller) # 0 =>
    /\ since <= Deadman
    /\ ~interrupted
    /\ controller.latest_velocity \in Velocities

\* A closed transition gate opens only in a call that reports success for a
\* "move" that was accepted and that nothing has completed or withdrawn since,
\* while link, authority and readiness stand, and no velocity is left behind it
\* (RobotController::complete_mode_transition): not a failed completion, not a
\* second one, not one of a dropped or replaced request, and no other call.
GateOpensOnConfirmedMove ==
  [][ (controller.motion_transition_gate /\ ~controller'.motion_transition_gate)
      => /\ confirmed' = "move"
         /\ controller.driver_ready /\ StatusUsable(controller.status)
         /\ ~controller'.has_velocity ]_vars

\* The latch is released by clear_estop alone, and releasing it neither brings
\* back authority, readiness or a mode, nor replays a velocity
\* (RobotController::clear_estop, invalidate_connection).
ReleaseRestoresNothing ==
  [][ (controller.estop_latched /\ ~controller'.estop_latched)
      => controller' = force_zero([controller EXCEPT !.estop_latched = FALSE]) ]_vars
=============================================================================
