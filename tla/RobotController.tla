--------------------------- MODULE RobotController ---------------------------
(***************************************************************************)
(* The safety gate of the driver (src/robot_controller.cpp).  Every method *)
(* of the class holds mutex_ from its first to its last statement, so each *)
(* one is a function from the state before the call to the state after it. *)
(*                                                                         *)
(* Data kept: a velocity is one signed component in units of the vendor's  *)
(* limit, a mode or sport status is its name, an error code is 0 or 1 (any *)
(* non-zero code), and last_velocity_time_ is the age of the stored        *)
(* velocity, which is only ever compared with the deadman and therefore    *)
(* saturates one past it.                                                  *)
(***************************************************************************)
EXTENDS Integers

CONSTANT
  Deadman   \* command_deadman, in clock ticks

ASSUME DeadmanAssumption == Deadman \in Nat \ {0}

Limit      == 1
Velocities == -Limit..Limit

\* The names request_mode accepts after trimming and lower-casing, and the
\* vendor modes they stand for ("recover" and "recovery" are one mode).
ModeNames == {"damping", "stand", "down", "move", "auto_charge",
              "exit_charge", "recover", "recovery"}
kModes    == [n \in ModeNames |-> IF n = "recover" THEN "recovery" ELSE n]
Modes     == ModeNames \ {"recover"}
NoMode    == "none"

\* Sport statuses the driver tells apart (0xB101 and on); "none" is 0, or any
\* status that confirms no mode.
SportStatuses == {"Damping", "Stand", "Down", "Move", "AutoCharge",
                  "ExitCharge", "Recovery", "none"}
kSportStateMove == "Move"

ControllerStatuses ==
  [sdk_linked : BOOLEAN, control_authority : BOOLEAN,
   sport_status : SportStatuses, error_code : {0, 1}]

ControllerStates ==
  [status : ControllerStatuses,
   latest_velocity : Velocities, velocity_age : 0..(Deadman + 1),
   has_velocity : BOOLEAN, estop_latched : BOOLEAN, driver_ready : BOOLEAN,
   motion_transition_gate : BOOLEAN, mode_transition_pending : BOOLEAN,
   pending_mode : Modes \cup {NoMode}]

NoStatus ==
  [sdk_linked |-> FALSE, control_authority |-> FALSE,
   sport_status |-> "none", error_code |-> 0]

\* The transition gate starts open: readiness, link, authority and the sport
\* status, all absent, are what holds motion back.
InitialController ==
  [status |-> NoStatus, latest_velocity |-> 0, velocity_age |-> 0,
   has_velocity |-> FALSE, estop_latched |-> FALSE, driver_ready |-> FALSE,
   motion_transition_gate |-> FALSE, mode_transition_pending |-> FALSE,
   pending_mode |-> NoMode]

\* Link, authority and no system error: what every accepted command needs.
StatusUsable(st) ==
  st.sdk_linked /\ st.control_authority /\ st.error_code = 0

movement_ready(c) ==
  /\ c.driver_ready
  /\ ~c.motion_transition_gate
  /\ ~c.mode_transition_pending
  /\ StatusUsable(c.status)
  /\ c.status.sport_status = kSportStateMove
  /\ ~c.estop_latched

force_zero(c) ==
  [c EXCEPT !.latest_velocity = 0, !.has_velocity = FALSE, !.velocity_age = 0]

clamp(v) == IF v > Limit THEN Limit ELSE IF v < -Limit THEN -Limit ELSE v

\* A command with a non-finite component, or one the gate refuses, clears the
\* stored velocity; an accepted one replaces it, clamped.
accept_velocity(c, finite, v) ==
  IF finite /\ movement_ready(c)
  THEN [c EXCEPT !.latest_velocity = clamp(v), !.has_velocity = TRUE,
                 !.velocity_age = 0]
  ELSE force_zero(c)

\* Fault: the deadman is not consulted.
velocity_for_tick_undated(c) ==
  IF movement_ready(c) /\ c.has_velocity THEN c.latest_velocity ELSE 0

\* The velocity a motion tick may send: zero stands for every rejection.
velocity_for_tick(c) ==
  IF movement_ready(c) /\ c.has_velocity /\ c.velocity_age <= Deadman
  THEN c.latest_velocity
  ELSE 0

\* Fault: the latch leaves the stored velocity in place.
trigger_estop_keeps_velocity(c) == [c EXCEPT !.estop_latched = TRUE]

trigger_estop(c) == force_zero([c EXCEPT !.estop_latched = TRUE])

clear_estop(c) == force_zero([c EXCEPT !.estop_latched = FALSE])

mode_accepted(c, name) ==
  /\ name \in ModeNames
  /\ c.driver_ready
  /\ ~c.mode_transition_pending
  /\ StatusUsable(c.status)
  /\ c.estop_latched => kModes[name] = "damping"

\* A rejected request leaves the controller as it was.
request_mode(c, name) ==
  IF mode_accepted(c, name)
  THEN force_zero([c EXCEPT !.mode_transition_pending = TRUE,
                            !.pending_mode = kModes[name],
                            !.motion_transition_gate = TRUE])
  ELSE c

\* Fault: a pending "move" opens the gate however it ended.
complete_ignores_failure(c, success) ==
  force_zero([c EXCEPT !.mode_transition_pending = FALSE,
                       !.pending_mode = NoMode,
                       !.motion_transition_gate =
                          ~(c.mode_transition_pending /\ c.pending_mode = "move")])

\* Fault: a failed transition stays pending.
complete_keeps_failed(c, success) ==
  IF success
  THEN force_zero([c EXCEPT !.mode_transition_pending = FALSE,
                            !.pending_mode = NoMode,
                            !.motion_transition_gate = c.pending_mode # "move"])
  ELSE force_zero(c)

\* The pending transition is over; the gate opens only on a confirmed "move".
complete_mode_transition(c, success) ==
  force_zero([c EXCEPT !.mode_transition_pending = FALSE,
                       !.pending_mode = NoMode,
                       !.motion_transition_gate =
                          ~(success /\ c.mode_transition_pending
                                    /\ c.pending_mode = "move")])

\* Drops any pending transition and closes the gate.
drop_transition(c) ==
  [c EXCEPT !.mode_transition_pending = FALSE, !.pending_mode = NoMode,
            !.motion_transition_gate = TRUE]

set_driver_ready(c, ready) ==
  IF ready
  THEN [c EXCEPT !.driver_ready = TRUE]
  ELSE force_zero(drop_transition([c EXCEPT !.driver_ready = FALSE]))

\* Fault: a lost connection also clears the emergency stop.
invalidate_clears_estop(c) ==
  force_zero(drop_transition([c EXCEPT !.driver_ready = FALSE,
                                       !.estop_latched = FALSE]))

\* Fault: a lost connection leaves readiness armed.
invalidate_keeps_ready(c) == force_zero(drop_transition(c))

\* The emergency-stop latch is the one flag a lost connection leaves alone.
invalidate_connection(c) ==
  force_zero(drop_transition([c EXCEPT !.driver_ready = FALSE]))

update_robot_state(c, st) ==
  LET told == [c EXCEPT !.status = st]
      next == IF StatusUsable(st) THEN told ELSE drop_transition(told)
  IN  IF movement_ready(c) /\ movement_ready(next)
      THEN next
      ELSE force_zero(next)

\* The clock advances by a tick. Without a stored velocity its age is never
\* read, so it is left at 0.
grow_older(c) ==
  IF c.has_velocity /\ c.velocity_age <= Deadman
  THEN [c EXCEPT !.velocity_age = @ + 1]
  ELSE c

-----------------------------------------------------------------------------
\* What every method keeps true of the controller, whoever calls it.

\* A stored velocity implies an open gate: whatever closes the gate also
\* forgets the velocity.
VelocityNeedsGate(c) == c.has_velocity => movement_ready(c)

\* A pending transition keeps motion gated and is dropped with readiness, link,
\* authority, or on a system error.
PendingIsGuarded(c) ==
  IF c.mode_transition_pending
  THEN /\ c.pending_mode # NoMode
       /\ c.motion_transition_gate
       /\ c.driver_ready
       /\ StatusUsable(c.status)
  ELSE c.pending_mode = NoMode

GateInv(c) == VelocityNeedsGate(c) /\ PendingIsGuarded(c)
=============================================================================
