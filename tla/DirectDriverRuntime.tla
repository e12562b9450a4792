------------------------- MODULE DirectDriverRuntime -------------------------
(***************************************************************************)
(* The direct driver runtime (src/direct_driver_runtime.cpp): one worker   *)
(* thread that connects, serves a session and reconnects; caller threads   *)
(* that submit velocities, mode and authority requests and emergency       *)
(* stops; and the vendor's status callbacks, which may run on any thread.  *)
(*                                                                         *)
(* A step of a thread is one critical section of wake_mutex_, one call of  *)
(* the controller (whose methods are atomic), or one SDK call together     *)
(* with the worker-local work around it.  Steps of one thread with nothing *)
(* observable between them are one action; README.md gives the argument    *)
(* for each.  Timers (heartbeat, motion refresh, state poll, transition    *)
(* deadline, backoff) may be due in any iteration, which covers every      *)
(* configuration of the periods.                                           *)
(***************************************************************************)
EXTENDS RobotController, Sequences, FiniteSets

CONSTANTS
  ModeRequests,       \* request_mode calls that may be outstanding at once
  AuthorityRequests,  \* request_authority calls, likewise
  EstopRequests,      \* trigger_estop(true) calls, likewise
  NoRequest,          \* no caller: the null promise
  RequestedNames,     \* mode names the callers ask for
  PolledStatuses,     \* sport statuses a snapshot may report
  PolledErrors,       \* error codes a snapshot may report
  VelocityInputs,     \* velocities the callers submit
  QueueCapacity,      \* queue_capacity
  HeartbeatMax,       \* heartbeat_max_failures
  BackoffInitial,     \* reconnect_initial_delay_ms
  BackoffMax,         \* reconnect_max_delay_ms
  LossyReplies        \* a failed move may have reached the robot all the same

Requests == ModeRequests \cup AuthorityRequests \cup EstopRequests

ASSUME RuntimeAssumption ==
  /\ ModeRequests \cap AuthorityRequests = {}
  /\ ModeRequests \cap EstopRequests = {}
  /\ AuthorityRequests \cap EstopRequests = {}
  /\ NoRequest \notin Requests
  /\ RequestedNames \subseteq ModeNames \cup {"unknown"}
  /\ PolledStatuses \subseteq SportStatuses
  /\ PolledErrors \subseteq {0, 1}
  /\ VelocityInputs \subseteq Int
  /\ QueueCapacity \in Nat \ {0}
  /\ HeartbeatMax \in Nat
  /\ BackoffInitial \in Nat
  /\ BackoffMax \in Nat
  /\ LossyReplies \in BOOLEAN

VARIABLES
  controller,   \* controller_, the safety gate
  caller,       \* where each request's calling thread is
  promise,      \* the answer each request's future holds
  wanted,       \* the mode each request_mode call is about
  shared,       \* the members wake_mutex_ guards, and command_queue_
  worker,       \* the worker's program counter, members and locals
  sdk,          \* the vendor side: callbacks flow, velocity last received
  reported,     \* history: this connection attempt had a status callback
  estop_served  \* history: a stop was carried out and its latch still stands

vars == <<controller, caller, promise, wanted, shared, worker, sdk, reported,
          estop_served>>

Commands   == [req : ModeRequests \cup AuthorityRequests,
               mode : Modes \cup {NoMode}]
NoCommand  == [req |-> NoRequest, mode |-> NoMode]
NoSnapshot == [sdk_linked |-> FALSE, sport_status |-> "none", error_code |-> 0]
Snapshots  == [sdk_linked : BOOLEAN, sport_status : PolledStatuses,
               error_code : PolledErrors]
NoTransition == [active |-> FALSE, stable_status |-> "none",
                 promise |-> NoRequest]

Init ==
  /\ controller = InitialController
  /\ caller = [r \in Requests |-> "idle"]
  /\ promise = [r \in Requests |-> "none"]
  /\ wanted = [r \in Requests |-> NoMode]
  /\ shared = [stop_requested |-> FALSE, connected |-> FALSE,
               sdk_linked |-> FALSE, control_authority |-> FALSE,
               link_drop_latched |-> FALSE, sport_status |-> "none",
               error_code |-> 0, motion_refresh_due |-> FALSE,
               estop_promise |-> NoRequest, command_queue |-> <<>>]
  /\ worker = [pc |-> "not_started", cur |-> NoCommand,
               mode_transition |-> NoTransition, last_sent_nonzero |-> FALSE,
               driver_ready_armed |-> FALSE, heartbeat_failures |-> 0,
               forced |-> FALSE, target |-> 0, zero_ok |-> FALSE,
               snapshot |-> NoSnapshot, backoff |-> BackoffInitial]
  /\ sdk = [live |-> FALSE, velocity |-> 0]
  /\ reported = FALSE
  /\ estop_served = FALSE

-----------------------------------------------------------------------------
(* Helpers *)

\* Fault: a link is taken for a session.
DisconnectedByLink ==
  shared.stop_requested \/ ~shared.sdk_linked \/ shared.link_drop_latched

\* No session to serve a command: the test every entry point makes.
Disconnected ==
  \/ shared.stop_requested
  \/ ~shared.connected
  \/ ~shared.sdk_linked
  \/ shared.link_drop_latched

\* Link and authority, the condition for actuating on behalf of a stop.
MayActuate ==
  shared.sdk_linked /\ shared.control_authority /\ ~shared.link_drop_latched

\* set_promise: the first answer wins.
set_promise(p, r, answer) ==
  IF r \in Requests /\ p[r] = "waiting" THEN [p EXCEPT ![r] = answer] ELSE p

\* Fault: the superseded request is dropped without an answer.
SupersedeSilently(p) == p

\* A newer stop request supersedes one the worker has not consumed.
Supersede(p) == set_promise(p, shared.estop_promise, "failed")

\* Fault: the armed transition is dropped without an answer.
fail_transition_silently(p) == p

\* fail_mode_transition, the answer: the armed transition's promise fails.
fail_mode_transition(p) ==
  set_promise(p, worker.mode_transition.promise, "failed")

\* Fault: one command too many fits.
RoomForOneMore == Len(shared.command_queue) <= QueueCapacity

\* command_queue_.push succeeds (RejectNew).
HasRoom == Len(shared.command_queue) < QueueCapacity

\* The vendor sport status that confirms each mode; 0 ("none") for any other.
stable_status_for(mode) ==
  CASE mode = "damping"     -> "Damping"
    [] mode = "stand"       -> "Stand"
    [] mode = "down"        -> "Down"
    [] mode = "move"        -> "Move"
    [] mode = "auto_charge" -> "AutoCharge"
    [] mode = "exit_charge" -> "ExitCharge"
    [] mode = "recovery"    -> "Recovery"
    [] OTHER                -> "none"

\* What the robot may have been told after a move call.
Moved(v, ok) ==
  IF ok THEN {v} ELSE IF LossyReplies THEN {v, sdk.velocity} ELSE {sdk.velocity}

\* The worker moves on, changing nothing else of its own.
Goto(to) == worker' = [worker EXCEPT !.pc = to]

At(from) == worker.pc = from

historyVars == <<reported, estop_served>>

-----------------------------------------------------------------------------
(* Callers *)

SubmitVelocity(finite, v) ==
  /\ controller' = accept_velocity(controller, finite, v)
  /\ UNCHANGED <<caller, promise, wanted, shared, worker, sdk, historyVars>>

\* trigger_estop(false): released at once, answered at once.
ReleaseEstop ==
  /\ controller' = clear_estop(controller)
  /\ estop_served' = FALSE
  /\ UNCHANGED <<caller, promise, wanted, shared, worker, sdk, reported>>

\* trigger_estop(true), first half: latch before anything else.
LatchEstop(r) ==
  /\ caller[r] = "idle"
  /\ controller' = trigger_estop(controller)
  /\ caller' = [caller EXCEPT ![r] = "latched"]
  /\ promise' = [promise EXCEPT ![r] = "waiting"]
  /\ UNCHANGED <<wanted, shared, worker, sdk, historyVars>>

\* Second half, under wake_mutex_: supersede an unserved request, leave the
\* mark for the worker, or answer here when there is no session.
MarkEstop(r) ==
  /\ caller[r] = "latched"
  /\ caller' = [caller EXCEPT ![r] = "returned"]
  /\ IF Disconnected
     THEN /\ shared' = [shared EXCEPT !.estop_promise = NoRequest]
          /\ promise' = set_promise(Supersede(promise), r, "failed")
     ELSE /\ shared' = [shared EXCEPT !.estop_promise = r]
          /\ promise' = Supersede(promise)
  /\ UNCHANGED <<controller, wanted, worker, sdk, historyVars>>

\* request_authority: gate check and enqueue in one critical section.
RequestAuthority(r) ==
  /\ caller[r] = "idle"
  /\ caller' = [caller EXCEPT ![r] = "returned"]
  /\ IF ~Disconnected /\ HasRoom
     THEN /\ shared' = [shared EXCEPT !.command_queue =
                          Append(@, [req |-> r, mode |-> NoMode])]
          /\ promise' = [promise EXCEPT ![r] = "waiting"]
     ELSE /\ promise' = [promise EXCEPT ![r] = "failed"]
          /\ UNCHANGED shared
  /\ UNCHANGED <<controller, wanted, worker, sdk, historyVars>>

\* request_mode, first critical section.
CheckMode(r, name) ==
  /\ caller[r] = "idle"
  /\ IF Disconnected
     THEN /\ caller' = [caller EXCEPT ![r] = "returned"]
          /\ promise' = [promise EXCEPT ![r] = "failed"]
          /\ UNCHANGED wanted
     ELSE /\ caller' = [caller EXCEPT ![r] = "checked"]
          /\ promise' = [promise EXCEPT ![r] = "waiting"]
          /\ wanted' = [wanted EXCEPT ![r] = name]
  /\ UNCHANGED <<controller, shared, worker, sdk, historyVars>>

\* The controller decides, without wake_mutex_.
AcceptMode(r) ==
  /\ caller[r] = "checked"
  /\ controller' = request_mode(controller, wanted[r])
  /\ IF mode_accepted(controller, wanted[r])
     THEN /\ caller' = [caller EXCEPT ![r] = "accepted"]
          /\ wanted' = [wanted EXCEPT ![r] = kModes[@]]
          /\ UNCHANGED promise
     ELSE /\ caller' = [caller EXCEPT ![r] = "returned"]
          /\ wanted' = [wanted EXCEPT ![r] = NoMode]
          /\ promise' = set_promise(promise, r, "failed")
  /\ UNCHANGED <<shared, worker, sdk, historyVars>>

\* Second critical section: enqueue, or undo the acceptance when the session
\* ended meanwhile or the queue is full.
EnqueueMode(r) ==
  /\ caller[r] = "accepted"
  /\ caller' = [caller EXCEPT ![r] = "returned"]
  /\ wanted' = [wanted EXCEPT ![r] = NoMode]
  /\ IF ~Disconnected /\ HasRoom
     THEN /\ shared' = [shared EXCEPT !.command_queue =
                          Append(@, [req |-> r, mode |-> wanted[r]])]
          /\ UNCHANGED <<controller, promise>>
     ELSE /\ controller' = complete_mode_transition(controller, FALSE)
          /\ promise' = set_promise(promise, r, "failed")
          /\ UNCHANGED shared
  /\ UNCHANGED <<worker, sdk, historyVars>>

\* The caller has read its future and may call again.
Collect(r) ==
  /\ caller[r] = "returned"
  /\ promise[r] \in {"ok", "failed"}
  /\ caller' = [caller EXCEPT ![r] = "idle"]
  /\ promise' = [promise EXCEPT ![r] = "none"]
  /\ UNCHANGED <<controller, wanted, shared, worker, sdk, historyVars>>

Stop ==
  /\ ~shared.stop_requested
  /\ shared' = [shared EXCEPT !.stop_requested = TRUE]
  /\ UNCHANGED <<controller, caller, promise, wanted, worker, sdk, historyVars>>

Start ==
  /\ At("not_started")
  /\ ~shared.stop_requested
  /\ Goto("head")
  /\ UNCHANGED <<controller, caller, promise, wanted, shared, sdk, historyVars>>

-----------------------------------------------------------------------------
(* The vendor side and the clock *)

\* handle_status: cache, drop latch and gate change in one critical section.
HandleStatus(linked, authority) ==
  /\ sdk.live
  /\ shared' = [shared EXCEPT
       !.sdk_linked = linked,
       !.control_authority = authority,
       !.link_drop_latched = @ \/ ~linked,
       !.motion_refresh_due = TRUE]
  /\ controller' = update_robot_state(controller,
       [sdk_linked |-> linked, control_authority |-> authority,
        sport_status |-> shared.sport_status,
        error_code |-> shared.error_code])
  /\ reported' = TRUE
  /\ UNCHANGED <<caller, promise, wanted, worker, sdk, estop_served>>

ClockTick ==
  /\ controller' = grow_older(controller)
  /\ UNCHANGED <<caller, promise, wanted, shared, worker, sdk, historyVars>>

-----------------------------------------------------------------------------
(* The worker outside a session: worker_main *)

LoopHead ==
  /\ At("head")
  /\ Goto(IF shared.stop_requested THEN "exited" ELSE "preflight")
  /\ UNCHANGED <<controller, caller, promise, wanted, shared, sdk, historyVars>>

\* A passing preflight is followed by the stop check and the reset of the drop
\* latch; from the init call on, status callbacks may arrive.
Preflight(ready) ==
  /\ At("preflight")
  /\ IF ready /\ ~shared.stop_requested
     THEN /\ Goto("init")
          /\ shared' = [shared EXCEPT !.link_drop_latched = FALSE]
          /\ sdk' = [sdk EXCEPT !.live = TRUE]
          /\ reported' = FALSE
     ELSE /\ Goto(IF ready THEN "exited" ELSE "invalidate")
          /\ UNCHANGED <<shared, sdk, reported>>
  /\ UNCHANGED <<controller, caller, promise, wanted, estop_served>>

\* After a failed init a callback may still be running until the deinit.
SdkInit(ok) ==
  /\ At("init")
  /\ Goto(IF ~ok THEN "invalidate"
          ELSE IF shared.stop_requested THEN "deinit" ELSE "subscribe")
  /\ UNCHANGED <<controller, caller, promise, wanted, shared, sdk, historyVars>>

\* subscribe_telemetry, the stop check, and the start of the session.
Subscribe(ok) ==
  /\ At("subscribe")
  /\ IF ok /\ ~shared.stop_requested
     THEN /\ worker' = [worker EXCEPT !.pc = "wait",
                          !.last_sent_nonzero = FALSE,
                          !.heartbeat_failures = 0,
                          !.backoff = BackoffInitial]
          /\ shared' = [shared EXCEPT !.connected = TRUE]
          /\ sdk' = [sdk EXCEPT !.velocity = 0]
     ELSE /\ Goto(IF ok THEN "deinit" ELSE "invalidate")
          /\ UNCHANGED <<shared, sdk>>
  /\ UNCHANGED <<controller, caller, promise, wanted, historyVars>>

\* connected_ = false and fail_all_pending_locked, under wake_mutex_. Each
\* queued mode command undoes its controller acceptance.
SessionEnd ==
  LET queued == {shared.command_queue[i].req : i \in DOMAIN shared.command_queue}
      failed == queued \cup {shared.estop_promise}
                       \cup {worker.mode_transition.promise}
  IN  /\ At("session_end")
      /\ worker' = [worker EXCEPT !.pc = "invalidate",
                                  !.mode_transition = NoTransition]
      /\ shared' = [shared EXCEPT !.connected = FALSE,
                                  !.estop_promise = NoRequest,
                                  !.command_queue = <<>>]
      /\ promise' = [r \in Requests |->
                       IF r \in failed /\ promise[r] = "waiting"
                       THEN "failed" ELSE promise[r]]
      /\ controller' = IF queued \cap ModeRequests # {}
                       THEN complete_mode_transition(controller, FALSE)
                       ELSE controller
      /\ UNCHANGED <<caller, wanted, sdk, historyVars>>

\* invalidate_session: the runtime's caches first, under wake_mutex_ ...
InvalidateCaches ==
  /\ At("invalidate")
  /\ worker' = [worker EXCEPT !.pc = "invalidate_controller",
                              !.driver_ready_armed = FALSE]
  /\ shared' = [shared EXCEPT !.sdk_linked = FALSE,
                              !.control_authority = FALSE,
                              !.sport_status = "none", !.error_code = 0]
  /\ UNCHANGED <<controller, caller, promise, wanted, sdk, historyVars>>

\* ... and the controller second.
InvalidateController ==
  /\ At("invalidate_controller")
  /\ Goto("deinit")
  /\ controller' = invalidate_connection(update_robot_state(controller, NoStatus))
  /\ UNCHANGED <<caller, promise, wanted, shared, sdk, historyVars>>

\* deinit returns once no callback is running and none will come.
Deinit ==
  /\ At("deinit")
  /\ Goto(IF shared.stop_requested THEN "exited" ELSE "backoff")
  /\ sdk' = [sdk EXCEPT !.live = FALSE]
  /\ UNCHANGED <<controller, caller, promise, wanted, shared, historyVars>>

\* Fault: the delay is not capped.
next_backoff_uncapped(current) == 2 * current

\* wait_backoff: the delay doubles up to the maximum and never shrinks.
next_backoff(current) ==
  LET next == IF 2 * current > BackoffMax THEN BackoffMax ELSE 2 * current
  IN  IF next > current THEN next ELSE current

Backoff ==
  /\ At("backoff")
  /\ worker' = [worker EXCEPT !.pc = "head",
                              !.backoff = next_backoff(worker.backoff)]
  /\ UNCHANGED <<controller, caller, promise, wanted, shared, sdk, historyVars>>

-----------------------------------------------------------------------------
(* The worker inside a session: run_connected_loop *)

\* Fault: only a link drop ends the session.
WaitIgnoresStop ==
  /\ At("wait")
  /\ Goto(IF shared.link_drop_latched THEN "session_end" ELSE "estop")
  /\ UNCHANGED <<controller, caller, promise, wanted, shared, sdk, historyVars>>

\* The wait and the re-check after it: leave on a stop or a link drop.
Wait ==
  /\ At("wait")
  /\ Goto(IF shared.stop_requested THEN "actuate"
          ELSE IF shared.link_drop_latched THEN "session_end" ELSE "estop")
  /\ UNCHANGED <<controller, caller, promise, wanted, shared, sdk, historyVars>>

\* actuate_stop_if_authorized
Actuate ==
  /\ At("actuate")
  /\ Goto(IF MayActuate THEN "send_zero" ELSE "session_end")
  /\ UNCHANGED <<controller, caller, promise, wanted, shared, sdk, historyVars>>

\* handle_estop_if_requested: take the mark, abort the transition.
TakeEstop ==
  /\ At("estop")
  /\ IF shared.estop_promise = NoRequest
     THEN /\ Goto("settle")
          /\ UNCHANGED <<controller, promise, shared>>
     ELSE /\ worker' = [worker EXCEPT !.pc = "estop_drain",
                          !.cur = [NoCommand EXCEPT !.req = shared.estop_promise],
                          !.mode_transition = NoTransition]
          /\ shared' = [shared EXCEPT !.estop_promise = NoRequest]
          /\ promise' = fail_mode_transition(promise)
          /\ controller' = complete_mode_transition(controller, FALSE)
  /\ UNCHANGED <<caller, wanted, sdk, historyVars>>

\* ... fail every queued command, one try_pop at a time ...
DrainForEstop ==
  /\ At("estop_drain")
  /\ IF shared.command_queue = <<>>
     THEN /\ Goto("estop_gate")
          /\ UNCHANGED <<controller, promise, shared>>
     ELSE LET command == Head(shared.command_queue)
          IN  /\ shared' = [shared EXCEPT !.command_queue = Tail(@)]
              /\ promise' = set_promise(promise, command.req, "failed")
              /\ controller' = IF command.req \in ModeRequests
                               THEN complete_mode_transition(controller, FALSE)
                               ELSE controller
              /\ UNCHANGED worker
  /\ UNCHANGED <<caller, wanted, sdk, historyVars>>

\* Fault: without link or authority the worker returns without an answer.
EstopGateSilent ==
  /\ At("estop_gate")
  /\ IF MayActuate
     THEN Goto("send_zero")
     ELSE worker' = [worker EXCEPT !.pc = "settle", !.cur = NoCommand]
  /\ UNCHANGED <<controller, caller, promise, wanted, shared, sdk, historyVars>>

\* ... and actuate only with link and authority.
EstopGate ==
  /\ At("estop_gate")
  /\ IF MayActuate
     THEN Goto("send_zero") /\ UNCHANGED promise
     ELSE /\ worker' = [worker EXCEPT !.pc = "settle", !.cur = NoCommand]
          /\ promise' = set_promise(promise, worker.cur.req, "failed")
  /\ UNCHANGED <<controller, caller, wanted, shared, sdk, historyVars>>

\* send_zero_and_damping, for an emergency stop (cur) or for stop() (no cur).
SendZero(ok) ==
  /\ At("send_zero")
  /\ worker' = [worker EXCEPT !.pc = "send_damping", !.zero_ok = ok,
                              !.last_sent_nonzero = @ /\ ~ok]
  /\ sdk' \in {[sdk EXCEPT !.velocity = v] : v \in Moved(0, ok)}
  /\ UNCHANGED <<controller, caller, promise, wanted, shared, historyVars>>

\* Fault: a failed zero move is not counted against the stop.
StoppedByDamping(ok) == ok

\* The stop succeeded when the zero move and the damping command both did.
Stopped(ok) == worker.zero_ok /\ ok

SendDamping(ok) ==
  LET for_estop == worker.cur.req # NoRequest
  IN  /\ At("send_damping")
      /\ worker' = [worker EXCEPT
                      !.pc = IF for_estop THEN "settle" ELSE "session_end",
                      !.cur = NoCommand, !.zero_ok = FALSE]
      /\ promise' = set_promise(promise, worker.cur.req,
                                IF Stopped(ok) THEN "ok" ELSE "failed")
      /\ estop_served' = (estop_served \/
                            (for_estop /\ Stopped(ok) /\ controller.estop_latched))
      /\ UNCHANGED <<controller, caller, wanted, shared, sdk, reported>>

\* The worker-side transition whose controller-side half is gone: detected by
\* one controller call, completed by another.
Orphaned == worker.mode_transition.active /\ ~controller.mode_transition_pending

\* fail_mode_transition(..., true): answer it and complete the controller's.
AbortTransition(from, to) ==
  /\ At(from)
  /\ worker' = [worker EXCEPT !.pc = to, !.mode_transition = NoTransition]
  /\ promise' = fail_mode_transition(promise)
  /\ controller' = complete_mode_transition(controller, FALSE)
  /\ UNCHANGED <<caller, wanted, shared, sdk, historyVars>>

Settle ==
  /\ At("settle")
  /\ Goto(IF Orphaned THEN "settle_abort" ELSE "pop")
  /\ UNCHANGED <<controller, caller, promise, wanted, shared, sdk, historyVars>>

SettleAbort == AbortTransition("settle_abort", "pop")

\* try_pop and the start of execute_command: a mode command supersedes a
\* transition still armed, and a moving robot is zeroed first.
Pop ==
  /\ At("pop")
  /\ IF shared.command_queue = <<>>
     THEN /\ Goto("flag")
          /\ UNCHANGED <<promise, shared>>
     ELSE LET command == Head(shared.command_queue)
              is_mode == command.req \in ModeRequests
          IN  /\ shared' = [shared EXCEPT !.command_queue = Tail(@)]
              /\ worker' = [worker EXCEPT
                   !.cur = command,
                   !.mode_transition = IF is_mode THEN NoTransition ELSE @,
                   !.pc = IF ~is_mode THEN "authority"
                          ELSE IF worker.last_sent_nonzero THEN "mode_zero"
                          ELSE "mode_set"]
              /\ promise' = IF is_mode THEN fail_mode_transition(promise)
                            ELSE promise
  /\ UNCHANGED <<controller, caller, wanted, sdk, historyVars>>

\* An authority request; an exception also aborts the armed transition.
ExecuteAuthority(outcome) ==
  LET threw == outcome = "throw"
      aborted == IF threw THEN fail_mode_transition(promise) ELSE promise
  IN  /\ At("authority")
      /\ worker' = [worker EXCEPT !.pc = "flag", !.cur = NoCommand,
                      !.mode_transition = IF threw THEN NoTransition ELSE @]
      /\ promise' = set_promise(aborted, worker.cur.req,
                                IF outcome = "ok" THEN "ok" ELSE "failed")
      /\ controller' = IF threw THEN complete_mode_transition(controller, FALSE)
                       ELSE controller
      /\ UNCHANGED <<caller, wanted, shared, sdk, historyVars>>

\* The command failed, by a result or an exception: undo and answer.
FailMode ==
  /\ worker' = [worker EXCEPT !.pc = "flag", !.cur = NoCommand]
  /\ promise' = set_promise(promise, worker.cur.req, "failed")
  /\ controller' = complete_mode_transition(controller, FALSE)

ZeroBeforeMode(ok) ==
  /\ At("mode_zero")
  /\ sdk' \in {[sdk EXCEPT !.velocity = v] : v \in Moved(0, ok)}
  /\ IF ok
     THEN /\ worker' = [worker EXCEPT !.pc = "mode_set",
                                      !.last_sent_nonzero = FALSE]
          /\ UNCHANGED <<controller, promise>>
     ELSE FailMode
  /\ UNCHANGED <<caller, wanted, shared, historyVars>>

\* Fault: the transition is recorded but not activated.
ArmedInactive(mode) ==
  [active |-> FALSE, stable_status |-> stable_status_for(mode),
   promise |-> worker.cur.req]

\* The watch for the stable status of a mode the SDK accepted.
Armed(mode) ==
  [active |-> TRUE, stable_status |-> stable_status_for(mode),
   promise |-> worker.cur.req]

\* set_mode; success arms the watch for the stable status.
SetMode(ok) ==
  /\ At("mode_set")
  /\ IF ok /\ stable_status_for(worker.cur.mode) # "none"
     THEN /\ worker' = [worker EXCEPT !.pc = "flag", !.cur = NoCommand,
                          !.mode_transition = Armed(worker.cur.mode)]
          /\ UNCHANGED <<controller, promise>>
     ELSE FailMode
  /\ UNCHANGED <<caller, wanted, shared, sdk, historyVars>>

\* Consume the request for an immediate motion tick.
TakeRefresh ==
  /\ At("flag")
  /\ worker' = [worker EXCEPT !.pc = "heartbeat",
                              !.forced = shared.motion_refresh_due]
  /\ shared' = [shared EXCEPT !.motion_refresh_due = FALSE]
  /\ UNCHANGED <<controller, caller, promise, wanted, sdk, historyVars>>

HeartbeatThreshold == IF HeartbeatMax > 1 THEN HeartbeatMax ELSE 1

\* Due or not; the threshold of consecutive failures ends the session.
Heartbeat(outcome) ==
  LET failures == worker.heartbeat_failures + 1
  IN  /\ At("heartbeat")
      /\ worker' =
           CASE outcome = "skip" -> [worker EXCEPT !.pc = "tick"]
             [] outcome = "ok"   -> [worker EXCEPT !.pc = "tick",
                                                   !.heartbeat_failures = 0]
             [] outcome = "fail" ->
                  IF failures >= HeartbeatThreshold
                  THEN [worker EXCEPT !.pc = "session_end", !.forced = FALSE,
                                      !.heartbeat_failures = 0]
                  ELSE [worker EXCEPT !.pc = "tick",
                                      !.heartbeat_failures = failures]
      /\ UNCHANGED <<controller, caller, promise, wanted, shared, sdk, historyVars>>

SkipMotion ==
  /\ At("tick")
  /\ ~worker.forced
  /\ Goto("deadline")
  /\ UNCHANGED <<controller, caller, promise, wanted, shared, sdk, historyVars>>

\* The controller is asked for the velocity; a steady zero is not re-sent.
MotionTick ==
  LET v == velocity_for_tick(controller)
  IN  /\ At("tick")
      /\ worker' = [worker EXCEPT !.forced = FALSE, !.target = v,
                      !.pc = IF v # 0 \/ worker.last_sent_nonzero
                             THEN "tick_send" ELSE "deadline"]
      /\ UNCHANGED <<controller, caller, promise, wanted, shared, sdk, historyVars>>

\* Fault: the sent-state follows the target even when the move failed.
SentStateFollowsTarget(ok) == worker.target # 0

SentState(ok) == IF ok THEN worker.target # 0 ELSE worker.last_sent_nonzero

\* The move itself; a failure leaves last_sent_nonzero_ as it was.
SendTick(ok) ==
  /\ At("tick_send")
  /\ worker' = [worker EXCEPT !.pc = "deadline", !.target = 0,
                  !.last_sent_nonzero = SentState(ok)]
  /\ sdk' \in {[sdk EXCEPT !.velocity = v] : v \in Moved(worker.target, ok)}
  /\ UNCHANGED <<controller, caller, promise, wanted, shared, historyVars>>

\* settle_mode_transition_timeout; the poll reads the same clock value, so its
\* own deadline test never finds an expired transition left over.
Expire ==
  /\ worker.mode_transition.active
  /\ AbortTransition("deadline", "poll")

NotExpired ==
  /\ At("deadline")
  /\ Goto("poll")
  /\ UNCHANGED <<controller, caller, promise, wanted, shared, sdk, historyVars>>

SkipPoll ==
  /\ At("poll")
  /\ Goto("wait")
  /\ UNCHANGED <<controller, caller, promise, wanted, shared, sdk, historyVars>>

\* The snapshot is taken before wake_mutex_ ...
TakeSnapshot(s) ==
  /\ At("poll")
  /\ worker' = [worker EXCEPT !.pc = "poll_apply", !.snapshot = s]
  /\ UNCHANGED <<controller, caller, promise, wanted, shared, sdk, historyVars>>

\* Fault: the snapshot's older link report reaches the gate.
PolledLink(s) ==
  [sdk_linked |-> s.sdk_linked, control_authority |-> shared.control_authority,
   sport_status |-> s.sport_status, error_code |-> s.error_code]

\* Link and authority always come from the status-callback cache.
PolledStatus(s) ==
  [sdk_linked |-> shared.sdk_linked,
   control_authority |-> shared.control_authority,
   sport_status |-> s.sport_status, error_code |-> s.error_code]

\* ... and contributes only sport status and error code.
ApplySnapshot ==
  LET s == worker.snapshot
  IN  /\ At("poll_apply")
      /\ Goto("poll_settle")
      /\ shared' = [shared EXCEPT !.sport_status = s.sport_status,
                                  !.error_code = s.error_code]
      /\ controller' = update_robot_state(controller, PolledStatus(s))
      /\ UNCHANGED <<caller, promise, wanted, sdk, historyVars>>

PollSettle ==
  /\ At("poll_settle")
  /\ Goto(IF Orphaned THEN "poll_abort" ELSE "poll_check")
  /\ UNCHANGED <<controller, caller, promise, wanted, shared, sdk, historyVars>>

PollAbort == AbortTransition("poll_abort", "poll_check")

\* Readiness re-arms on the session's first linked snapshot; then the first
\* half of check_mode_transition, which asks the controller.
PollCheck ==
  LET arms == worker.snapshot.sdk_linked /\ ~worker.driver_ready_armed
      confirmed == /\ worker.mode_transition.active
                   /\ controller.mode_transition_pending
                   /\ worker.snapshot.sport_status =
                        worker.mode_transition.stable_status
  IN  /\ At("poll_check")
      /\ controller' = IF arms THEN set_driver_ready(controller, TRUE)
                       ELSE controller
      /\ worker' = [worker EXCEPT
                      !.driver_ready_armed = @ \/ arms,
                      !.snapshot = NoSnapshot,
                      !.mode_transition = IF Orphaned THEN NoTransition ELSE @,
                      !.pc = IF confirmed THEN "poll_complete" ELSE "wait"]
      /\ promise' = IF Orphaned THEN fail_mode_transition(promise) ELSE promise
      /\ UNCHANGED <<caller, wanted, shared, sdk, historyVars>>

\* The second half: the controller's pending transition is completed.
PollComplete ==
  /\ At("poll_complete")
  /\ worker' = [worker EXCEPT !.pc = "wait", !.mode_transition = NoTransition]
  /\ controller' = complete_mode_transition(controller, TRUE)
  /\ promise' = set_promise(promise, worker.mode_transition.promise, "ok")
  /\ UNCHANGED <<caller, wanted, shared, sdk, historyVars>>

-----------------------------------------------------------------------------
CallerStep ==
  \/ \E r \in EstopRequests : LatchEstop(r) \/ MarkEstop(r)
  \/ \E r \in AuthorityRequests : RequestAuthority(r)
  \/ \E r \in ModeRequests :
       \/ \E name \in RequestedNames : CheckMode(r, name)
       \/ AcceptMode(r)
       \/ EnqueueMode(r)
  \/ \E r \in Requests : Collect(r)
  \/ \E finite \in BOOLEAN, v \in VelocityInputs : SubmitVelocity(finite, v)
  \/ ReleaseEstop

ConnectStep ==
  \/ LoopHead
  \/ \E ok \in BOOLEAN : Preflight(ok) \/ SdkInit(ok) \/ Subscribe(ok)
  \/ SessionEnd
  \/ InvalidateCaches
  \/ InvalidateController
  \/ Deinit
  \/ Backoff

CommandStep ==
  \/ Wait \/ Actuate \/ TakeEstop \/ DrainForEstop \/ EstopGate
  \/ \E ok \in BOOLEAN : SendZero(ok) \/ SendDamping(ok)
  \/ Settle \/ SettleAbort \/ Pop
  \/ \E outcome \in {"ok", "fail", "throw"} : ExecuteAuthority(outcome)
  \/ \E ok \in BOOLEAN : ZeroBeforeMode(ok) \/ SetMode(ok)

PeriodicStep ==
  \/ TakeRefresh
  \/ \E outcome \in {"skip", "ok", "fail"} : Heartbeat(outcome)
  \/ SkipMotion \/ MotionTick
  \/ \E ok \in BOOLEAN : SendTick(ok)
  \/ Expire \/ NotExpired
  \/ SkipPoll
  \/ \E s \in Snapshots : TakeSnapshot(s)
  \/ ApplySnapshot \/ PollSettle \/ PollAbort \/ PollCheck \/ PollComplete

WorkerStep == ConnectStep \/ CommandStep \/ PeriodicStep

Next ==
  \/ CallerStep
  \/ WorkerStep
  \/ \E linked, authority \in BOOLEAN : HandleStatus(linked, authority)
  \/ ClockTick
  \/ Start
  \/ Stop

Spec == Init /\ [][Next]_vars

\* The worker thread keeps running, every SDK call and observer returns (each
\* is bounded by its timeout), and a caller inside an entry point leaves it. An
\* armed transition's deadline and the motion refresh both come due as the clock
\* advances, and the SDK does not refuse every move for ever. Callers do not
\* refill the queue for ever faster than handle_estop_if_requested empties it.
Fairness ==
  /\ WF_vars(WorkerStep)
  /\ \A r \in Requests : WF_vars(AcceptMode(r) \/ EnqueueMode(r) \/ MarkEstop(r))
  /\ SF_vars(Expire)
  /\ SF_vars(MotionTick)
  /\ SF_vars(SendTick(TRUE))
  /\ SF_vars(DrainForEstop /\ worker'.pc = "estop_gate")

LiveSpec == Spec /\ Fairness
=============================================================================
