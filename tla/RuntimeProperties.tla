-------------------------- MODULE RuntimeProperties --------------------------
(***************************************************************************)
(* What the direct driver runtime promises, and what its comments claim.   *)
(***************************************************************************)
EXTENDS DirectDriverRuntime

PCs == {"not_started", "head", "preflight", "init", "subscribe", "wait",
        "actuate", "estop", "estop_drain", "estop_gate", "send_zero",
        "send_damping", "settle", "settle_abort", "pop", "authority",
        "mode_zero", "mode_set", "flag", "heartbeat", "tick", "tick_send",
        "deadline", "poll", "poll_apply", "poll_settle", "poll_abort",
        "poll_check", "poll_complete", "session_end", "invalidate",
        "invalidate_controller", "deinit", "backoff", "exited"}

SharedStates ==
  [stop_requested : BOOLEAN, connected : BOOLEAN, sdk_linked : BOOLEAN,
   control_authority : BOOLEAN, link_drop_latched : BOOLEAN,
   sport_status : SportStatuses, error_code : {0, 1},
   motion_refresh_due : BOOLEAN,
   estop_promise : EstopRequests \cup {NoRequest},
   command_queue : Seq(Commands)]

CurrentCommands ==
  [req : Requests \cup {NoRequest}, mode : Modes \cup {NoMode}]

Transitions ==
  [active : BOOLEAN, stable_status : SportStatuses,
   promise : ModeRequests \cup {NoRequest}]

WorkerStates ==
  [pc : PCs, cur : CurrentCommands, mode_transition : Transitions,
   last_sent_nonzero : BOOLEAN, driver_ready_armed : BOOLEAN,
   heartbeat_failures : 0..HeartbeatThreshold, forced : BOOLEAN,
   target : Velocities, zero_ok : BOOLEAN,
   snapshot : Snapshots \cup {NoSnapshot}, backoff : Nat]

\* Every variable keeps its type, and the command queue its capacity
\* (ThreadSafeQueue with RejectNew).
TypeOK ==
  /\ controller \in ControllerStates
  /\ caller \in [Requests -> {"idle", "checked", "accepted", "latched",
                              "returned"}]
  /\ promise \in [Requests -> {"none", "waiting", "ok", "failed"}]
  /\ wanted \in [Requests -> ModeNames \cup {"unknown", NoMode}]
  /\ shared \in SharedStates
  /\ Len(shared.command_queue) <= QueueCapacity
  /\ worker \in WorkerStates
  /\ sdk \in [live : BOOLEAN, velocity : Velocities]
  /\ reported \in BOOLEAN
  /\ estop_served \in BOOLEAN

InQueue(r) ==
  \E i \in DOMAIN shared.command_queue : shared.command_queue[i].req = r

\* The places from which request r will still be answered.
Owned(r) ==
  \/ caller[r] \in {"checked", "accepted", "latched"}
  \/ shared.estop_promise = r
  \/ InQueue(r)
  \/ worker.cur.req = r
  \/ worker.mode_transition.promise = r

\* A future still waiting is one that a caller thread, the queue, the stop mark
\* or the worker is about to answer, and nobody holds an answered one: no caller
\* waits on "a future that can never resolve" and no promise is answered twice
\* (direct_driver_runtime.cpp:372-379, set_promise).
EveryPromiseOwned == \A r \in Requests : promise[r] = "waiting" <=> Owned(r)

\* Outside a session nothing is queued and no stop is marked: a command is never
\* pushed after the session-end drain (request_authority, request_mode,
\* trigger_estop against fail_all_pending_locked).
NothingQueuedOffline ==
  ~shared.connected =>
    shared.command_queue = <<>> /\ shared.estop_promise = NoRequest

\* A transition pending in the controller is on its way through a caller, the
\* queue or the worker, or the session is being torn down: motion is never left
\* gated by a transition nobody will complete (the complete_mode_transition(false)
\* calls of request_mode, execute_command, handle_estop_if_requested and
\* fail_all_pending_locked).
PendingHasCarrier ==
  controller.mode_transition_pending =>
    \/ \E r \in ModeRequests :
         caller[r] = "accepted" \/ InQueue(r) \/ worker.cur.req = r
    \/ worker.mode_transition.active
    \/ worker.pc \in {"invalidate", "invalidate_controller"}

\* The gate never believes in a link or an authority the runtime's own cache has
\* lost, except while invalidate_session clears the two in turn: no snapshot or
\* callback resurrects authority (handle_status, the state poll,
\* invalidate_session).
GateNeverAhead ==
  worker.pc # "invalidate_controller" =>
    /\ controller.status.sdk_linked => shared.sdk_linked
    /\ controller.status.control_authority => shared.control_authority

\* Readiness belongs to the session that armed it: it is gone before the SDK is
\* shut down and no later session inherits it (run_connected_loop,
\* invalidate_session).
ReadyOnlyInSession ==
  /\ controller.driver_ready =>
       worker.driver_ready_armed \/ worker.pc = "invalidate_controller"
  /\ worker.driver_ready_armed => shared.connected \/ worker.pc = "invalidate"
  /\ controller.driver_ready => sdk.live

\* The reconnect delay only grows, never beyond the configured maximum, and only
\* a connection resets it (wait_backoff, worker_main).
BackoffDiscipline ==
  [][ worker'.backoff # worker.backoff =>
        \/ worker'.backoff = BackoffInitial /\ ~shared.connected
                                           /\ shared'.connected
        \/ worker'.backoff > worker.backoff /\ worker'.backoff <= BackoffMax ]_vars

\* Every request is answered: by the worker, by the stop, or by the end of the
\* session (request_authority, request_mode, trigger_estop).
EveryRequestAnswered ==
  \A r \in Requests : promise[r] = "waiting" ~> promise[r] # "waiting"

\* Once stop() is called the worker leaves, from wherever it is.
StopTerminates ==
  shared.stop_requested ~> worker.pc \in {"exited", "not_started"}

\* A velocity the robot was told and the controller no longer grants, because
\* the deadman expired or the gate closed, is brought to zero unless a new one is
\* granted or the session ends first: "deadman expiry or gate loss must reach the
\* SDK once" (the motion tick and its retries, direct_driver_runtime.cpp:498-528).
MotionIsStopped ==
  (sdk.velocity # 0 /\ velocity_for_tick(controller) = 0)
    ~> (\/ sdk.velocity = 0
        \/ velocity_for_tick(controller) # 0
        \/ ~shared.connected)

-----------------------------------------------------------------------------
(* The contract *)

Contract == INSTANCE DriverContract WITH
  Stops    <- EstopRequests,
  answer   <- promise,
  accepted <- {r \in Requests : caller[r] = "returned" /\ promise[r] = "waiting"},
  online   <- shared.connected,
  latched  <- controller.estop_latched,
  held     <- estop_served,
  moving   <- sdk.velocity # 0

\* The runtime, with its threads, queue, worker, teardown and reconnections,
\* implements the contract: requests are accepted only in a session and answered
\* once, a session's end leaves none behind, and after a stop was reported done
\* the robot is told nothing but to stand still until the latch is released
\* (trigger_estop, request_authority, request_mode, worker_main).
ImplementsContract == Contract!Spec

-----------------------------------------------------------------------------
(* What comments in the code claim and the interleavings refute *)

\* In a connection attempt without a status report the link and authority caches
\* are clear: "the previous session's true/true must never survive the teardown"
\* (direct_driver_runtime.cpp:976-979).
NoInheritedLink == ~reported => ~shared.sdk_linked /\ ~shared.control_authority

\* After an emergency stop was carried out, and while it is latched, the only mode
\* command sent is damping: pending commands are cleared "so motion cannot resume
\* through a stale request" (direct_driver_runtime.cpp:855-856).
OnlyDampingAfterStop ==
  estop_served /\ worker.pc \in {"mode_zero", "mode_set"} =>
    worker.cur.mode = "damping"

\* The motion gate opens on the confirmation of the very transition that asked
\* for "move": "Success is only meaningful while the controller still owns the
\* same pending transition" (direct_driver_runtime.cpp:798-799).
GateOpensOnOwnConfirmation ==
  [][ controller.motion_transition_gate /\ ~controller'.motion_transition_gate
        => worker.mode_transition.stable_status = "Move" ]_vars

\* No command is executed once a link drop is latched: "Commands enqueued before
\* the drop must never execute" (direct_driver_runtime.cpp:441-444).
NoCommandAfterDrop ==
  [][ worker.pc = "pop" /\ worker'.cur # worker.cur
        => ~shared.link_drop_latched ]_vars
=============================================================================
