------------------------------ MODULE DriverNode ------------------------------
(***************************************************************************)
(* The ROS node around the runtime (src/driver_node.cpp): its observer     *)
(* callbacks, which run on the runtime's worker and on the SDK's callback  *)
(* threads, its service and topic handlers, which run one at a time on the *)
(* executor, the fields they share under state_mutex_, and the robot_state *)
(* topic, which keeps the last message.  Of the runtime there is what the  *)
(* node sees: the session, the cache of the last status report and the     *)
(* controller's stop latch.  Telemetry values and transforms are left out. *)
(***************************************************************************)
CONSTANTS
  StatusThreads,      \* SDK threads that deliver status reports
  Worker, Executor,   \* the runtime's worker and the node's executor
  Reports             \* status reports: [linked, authority]

Threads == StatusThreads \cup {Worker, Executor}

\* What the executor handles: the two calls of the stop service, the authority
\* service, a mode message, a joint command.
Jobs == {"engage", "release", "authority", "mode", "joint"}

Unknown == [linked |-> FALSE, authority |-> FALSE]

VARIABLES
  session,     \* "off", "on", "closing": the caches are cleared, deinit() is due,
               \* or "draining": inside deinit()
  cache,       \* the runtime's sdk_linked_ and control_authority_
  latch,       \* the controller's estop_latched_
  status,      \* status_linked_ and status_authority_
  estop,       \* estop_latched_
  requested,   \* a call that engages the stop waits for the executor
  pc,          \* where each thread is
  local,       \* what each thread carries: a report, a message, a job
  published    \* the last robot_state

vars == <<session, cache, latch, status, estop, requested, pc, local, published>>
runtimeVars == <<session, cache, latch>>
fields == <<status, estop>>

Nothing == "nothing"
Message == [status |-> status, estop |-> estop]

\* The constructor, on the executor's thread, publishes once after starting the runtime.
Init ==
  /\ session = "off" /\ cache = Unknown /\ latch = FALSE
  /\ status = Unknown /\ estop = FALSE
  /\ requested = FALSE
  /\ pc = [t \in Threads |-> IF t = Executor THEN "copy" ELSE "idle"]
  /\ local = [t \in Threads |-> Nothing]
  /\ published = [status |-> Unknown, estop |-> FALSE]

Go(t, where, what) ==
  /\ pc' = [pc EXCEPT ![t] = where]
  /\ local' = [local EXCEPT ![t] = what]

-----------------------------------------------------------------------------
(* publish_robot_state *)

\* The fields are copied under state_mutex_ ...
Copy(t) ==
  /\ pc[t] = "copy"
  /\ Go(t, "publish", Message)
  /\ UNCHANGED <<runtimeVars, fields, requested, published>>

\* ... and published after it was released.
Publish(t) ==
  /\ pc[t] = "publish"
  /\ published' = local[t]
  /\ Go(t, "idle", Nothing)
  /\ UNCHANGED <<runtimeVars, fields, requested>>

-----------------------------------------------------------------------------
(* Callbacks of the SDK *)

\* handle_status: the runtime's cache is written under its lock, the observer
\* called after it was released.
Report(t, r) ==
  /\ pc[t] = "idle"
  /\ session \in {"on", "closing"}
  /\ cache' = r
  /\ Go(t, "on_status", r)
  /\ UNCHANGED <<session, latch, fields, requested, published>>

\* Fault: only a change of the authority counts.
OnStatusOfAuthority(t) ==
  /\ pc[t] = "on_status"
  /\ status' = IF status.authority # local[t].authority THEN local[t] ELSE status
  /\ Go(t, IF status.authority # local[t].authority THEN "copy" ELSE "idle", Nothing)
  /\ UNCHANGED <<runtimeVars, estop, requested, published>>

\* on_status publishes a change.
OnStatus(t) ==
  /\ pc[t] = "on_status"
  /\ status' = local[t]
  /\ Go(t, IF status # local[t] THEN "copy" ELSE "idle", Nothing)
  /\ UNCHANGED <<runtimeVars, estop, requested, published>>

-----------------------------------------------------------------------------
(* The runtime's worker *)

\* init() and the subscriptions succeed; callbacks come from here on.
StartSession ==
  /\ pc[Worker] = "idle"
  /\ session = "off"
  /\ session' = "on"
  /\ UNCHANGED <<cache, latch, fields, requested, pc, local, published>>

\* Fault: a warning is logged and not published.
PollOnly ==
  /\ pc[Worker] = "idle"
  /\ session = "on"
  /\ Go(Worker, "copy", Nothing)
  /\ UNCHANGED <<runtimeVars, fields, requested, published>>

\* A state poll in a session, or the warning of a failed attempt outside one:
\* on_state and on_event publish.
PollOrWarn ==
  /\ pc[Worker] = "idle"
  /\ session \in {"on", "off"}
  /\ Go(Worker, "copy", Nothing)
  /\ UNCHANGED <<runtimeVars, fields, requested, published>>

\* The session ends by a report or by failed heartbeats: invalidate_session.
EndSession ==
  /\ pc[Worker] = "idle"
  /\ session = "on"
  /\ session' = "closing"
  /\ cache' = Unknown
  /\ UNCHANGED <<latch, fields, requested, pc, local, published>>

\* deinit() closes the adapter's gate: no further callback is admitted ...
Deinit ==
  /\ session = "closing"
  /\ session' = "draining"
  /\ UNCHANGED <<cache, latch, fields, requested, pc, local, published>>

\* ... and returns when none is left; on_event publishes the loss.
DeinitReturns ==
  /\ session = "draining"
  /\ \A t \in StatusThreads : pc[t] = "idle"
  /\ session' = "off"
  /\ Go(Worker, "copy", Nothing)
  /\ UNCHANGED <<cache, latch, fields, requested, published>>

-----------------------------------------------------------------------------
(* The executor *)

RequestStop ==
  /\ ~requested
  /\ requested' = TRUE
  /\ UNCHANGED <<runtimeVars, fields, pc, local, published>>

\* A handler begins: a stop writes its flag first, a joint command is refused and
\* published, the others leave a request with the runtime.
Take(j) ==
  /\ pc[Executor] = "idle"
  /\ j = "engage" => requested
  /\ requested' = (requested /\ j # "engage")
  /\ estop' = IF j \in {"engage", "release"} THEN j = "engage" ELSE estop
  /\ CASE j \in {"engage", "release"} -> Go(Executor, "trigger", j)
       [] j = "joint"                 -> Go(Executor, "copy", Nothing)
       [] OTHER                       -> Go(Executor, "wait", j)
  /\ UNCHANGED <<runtimeVars, status, published>>

\* runtime_->trigger_estop(): the latch is set or cleared at once.
Trigger ==
  /\ pc[Executor] = "trigger"
  /\ latch' = (local[Executor] = "engage")
  /\ Go(Executor, "wait", local[Executor])
  /\ UNCHANGED <<session, cache, fields, requested, published>>

\* Fault: the handler waits for the answer, however long the session takes.
WaitOverInSession == session = "on"

\* wait_for returns when the future is ready or the time is up.
WaitOver == TRUE

\* The wait ends; all but the mode handler publish.
Answer ==
  /\ pc[Executor] = "wait"
  /\ WaitOver
  /\ Go(Executor, IF local[Executor] = "mode" THEN "idle" ELSE "copy", Nothing)
  /\ UNCHANGED <<runtimeVars, fields, requested, published>>

-----------------------------------------------------------------------------
\* What a thread does until its callback or handler is through.
Continue(t) ==
  \/ Copy(t) \/ Publish(t) \/ OnStatus(t)
  \/ t = Executor /\ (Trigger \/ Answer)

Next ==
  \/ \E t \in Threads : Continue(t)
  \/ \E t \in StatusThreads, r \in Reports : Report(t, r)
  \/ StartSession \/ PollOrWarn \/ EndSession \/ Deinit \/ DeinitReturns
  \/ RequestStop
  \/ \E j \in Jobs : Take(j)

Spec == Init /\ [][Next]_vars

\* Threads inside a callback or a handler are scheduled; the worker polls, or tries
\* again, for ever; a session that ends is torn down; the executor comes round to
\* every job.
Fairness ==
  /\ \A t \in Threads : WF_vars(Continue(t))
  /\ SF_vars(PollOrWarn)
  /\ WF_vars(Deinit) /\ WF_vars(DeinitReturns)
  /\ SF_vars(Take("engage"))

LiveSpec == Spec /\ Fairness

-----------------------------------------------------------------------------
(* Properties *)

\* When the status reports and the stop latch have settled, the last robot_state
\* settles on them, in a session or out of one, although callbacks and handlers
\* copy the fields and publish in any order (on_status, on_state, on_event,
\* on_emergency_stop, publish_robot_state).
SettledStateIsPublished ==
  \A r \in Reports, e \in BOOLEAN :
    <>[](status = r /\ latch = e) => <>[](published = [status |-> r, estop |-> e])

\* Reports of several SDK threads can overtake each other between the runtime's
\* lock and the node's.  The node is not left behind for good: while reports keep
\* coming and the runtime settles on one in a session, so does the node, whichever
\* older ones were still on their way (handle_status, on_status).
OvertakenReportIsCorrected ==
  \A r \in {q \in Reports : q.linked} :
    /\ <>[](session = "on" /\ cache = r)
    /\ []<>(\E t \in StatusThreads : pc[t] = "on_status")
    => <>[](status = r)

\* A requested stop is latched, whatever else the executor has to wait for
\* (on_emergency_stop, on_control_authority, on_robot_mode).
StopIsLatched == requested ~> latch

-----------------------------------------------------------------------------
(* What the documentation claims and the code does not do *)

\* When the SDK stays shut down, robot_state comes to say that there is no link
\* (design document: "`sdk_linked` is the actual vendor UDP link state").
LinkIsActual == <>[](session = "off") => <>[](~published.status.linked)

\* In a session the node comes to believe what the runtime does, as "two concurrent
\* status callbacks can never reorder their gate effects"
\* (direct_driver_runtime.cpp:629-632) leads one to expect of the observer too.
NodeFollowsRuntime ==
  \A r \in {q \in Reports : q.linked} :
    <>[](session = "on" /\ cache = r) => <>[](status = r)
=============================================================================
