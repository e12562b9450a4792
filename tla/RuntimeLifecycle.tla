--------------------------- MODULE RuntimeLifecycle ---------------------------
(***************************************************************************)
(* start(), stop() and the observer callbacks of the runtime               *)
(* (src/direct_driver_runtime.cpp).  Any thread may be inside an observer  *)
(* callback, nested ones included, and may call stop() from there; the     *)
(* worker's teardown of a session waits for the vendor's callbacks to      *)
(* return.  What the worker does in a session is DirectDriverRuntime's     *)
(* subject.                                                                *)
(***************************************************************************)
CONSTANTS
  Callers,    \* the threads that use the runtime
  Vendors,    \* the SDK's callback threads
  Worker,     \* the runtime's worker thread
  Nobody      \* no thread

Threads == Callers \cup Vendors \cup {Worker}

VARIABLES
  stop_requested,
  worker,       \* where worker_main is
  live,         \* the SDK delivers callbacks
  in_callback,  \* t_in_observer_callback of each thread
  inside,       \* the threads that are inside an observer callback
  pc,           \* where each thread is in stop()
  stop_mutex,   \* the thread holding stop_mutex_, or Nobody
  returned      \* history: a stop() called outside every callback has returned

vars == <<stop_requested, worker, live, in_callback, inside, pc, stop_mutex, returned>>

Init ==
  /\ stop_requested = FALSE
  /\ worker = "none"
  /\ live = FALSE
  /\ in_callback = [t \in Threads |-> FALSE]
  /\ inside = {}
  /\ pc = [t \in Threads |-> "idle"]
  /\ stop_mutex = Nobody
  /\ returned = FALSE

-----------------------------------------------------------------------------
(* Observer callbacks: dispatch_observer_safely, ObserverCallbackGuard *)

\* A callback begins on a caller's thread (a rejected velocity), on the worker, or
\* on a vendor thread while the SDK delivers.
MayDispatch(t) ==
  \/ t \in Callers
  \/ t \in Vendors /\ live
  \/ t = Worker /\ worker = "serving"

Dispatch(t) ==
  /\ pc[t] = "idle"
  /\ t \notin inside
  /\ MayDispatch(t)
  /\ inside' = inside \cup {t}
  /\ in_callback' = [in_callback EXCEPT ![t] = TRUE]
  /\ UNCHANGED <<stop_requested, worker, live, pc, stop_mutex, returned>>

\* What the guard's destructor leaves in the flag that was previous before it.
Restored(previous) == previous

\* The callback has another one dispatched inside it, which calls stop() or not and
\* returns: all of it on one thread.
NestedCallback(t, stops) ==
  /\ pc[t] = "idle"
  /\ t \in inside
  /\ in_callback' = [in_callback EXCEPT ![t] = Restored(@)]
  /\ stop_requested' = (stop_requested \/ stops)
  /\ UNCHANGED <<worker, live, inside, pc, stop_mutex, returned>>

\* The observer returns, or throws into the catch-all.
Leave(t) ==
  /\ pc[t] = "idle"
  /\ t \in inside
  /\ inside' = inside \ {t}
  /\ in_callback' = [in_callback EXCEPT ![t] = Restored(FALSE)]
  /\ UNCHANGED <<stop_requested, worker, live, pc, stop_mutex, returned>>

-----------------------------------------------------------------------------
(* start() and stop() *)

\* Fault: a stop that came first does not prevent the start.
StartableOnce == worker = "none"

\* Neither joinable nor stopped.
Startable == worker = "none" /\ ~stop_requested

start(c) ==
  /\ pc[c] = "idle"
  /\ c \notin inside
  /\ stop_mutex = Nobody
  /\ worker' = IF Startable THEN "serving" ELSE worker
  /\ UNCHANGED <<stop_requested, live, in_callback, inside, pc, stop_mutex, returned>>

\* Fault: stop() joins from inside a callback, too.
JoinsAnywhere(t) == TRUE

\* stop() goes on to join unless it was called inside a callback.
Joins(t) == ~in_callback[t]

\* The first section of stop(), under wake_mutex_, and the return from inside a
\* callback.
StopRequest(t) ==
  /\ pc[t] = "idle"
  /\ t \in Callers \/ t \in inside
  /\ stop_requested' = TRUE
  /\ pc' = [pc EXCEPT ![t] = IF Joins(t) THEN "requested" ELSE "idle"]
  /\ UNCHANGED <<worker, live, in_callback, inside, stop_mutex, returned>>

LockStop(t) ==
  /\ pc[t] = "requested"
  /\ stop_mutex = Nobody
  /\ stop_mutex' = t
  /\ pc' = [pc EXCEPT ![t] = "joining"]
  /\ UNCHANGED <<stop_requested, worker, live, in_callback, inside, returned>>

\* The join, which the worker itself skips, and the return of stop().
StopJoin(t) ==
  /\ pc[t] = "joining"
  /\ worker \in {"none", "exited", "joined"} \/ t = Worker
  /\ worker' = IF worker = "exited" THEN "joined" ELSE worker
  /\ stop_mutex' = Nobody
  /\ pc' = [pc EXCEPT ![t] = "idle"]
  /\ returned' = (returned \/ t \notin inside)
  /\ UNCHANGED <<stop_requested, live, in_callback, inside>>

-----------------------------------------------------------------------------
(* The worker, between its observer callbacks *)

AtWork == worker = "serving" /\ Worker \notin inside /\ pc[Worker] = "idle"

\* init() succeeds: the SDK delivers callbacks.
Connect ==
  /\ AtWork
  /\ ~live /\ ~stop_requested
  /\ live' = TRUE
  /\ UNCHANGED <<stop_requested, worker, in_callback, inside, pc, stop_mutex, returned>>

\* deinit() lets no further callback in ...
CloseGate ==
  /\ AtWork
  /\ live
  /\ live' = FALSE
  /\ worker' = "deinit"
  /\ UNCHANGED <<stop_requested, in_callback, inside, pc, stop_mutex, returned>>

\* ... and waits for those in flight.
DeinitReturn ==
  /\ worker = "deinit"
  /\ inside \cap Vendors = {}
  /\ worker' = "serving"
  /\ UNCHANGED <<stop_requested, live, in_callback, inside, pc, stop_mutex, returned>>

\* worker_main returns: only between sessions.
Exit ==
  /\ AtWork
  /\ ~live /\ stop_requested
  /\ worker' = "exited"
  /\ UNCHANGED <<stop_requested, live, in_callback, inside, pc, stop_mutex, returned>>

Ends == CloseGate \/ DeinitReturn \/ Exit
Stop(t) == LockStop(t) \/ StopJoin(t)

\* What a caller's thread begins outside every callback.
Calls(c) == c \notin inside /\ (start(c) \/ StopRequest(c) \/ Dispatch(c))

\* What a callback does, and how one begins on the threads of the SDK and the worker.
Callbacks(t) ==
  \/ t \notin Callers /\ Dispatch(t)
  \/ t \in inside /\ StopRequest(t)
  \/ \E stops \in BOOLEAN : NestedCallback(t, stops)
  \/ Leave(t)

Runs == Connect \/ Ends \/ \E t \in Threads : Callbacks(t) \/ Stop(t)

Next == Runs \/ \E c \in Callers : Calls(c)

Spec == Init /\ [][Next]_vars

\* The worker gets on with ending once it was asked to stop, whatever it has to
\* report on the way; callbacks return; whoever waits for stop_mutex_ gets it.
Fairness ==
  /\ SF_vars(stop_requested /\ Ends)
  /\ \A t \in Threads : WF_vars(Leave(t))
  /\ \A t \in Threads : SF_vars(Stop(t))

-----------------------------------------------------------------------------
(* Properties *)

\* When stop() has returned to a thread outside every callback, there is neither a
\* worker nor a callback of the SDK, now or later (stop, start, deinit).
StoppedMeansQuiet ==
  returned => worker \in {"none", "joined"} /\ ~live /\ inside \cap Vendors = {}

\* Every stop() returns, also one called in a callback that the worker's teardown
\* is waiting for, while another thread is joining the worker (stop: "Safe to call
\* from any thread").
StopReturns ==
  \A t \in Threads : pc[t] = "requested" ~> pc[t] = "idle"
=============================================================================
