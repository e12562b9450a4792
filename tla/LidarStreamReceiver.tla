-------------------------- MODULE LidarStreamReceiver --------------------------
(***************************************************************************)
(* The receive thread of one LiDAR stream and its start() and stop()       *)
(* (src/lidar_stream.cpp).  Several threads may call start() and stop(),   *)
(* and a sink callback, which runs on the receive thread outside every     *)
(* lock, may call stop() too.  What an iteration does with the datagram is *)
(* PointCloudFrameAssembler's subject; here it ends in a callback or not.  *)
(***************************************************************************)
EXTENDS Naturals, FiniteSets

CONSTANTS
  Callers,    \* the threads other than the receive thread
  Nobody      \* no thread

ASSUME CallersAssumption == Nobody \notin Callers

VARIABLES
  stop_requested, running, start_called,   \* the flags under mutex
  thread,       \* where the receive thread is
  pc,           \* where each caller is
  stop_mutex,   \* the caller holding stop_mutex, or Nobody
  returned      \* history: a caller's stop() has returned

vars == <<stop_requested, running, start_called, thread, pc, stop_mutex, returned>>
flags == <<stop_requested, running, start_called>>

Init ==
  /\ stop_requested = FALSE
  /\ running = FALSE
  /\ start_called = FALSE
  /\ thread = "none"
  /\ pc = [c \in Callers |-> "idle"]
  /\ stop_mutex = Nobody
  /\ returned = FALSE

-----------------------------------------------------------------------------
Startable == ~stop_requested /\ ~start_called

\* start(), under mutex throughout.
start(c) ==
  /\ pc[c] = "idle"
  /\ IF Startable
     THEN /\ start_called' = TRUE
          /\ running' = TRUE
          /\ thread' = "loop"
     ELSE UNCHANGED <<start_called, running, thread>>
  /\ UNCHANGED <<stop_requested, pc, stop_mutex, returned>>

\* stop()'s first section, under mutex.
RequestStop ==
  /\ stop_requested' = TRUE
  /\ running' = FALSE
  /\ UNCHANGED start_called

StopRequest(c) ==
  /\ pc[c] = "idle"
  /\ RequestStop
  /\ pc' = [pc EXCEPT ![c] = "requested"]
  /\ UNCHANGED <<thread, stop_mutex, returned>>

LockStop(c) ==
  /\ pc[c] = "requested"
  /\ stop_mutex = Nobody
  /\ stop_mutex' = c
  /\ pc' = [pc EXCEPT ![c] = "joining"]
  /\ UNCHANGED <<flags, thread, returned>>

\* A joinable thread is joined once it has returned.
StopJoin(c) ==
  /\ pc[c] = "joining"
  /\ thread \in {"none", "exited", "joined"}
  /\ thread' = IF thread = "exited" THEN "joined" ELSE thread
  /\ stop_mutex' = Nobody
  /\ pc' = [pc EXCEPT ![c] = "idle"]
  /\ returned' = TRUE
  /\ UNCHANGED flags

-----------------------------------------------------------------------------
\* The top of an iteration, under mutex.
LoopTop ==
  /\ thread = "loop"
  /\ stop_requested \/ running
  /\ thread' = IF stop_requested THEN "exited" ELSE "receive"
  /\ UNCHANGED <<flags, pc, stop_mutex, returned>>

\* The receive, bounded by its timeout, and what follows up to a callback.
Receive(calls_back) ==
  /\ thread = "receive"
  /\ thread' = IF calls_back THEN "callback" ELSE "loop"
  /\ UNCHANGED <<flags, pc, stop_mutex, returned>>

\* The callback calls stop() and finds itself on the receive thread ...
CallbackStop ==
  /\ thread = "callback"
  /\ RequestStop
  /\ UNCHANGED <<thread, pc, stop_mutex, returned>>

\* ... or returns, or throws into InvokeSafe.
CallbackReturn ==
  /\ thread = "callback"
  /\ thread' = "loop"
  /\ UNCHANGED <<flags, pc, stop_mutex, returned>>

Loop == LoopTop \/ CallbackReturn \/ \E b \in BOOLEAN : Receive(b)
Stop(c) == LockStop(c) \/ StopJoin(c)

Next ==
  \/ Loop
  \/ CallbackStop
  \/ \E c \in Callers : start(c) \/ StopRequest(c) \/ Stop(c)

Spec == Init /\ [][Next]_vars

\* The receive thread is scheduled and its callbacks return; a caller that waits
\* for stop_mutex gets it.
Fairness == WF_vars(Loop) /\ \A c \in Callers : SF_vars(Stop(c))

-----------------------------------------------------------------------------
(* Properties *)

\* When stop() has returned to a thread other than the receive thread, there is
\* no receive thread, and so no callback, now or later, whoever else starts or
\* stops the stream, and in whatever order (start, stop).
StoppedMeansJoined == returned => thread \in {"none", "joined"}

\* A stop() always returns, although a callback may be calling stop() at the same
\* time and other callers may be waiting for the same join (stop).
StopReturns ==
  \A c \in Callers : pc[c] = "requested" ~> pc[c] = "idle"
=============================================================================
