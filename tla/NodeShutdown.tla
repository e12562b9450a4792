----------------------------- MODULE NodeShutdown -----------------------------
(***************************************************************************)
(* A LiDAR stream receiver and the runtime in one process, used by the     *)
(* same threads, and the node's destructor, which stops one after the      *)
(* other (src/driver_node.cpp).  The point-cloud and the odometry receiver *)
(* are alike and do not interact; one stands for both.                     *)
(***************************************************************************)
EXTENDS LidarStreamReceiver

CONSTANTS
  Owner,      \* the caller that destroys the node
  Vendors,    \* the SDK's callback threads
  Worker      \* the runtime's worker thread

ASSUME ThreadsAssumption ==
  /\ Owner \in Callers
  /\ Worker \notin Callers \cup Vendors
  /\ Callers \cap Vendors = {}

VARIABLES
  rt_stop_requested, worker, live, in_callback, inside,   \* the runtime's
  rt_pc, rt_stop_mutex, rt_returned,
  phase       \* where the destructor is

runtimeVars ==
  <<rt_stop_requested, worker, live, in_callback, inside, rt_pc, rt_stop_mutex, rt_returned>>
nodeVars == <<vars, runtimeVars, phase>>

Runtime == INSTANCE RuntimeLifecycle WITH
  stop_requested <- rt_stop_requested, pc <- rt_pc,
  stop_mutex <- rt_stop_mutex, returned <- rt_returned

NodeInit == Init /\ Runtime!Init /\ phase = "alive"

-----------------------------------------------------------------------------
\* A thread makes one call at a time.
Free(c) == pc[c] = "idle" /\ rt_pc[c] = "idle"

\* Nobody else uses the node once its destructor runs.
Use(c) ==
  /\ phase = "alive"
  /\ Free(c)
  /\ \/ (start(c) \/ StopRequest(c)) /\ UNCHANGED <<runtimeVars, phase>>
     \/ Runtime!Calls(c) /\ UNCHANGED <<vars, phase>>

\* The threads of the receiver and of the runtime, and the calls under way.
Background ==
  \/ (Loop \/ CallbackStop \/ \E c \in Callers : Stop(c)) /\ UNCHANGED <<runtimeVars, phase>>
  \/ Runtime!Runs /\ UNCHANGED <<vars, phase>>

\* Fault: the destructor leaves the receiver to its own destructor.
DestroyReceiverUnstopped ==
  /\ phase = "alive"
  /\ \A c \in Callers : Free(c) /\ c \notin inside
  /\ phase' = "receiver"
  /\ UNCHANGED <<vars, runtimeVars>>

\* The destructor stops the receiver ...
DestroyReceiver ==
  /\ phase = "alive"
  /\ \A c \in Callers : Free(c) /\ c \notin inside
  /\ StopRequest(Owner)
  /\ phase' = "receiver"
  /\ UNCHANGED runtimeVars

\* ... then the runtime ...
DestroyRuntime ==
  /\ phase = "receiver"
  /\ Free(Owner)
  /\ Runtime!StopRequest(Owner)
  /\ phase' = "runtime"
  /\ UNCHANGED vars

\* ... and the members are destroyed.
Destroyed ==
  /\ phase = "runtime"
  /\ Free(Owner)
  /\ phase' = "destroyed"
  /\ UNCHANGED <<vars, runtimeVars>>

Destructor == DestroyReceiver \/ DestroyRuntime \/ Destroyed

NodeNext == Background \/ Destructor \/ \E c \in Callers : Use(c)

\* The destructor, once begun, is scheduled, with what each part assumes.
NodeSpec ==
  /\ NodeInit
  /\ [][NodeNext]_nodeVars
  /\ Fairness
  /\ Runtime!Fairness
  /\ WF_nodeVars(DestroyRuntime \/ Destroyed)

-----------------------------------------------------------------------------
(* Properties *)

\* When a stop() has returned outside every callback, what it stopped is gone for
\* good: the receive thread, or the worker and the SDK's callbacks (start and
\* stop of both, deinit).
StoppedIsGone == StoppedMeansJoined /\ Runtime!StoppedMeansQuiet

\* Once the node's members are destroyed no thread is left that would use them
\* (~Impl, ~DirectDriverRuntime: "Deinitialize only after the worker joined").
NothingOutlivesNode ==
  phase = "destroyed" =>
    /\ thread \in {"none", "joined"}
    /\ worker \in {"none", "joined"}
    /\ ~live /\ inside = {}

\* Every stop() returns and the destructor comes to its end, also when callbacks
\* call stop() while other threads are joining (stop of both, ~Impl).
ShutdownEnds ==
  /\ StopReturns
  /\ Runtime!StopReturns
  /\ phase = "receiver" ~> phase = "destroyed"
=============================================================================
