------------------------------ MODULE NodeProofs ------------------------------
(***************************************************************************)
(* The node: what was stopped is gone for good, for any number of callers  *)
(* and vendor threads; the stamps of the LiDAR streams are accurate, for   *)
(* all latencies, tolerances and smoothing divisors; and what the checks   *)
(* of the parameters guarantee of the values the node works with.          *)
(***************************************************************************)
EXTENDS NodeShutdown, LidarDeviceClock, DriverParameters, TLAPS

-----------------------------------------------------------------------------
(* Shutdown *)

\* The receiver: whoever is in stop() has raised the flag, and no thread starts
\* after that.
ReceiverInv ==
  /\ thread \in {"none", "loop", "receive", "callback", "exited", "joined"}
  /\ pc \in [Callers -> {"idle", "requested", "joining"}]
  /\ \A c \in Callers : pc[c] # "idle" => stop_requested
  /\ returned => stop_requested /\ thread \in {"none", "joined"}

\* The runtime: the flag of each thread says whether it is in a callback, so only
\* callers outside every callback wait in stop(); vendor callbacks run only in a
\* session and in its teardown.
RuntimeInv ==
  /\ worker \in {"none", "serving", "deinit", "exited", "joined"}
  /\ rt_pc \in [Runtime!Threads -> {"idle", "requested", "joining"}]
  /\ inside \subseteq Runtime!Threads
  /\ in_callback \in [Runtime!Threads -> BOOLEAN]
  /\ \A t \in Runtime!Threads : in_callback[t] <=> t \in inside
  /\ \A t \in Runtime!Threads :
       rt_pc[t] # "idle" => t \in Callers /\ rt_stop_requested
  /\ live => worker = "serving"
  /\ ~live /\ worker # "deinit" => inside \cap Vendors = {}
  /\ rt_returned => rt_stop_requested /\ worker \in {"none", "joined"}

\* The destructor: while it runs no caller is in a callback, and what it has gone
\* past is stopped.
PhaseInv ==
  /\ Worker \in inside => worker = "serving"
  /\ phase # "alive" => inside \cap Callers = {} /\ (pc[Owner] # "idle" \/ returned)
  /\ phase = "runtime" => returned /\ (rt_pc[Owner] # "idle" \/ rt_returned)
  /\ phase = "destroyed" => returned /\ rt_returned

NodeInv == ReceiverInv /\ RuntimeInv /\ PhaseInv

-----------------------------------------------------------------------------
\* A step of the receiver keeps its invariant (start, stop, the receive loop).
LEMMA ReceiverStep == ReceiverInv /\ [Next]_vars => ReceiverInv'
<1> SUFFICES ASSUME ReceiverInv, [Next]_vars PROVE ReceiverInv'
  OBVIOUS
<1> USE DEF ReceiverInv
<1>1. CASE Loop
  BY <1>1 DEF Loop, LoopTop, CallbackReturn, Receive, flags
<1>2. CASE CallbackStop
  BY <1>2 DEF CallbackStop, RequestStop
<1>3. ASSUME NEW c \in Callers, start(c) PROVE ReceiverInv'
  BY <1>3 DEF start, Startable
<1>4. ASSUME NEW c \in Callers, StopRequest(c) PROVE ReceiverInv'
  BY <1>4 DEF StopRequest, RequestStop
<1>5. ASSUME NEW c \in Callers, LockStop(c) PROVE ReceiverInv'
  BY <1>5 DEF LockStop, flags
<1>6. ASSUME NEW c \in Callers, StopJoin(c) PROVE ReceiverInv'
  BY <1>6 DEF StopJoin, flags
<1>7. CASE UNCHANGED vars
  BY <1>7 DEF vars
<1>8. QED
  BY <1>1, <1>2, <1>3, <1>4, <1>5, <1>6, <1>7 DEF Next, Stop

-----------------------------------------------------------------------------
\* A step of the runtime keeps its invariant (start, stop, ObserverCallbackGuard,
\* worker_main, deinit).
LEMMA RuntimeStep == RuntimeInv /\ [Runtime!Next]_runtimeVars => RuntimeInv'
<1> SUFFICES ASSUME RuntimeInv, [Runtime!Next]_runtimeVars PROVE RuntimeInv'
  OBVIOUS
<1> USE ThreadsAssumption DEF RuntimeInv
<1>1. ASSUME NEW t \in Runtime!Threads, Runtime!Dispatch(t) PROVE RuntimeInv'
  BY <1>1 DEF Runtime!Dispatch, Runtime!MayDispatch
<1>2. ASSUME NEW t \in Runtime!Threads, NEW stops \in BOOLEAN,
             Runtime!NestedCallback(t, stops)
      PROVE  RuntimeInv'
  BY <1>2 DEF Runtime!NestedCallback, Runtime!Restored
<1>3. ASSUME NEW t \in Runtime!Threads, Runtime!Leave(t) PROVE RuntimeInv'
  BY <1>3 DEF Runtime!Leave, Runtime!Restored
<1>4. ASSUME NEW c \in Callers, Runtime!start(c) PROVE RuntimeInv'
  BY <1>4 DEF Runtime!start, Runtime!Startable
<1>5. ASSUME NEW t \in Runtime!Threads, Runtime!StopRequest(t) PROVE RuntimeInv'
  BY <1>5 DEF Runtime!StopRequest, Runtime!Joins
<1>6. ASSUME NEW t \in Runtime!Threads, Runtime!LockStop(t) PROVE RuntimeInv'
  BY <1>6 DEF Runtime!LockStop
<1>7. ASSUME NEW t \in Runtime!Threads, Runtime!StopJoin(t) PROVE RuntimeInv'
  BY <1>7 DEF Runtime!StopJoin
<1>8. CASE Runtime!Connect
  BY <1>8 DEF Runtime!Connect, Runtime!AtWork
<1>9. CASE Runtime!Ends
  BY <1>9 DEF Runtime!Ends, Runtime!CloseGate, Runtime!DeinitReturn, Runtime!Exit, Runtime!AtWork
<1>10. CASE UNCHANGED runtimeVars
  BY <1>10 DEF runtimeVars
<1>11. Callers \subseteq Runtime!Threads
  BY DEF Runtime!Threads
<1>12. QED
  BY <1>1, <1>2, <1>3, <1>4, <1>5, <1>6, <1>7, <1>8, <1>9, <1>10, <1>11
  DEF Runtime!Next, Runtime!Runs, Runtime!Callbacks, Runtime!Calls, Runtime!Stop

-----------------------------------------------------------------------------
\* A step of the node is a step of each part or leaves it alone.
LEMMA NodeStep ==
  [NodeNext]_nodeVars => [Next]_vars /\ [Runtime!Next]_runtimeVars
<1> SUFFICES ASSUME [NodeNext]_nodeVars
             PROVE  [Next]_vars /\ [Runtime!Next]_runtimeVars
  OBVIOUS
<1>1. ASSUME NEW c \in Callers, Use(c)
      PROVE  [Next]_vars /\ [Runtime!Next]_runtimeVars
  BY <1>1 DEF Use, Next, Runtime!Next
<1>2. CASE Background
  BY <1>2 DEF Background, Next, Runtime!Next
<1>3. CASE Destructor
  <2>1. CASE DestroyReceiver
    BY <2>1, ThreadsAssumption DEF DestroyReceiver, Next
  <2>2. CASE DestroyRuntime
    <3>1. Owner \in Runtime!Threads
      BY ThreadsAssumption DEF Runtime!Threads
    <3>2. CASE Owner \in inside
      BY <2>2, <3>1, <3>2
      DEF DestroyRuntime, Runtime!Next, Runtime!Runs, Runtime!Callbacks
    <3>3. CASE Owner \notin inside
      BY <2>2, <3>3, ThreadsAssumption DEF DestroyRuntime, Runtime!Next, Runtime!Calls
    <3>4. QED
      BY <3>2, <3>3
  <2>3. CASE Destroyed
    BY <2>3 DEF Destroyed
  <2>4. QED
    BY <1>3, <2>1, <2>2, <2>3 DEF Destructor
<1>4. CASE UNCHANGED nodeVars
  BY <1>4 DEF nodeVars
<1>5. QED
  BY <1>1, <1>2, <1>3, <1>4 DEF NodeNext

\* A step of the node keeps what the destructor relies on (~Impl).
LEMMA PhaseStep == NodeInv /\ [NodeNext]_nodeVars => PhaseInv'
<1> SUFFICES ASSUME NodeInv, [NodeNext]_nodeVars PROVE PhaseInv'
  OBVIOUS
<1> USE ThreadsAssumption DEF NodeInv, ReceiverInv, RuntimeInv, PhaseInv
<1>1. ASSUME NEW c \in Callers, Use(c) PROVE PhaseInv'
  BY <1>1
  DEF Use, start, StopRequest, runtimeVars, vars, Runtime!Calls, Runtime!start,
      Runtime!Startable, Runtime!StopRequest, Runtime!Joins, Runtime!Dispatch
<1>2. ASSUME Loop \/ CallbackStop, UNCHANGED <<runtimeVars, phase>> PROVE PhaseInv'
  BY <1>2 DEF Loop, LoopTop, CallbackReturn, Receive, CallbackStop, runtimeVars
<1>3. ASSUME NEW c \in Callers, Stop(c), UNCHANGED <<runtimeVars, phase>> PROVE PhaseInv'
  BY <1>3 DEF Stop, LockStop, StopJoin, runtimeVars
<1>4. ASSUME NEW t \in Runtime!Threads, Runtime!Callbacks(t), UNCHANGED <<vars, phase>>
      PROVE  PhaseInv'
  <2>1. CASE t \notin Callers /\ Runtime!Dispatch(t)
    BY <1>4, <2>1 DEF Runtime!Dispatch, Runtime!MayDispatch, vars
  <2>2. CASE t \in inside /\ Runtime!StopRequest(t)
    BY <1>4, <2>2 DEF Runtime!StopRequest, Runtime!Joins, vars
  <2>3. ASSUME NEW stops \in BOOLEAN, Runtime!NestedCallback(t, stops) PROVE PhaseInv'
    BY <1>4, <2>3 DEF Runtime!NestedCallback, vars
  <2>4. CASE Runtime!Leave(t)
    BY <1>4, <2>4 DEF Runtime!Leave, vars
  <2>5. QED
    BY <1>4, <2>1, <2>2, <2>3, <2>4 DEF Runtime!Callbacks
<1>5. ASSUME NEW t \in Runtime!Threads, Runtime!Stop(t), UNCHANGED <<vars, phase>>
      PROVE  PhaseInv'
  <2>1. CASE Runtime!LockStop(t)
    BY <1>5, <2>1 DEF Runtime!LockStop, vars
  <2>2. CASE Runtime!StopJoin(t)
    BY <1>5, <2>2 DEF Runtime!StopJoin, vars
  <2>3. QED
    BY <1>5, <2>1, <2>2 DEF Runtime!Stop
<1>6. ASSUME Runtime!Connect \/ Runtime!Ends, UNCHANGED <<vars, phase>> PROVE PhaseInv'
  BY <1>6
  DEF Runtime!Connect, Runtime!Ends, Runtime!CloseGate, Runtime!DeinitReturn, Runtime!Exit,
      Runtime!AtWork, vars
<1>7. CASE DestroyReceiver
  BY <1>7 DEF DestroyReceiver, StopRequest, runtimeVars
<1>8. CASE DestroyRuntime
  <2>1. Owner \in Runtime!Threads
    BY DEF Runtime!Threads
  <2>2. QED
    BY <1>8, <2>1 DEF DestroyRuntime, Free, Runtime!StopRequest, Runtime!Joins, vars
<1>9. CASE Destroyed
  BY <1>9 DEF Destroyed, Free, vars, runtimeVars
<1>10. CASE UNCHANGED nodeVars
  BY <1>10 DEF nodeVars, vars, runtimeVars
<1>11. CASE Background
  BY <1>2, <1>3, <1>4, <1>5, <1>6, <1>11 DEF Background, Runtime!Runs
<1>12. QED
  BY <1>1, <1>7, <1>8, <1>9, <1>10, <1>11 DEF NodeNext, Destructor

\* The invariant holds in every state the node can be in.
LEMMA NodeInvariance == NodeSpec => []NodeInv
<1>1. NodeInit => NodeInv
  <2> SUFFICES ASSUME NodeInit PROVE NodeInv
    OBVIOUS
  <2>1. ReceiverInv
    BY DEF NodeInit, Init, ReceiverInv
  <2>2. RuntimeInv
    BY DEF NodeInit, Runtime!Init, RuntimeInv
  <2>3. PhaseInv
    BY DEF NodeInit, Runtime!Init, PhaseInv
  <2>4. QED
    BY <2>1, <2>2, <2>3 DEF NodeInv
<1>2. NodeInv /\ [NodeNext]_nodeVars => NodeInv'
  BY NodeStep, ReceiverStep, RuntimeStep, PhaseStep DEF NodeInv
<1>3. QED
  BY <1>1, <1>2, PTL DEF NodeSpec

-----------------------------------------------------------------------------
\* When a stop() has returned outside every callback, the thread it stopped and its
\* callbacks are gone for good, however many threads start and stop the streams and
\* the runtime (start and stop of both, deinit, ~Impl).
THEOREM StoppedForGood == NodeSpec => []StoppedIsGone
<1>1. NodeInv => StoppedIsGone
  BY DEF NodeInv, ReceiverInv, RuntimeInv, StoppedIsGone, StoppedMeansJoined,
         Runtime!StoppedMeansQuiet
<1>2. QED
  BY <1>1, NodeInvariance, PTL

\* When the node's members are destroyed no thread is left that would use them,
\* however many threads have used the node (~Impl, ~DirectDriverRuntime).
THEOREM NodeOutlived == NodeSpec => []NothingOutlivesNode
<1>1. NodeInv => NothingOutlivesNode
  BY DEF NodeInv, ReceiverInv, RuntimeInv, PhaseInv, NothingOutlivesNode, Runtime!Threads
<1>2. QED
  BY <1>1, NodeInvariance, PTL

-----------------------------------------------------------------------------
(* The LiDAR clock *)

\* A quotient of a natural number lies between zero and the number.
LEMMA QuotientBounds ==
  ASSUME NEW n \in Nat
  PROVE  n \div Smoothing \in Nat /\ n \div Smoothing <= n
  BY ClockAssumption, SMTT(20)

\* The offset an arrival leaves behind is within a latency of the boot time: from
\* the first of a boot on (observe_odometry).
LEMMA OffsetAfterArrival ==
  ASSUME ClockTypes, OffsetIsBootTime,
         NEW s \in Nat, boot <= s, s <= now, now - s <= MaxLatency
  PROVE  LET o == NextOffset(s - boot, now - (s - boot))
         IN  o \in Int /\ boot <= o /\ o <= boot + MaxLatency
<1> DEFINE observed == now - (s - boot)
<1>1. observed \in Int /\ boot <= observed /\ observed <= boot + MaxLatency
  BY ClockAssumption DEF ClockTypes
<1>2. CASE NextOffset(s - boot, observed) = observed
  BY <1>1, <1>2
<1>3. CASE NextOffset(s - boot, observed) # observed
  <2>1. initialized /\ ~offset_jumped(observed) /\ ~(observed < offset)
    BY <1>3 DEF NextOffset
  <2>2. NextOffset(s - boot, observed) = offset + (observed - offset) \div Smoothing
    BY <1>3 DEF NextOffset
  <2>3. observed - offset \in Nat /\ observed - offset <= OffsetJump
    BY <1>1, <2>1, ClockAssumption DEF ClockTypes, offset_jumped, Magnitude
  <2>4. anchored
    BY <1>1, <2>1, <2>3, ClockAssumption DEF ClockTypes, OffsetIsBootTime
  <2>5. boot <= offset
    BY <2>4 DEF OffsetIsBootTime
  <2> DEFINE step == (observed - offset) \div Smoothing
  <2>6. step \in Nat /\ step <= observed - offset
    BY <2>3, QuotientBounds
  <2>7. NextOffset(s - boot, observed) = offset + step
    BY <2>2
  <2> HIDE DEF step
  <2>8. offset + step \in Int /\ boot <= offset + step /\ offset + step <= boot + MaxLatency
    BY <1>1, <2>5, <2>6, ClockAssumption DEF ClockTypes
  <2>9. QED
    BY <2>7, <2>8
<1>4. QED
  BY <1>2, <1>3

\* With such an offset a stamp is accurate (mapped_time).
LEMMA MappedTime ==
  ASSUME ClockTypes,
         NEW o \in Int, boot <= o, o <= boot + MaxLatency,
         NEW s \in Nat, boot <= s, s <= now
  PROVE  LET v == mapped_time(s - boot, o, now)
         IN  v \in Int /\ s <= v /\ v <= now /\ v <= s + MaxLatency
  BY ClockAssumption DEF ClockTypes, mapped_time

\* Every stamp given out once the present boot was seen lies between the sample
\* and its arrival, and is late by at most an odometry datagram's way
\* (observe_odometry, map_cloud, mapped_time).
THEOREM StampAccuracy == ClockSpec => []StampsAreAccurate
<1>1. ClockInit => ClockInv
  <2> SUFFICES ASSUME ClockInit PROVE ClockInv
    OBVIOUS
  <2>1. now \in Nat /\ boot \in Nat /\ boot <= now
    BY ClockAssumption DEF ClockInit
  <2>2. ClockTypes
    <3>1. initialized \in BOOLEAN /\ anchored \in BOOLEAN
      BY Zenon DEF ClockInit
    <3>2. offset \in Int /\ last_device \in Int
      BY DEF ClockInit
    <3>3. stamp \in [sampled : Int, received : Int, value : Int, anchored : BOOLEAN]
      BY <2>1 DEF ClockInit
    <3>4. QED
      BY <2>1, <3>1, <3>2, <3>3 DEF ClockTypes
  <2>3. OffsetIsBootTime
    BY <2>1 DEF ClockInit, OffsetIsBootTime
  <2>4. StampsAreAccurate
    BY DEF ClockInit, StampsAreAccurate
  <2>5. QED
    BY <2>2, <2>3, <2>4 DEF ClockInv
<1>2. ClockInv /\ [ClockNext]_clockVars => ClockInv'
  <2> SUFFICES ASSUME ClockInv, [ClockNext]_clockVars PROVE ClockInv'
    OBVIOUS
  <2> USE ClockAssumption
  <2>1. ASSUME NEW s \in 0..now, observe_odometry(s) PROVE ClockInv'
    <3> DEFINE o == NextOffset(s - boot, now - (s - boot))
               v == mapped_time(s - boot, o, now)
    <3>1. s \in Nat /\ boot <= s /\ s <= now /\ now - s <= MaxLatency
      BY <2>1 DEF observe_odometry, ClockInv, ClockTypes
    <3>2. o \in Int /\ boot <= o /\ o <= boot + MaxLatency
      BY <3>1, OffsetAfterArrival DEF ClockInv
    <3>3. v \in Int /\ s <= v /\ v <= now /\ v <= s + MaxLatency
      BY <3>1, <3>2, MappedTime DEF ClockInv
    <3>4. /\ initialized' = TRUE /\ anchored' = TRUE
          /\ offset' = o /\ last_device' = s - boot
          /\ now' = now /\ boot' = boot
          /\ stamp' = [sampled |-> s, received |-> now, value |-> v, anchored |-> TRUE]
      BY <2>1 DEF observe_odometry
    <3> HIDE DEF o, v
    <3>5. ClockTypes'
      BY <3>1, <3>2, <3>3, <3>4 DEF ClockInv, ClockTypes
    <3>6. OffsetIsBootTime'
      BY <3>1, <3>2, <3>4 DEF ClockInv, ClockTypes, OffsetIsBootTime
    <3>7. StampsAreAccurate'
      BY <3>1, <3>3, <3>4 DEF StampsAreAccurate
    <3>8. QED
      BY <3>5, <3>6, <3>7 DEF ClockInv
  <2>2. ASSUME NEW s \in 0..now, map_cloud(s) PROVE ClockInv'
    <3> DEFINE v == IF initialized THEN mapped_time(s - boot, offset, now) ELSE now
    <3>1. s \in Nat /\ boot <= s /\ s <= now
      BY <2>2 DEF map_cloud, ClockInv, ClockTypes
    <3>2. v \in Int
      BY <3>1 DEF ClockInv, ClockTypes, mapped_time
    <3>3. anchored => s <= v /\ v <= now /\ v <= s + MaxLatency
      BY <3>1, MappedTime DEF ClockInv, ClockTypes, OffsetIsBootTime
    <3>4. /\ UNCHANGED <<initialized, offset, last_device, now, boot, anchored>>
          /\ stamp' = [sampled |-> s, received |-> now, value |-> v, anchored |-> anchored]
      BY <2>2 DEF map_cloud, mapper
    <3> HIDE DEF v
    <3>5. ClockTypes' /\ OffsetIsBootTime'
      BY <3>1, <3>2, <3>4 DEF ClockInv, ClockTypes, OffsetIsBootTime
    <3>6. StampsAreAccurate'
      BY <3>3, <3>4 DEF StampsAreAccurate
    <3>7. QED
      BY <3>5, <3>6 DEF ClockInv
  <2>3. CASE Tick
    BY <2>3 DEF Tick, mapper, ClockInv, ClockTypes, OffsetIsBootTime, StampsAreAccurate
  <2>4. CASE Restart
    <3>1. ClockTypes'
      BY <2>4 DEF Restart, mapper, ClockInv, ClockTypes
    <3>2. initialized => offset + OffsetJump < now
      <4>1. CASE anchored
        BY <2>4, <4>1 DEF Restart, ClockInv, ClockTypes, OffsetIsBootTime
      <4>2. CASE ~anchored
        BY <4>2 DEF ClockInv, ClockTypes, OffsetIsBootTime
      <4>3. QED
        BY <4>1, <4>2
    <3>3. OffsetIsBootTime'
      BY <2>4, <3>2 DEF Restart, mapper, ClockInv, ClockTypes, OffsetIsBootTime
    <3>4. StampsAreAccurate'
      BY <2>4 DEF Restart, ClockInv, StampsAreAccurate
    <3>5. QED
      BY <3>1, <3>3, <3>4 DEF ClockInv
  <2>5. CASE UNCHANGED clockVars
    BY <2>5 DEF clockVars, ClockInv, ClockTypes, OffsetIsBootTime, StampsAreAccurate
  <2>6. QED
    BY <2>1, <2>2, <2>3, <2>4, <2>5 DEF ClockNext
<1>3. ClockInv => StampsAreAccurate
  BY DEF ClockInv
<1>4. QED
  BY <1>1, <1>2, <1>3, PTL DEF ClockSpec

-----------------------------------------------------------------------------
(* Parameters.  The leaves name the SMT backend: the numerals are beyond the other one. *)

\* An int keeps its value in an int ...
LEMMA IntKept ==
  ASSUME NEW n \in Int32
  PROVE  to_int(n) = n
  BY SMT DEF Int32, to_int

\* ... and a positive one in every unsigned type that is wide enough.
LEMMA PositiveKept ==
  ASSUME NEW n \in Int32, n >= 0
  PROVE  to_uint32(n) = n /\ to_size(n) = n /\ (n <= 65535 => to_uint16(n) = n)
  BY SMT DEF Int32, to_uint16, to_uint32, to_size

\* A positive int and the unsigned conversions up to its width agree, whatever the
\* upper half of the parameter holds.
LEMMA NarrowAgrees ==
  ASSUME NEW n \in Int64, to_int(n) >= 0
  PROVE  to_uint32(n) = to_int(n) /\ (to_int(n) <= 65535 => to_uint16(n) = to_int(n))
  BY SMT DEF Int64, to_int, to_uint16, to_uint32

\* Accepted parameters that fit an int reach the node unchanged: what
\* validate_parameters checked is what assemble_runtime and the LiDAR
\* configuration use, and it is in range.
THEOREM AcceptedAreUsed ==
  ASSUME NEW p \in [Names -> Int32], Accepted(p)
  PROVE  Resolved(p) = p /\ Valid(Resolved(p))
<1>1. [k \in Names |-> to_int(p[k])] = p
  BY IntKept, SMT
<1>2. Valid(p)
  BY <1>1, SMT DEF Accepted
<1>3. ASSUME NEW k \in Names PROVE Resolved(p)[k] = p[k]
  <2>1. p[k] \in Int32
    BY SMT
  <2>2. CASE k \in Ports
    BY <1>2, <2>1, <2>2, PositiveKept, SMT DEF Resolved, Valid, ValidPorts, Int32
  <2>3. CASE k \in CallTimeouts \cup {"sdk.heartbeat_max_failures"}
    <3>1. p[k] >= 0 /\ k \notin Ports
      BY <1>2, <2>1, <2>3, SMT
      DEF Valid, ValidTimings, ValidReconnect, Int32, Ports, CallTimeouts
    <3>2. QED
      BY <2>1, <2>3, <3>1, PositiveKept, SMT DEF Resolved
  <2>4. CASE k \in Capacities
    <3>1. p[k] >= 0 /\ k \notin Ports \cup CallTimeouts \cup {"sdk.heartbeat_max_failures"}
      BY <1>2, <2>1, <2>4, SMT
      DEF Valid, ValidCapacities, Int32, Ports, CallTimeouts, Capacities
    <3>2. QED
      BY <2>1, <2>4, <3>1, PositiveKept, SMT DEF Resolved
  <2>5. CASE k \notin Ports \cup CallTimeouts \cup {"sdk.heartbeat_max_failures"} \cup Capacities
    BY <2>1, <2>5, IntKept, SMT DEF Resolved
  <2>6. QED
    BY <2>2, <2>3, <2>4, <2>5, SMT
<1>4. Resolved(p) = p
  BY <1>3, SMT DEF Resolved
<1>5. QED
  BY <1>2, <1>4, SMT

\* Of every other parameter too, the values converted to a type no wider than the
\* int that was checked are in range: ports, SDK call timeouts, the heartbeat
\* limit and the LiDAR frame timeout.
THEOREM NarrowFieldsAreChecked ==
  ASSUME NEW p \in [Names -> Int64], Accepted(p)
  PROVE  /\ ValidPorts(Resolved(p))
         /\ \A k \in CallTimeouts \cup {"lidar.frame_timeout_ms", "sdk.heartbeat_max_failures"} :
               Resolved(p)[k] > 0
<1> DEFINE v == [k \in Names |-> to_int(p[k])]
<1>1. Valid(v)
  BY SMT DEF Accepted
<1>2. \A k \in Names : p[k] \in Int64 /\ v[k] = to_int(p[k])
  BY SMT
<1> HIDE DEF v
<1>3. ASSUME NEW k \in Ports PROVE Resolved(p)[k] = v[k]
  <2>1. k \in Names /\ v[k] >= 1 /\ v[k] <= 65535
    BY <1>1, SMT DEF Valid, ValidPorts, Names
  <2>2. p[k] \in Int64 /\ v[k] = to_int(p[k])
    BY <1>2, <2>1, SMT
  <2>3. to_uint16(p[k]) = v[k]
    BY <2>1, <2>2, NarrowAgrees, SMT DEF to_int, Int64
  <2>4. QED
    BY <2>1, <2>3, SMT DEF Resolved
<1>4. ValidPorts(Resolved(p))
  BY <1>1, <1>3, SMT DEF Valid, ValidPorts, Ports
<1>5. ASSUME NEW k \in CallTimeouts \cup {"sdk.heartbeat_max_failures"}
      PROVE  Resolved(p)[k] > 0
  <2>1. k \in Names /\ k \notin Ports /\ v[k] >= 1
    <3>1. k \in Names /\ k \notin Ports
      BY SMT DEF Names, CallTimeouts, Ports
    <3>2. v[k] \in Int
      BY <1>2, <3>1, SMT DEF to_int, Int64
    <3>3. QED
      BY <1>1, <3>1, <3>2, SMT DEF Valid, ValidTimings, ValidReconnect
  <2>2. p[k] \in Int64 /\ v[k] = to_int(p[k])
    BY <1>2, <2>1, SMT
  <2>3. to_uint32(p[k]) >= 1
    BY <2>1, <2>2, NarrowAgrees, SMT DEF to_int, Int64
  <2>4. to_uint32(p[k]) \in Int
    BY <2>2, SMT DEF to_uint32, Int64
  <2>5. Resolved(p)[k] = to_uint32(p[k])
    BY <2>1, SMT DEF Resolved
  <2>6. QED
    BY <2>3, <2>4, <2>5, SMT
<1>6. Resolved(p)["lidar.frame_timeout_ms"] > 0
  <2>1. Resolved(p)["lidar.frame_timeout_ms"] = v["lidar.frame_timeout_ms"]
    BY <1>2, SMT DEF Resolved, Names, Ports, CallTimeouts, Capacities, Periods
  <2>2. QED
    BY <1>1, <2>1, SMT DEF Valid, ValidTimings
<1>7. QED
  BY <1>4, <1>5, <1>6, SMT

\* The periods and the capacities are not: a parameter whose lower half is in range
\* passes, and the node takes it at full width.  The comment of validate_parameters
\* says an invalid parameter fails "rather than silently clamping, wrapping to a
\* negative value, or allocating an unbounded buffer".
THEOREM WideParametersPass ==
  \E p \in [Names -> Int64] :
    /\ Accepted(p)
    /\ Resolved(p)["safety.command_deadman_ms"] < 0
    /\ Resolved(p)["safety.queue_capacity"] > 1024
<1> DEFINE p == [k \in Names |->
                   IF k = "safety.command_deadman_ms" THEN -4294967196
                   ELSE IF k = "safety.queue_capacity" THEN 4294967312
                   ELSE IF k = "lidar.point_cloud_port" THEN 6100
                   ELSE IF k = "lidar.odometry_port" THEN 6101
                   ELSE 1]
           v == [k \in Names |-> to_int(p[k])]
<1>1. p \in [Names -> Int64]
  BY SMT DEF Int64
<1>2. /\ to_int(-4294967196) = 100
      /\ to_int(4294967312) = 16
      /\ to_int(6100) = 6100
      /\ to_int(6101) = 6101
      /\ to_int(1) = 1
  <2>1. \A m \in Int32 : to_int(m) = m
    BY IntKept, SMT
  <2>2. \A m \in Int : to_int(m) = to_int(m + 4294967296)
    BY SMT DEF to_int
  <2>3. to_int(100) = 100 /\ to_int(16) = 16
    BY <2>1, SMT DEF Int32
  <2>4. to_int(-4294967196) = 100
    BY <2>2, <2>3, -4294967196 \in Int, -4294967196 + 4294967296 = 100, SMT
  <2>5. to_int(4294967312) = 16
    BY <2>2, <2>3, 16 + 4294967296 = 4294967312, SMT
  <2>6. to_int(6100) = 6100 /\ to_int(6101) = 6101 /\ to_int(1) = 1
    BY <2>1, SMT DEF Int32
  <2>7. QED
    BY <2>4, <2>5, <2>6, SMT
<1>3. v = [k \in Names |->
             IF k = "safety.command_deadman_ms" THEN 100
             ELSE IF k = "safety.queue_capacity" THEN 16
             ELSE IF k = "lidar.point_cloud_port" THEN 6100
             ELSE IF k = "lidar.odometry_port" THEN 6101
             ELSE 1]
  BY <1>2, SMT
<1> HIDE DEF p
<1>4. Valid(v)
  <2> HIDE DEF v
  <2>1. ValidPorts(v)
    BY <1>3, SMT DEF ValidPorts, Ports, Names
  <2>2. ValidTimings(v)
    BY <1>3, SMT DEF ValidTimings, Periods, CallTimeouts, Names
  <2>3. ValidCapacities(v)
    BY <1>3, SMT DEF ValidCapacities, Capacities, Names
  <2>4. ValidReconnect(v) /\ ValidFrequencies(v)
    BY <1>3, SMT DEF ValidReconnect, ValidFrequencies, Frequencies, Names, Periods
  <2>5. QED
    BY <2>1, <2>2, <2>3, <2>4, SMT DEF Valid
<1>5. Accepted(p)
  BY <1>4, SMT DEF Accepted
<1>6. Resolved(p)["safety.command_deadman_ms"] = -4294967196
  BY SMT DEF p, Resolved, Names, Ports, CallTimeouts, Capacities, Periods
<1>7. Resolved(p)["safety.queue_capacity"] = to_size(4294967312)
  BY SMT DEF p, Resolved, Names, Ports, CallTimeouts, Capacities, Periods
<1>8. to_size(4294967312) > 1024
  BY SMT DEF to_size
<1>9. QED
  BY <1>1, <1>5, <1>6, <1>7, <1>8, SMT
=============================================================================
