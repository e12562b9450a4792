--------------------------- MODULE LidarDeviceClock ---------------------------
(***************************************************************************)
(* LidarDeviceClockMapper (src/driver_node.cpp): LiDAR timestamps, on the  *)
(* device's own clock since its last boot, are turned into host times by   *)
(* an offset estimated from the arrivals of the odometry stream.  The      *)
(* environment is a host clock, a device whose clock runs at the same rate *)
(* and restarts at zero, odometry that arrives within MaxLatency, and      *)
(* point clouds that are assembled for as long as they take.  Timestamps   *)
(* beyond int64, which the mapper passes by, do not occur.                 *)
(***************************************************************************)
EXTENDS Integers

CONSTANTS
  RestartTolerance,   \* kRestartToleranceNs
  OffsetJump,         \* kOffsetJumpNs
  Smoothing,          \* the divisor of the offset's upward step, 64
  MaxLatency,         \* an odometry datagram's longest way to its callback
  MaxTime             \* bound: the host time at which the clock stands still

ASSUME ClockAssumption ==
  /\ {RestartTolerance, OffsetJump, MaxLatency, MaxTime} \subseteq Nat
  /\ Smoothing \in Nat \ {0}

VARIABLES
  initialized, offset, last_device,   \* the mapper's fields
  now,        \* host time
  boot,       \* host time at which the device's clock was zero
  anchored,   \* history: the mapper has seen odometry of this boot
  stamp       \* the last stamp given out, with the sample's true host time

clockVars == <<initialized, offset, last_device, now, boot, anchored, stamp>>
mapper == <<initialized, offset, last_device>>

ClockInit ==
  /\ initialized = FALSE /\ offset = 0 /\ last_device = 0
  /\ now \in 0..MaxTime
  /\ boot \in 0..now
  /\ anchored = FALSE
  /\ stamp = [sampled |-> now, received |-> now, value |-> now, anchored |-> FALSE]

-----------------------------------------------------------------------------
Magnitude(n) == IF n < 0 THEN -n ELSE n

mapped_time(device, o, receive) ==
  IF device + o < receive THEN device + o ELSE receive

device_restarted(device) == initialized /\ device + RestartTolerance < last_device

\* Fault: a jump of the offset is not looked for.
offset_jumped_ignored(observed) == FALSE

offset_jumped(observed) == initialized /\ Magnitude(observed - offset) > OffsetJump

\* The next offset, given the one the arrival shows.
NextOffset(device, observed) ==
  IF \/ ~initialized \/ device_restarted(device) \/ offset_jumped(observed)
     \/ observed < offset
  THEN observed
  ELSE offset + (observed - offset) \div Smoothing

\* An odometry datagram sampled at host time s arrives.
observe_odometry(s) ==
  LET device == s - boot IN
  /\ s \in boot..now
  /\ now - s <= MaxLatency
  /\ initialized' = TRUE
  /\ offset' = NextOffset(device, now - device)
  /\ last_device' = device
  /\ anchored' = TRUE
  /\ stamp' = [sampled |-> s, received |-> now,
               value |-> mapped_time(device, offset', now), anchored |-> TRUE]
  /\ UNCHANGED <<now, boot>>

\* A point cloud whose first packet was sampled at host time s is complete.
map_cloud(s) ==
  /\ s \in boot..now
  /\ stamp' = [sampled |-> s, received |-> now,
               value |-> IF initialized THEN mapped_time(s - boot, offset, now) ELSE now,
               anchored |-> anchored]
  /\ UNCHANGED <<mapper, now, boot, anchored>>

-----------------------------------------------------------------------------
Tick ==
  /\ now < MaxTime
  /\ now' = now + 1
  /\ UNCHANGED <<mapper, boot, anchored, stamp>>

\* The device restarts; nothing it sent before is still on its way.  It has been
\* up for long enough that the shift of its clock cannot pass for latency.
Restart ==
  /\ now - boot > OffsetJump + MaxLatency
  /\ boot' = now
  /\ anchored' = FALSE
  /\ UNCHANGED <<mapper, now, stamp>>

ClockNext ==
  \/ Tick
  \/ Restart
  \/ \E s \in 0..now : observe_odometry(s) \/ map_cloud(s)

ClockSpec == ClockInit /\ [][ClockNext]_clockVars

-----------------------------------------------------------------------------
(* Properties *)

\* Once an odometry of the device's present boot has been seen, every stamp, of
\* clouds too, lies between the true time of its sample and the receive time, and
\* is late by no more than an odometry datagram's way, however long the cloud took
\* to assemble, over restarts of the device and jitter (observe_odometry,
\* map_cloud: "network jitter cannot move timestamps into the future").
StampsAreAccurate ==
  stamp.anchored =>
    /\ stamp.sampled <= stamp.value
    /\ stamp.value <= stamp.received
    /\ stamp.value <= stamp.sampled + MaxLatency

-----------------------------------------------------------------------------
(* The inductive invariant *)

ClockTypes ==
  /\ initialized \in BOOLEAN /\ anchored \in BOOLEAN
  /\ offset \in Int /\ last_device \in Int
  /\ now \in Nat /\ boot \in Nat
  /\ stamp \in [sampled : Int, received : Int, value : Int, anchored : BOOLEAN]

\* The offset is the device's boot time plus at most one latency: of this boot, or
\* of one that lies too far back to be mistaken for it.
OffsetIsBootTime ==
  /\ boot <= now
  /\ anchored => initialized /\ boot <= offset /\ offset <= boot + MaxLatency
  /\ initialized /\ ~anchored => offset + OffsetJump < boot

ClockInv == ClockTypes /\ OffsetIsBootTime /\ StampsAreAccurate
=============================================================================
