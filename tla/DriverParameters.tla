--------------------------- MODULE DriverParameters ---------------------------
(***************************************************************************)
(* The integer parameters of the node (src/driver_node.cpp):               *)
(* validate_parameters checks each one as an int, and the node then uses   *)
(* the parameter itself, an int64, converted to the type of its field.     *)
(* The checks of addresses, scales, names and covariances convert nothing  *)
(* and are left out.                                                       *)
(***************************************************************************)
EXTENDS Integers

Ports == {"lidar.point_cloud_port", "lidar.odometry_port"}

\* Timeouts of SDK calls, which become uint32 ...
CallTimeouts == {"sdk.init_timeout_ms", "sdk.call_timeout_ms", "sdk.heartbeat_call_timeout_ms"}

\* ... and periods, which become std::chrono::milliseconds.
Periods ==
  { "timing.heartbeat_period_ms", "timing.motion_refresh_period_ms",
    "timing.state_poll_period_ms", "timing.mode_timeout_ms",
    "timing.reconnect_initial_delay_ms", "timing.reconnect_max_delay_ms",
    "safety.command_deadman_ms" }

Capacities ==
  { "safety.queue_capacity", "lidar.max_parallel_frames",
    "lidar.max_points_per_frame", "lidar.max_packets_per_frame" }

Frequencies ==
  { "subscriptions.imu_frequency_hz", "subscriptions.sport_frequency_hz",
    "subscriptions.lidar_frequency_hz" }

Names ==
  Ports \cup CallTimeouts \cup Periods \cup Capacities \cup Frequencies
    \cup {"lidar.frame_timeout_ms", "sdk.heartbeat_max_failures"}

Int32 == {n \in Int : -2147483648 <= n /\ n <= 2147483647}
Int64 == {n \in Int : -9223372036854775808 <= n /\ n <= 9223372036854775807}

-----------------------------------------------------------------------------
(* Conversions *)

\* as_int() assigned to an int.
to_int(n) == ((n + 2147483648) % 4294967296) - 2147483648
to_uint16(n) == n % 65536
to_uint32(n) == n % 4294967296
to_size(n) == n % 18446744073709551616

\* What the node works with: the fields of RuntimeConfig and of the LiDAR configuration.
Resolved(p) ==
  [k \in Names |->
     IF k \in Ports THEN to_uint16(p[k])
     ELSE IF k \in CallTimeouts \cup {"sdk.heartbeat_max_failures"} THEN to_uint32(p[k])
     ELSE IF k \in Capacities THEN to_size(p[k])
     ELSE IF k \in Periods THEN p[k]
     ELSE to_int(p[k])]

-----------------------------------------------------------------------------
(* validate_parameters, of the values v *)

ValidPorts(v) ==
  /\ \A k \in Ports : 1 <= v[k] /\ v[k] <= 65535
  /\ v["lidar.point_cloud_port"] # v["lidar.odometry_port"]

ValidTimings(v) ==
  \A k \in CallTimeouts \cup Periods \cup {"lidar.frame_timeout_ms"} : v[k] > 0

ValidCapacities(v) ==
  /\ \A k \in Capacities : v[k] >= 1
  /\ v["safety.queue_capacity"] <= 1024
  /\ v["lidar.max_parallel_frames"] <= 64
  /\ v["lidar.max_points_per_frame"] <= 50000000
  /\ v["lidar.max_packets_per_frame"] <= 65536
  /\ v["lidar.max_parallel_frames"] * v["lidar.max_points_per_frame"] <= 20000000

ValidReconnect(v) ==
  /\ v["sdk.heartbeat_max_failures"] >= 1
  /\ v["timing.reconnect_initial_delay_ms"] <= v["timing.reconnect_max_delay_ms"]

\* frequency_from_hz
ValidFrequencies(v) == \A k \in Frequencies : v[k] \in {0, 1, 25, 50, 125, 250}

Valid(v) ==
  ValidPorts(v) /\ ValidTimings(v) /\ ValidCapacities(v) /\ ValidReconnect(v)
    /\ ValidFrequencies(v)

\* The node starts with the parameters p.
Accepted(p) == Valid([k \in Names |-> to_int(p[k])])
=============================================================================
