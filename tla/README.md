# Verification of the HYPERTRON SW01 ROS 2 bridge

TLA+ models of the driver's concurrent parts, an abstract contract the runtime is
shown to implement, the TLC instances that check them, and TLAPS proofs of every
safety property that the instances check and that holds. Paths are relative to the
repository root; line numbers refer to `src/*.cpp` unless a header is named.

## The system

| Part | State | Operations | Talks to |
|---|---|---|---|
| `RobotController` | status, stored velocity and its time, e-stop latch, readiness, transition gate, pending mode | accept_velocity, velocity_for_tick, trigger/clear_estop, request/complete_mode, set_driver_ready, invalidate_connection, update_robot_state | called by the runtime from several threads |
| `DirectDriverRuntime` | flags and caches under `wake_mutex_`, command queue, promises, worker locals | the public entry points, handle_status, the worker's loop | controller, SDK adapter, preflight, observer |
| `ThreadSafeQueue` | bounded deque | push, try_pop (the others have no caller) | runtime |
| `DirectAstrallSdk` | generation state, callbacks, caches, in_flight, deferred teardown, three mutexes | init, vendor calls, subscriptions, deliveries, deinit | vendor library |
| `PointCloudFrameAssembler` | frame slots, counters | add_packet, expire | receive loop |
| `LidarStreamReceiver` | run flags, the thread | start, stop, loop | UDP source, sinks |
| `NetworkPreflight` | child process, pipes, deadline; facts | execute_readonly_command, check, evaluate_network | called by the worker before every attempt |
| `HypertronDriverNode` | `status_*`, `estop_latched_` under `state_mutex_`; the device-clock offset; its parameters | observer callbacks, service and topic handlers, publish_robot_state, destructor | runtime, receivers, ROS |
| parsers, sockets, launch files, tools | | | not modelled, see below |

What makes it hard: entry points release `wake_mutex_` between check, decision
and enqueue; status callbacks arrive on vendor threads at any moment, also while
a session is torn down; a promise can be answered from five places; an emergency
stop races commands already accepted; vendor callbacks may call `deinit()` and
observer callbacks `stop()`, while the worker waits for them and another thread
joins the worker; the node copies its state under a lock and publishes after it;
UDP packets are lost, repeated and reordered; the LiDAR's clock restarts.

## Modules

- `RobotController`: each method holds `mutex_` throughout, so it is a function
  from the members before to the members after. `RobotControllerSpec` lets any
  method be called at any time and adds the clock, and two history variables that the
  controller itself does not keep: the mode accepted last and neither completed nor
  dropped since (`outstanding`), and the mode the last call reported as reached
  (`confirmed`). `RobotControllerTheorems`
  has lemmas about the functions, `RobotControllerProofs` the theorems.
- `DirectDriverRuntime` extends `RobotController` (the composition of the two):
  a record for the members under `wake_mutex_`, one for the worker, and per
  request where its caller is and what its future holds. `RuntimeProperties`
  states the properties; `RuntimeProofs` and `RuntimeRequestProofs` prove them.
- `DriverContract`: what the runtime promises, without threads, locks, queue or
  worker. `RuntimeProperties` instantiates it with the refinement mapping below.
- `RuntimeLifecycle`: `start`, `stop`, the join, and observer callbacks on callers',
  vendor and worker threads with the thread-local flag of `ObserverCallbackGuard`.
  What the worker does in a session is reduced to its SDK being up or down.
- `NodeShutdown` composes `LidarStreamReceiver` (EXTENDS) and `RuntimeLifecycle`
  (INSTANCE) with the threads that use both and the node's destructor.
- `DriverNode`: the observer callbacks and the handlers, each split where it
  releases `state_mutex_` or calls the runtime, and the last message on the topic.
- `LidarDeviceClock`: `LidarDeviceClockMapper` in an environment with a host clock
  and a device that restarts.
- `DriverParameters`: the integer parameters, their checks and conversions as pure
  operators. It has no run: its numerals are beyond TLC's integers. `NodeProofs`
  has the theorems about shutdown, clock and parameters.
- `DirectAstrallSdk`: one step per critical section of `gate_mutex` or vendor
  call; callbacks and caches are named by the generation that set them. Proofs in
  `DirectAstrallSdkProofs`.
- `PointCloudFrameAssembler`: slots are a function from timestamps; a step is an
  iteration of `loop_point_cloud`. Proofs in `PointCloudFrameAssemblerProofs`.
  `LidarStreamReceiver`: start, stop and join.
- `ReadonlyCommand`: `execute_readonly_command`, one step per system call, with the
  child, the pipes and the clock moving in between. `NetworkPreflight` extends it
  with `check()`: the two probes, the parsers and `evaluate_network`. Proofs of both
  in `NetworkPreflightProofs`.
- `MC*` modules hold the instances. An operator commented `Fault:` is a plausible
  bug in the definition after it; every checked property is violated when its
  fault replaces that definition.

### Abstractions and step sizes

Velocity: one signed component, clamped to -1..1. Modes and statuses: names.
Error code: 0 or not. Time: a velocity's age saturates one past the deadman, a
frame's age at its timeout; every other timer may be due in any iteration.

Merged worker steps, each with nothing observable in between: the wait and the
re-check (403-457); stop check with the latch reset, and with `connected_ =
true` (both commute with `stop()`); taking the stop mark, failing the transition
and completing it in the controller; each drained command with its completion;
`update_robot_state({})` with `invalidate_connection`; `set_driver_ready` with
the pending test of `check_mode_transition`; an SDK call with the handling of
its result. After a failed attempt with a stop requested the model exits at
once, where the code passes `wait_backoff` and the loop head. The deadline
branch of `check_mode_transition` (813-817) is unreachable: the loop tested the
same `now`. Looking at the pending flag and completing the transition stay two
steps, as in the code. `estop_engaged_` is `estop_promise # NoRequest`.

SDK: the wait and the publication are one step (nothing else leaves
ShuttingDown); refused re-entrant calls change nothing; an unbound vendor
function is a failed call. Assembler: among equally old slots any may be
evicted; the packet counters, only logged after `stop()`, are left out. The ordered
scan over the map is a condition on each packet, that it starts where the one next
before it ends (`Expected`); the frame's points are placed by how many come before
them in offset order (`Place`), which is appending packet after packet.

Mode names are taken as `normalized_mode` leaves them; every other name is
"unknown". Preflight: a line of output is a record of the fields
the parsers look for and the unit of reading, lost or kept as a whole. That lost
output never means "ready" therefore also assumes that no line is cut in the middle.
The child may exit with any status in `OwnStatuses`, 124 included; `read()` and
`poll()` may fail at any time (`ReadFails` gives the stream up as an end of file does).
With SIGCHLD ignored by inheritance there is no zombie and `waitpid` fails, the only way
to its error branches. The runtime model takes the preflight's answer as a
nondeterministic Boolean.

Robot (external): `Subscribe`, when it starts a session, sets the velocity the robot
was told to zero. The code sends no zero there; the robot clears its commands when
heartbeats stop for about 500 ms (`SW01_MANUAL_NOTES.md:83`), and a reconnect waits for
at least the initial backoff, 1000 ms by default. A shorter one is outside the model.

Lifecycle: a callback nested in another one runs on one thread and touches only
that thread's flag and `stop_requested_`, so it is one step. `deinit()` closes the
gate and waits for the vendor's callbacks, as `DirectAstrallSdk` shows it does.
`submit_velocity` is why a caller's own thread may be in an observer callback. The
destructor is called when no other thread uses the node; receive thread, worker
and SDK callbacks are still running. One receiver stands for the two, which are alike.

Node: the runtime appears as its session, its two caches and the latch. `deinit()` is
two steps: it closes the adapter's gate, after which no report comes, and returns when
the running callbacks have ended. A handler
waits with a timeout, so its wait may end at any time. Requests other than
engaging a stop may come whenever the executor is idle. The topic keeps the last
message. Telemetry values, the pose and its transform are left out.

Clock: the device's clock runs at the host's rate. An odometry datagram takes at
most `MaxLatency`; a cloud takes as long as it takes. A restart is assumed to come
after the device was up for more than `kOffsetJumpNs` plus one latency, so that the
offset's shift cannot pass for jitter; under this assumption `offset_jumped` finds every
restart and `device_restarted` is redundant. Nothing the device sent before a restart,
odometry or cloud, arrives after it. Until the first odometry after a restart
clouds are stamped with the old offset; the property speaks of the time after it.

External: the clock, the child process, the vendor's behaviour and the reading of
a future are modelled from how the code uses them.

## Runs

| Run | Instance | States | Shows |
|---|---|---|---|
| gate | deadman 2 | 2,020 | the gate's invariants under all call orders; it opens only for a confirmed move |
| commands | 2 mode, 1 authority request, queue of 1, 2 statuses, backoff 1 to 6 | 1,708,486 | no answer lost, no transition pending for nobody, session isolation, backoff |
| estop | 2 stops, 1 mode, velocities, lost replies | 1,137,768 | stops supersede safely; the contract is implemented |
| motion | 1 mode, velocities, heartbeat limit 2, fairness | 80,909 | answers, shutdown, motion brought to zero |
| stop_answered | 1 stop, 1 authority, fairness | 120,899 | stops and authority requests answered; stop() ends the worker in the middle of an emergency stop too |
| sdk_lifecycle | 1 thread, 2 deliveries, 3 generations, fairness | 29,025 | no late callback, nothing inherited, adapter and vendor in step, teardown ends |
| assembler | 3 frames, 2 slots, fairness | 6,575 | exact frames, accounting, release |
| shutdown | 2 callers, 1 SDK thread, worker, receive thread, fairness | 7,796 | stopped parts stay gone, every stop() returns, the destructor ends with no thread left |
| preflight | 2 lines per child, pipe of 1, own statuses 0, 1, 124, 139, fairness | 486,490 | truthful results, nothing left behind, return, sound "ready" |
| node | 2 status threads, worker, executor, 2 reports, fairness | 226,760 | robot_state settles on the last status and latch; overtaken reports are corrected; a stop is latched |
| clock | tolerance 1, jump 3, smoothing 2, latency 2, host time to 13 | 133,911 | stamps are accurate over restarts and jitter |

Bounds: a queue of one place is full after one command, so overflow and drain
both happen; two requests of a kind are what superseding needs; backoff 1 to 6
doubles twice and then caps off a power of two; three generations give a
predecessor and a successor; two lines over a pipe of one place make the child
wait for the reader and lose its last line in the race; two slots for three frames force eviction. Two
callers give a joiner and another that stops or starts meanwhile (three callers,
46,352 states, pass as well, in a quarter of an hour). Two status threads let one report
overtake another; the two reports, linked and not, differ in what a session turns on
(with a third, linked with authority, the node run passes as well: 1,264,632 states, 14
minutes). Host time 13 leaves room for
two restarts. Requests
are reused after their answer is collected, so behaviours are unbounded.
Symmetry is used only in runs without liveness. Deadlock is checked everywhere
except in shutdown, whose system ends.

Fairness: the worker and receive threads run and SDK calls return (they carry
timeouts); a caller inside an entry point leaves it; deadlines and refresh
periods come due; a killed process dies, and nothing else is asked of a child; no system
call is asked to fail; the SDK does not refuse every move for ever. Observer and sink
callbacks return; a thread that waits for a mutex others keep releasing gets it
(strong fairness, for `stop_mutex_`); the worker ends when it was asked to, keeps
polling or retrying otherwise, and a destructor that began goes on; the executor
comes round to a waiting stop. One assumption is
not guaranteed by the code: that callers do not refill the queue for ever while
an emergency stop drains it (863); it is listed as a hazard.

### The contract

| `DriverContract` | `DirectDriverRuntime` |
|---|---|
| `answer` | `promise` |
| `accepted` | requests whose call returned and whose future is unresolved |
| `online` | `connected_` |
| `latched` | the controller's `estop_latched_` |
| `held` | a stop was carried out and has not been released |
| `moving` | the last velocity the robot was told is nonzero |

`ImplementsContract` says that every step of the runtime is one step of the
contract or none: a session's end is the single `Disconnect` that fails everything
accepted, although callers, queue, stop mark and worker hold the promises; success
of a stop is `Succeed`, possible only with the robot still; `Move` is impossible
while a stop is held. The contract states safety; that requests are answered at
all is `EveryRequestAnswered`.

### Disagreements between comments and code

A run that refutes what a comment says:

- mode_after_stop: a mode accepted before a stop and enqueued after its drain is
  sent after the stop was carried out, against 855-856.

### Further disagreements

TLC refutes these too; they are not kept as runs. To repeat one, change the
named configuration.

- `NoInheritedLink` (alone, MCModeAfterStop): a status report between
  `invalidate_session` (380) and the end of `deinit` (381) survives into the next
  attempt, against 976-979.
- `GateOpensOnOwnConfirmation` (alone, MCRuntimeCommands without symmetry):
  `mode_transition_pending()` does not say whose transition is pending, so an
  older confirmation completes a newer "move", against 798-799.
- `ClosedOnce` (alone, MCNetworkPreflight with `SPECIFICATION Spec`): the drain loop
  of `execute_readonly_command` closes a read end at its end of file or at an error
  (network_preflight.cpp:393) and the guard, not released, closes the number again
  on return, against 189-190. Every ordinary probe does this; it matters when
  another thread was given the number in between.
- `OutputCaptured` (alone, MCNetworkPreflight with `SPECIFICATION Spec`): what the
  child writes between the last `read` and the `waitpid` that reaps it (403) is not read, against
  network_preflight.cpp:242-243. By `ReadyIsSound` the answer can only become "not
  ready", which the runtime retries.
- `CommandReturns` (alone, MCNetworkPreflight with `Endless = TRUE`): the inner read
  loop (381) tests no deadline, so a child that never lets the pipe run empty holds
  the caller, against network_preflight.hpp:56-57. `ip` writes finitely much.
- `NoCommandAfterDrop` (alone, MCRuntimeCommands without symmetry): a drop
  latched after the re-check (447) does not stop the command popped at 471,
  against 441-444.
- `MotionIsStopped` (alone, MCRuntimeMotion with `LossyReplies = TRUE`): a nonzero move
  that arrived although its call failed is never followed by a zero (516),
  against 510-512. The motion run assumes failed moves did not arrive.
- `NoStaleOverwrite`, `VendorInStep`, `NothingInherited` and `NoCallbackAfterDeinit` with
  two threads (MCSdkLifecycle with `Apps <- MCTwoApps`, `SPECIFICATION Spec` and one of
  them alone): a `deinit()` that found a failing `init()` publishes Uninitialized after a
  second `init()` has begun a new generation, against
  direct_astrall_sdk.cpp:312-317 and 738-743, and the rest follows. The runtime uses one
  thread, for which the last three are checked and proved; `NoStaleOverwrite` needs the
  second thread to be at stake at all. (`TeardownEnds` is not meaningful with two: one
  thread may take `teardown_mutex` again and again, as std::mutex is not fair.)
- `LinkIsActual` (alone, MCDriverNode): the end of a session clears the runtime's
  caches but calls no `on_status`, so robot_state says "linked" for as long as the
  SDK is shut down, against the design document ("`sdk_linked` is the actual vendor
  UDP link state", docs/superpowers/specs/2026-08-13-direct-astrall-ros2-driver-design.md:93-94).
- `NodeFollowsRuntime` (alone, MCDriverNode): the runtime serializes reports under its
  lock (629-632) but calls `on_status` after it (642-646), so the node may settle on the
  older of two reports when no further one comes. `OvertakenReportIsCorrected` is what
  holds. With one status thread (`MCOneStatus`) the node follows.
- `WideParametersPass`, a theorem: `validate_parameters` checks the lower 32 bits of an
  int64 and the node uses all of it, so a negative period or an unbounded capacity
  passes, against driver_node.cpp:564-567.
- `IndexBelowCap` (as an invariant in MCAssembler): the cap bounds the number of
  packets (lidar_stream.cpp:466), not their index as lidar_stream.hpp:149-151
  says; the class comment below it describes the code.

## Proofs

For every value of the constants:

- **Safety gate** (`RobotControllerProofs`): TypeCorrect, GateCorrect,
  TickFreshness, GateOpening and Release, from `Deadman \in Nat \ {0}`, which the
  constructor enforces. `GateHolds` is not enough by itself for freshness: `IInv` adds
  `Fresh`, that while a velocity is stored the gate has not closed since its
  acceptance and its recorded age is the true one, and `PendingIsOutstanding`, that the
  controller's pending mode is the request outstanding in the history of calls. Both tie
  the controller to the history variables; with the second, GateOpening says of the
  controller, which only keeps a flag and a name, that the gate opens in the very call
  that reports success of the outstanding move (`CallsAgree`). `CallKeeps` carries the part that is the same for every
  method, from one lemma per method; the theorems follow from `IInvHolds`.
- **Runtime** (`RuntimeProofs`, `RuntimeRequestProofs`): every safety property of
  `RuntimeProperties` that is not a refuted comment, and RefinesContract, for any
  sets of callers, capacity, periods and thresholds, from `RuntimeAssumption` (the
  kinds of request are disjoint and not "nobody", capacity is positive) and
  `DeadmanAssumption`. Four invariants, each inductive given the ones before it:
  - `TypeInv`: `TypeOK`, `GateInv` of the controller (one lemma per method, shared
    with the safety gate's proofs), and that an accepted request names a vendor mode.
  - `SessionInv`: `NothingQueuedOffline`, `GateNeverAhead` and `ReadyOnlyInSession`
    with `Located`, which says at which places of the worker a session is up and
    callbacks may come; without it the second and third are not inductive. Steps of the
    loop are summed up by `SessionEffect`, steps outside the worker by `OutsideEffect`.
  - `RequestInv`: `HeldOnce`, no request is in two of queue, mark, served command and
    armed transition, and the worker serves one of the kind its place is for; `Awaited`,
    those awaited are the held ones and the running calls. Every step of the worker
    settles a set of held requests (`Settles`), so it answers nobody twice and forgets
    nobody; each call moves one caller (`OneMoves`). EveryPromiseOwned follows, and
    `PendingHasCarrier` is inductive on top of it.
  - `StillInv`: while a stop stands served the robot was told to stand still, nothing
    but zero is about to be sent, and damping follows a zero move that arrived.
  RefinesContract shows with these that the contract's `accepted` is what the runtime
  holds (`AcceptedHeld`) and that each step is a step of the contract or none: one
  `Map` lemma per action of the contract, then one case per action of the runtime.
  RuntimeHoldsStops and AnswersAreFinal are consequences of the contract alone, whose
  `TypeOK` with `HeldIsStill` and `NobodyLeftWaiting` is inductive (`ContractStep`);
  by RefinesContract they hold of the runtime.
- **SDK adapter** (`DirectAstrallSdkProofs`): TypeCorrect, for any number of threads:
  `in_flight` counts the deliveries inside the gate, so the teardown's wait for zero
  is a wait for all of them. CallbacksEnd, FreshGeneration and VendorFollows, for any
  deliveries, topics and generations and one calling thread (`Single`), which is how
  the runtime uses the adapter; with two they fail, as listed above. `GenInv` adds to
  the properties where the thread is for each state of the gate (`Places`) and that an
  open gate belongs to a generation no `deinit()` has covered and holds nothing older,
  while a closed one holds no callback (`Current`). It is needed because a delivery
  copies its callback at admission: that the copy is not stale follows only from
  what an open gate holds. VendorFollows is `VendorInStep`: the library is up behind an
  initialized adapter, and down behind a closed gate unless its shutdown is the next step.
- **Assembler** (`PointCloudFrameAssemblerProofs`): OnlyExactFrames, ConsistentSlots and
  AccountedFrames, for any set of packets of at least one point, any totals, indexes
  and limits (at least one packet per frame). `Filled` says of a slot that its packets
  lie one after the other within the frame (`Tiles`), came in for its timestamp and
  total (`Sourced`), and that `sum_points` is the number of offsets covered; `Waiting`
  adds that it has a packet and misses an offset; `Balance` is the accounting.
  `Opening` is what holds inside `add_packet`, between the activation of a slot and
  its fate. That a slot missing nothing is complete (`ScanSucceeds`), that a complete
  one yields a frame of the declared size, so the defensive check (534) never drops
  one, and that a point's place is its offset (`PlaceIsOffset`, `AssembledExactly`)
  are counting lemmas about tilings.
- **Preflight** (`NetworkPreflightProofs`): CommandCleansUp, KillsOwnChild,
  ResultIsHonest and ReadyOnEvidence, for any lines, amount of output, pipe capacity and
  SIGCHLD disposition. `ChildFollows` ties the child's state to the caller's place:
  there is a child from `fork()` to the return, only an ignored SIGCHLD lets it vanish,
  only the kill marks it, a timeout is recorded only after the deadline. ResultIsHonest is
  about what the result says of the child: its own status unless it was killed, 0 only if
  it ended with 0, and -1 or (after the deadline) 124 if it was killed. A child that exits
  with 124 by itself has the result of a timeout; the caller rejects both alike. On top of it
  `OutputFrom` says that what was read is what the present probe's child printed, and
  `AddressMeasured` carries the first probe's evidence over the second.
- **Shutdown** (`NodeProofs`): StoppedForGood and NodeOutlived, for any number
  of callers and SDK threads, assuming that these, the worker and "nobody" are
  different. The invariant has a part for each component and one for the
  destructor: after a returned `stop()` the stop flag is set and the thread is joined
  or was never created, so `start()` cannot create one (`ReceiverInv`); each thread's
  flag says whether it is in a callback, so only callers outside every callback wait
  in the runtime's `stop()`, and vendor callbacks run only in a session or its
  teardown (`RuntimeInv`); each phase of the destructor has the previous part's stop
  behind it and no caller in a callback (`PhaseInv`).
- **LiDAR clock** (`NodeProofs`): StampAccuracy, from nonnegative
  tolerances and a positive divisor. The invariant says that the offset is the
  device's boot time plus at most one latency, or that of a boot too far back to be
  mistaken for the present one; the upward step stays within because the quotient
  of a nonnegative number is between zero and the number.
- **Parameters** (`NodeProofs`): AcceptedAreUsed, for parameters that fit an
  int; NarrowFieldsAreChecked, for every int64; WideParametersPass, that the latter
  does not extend to periods and capacities.

Only model-checked: the node's callbacks (`SettledStateIsPublished`,
`OvertakenReportIsCorrected`, `StopIsLatched`) and everything else that must eventually happen
(`EveryRequestAnswered`, `StopTerminates`, `MotionIsStopped`, `TeardownEnds`,
`SlotsAreReleased`, `ShutdownEnds`, `CommandReturns`): liveness under fairness is
outside the prover's reach.

## Not modelled

- Byte-level parsing and sockets: bounds checks on a buffer, no state across calls.
- The node's IMU, sport and LiDAR publishers and the odom transform: each converts
  and forwards one sample. One interleaving there is listed as a hazard and not
  decided: `on_imu` storing a pose after `on_status` has reset it.
- Address, scale, name and covariance checks, ROS graph set-up, launch files and
  offline tools: I/O or pure data.
- Vendor exceptions from the worker's periodic calls, which would end the process.
- `DropOldest`, `close` and `wait_pop_for` of the queue, which have no caller.
