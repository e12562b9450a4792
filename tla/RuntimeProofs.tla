---------------------------- MODULE RuntimeProofs ----------------------------
(***************************************************************************)
(* The direct driver runtime for any sets of callers, any queue capacity   *)
(* and any periods: its types, what belongs to a session and ends with it, *)
(* the reconnect delay, the robot that stands still after a stop, and what *)
(* follows from the contract.                                              *)
(***************************************************************************)
EXTENDS RuntimeProperties, RobotControllerTheorems

-----------------------------------------------------------------------------
(* Types *)

\* An accepted request stands for a vendor mode, and the worker sends a mode only
\* on behalf of a mode request.
ModesAreVendorModes ==
  /\ \A r \in ModeRequests : caller[r] = "accepted" => wanted[r] \in Modes
  /\ worker.pc \in {"mode_zero", "mode_set"} => worker.cur.req \in ModeRequests

\* The type invariant with what makes it inductive.
TypeInv == TypeOK /\ GateInv(controller) /\ ModesAreVendorModes

Answers == {"none", "waiting", "ok", "failed"}

\* No command and no transition are values the worker's members may hold.
LEMMA Empties == NoCommand \in CurrentCommands /\ NoTransition \in Transitions
  BY DEF NoCommand, NoTransition, CurrentCommands, Transitions, SportStatuses

\* The worker's members after a step that moves it on and changes nothing else.
LEMMA GotoType ==
  ASSUME NEW w \in WorkerStates, NEW p \in PCs
  PROVE  [w EXCEPT !.pc = p] \in WorkerStates
  BY DEF WorkerStates

\* set_promise answers with an answer.
LEMMA SetPromiseType ==
  ASSUME NEW p \in [Requests -> Answers], NEW r, NEW a \in {"ok", "failed"}
  PROVE  set_promise(p, r, a) \in [Requests -> Answers]
  BY DEF set_promise, Answers

\* What the robot was told is a velocity.
LEMMA MovedType ==
  ASSUME TypeOK, NEW v \in Velocities, NEW ok,
         sdk' \in {[sdk EXCEPT !.velocity = x] : x \in Moved(v, ok)}
  PROVE  sdk' \in [live : BOOLEAN, velocity : Velocities] /\ sdk'.live = sdk.live
<1>1. sdk \in [live : BOOLEAN, velocity : Velocities]
  BY DEF TypeOK
<1>2. PICK x \in Moved(v, ok) : sdk' = [sdk EXCEPT !.velocity = x]
  OBVIOUS
<1>3. x \in Velocities
  BY <1>1, <1>2 DEF Moved
<1> QED
  BY <1>1, <1>2, <1>3

\* A step of the worker alone that does not enter the mode command.
LEMMA WorkerAlone ==
  ASSUME TypeInv, worker' \in WorkerStates,
         worker'.pc \notin {"mode_zero", "mode_set"},
         UNCHANGED <<controller, caller, promise, wanted, shared, sdk, historyVars>>
  PROVE  TypeInv'
  BY DEF TypeInv, TypeOK, ModesAreVendorModes, historyVars

\* Steps that only move the worker on.
LEMMA MovesType ==
  ASSUME TypeInv,
         \/ LoopHead \/ Wait \/ Actuate \/ Settle \/ SkipMotion \/ NotExpired
         \/ SkipPoll \/ PollSettle \/ Start \/ \E ok \in BOOLEAN : SdkInit(ok)
  PROVE  TypeInv'
<1>1. PICK p \in PCs \ {"mode_zero", "mode_set"} : Goto(p)
  BY DEF LoopHead, Wait, Actuate, Settle, SkipMotion, NotExpired, SkipPoll,
         PollSettle, Start, SdkInit, PCs
<1>2. UNCHANGED <<controller, caller, promise, wanted, shared, sdk, historyVars>>
  BY DEF LoopHead, Wait, Actuate, Settle, SkipMotion, NotExpired, SkipPoll,
         PollSettle, Start, SdkInit
<1>3. worker' \in WorkerStates /\ worker'.pc = p
  BY <1>1, GotoType DEF Goto, TypeInv, TypeOK, WorkerStates
<1> QED
  BY <1>1, <1>2, <1>3, WorkerAlone

\* Steps that change the worker's own members.
LEMMA WorkerMembersType ==
  ASSUME TypeInv,
         \/ Backoff \/ MotionTick
         \/ \E outcome \in {"skip", "ok", "fail"} : Heartbeat(outcome)
         \/ \E s \in Snapshots : TakeSnapshot(s)
  PROVE  TypeInv'
<1> USE DEF TypeInv, TypeOK
<1>0. worker \in WorkerStates
  OBVIOUS
<1>1. CASE Backoff
  <2>1. next_backoff(worker.backoff) \in Nat
    BY <1>0, RuntimeAssumption DEF next_backoff, WorkerStates
  <2>2. worker' \in WorkerStates /\ worker'.pc = "head"
    BY Zenon, <1>0, <1>1, <2>1 DEF WorkerStates, Backoff, PCs
  <2> QED
    BY <1>1, <2>2, WorkerAlone DEF Backoff
<1>2. CASE MotionTick
  <2>1. velocity_for_tick(controller) \in Velocities
    BY Zeros DEF velocity_for_tick, ControllerStates
  <2>2. worker' \in WorkerStates /\ worker'.pc \in {"tick_send", "deadline"}
    BY ZenonT(40), <1>0, <1>2, <2>1 DEF WorkerStates, MotionTick, PCs
  <2> QED
    BY <1>2, <2>2, WorkerAlone DEF MotionTick
<1>3. ASSUME NEW outcome \in {"skip", "ok", "fail"}, Heartbeat(outcome)
      PROVE  TypeInv'
  <2>1. HeartbeatThreshold \in Nat /\ 0 \in 0..HeartbeatThreshold
    BY RuntimeAssumption DEF HeartbeatThreshold
  <2>2. worker.heartbeat_failures \in 0..HeartbeatThreshold
    BY <1>0 DEF WorkerStates
  <2>3. worker' \in WorkerStates /\ worker'.pc \in {"tick", "session_end"}
    <3>1. CASE outcome = "skip"
      BY <1>0, <1>3, <3>1 DEF Heartbeat, WorkerStates, PCs
    <3>2. CASE outcome = "ok"
      BY Zenon, <1>0, <1>3, <2>1, <3>2 DEF Heartbeat, WorkerStates, PCs
    <3>3. CASE outcome = "fail"
      <4> DEFINE failures == worker.heartbeat_failures + 1
      <4>1. CASE failures >= HeartbeatThreshold
        <5>1. worker' = [worker EXCEPT !.pc = "session_end", !.forced = FALSE,
                                       !.heartbeat_failures = 0]
          BY <1>3, <3>3, <4>1 DEF Heartbeat
        <5> QED
          BY Zenon, <1>0, <2>1, <5>1 DEF WorkerStates, PCs
      <4>2. CASE ~(failures >= HeartbeatThreshold)
        <5>1. worker' = [worker EXCEPT !.pc = "tick",
                                       !.heartbeat_failures = failures]
          BY <1>3, <3>3, <4>2 DEF Heartbeat
        <5>2. failures \in 0..HeartbeatThreshold
          BY <2>1, <2>2, <4>2
        <5> QED
          BY ZenonT(40), <1>0, <5>1, <5>2 DEF WorkerStates, PCs
      <4> QED
        BY <4>1, <4>2
    <3> QED
      BY <3>1, <3>2, <3>3
  <2> QED
    BY <1>3, <2>3, WorkerAlone DEF Heartbeat
<1>4. ASSUME NEW s \in Snapshots, TakeSnapshot(s) PROVE TypeInv'
  <2>1. worker' \in WorkerStates /\ worker'.pc = "poll_apply"
    BY Zenon, <1>0, <1>4 DEF WorkerStates, TakeSnapshot, PCs
  <2> QED
    BY ZenonT(40), <1>4, <2>1, WorkerAlone DEF TakeSnapshot
<1> QED
  BY <1>1, <1>2, <1>3, <1>4

\* Every request named by a command, a mark or a caller is a request.
LEMMA RequestSets ==
  /\ ModeRequests \subseteq Requests /\ AuthorityRequests \subseteq Requests
  /\ EstopRequests \subseteq Requests
  BY DEF Requests

\* The vendor modes are mode names.
LEMMA ModesAreNames == Modes \subseteq ModeNames
  BY DEF Modes

\* A call that reaches only the controller.
LEMMA ControllerAlone ==
  ASSUME TypeInv, controller' \in ControllerStates, GateInv(controller'),
         estop_served' \in BOOLEAN,
         UNCHANGED <<caller, promise, wanted, shared, worker, sdk, reported>>
  PROVE  TypeInv'
  BY DEF TypeInv, TypeOK, ModesAreVendorModes

\* A step that leaves a caller anywhere but accepted, and the modes as they were.
LEMMA CallerAlone ==
  ASSUME TypeInv, NEW r \in Requests,
         NEW at \in {"idle", "checked", "latched", "returned"},
         caller' = [caller EXCEPT ![r] = at],
         UNCHANGED <<wanted, worker>>
  PROVE  /\ caller' \in [Requests -> {"idle", "checked", "accepted", "latched",
                                      "returned"}]
         /\ ModesAreVendorModes'
  BY RequestSets DEF TypeInv, TypeOK, ModesAreVendorModes

\* The queue with one more command, where there is room for it.
LEMMA PushType ==
  ASSUME TypeInv, HasRoom, NEW command \in Commands, NEW s,
         s = [shared EXCEPT !.command_queue = Append(@, command)]
  PROVE  s \in SharedStates /\ Len(s.command_queue) <= QueueCapacity
<1> DEFINE q == shared.command_queue
<1>1. shared \in SharedStates /\ q \in Seq(Commands)
  BY DEF TypeInv, TypeOK, SharedStates
<1>2. Append(q, command) \in Seq(Commands) /\ Len(Append(q, command)) <= QueueCapacity
  BY <1>1, RuntimeAssumption DEF HasRoom
<1> QED
  BY <1>1, <1>2 DEF SharedStates

\* The queue without its first command.
LEMMA PopType ==
  ASSUME TypeInv, shared.command_queue # <<>>, NEW s,
         s = [shared EXCEPT !.command_queue = Tail(@)]
  PROVE  /\ s \in SharedStates /\ Len(s.command_queue) <= QueueCapacity
         /\ Head(shared.command_queue) \in Commands
<1> DEFINE q == shared.command_queue
<1>1. shared \in SharedStates /\ q \in Seq(Commands) /\ Len(q) <= QueueCapacity
  BY DEF TypeInv, TypeOK, SharedStates
<1>2. /\ Tail(q) \in Seq(Commands) /\ Len(Tail(q)) <= QueueCapacity
      /\ Head(q) \in Commands
  BY <1>1, RuntimeAssumption
<1> QED
  BY Zenon, <1>1, <1>2 DEF SharedStates

\* The callers' entry points.
LEMMA CallersType == ASSUME TypeInv, CallerStep PROVE TypeInv'
<1>0. /\ controller \in ControllerStates /\ GateInv(controller)
      /\ promise \in [Requests -> Answers] /\ shared \in SharedStates
      /\ caller \in [Requests -> {"idle", "checked", "accepted", "latched", "returned"}]
      /\ wanted \in [Requests -> ModeNames \cup {"unknown", NoMode}]
  BY DEF TypeInv, TypeOK, Answers
<1>1. ASSUME NEW finite \in BOOLEAN, NEW v \in VelocityInputs,
             SubmitVelocity(finite, v)
      PROVE  TypeInv'
  <2>1. controller' \in ControllerStates /\ GateInv(controller')
    BY <1>0, <1>1, AcceptVelocityKeeps, RuntimeAssumption DEF SubmitVelocity
  <2> QED
    BY <1>1, <2>1, ControllerAlone DEF SubmitVelocity, historyVars, TypeInv, TypeOK
<1>2. CASE ReleaseEstop
  <2>1. controller' \in ControllerStates /\ GateInv(controller')
    BY <1>0, <1>2, EstopKeeps DEF ReleaseEstop
  <2> QED
    BY Zenon, <1>2, <2>1, ControllerAlone DEF ReleaseEstop
<1>3. ASSUME NEW r \in EstopRequests, LatchEstop(r) PROVE TypeInv'
  <2>1. controller' \in ControllerStates /\ GateInv(controller')
    BY <1>0, <1>3, EstopKeeps DEF LatchEstop
  <2>2. promise' \in [Requests -> Answers]
    BY Zenon, <1>0, <1>3 DEF LatchEstop, Answers
  <2>3. caller' \in [Requests -> {"idle", "checked", "accepted", "latched",
                                  "returned"}] /\ ModesAreVendorModes'
    BY Zenon, <1>3, CallerAlone, RequestSets DEF LatchEstop
  <2> QED
    BY <1>3, <2>1, <2>2, <2>3 DEF LatchEstop, TypeInv, TypeOK, historyVars, Answers
<1>4. ASSUME NEW r \in EstopRequests, MarkEstop(r) PROVE TypeInv'
  <2>1. promise' \in [Requests -> Answers]
    BY <1>0, <1>4, SetPromiseType DEF MarkEstop, Supersede
  <2>2. shared' \in SharedStates /\ shared'.command_queue = shared.command_queue
    BY <1>0, <1>4 DEF MarkEstop, SharedStates
  <2>3. caller' \in [Requests -> {"idle", "checked", "accepted", "latched",
                                  "returned"}] /\ ModesAreVendorModes'
    BY Zenon, <1>4, CallerAlone, RequestSets DEF MarkEstop
  <2> QED
    BY <1>4, <2>1, <2>2, <2>3 DEF MarkEstop, TypeInv, TypeOK, historyVars, Answers
<1>5. ASSUME NEW r \in AuthorityRequests, RequestAuthority(r) PROVE TypeInv'
  <2>1. promise' \in [Requests -> Answers]
    BY <1>0, <1>5 DEF RequestAuthority, Answers
  <2>2. [req |-> r, mode |-> NoMode] \in Commands
    BY DEF Commands
  <2>3. shared' \in SharedStates /\ Len(shared'.command_queue) <= QueueCapacity
    <3>1. CASE ~Disconnected /\ HasRoom
      BY <1>5, <2>2, <3>1, PushType DEF RequestAuthority
    <3>2. CASE ~(~Disconnected /\ HasRoom)
      BY <1>5, <3>2 DEF RequestAuthority, TypeInv, TypeOK
    <3> QED
      BY <3>1, <3>2
  <2>4. caller' \in [Requests -> {"idle", "checked", "accepted", "latched",
                                  "returned"}] /\ ModesAreVendorModes'
    BY Zenon, <1>5, CallerAlone, RequestSets DEF RequestAuthority
  <2> QED
    BY <1>5, <2>1, <2>3, <2>4 DEF RequestAuthority, TypeInv, TypeOK, historyVars,
       Answers
<1>6. ASSUME NEW r \in ModeRequests, NEW name \in RequestedNames, CheckMode(r, name)
      PROVE  TypeInv'
  <2>1. promise' \in [Requests -> Answers]
    BY <1>0, <1>6 DEF CheckMode, Answers
  <2>2. name \in ModeNames \cup {"unknown"}
    BY RuntimeAssumption
  <2>3. /\ wanted' \in [Requests -> ModeNames \cup {"unknown", NoMode}]
        /\ caller' \in [Requests -> {"idle", "checked", "accepted", "latched",
                                     "returned"}]
    BY <1>0, <1>6, <2>2 DEF CheckMode
  <2>4. ModesAreVendorModes'
    BY <1>0, <1>6, RequestSets DEF CheckMode, TypeInv, ModesAreVendorModes
  <2> QED
    BY <1>6, <2>1, <2>3, <2>4 DEF CheckMode, TypeInv, TypeOK, historyVars, Answers
<1>7. ASSUME NEW r \in ModeRequests, AcceptMode(r) PROVE TypeInv'
  <2>1. controller' \in ControllerStates /\ GateInv(controller')
    BY <1>0, <1>7, RequestModeKeeps DEF AcceptMode
  <2>2. promise' \in [Requests -> Answers]
    BY <1>0, <1>7, SetPromiseType DEF AcceptMode
  <2>3. mode_accepted(controller, wanted[r]) => kModes[wanted[r]] \in Modes
    BY VendorModes DEF mode_accepted
  <2>4. /\ wanted' \in [Requests -> ModeNames \cup {"unknown", NoMode}]
        /\ caller' \in [Requests -> {"idle", "checked", "accepted", "latched",
                                     "returned"}]
    BY <1>0, <1>7, <2>3, ModesAreNames DEF AcceptMode
  <2>5. ModesAreVendorModes'
    BY <1>0, <1>7, <2>3, RequestSets DEF AcceptMode, TypeInv, ModesAreVendorModes
  <2> QED
    BY <1>7, <2>1, <2>2, <2>4, <2>5 DEF AcceptMode, TypeInv, TypeOK, historyVars,
       Answers
<1>8. ASSUME NEW r \in ModeRequests, EnqueueMode(r) PROVE TypeInv'
  <2>1. controller' \in ControllerStates /\ GateInv(controller')
    BY Zenon, <1>0, <1>8, CompleteKeeps DEF EnqueueMode
  <2>2. promise' \in [Requests -> Answers]
    BY ZenonT(40), <1>0, <1>8, SetPromiseType DEF EnqueueMode
  <2>3. [req |-> r, mode |-> wanted[r]] \in Commands
    BY <1>8 DEF EnqueueMode, TypeInv, ModesAreVendorModes, Commands
  <2>4. shared' \in SharedStates /\ Len(shared'.command_queue) <= QueueCapacity
    <3>1. CASE ~Disconnected /\ HasRoom
      BY <1>8, <2>3, <3>1, PushType DEF EnqueueMode
    <3>2. CASE ~(~Disconnected /\ HasRoom)
      BY Zenon, <1>8, <3>2 DEF EnqueueMode, TypeInv, TypeOK
    <3> QED
      BY <3>1, <3>2
  <2>5. /\ wanted' \in [Requests -> ModeNames \cup {"unknown", NoMode}]
        /\ caller' \in [Requests -> {"idle", "checked", "accepted", "latched",
                                     "returned"}]
        /\ ModesAreVendorModes'
    BY <1>0, <1>8, RequestSets DEF EnqueueMode, TypeInv, ModesAreVendorModes
  <2> QED
    BY <1>8, <2>1, <2>2, <2>4, <2>5 DEF EnqueueMode, TypeInv, TypeOK, historyVars,
       Answers
<1>9. ASSUME NEW r \in Requests, Collect(r) PROVE TypeInv'
  <2>1. promise' \in [Requests -> Answers]
    BY <1>0, <1>9 DEF Collect, Answers
  <2>2. caller' \in [Requests -> {"idle", "checked", "accepted", "latched",
                                  "returned"}] /\ ModesAreVendorModes'
    BY Zenon, <1>9, CallerAlone DEF Collect
  <2> QED
    BY <1>9, <2>1, <2>2 DEF Collect, TypeInv, TypeOK, historyVars, Answers
<1> QED
  BY <1>1, <1>2, <1>3, <1>4, <1>5, <1>6, <1>7, <1>8, <1>9 DEF CallerStep

\* Status reports, the clock, and stop().
LEMMA OutsideType ==
  ASSUME TypeInv,
         \/ \E linked, authority \in BOOLEAN : HandleStatus(linked, authority)
         \/ ClockTick \/ Stop
  PROVE  TypeInv'
<1>0. /\ controller \in ControllerStates /\ GateInv(controller)
      /\ shared \in SharedStates
  BY DEF TypeInv, TypeOK
<1>1. ASSUME NEW linked \in BOOLEAN, NEW authority \in BOOLEAN,
             HandleStatus(linked, authority)
      PROVE  TypeInv'
  <2>1. [sdk_linked |-> linked, control_authority |-> authority,
         sport_status |-> shared.sport_status,
         error_code |-> shared.error_code] \in ControllerStatuses
    BY SMTT(30), <1>0 DEF SharedStates, ControllerStatuses
  <2>2. controller' \in ControllerStates /\ GateInv(controller')
    BY ZenonT(40), <1>0, <1>1, <2>1, UpdateKeeps DEF HandleStatus
  <2>3. shared' \in SharedStates /\ shared'.command_queue = shared.command_queue
    BY Zenon, <1>0, <1>1 DEF HandleStatus, SharedStates
  <2> QED
    BY Zenon, <1>1, <2>2, <2>3 DEF HandleStatus, TypeInv, TypeOK, ModesAreVendorModes
<1>2. CASE ClockTick
  BY <1>0, <1>2, GrowOlderKeeps, ControllerAlone
  DEF ClockTick, historyVars, TypeInv, TypeOK
<1>3. CASE Stop
  <2>1. shared' \in SharedStates /\ shared'.command_queue = shared.command_queue
    BY Zenon, <1>0, <1>3 DEF Stop, SharedStates
  <2> QED
    BY <1>3, <2>1 DEF Stop, historyVars, TypeInv, TypeOK, ModesAreVendorModes
<1> QED
  BY <1>1, <1>2, <1>3

\* worker_main.
LEMMA ConnectType == ASSUME TypeInv, ConnectStep PROVE TypeInv'
<1>0. /\ controller \in ControllerStates /\ GateInv(controller)
      /\ promise \in [Requests -> Answers] /\ shared \in SharedStates
      /\ worker \in WorkerStates /\ sdk \in [live : BOOLEAN, velocity : Velocities]
  BY DEF TypeInv, TypeOK, Answers
<1>w. worker \in WorkerStates
  BY <1>0
<1>1. ASSUME NEW ready \in BOOLEAN, Preflight(ready) PROVE TypeInv'
  <2>1. shared' \in SharedStates /\ shared'.command_queue = shared.command_queue
    BY Zenon, <1>0, <1>1 DEF Preflight, SharedStates
  <2>2. worker' \in WorkerStates /\ worker'.pc \in {"init", "exited", "invalidate"}
    BY <1>0, <1>1 DEF Preflight, Goto, WorkerStates, PCs
  <2>3. sdk' \in [live : BOOLEAN, velocity : Velocities] /\ reported' \in BOOLEAN
    BY Zenon, <1>0, <1>1 DEF Preflight, TypeInv, TypeOK
  <2> QED
    BY <1>1, <2>1, <2>2, <2>3 DEF Preflight, TypeInv, TypeOK, ModesAreVendorModes
<1>2. ASSUME NEW ok \in BOOLEAN, Subscribe(ok) PROVE TypeInv'
  <2>1. shared' \in SharedStates /\ shared'.command_queue = shared.command_queue
    BY Zenon, <1>0, <1>2 DEF Subscribe, SharedStates
  <2>2. 0 \in 0..HeartbeatThreshold /\ BackoffInitial \in Nat
    BY RuntimeAssumption DEF HeartbeatThreshold
  <2>3. worker' \in WorkerStates /\ worker'.pc \in {"wait", "deinit", "invalidate"}
    <3>1. \/ worker' = [worker EXCEPT !.pc = "wait", !.last_sent_nonzero = FALSE,
                          !.heartbeat_failures = 0, !.backoff = BackoffInitial]
          \/ worker' = [worker EXCEPT !.pc = "deinit"]
          \/ worker' = [worker EXCEPT !.pc = "invalidate"]
      BY <1>2 DEF Subscribe, Goto
    <3>2. CASE worker' = [worker EXCEPT !.pc = "wait", !.last_sent_nonzero = FALSE,
                            !.heartbeat_failures = 0, !.backoff = BackoffInitial]
      BY Zenon, <1>w, <2>2, <3>2 DEF WorkerStates, PCs
    <3>3. CASE worker' \in {[worker EXCEPT !.pc = p] : p \in {"deinit", "invalidate"}}
      BY <1>w, <3>3 DEF WorkerStates, PCs
    <3> QED
      BY <3>1, <3>2, <3>3
  <2>4. sdk' \in [live : BOOLEAN, velocity : Velocities]
    BY <1>0, <1>2, Zeros DEF Subscribe
  <2> QED
    BY <1>2, <2>1, <2>3, <2>4
    DEF Subscribe, TypeInv, TypeOK, ModesAreVendorModes, historyVars
<1>3. CASE SessionEnd
  <2>1. controller' \in ControllerStates /\ GateInv(controller')
    BY Zenon, <1>0, <1>3, CompleteKeeps DEF SessionEnd
  <2>2. promise' \in [Requests -> Answers]
    BY <1>0, <1>3 DEF SessionEnd, Answers
  <2>3. shared' \in SharedStates /\ shared'.command_queue = <<>>
    <3>1. <<>> \in Seq(Commands)
      OBVIOUS
    <3> QED
      BY Zenon, <1>0, <1>3, <3>1 DEF SessionEnd, SharedStates
  <2>4. worker' \in WorkerStates /\ worker'.pc = "invalidate"
    BY Zenon, <1>w, <1>3, Empties DEF SessionEnd, WorkerStates, PCs
  <2>5. Len(shared'.command_queue) <= QueueCapacity
    BY <2>3, RuntimeAssumption
  <2> QED
    BY Zenon, <1>3, <2>1, <2>2, <2>3, <2>4, <2>5
    DEF SessionEnd, TypeInv, TypeOK, ModesAreVendorModes, historyVars, Answers
<1>4. CASE InvalidateCaches
  <2>1. shared' \in SharedStates /\ shared'.command_queue = shared.command_queue
    BY Zenon, <1>0, <1>4 DEF InvalidateCaches, SharedStates, SportStatuses
  <2>2. worker' \in WorkerStates /\ worker'.pc = "invalidate_controller"
    BY Zenon, <1>0, <1>4 DEF InvalidateCaches, WorkerStates, PCs
  <2> QED
    BY <1>4, <2>1, <2>2
    DEF InvalidateCaches, TypeInv, TypeOK, ModesAreVendorModes, historyVars
<1>5. CASE InvalidateController
  <2>1. NoStatus \in ControllerStatuses
    BY DEF NoStatus, ControllerStatuses, SportStatuses
  <2>2. controller' \in ControllerStates /\ GateInv(controller')
    BY <1>0, <1>5, <2>1, UpdateKeeps, InvalidateKeeps DEF InvalidateController
  <2>3. worker' \in WorkerStates /\ worker'.pc = "deinit"
    BY <1>0, <1>5 DEF InvalidateController, Goto, WorkerStates, PCs
  <2> QED
    BY <1>5, <2>2, <2>3
    DEF InvalidateController, TypeInv, TypeOK, ModesAreVendorModes, historyVars
<1>6. CASE Deinit
  <2>1. worker' \in WorkerStates /\ worker'.pc \in {"exited", "backoff"}
    BY <1>0, <1>6 DEF Deinit, Goto, WorkerStates, PCs
  <2>2. sdk' \in [live : BOOLEAN, velocity : Velocities]
    BY Zenon, <1>0, <1>6 DEF Deinit
  <2> QED
    BY <1>6, <2>1, <2>2
    DEF Deinit, TypeInv, TypeOK, ModesAreVendorModes, historyVars
<1>7. CASE LoopHead \/ (\E ok \in BOOLEAN : SdkInit(ok)) \/ Backoff
  BY <1>7, MovesType, WorkerMembersType
<1> QED
  BY <1>1, <1>2, <1>3, <1>4, <1>5, <1>6, <1>7 DEF ConnectStep

\* A step that aborts, completes or confirms a transition, or answers a request.
LEMMA AnsweringType ==
  ASSUME TypeInv,
         worker' \in WorkerStates,
         worker'.pc \notin {"mode_zero", "mode_set"},
         promise' \in [Requests -> Answers],
         controller' \in ControllerStates, GateInv(controller'),
         shared' \in SharedStates, Len(shared'.command_queue) <= QueueCapacity,
         sdk' \in [live : BOOLEAN, velocity : Velocities], estop_served' \in BOOLEAN,
         UNCHANGED <<caller, wanted, reported>>
  PROVE  TypeInv'
  BY DEF TypeInv, TypeOK, ModesAreVendorModes, Answers

\* fail_mode_transition.
LEMMA AbortType ==
  ASSUME TypeInv, NEW from, NEW to \in PCs \ {"mode_zero", "mode_set"},
         AbortTransition(from, to)
  PROVE  TypeInv'
<1>0. /\ controller \in ControllerStates /\ promise \in [Requests -> Answers]
      /\ worker \in WorkerStates
  BY DEF TypeInv, TypeOK, Answers
<1>1. controller' \in ControllerStates /\ GateInv(controller')
  BY Zenon, <1>0, CompleteKeeps DEF AbortTransition
<1>2. promise' \in [Requests -> Answers]
  BY <1>0, SetPromiseType DEF AbortTransition, fail_mode_transition
<1>3. worker' \in WorkerStates /\ worker'.pc = to
  BY Zenon, <1>0, Empties DEF AbortTransition, WorkerStates
<1> QED
  BY Zenon, <1>1, <1>2, <1>3, AnsweringType
  DEF AbortTransition, historyVars, TypeInv, TypeOK

\* A mode command that fails.
LEMMA FailModeType ==
  ASSUME TypeInv, FailMode
  PROVE  /\ controller' \in ControllerStates /\ GateInv(controller')
         /\ promise' \in [Requests -> Answers]
         /\ worker' \in WorkerStates /\ worker'.pc = "flag"
<1>0. /\ controller \in ControllerStates /\ promise \in [Requests -> Answers]
      /\ worker \in WorkerStates
  BY DEF TypeInv, TypeOK, Answers
<1>1. controller' \in ControllerStates /\ GateInv(controller')
  BY Zenon, <1>0, CompleteKeeps DEF FailMode
<1>2. promise' \in [Requests -> Answers]
  BY <1>0, SetPromiseType DEF FailMode
<1>3. worker' \in WorkerStates /\ worker'.pc = "flag"
  BY Zenon, <1>0, Empties DEF FailMode, WorkerStates, PCs
<1> QED
  BY <1>1, <1>2, <1>3

\* Emergency stops and commands.
LEMMA CommandType == ASSUME TypeInv, CommandStep PROVE TypeInv'
<1>0. /\ controller \in ControllerStates /\ GateInv(controller)
      /\ promise \in [Requests -> Answers] /\ shared \in SharedStates
      /\ worker \in WorkerStates /\ sdk \in [live : BOOLEAN, velocity : Velocities]
      /\ Len(shared.command_queue) <= QueueCapacity
      /\ reported \in BOOLEAN /\ estop_served \in BOOLEAN
  BY DEF TypeInv, TypeOK, Answers
<1>w. worker \in WorkerStates
  BY <1>0
<1>1. CASE TakeEstop
  <2>1. controller' \in ControllerStates /\ GateInv(controller')
    BY Zenon, <1>0, <1>1, CompleteKeeps DEF TakeEstop
  <2>2. promise' \in [Requests -> Answers]
    <3>1. promise' = promise \/ promise' = fail_mode_transition(promise)
      BY Zenon, <1>1 DEF TakeEstop
    <3> QED
      BY <1>0, <3>1, SetPromiseType DEF fail_mode_transition
  <2>3. shared' \in SharedStates /\ shared'.command_queue = shared.command_queue
    BY Zenon, <1>0, <1>1 DEF TakeEstop, SharedStates
  <2>4. [NoCommand EXCEPT !.req = shared.estop_promise] \in CurrentCommands
    BY <1>0, RequestSets DEF NoCommand, SharedStates, CurrentCommands
  <2>5. worker' \in WorkerStates /\ worker'.pc \in {"settle", "estop_drain"}
    <3>1. \/ worker' = [worker EXCEPT !.pc = "settle"]
          \/ worker' = [worker EXCEPT !.pc = "estop_drain",
                          !.cur = [NoCommand EXCEPT !.req = shared.estop_promise],
                          !.mode_transition = NoTransition]
      BY Zenon, <1>1 DEF TakeEstop, Goto
    <3>2. CASE worker' = [worker EXCEPT !.pc = "settle"]
      BY <1>w, <3>2 DEF WorkerStates, PCs
    <3>3. ASSUME NEW command \in CurrentCommands,
                 worker' = [worker EXCEPT !.pc = "estop_drain", !.cur = command,
                                          !.mode_transition = NoTransition]
          PROVE  worker' \in WorkerStates /\ worker'.pc = "estop_drain"
      BY Zenon, <1>w, <3>3, Empties DEF WorkerStates, PCs
    <3> QED
      BY Zenon, <2>4, <3>1, <3>2, <3>3
  <2> QED
    BY <1>0, <1>1, <2>1, <2>2, <2>3, <2>5, AnsweringType DEF TakeEstop, historyVars
<1>2. CASE DrainForEstop
  <2>1. controller' \in ControllerStates /\ GateInv(controller')
    BY Zenon, <1>0, <1>2, CompleteKeeps DEF DrainForEstop
  <2>2. promise' \in [Requests -> Answers]
    BY Zenon, <1>0, <1>2, SetPromiseType DEF DrainForEstop
  <2>3. shared' \in SharedStates /\ Len(shared'.command_queue) <= QueueCapacity
    BY Zenon, <1>0, <1>2, PopType DEF DrainForEstop
  <2>4. worker' \in WorkerStates /\ worker'.pc \in {"estop_drain", "estop_gate"}
    <3>1. \/ worker' = [worker EXCEPT !.pc = "estop_gate"]
          \/ worker' = worker /\ worker.pc = "estop_drain"
      BY Zenon, <1>2 DEF DrainForEstop, At, Goto
    <3> QED
      BY <1>w, <3>1 DEF WorkerStates, PCs
  <2> QED
    BY <1>0, <1>2, <2>1, <2>2, <2>3, <2>4, AnsweringType DEF DrainForEstop,
       historyVars
<1>3. CASE EstopGate
  <2>1. promise' \in [Requests -> Answers]
    BY <1>0, <1>3, SetPromiseType DEF EstopGate
  <2>2. worker' \in WorkerStates /\ worker'.pc \in {"send_zero", "settle"}
    <3>1. \/ worker' = [worker EXCEPT !.pc = "send_zero"]
          \/ worker' = [worker EXCEPT !.pc = "settle", !.cur = NoCommand]
      BY <1>3 DEF EstopGate, Goto
    <3> QED
      BY ZenonT(40), <1>w, <3>1, Empties DEF WorkerStates, PCs
  <2> QED
    BY <1>0, <1>3, <2>1, <2>2, AnsweringType DEF EstopGate, historyVars
<1>4. ASSUME NEW ok \in BOOLEAN, SendZero(ok) PROVE TypeInv'
  <2>1. sdk' \in [live : BOOLEAN, velocity : Velocities]
    BY <1>4, Zeros, MovedType DEF SendZero, TypeInv
  <2>2. worker' \in WorkerStates /\ worker'.pc = "send_damping"
    BY ZenonT(40), <1>w, <1>4 DEF SendZero, WorkerStates, PCs
  <2> QED
    BY <1>0, <1>4, <2>1, <2>2, AnsweringType DEF SendZero, historyVars
<1>5. ASSUME NEW ok \in BOOLEAN, SendDamping(ok) PROVE TypeInv'
  <2>1. promise' \in [Requests -> Answers]
    BY <1>0, <1>5, SetPromiseType DEF SendDamping
  <2>2. worker' \in WorkerStates /\ worker'.pc \in {"settle", "session_end"}
    BY ZenonT(40), <1>w, <1>5, Empties DEF SendDamping, WorkerStates, PCs
  <2>3. estop_served' \in BOOLEAN
    BY <1>5 DEF SendDamping
  <2> QED
    BY <1>0, <1>5, <2>1, <2>2, <2>3, AnsweringType DEF SendDamping
<1>6. CASE SettleAbort
  BY <1>6, AbortType DEF SettleAbort, PCs
<1>7. CASE Pop
  <2>1. CASE shared.command_queue = <<>>
    <3>1. worker' \in WorkerStates /\ worker'.pc = "flag"
      BY <1>0, <1>7, <2>1 DEF Pop, Goto, WorkerStates, PCs
    <3> QED
      BY <1>0, <1>7, <2>1, <3>1, WorkerAlone DEF Pop
  <2>2. CASE shared.command_queue # <<>>
    <3> DEFINE command == Head(shared.command_queue)
    <3>1. /\ shared' \in SharedStates /\ Len(shared'.command_queue) <= QueueCapacity
          /\ command \in Commands
      BY <1>7, <2>2, PopType DEF Pop
    <3>2. command \in CurrentCommands
      BY <3>1, RequestSets DEF Commands, CurrentCommands
    <3>3. promise' \in [Requests -> Answers]
      BY <1>0, <1>7, <2>2, SetPromiseType DEF Pop, fail_mode_transition
    <3>4. PICK p \in {"authority", "mode_zero", "mode_set"},
               t \in {NoTransition, worker.mode_transition} :
            /\ worker' = [worker EXCEPT !.cur = command, !.mode_transition = t, !.pc = p]
            /\ p # "authority" => command.req \in ModeRequests
      BY Zenon, <1>7, <2>2 DEF Pop
    <3>5. worker' \in WorkerStates
      BY Zenon, <1>w, <3>2, <3>4, Empties DEF WorkerStates, PCs
    <3>6. worker'.pc = p /\ worker'.cur = command
      BY <1>w, <3>4 DEF WorkerStates
    <3> QED
      BY <1>7, <3>1, <3>3, <3>4, <3>5, <3>6
      DEF Pop, TypeInv, TypeOK, ModesAreVendorModes, historyVars, Answers
  <2> QED
    BY <2>1, <2>2
<1>8. ASSUME NEW outcome \in {"ok", "fail", "throw"}, ExecuteAuthority(outcome)
      PROVE  TypeInv'
  <2>1. controller' \in ControllerStates /\ GateInv(controller')
    BY Zenon, <1>0, <1>8, CompleteKeeps DEF ExecuteAuthority
  <2>2. promise' \in [Requests -> Answers]
    BY <1>0, <1>8, SetPromiseType DEF ExecuteAuthority, fail_mode_transition
  <2>3. worker' \in WorkerStates /\ worker'.pc = "flag"
    BY Zenon, <1>w, <1>8, Empties DEF ExecuteAuthority, WorkerStates, PCs
  <2> QED
    BY Zenon, <1>0, <1>8, <2>1, <2>2, <2>3, AnsweringType DEF ExecuteAuthority, historyVars
<1>9. ASSUME NEW ok \in BOOLEAN, ZeroBeforeMode(ok) PROVE TypeInv'
  <2>1. sdk' \in [live : BOOLEAN, velocity : Velocities]
    BY <1>9, Zeros, MovedType DEF ZeroBeforeMode, TypeInv
  <2>2. CASE ok
    <3>1. worker' \in WorkerStates /\ worker'.cur = worker.cur
      <4>1. worker' = [worker EXCEPT !.pc = "mode_set", !.last_sent_nonzero = FALSE]
        BY <1>9, <2>2 DEF ZeroBeforeMode
      <4> QED
        BY Zenon, <1>w, <4>1 DEF WorkerStates, PCs
    <3> QED
      BY <1>9, <2>1, <2>2, <3>1
      DEF ZeroBeforeMode, At, TypeInv, TypeOK, ModesAreVendorModes, historyVars
  <2>3. CASE ~ok
    <3>1. FailMode
      BY <1>9, <2>3 DEF ZeroBeforeMode
    <3> QED
      BY <1>0, <1>9, <2>1, <3>1, FailModeType, AnsweringType
      DEF ZeroBeforeMode, historyVars
  <2> QED
    BY <2>2, <2>3
<1>10. ASSUME NEW ok \in BOOLEAN, SetMode(ok) PROVE TypeInv'
  <2>1. CASE FailMode
    BY <1>0, <1>10, <2>1, FailModeType, AnsweringType DEF SetMode, historyVars
  <2>2. CASE ~FailMode
    <3>1. worker.cur.req \in ModeRequests
      BY <1>10 DEF SetMode, At, TypeInv, ModesAreVendorModes
    <3>2. stable_status_for(worker.cur.mode) \in SportStatuses
      BY DEF stable_status_for, SportStatuses
    <3>3. Armed(worker.cur.mode) \in Transitions
      BY <3>1, <3>2 DEF Armed, Transitions
    <3>4. worker' \in WorkerStates /\ worker'.pc = "flag"
      <4>1. worker' = [worker EXCEPT !.pc = "flag", !.cur = NoCommand,
                         !.mode_transition = Armed(worker.cur.mode)]
        BY <1>10, <2>2 DEF SetMode
      <4> QED
        BY Zenon, <1>w, <3>3, <4>1, Empties DEF WorkerStates, PCs
    <3> QED
      BY <1>10, <2>2, <3>4, WorkerAlone DEF SetMode
  <2> QED
    BY <2>1, <2>2
<1>11. CASE Wait \/ Actuate \/ Settle
  BY <1>11, MovesType
<1> QED
  BY <1>1, <1>2, <1>3, <1>4, <1>5, <1>6, <1>7, <1>8, <1>9, <1>10,
     <1>11 DEF CommandStep

\* Heartbeat, motion tick, deadline and poll.
LEMMA PeriodicType == ASSUME TypeInv, PeriodicStep PROVE TypeInv'
<1>0. /\ controller \in ControllerStates /\ GateInv(controller)
      /\ promise \in [Requests -> Answers] /\ shared \in SharedStates
      /\ worker \in WorkerStates /\ sdk \in [live : BOOLEAN, velocity : Velocities]
      /\ Len(shared.command_queue) <= QueueCapacity
      /\ reported \in BOOLEAN /\ estop_served \in BOOLEAN
  BY DEF TypeInv, TypeOK, Answers
<1>w. worker \in WorkerStates
  BY <1>0
<1>1. CASE TakeRefresh
  <2>1. shared' \in SharedStates /\ shared'.command_queue = shared.command_queue
    BY Zenon, <1>0, <1>1 DEF TakeRefresh, SharedStates
  <2>2. worker' \in WorkerStates /\ worker'.pc = "heartbeat"
    BY Zenon, <1>0, <1>1 DEF TakeRefresh, WorkerStates, SharedStates, PCs
  <2> QED
    BY <1>0, <1>1, <2>1, <2>2, AnsweringType DEF TakeRefresh, historyVars
<1>2. ASSUME NEW ok \in BOOLEAN, SendTick(ok) PROVE TypeInv'
  <2>1. worker.target \in Velocities
    BY <1>0 DEF WorkerStates
  <2>2. sdk' \in [live : BOOLEAN, velocity : Velocities]
    BY <1>2, <2>1, MovedType DEF SendTick, TypeInv
  <2>3. SentState(ok) \in BOOLEAN
    BY Zenon, <1>0 DEF SentState, WorkerStates
  <2>4. worker' \in WorkerStates /\ worker'.pc = "deadline"
    BY Zenon, <1>0, <1>2, <2>3, Zeros DEF SendTick, WorkerStates, PCs
  <2> QED
    BY <1>0, <1>2, <2>2, <2>4, AnsweringType DEF SendTick, historyVars
<1>3. CASE Expire \/ PollAbort
  BY <1>3, AbortType DEF Expire, PollAbort, PCs
<1>4. CASE ApplySnapshot
  <2>1. /\ worker.snapshot.sport_status \in SportStatuses
        /\ worker.snapshot.error_code \in {0, 1}
    <3>1. worker.snapshot \in Snapshots \cup {NoSnapshot}
      BY <1>w DEF WorkerStates
    <3>2. PolledStatuses \subseteq SportStatuses /\ PolledErrors \subseteq {0, 1}
      BY RuntimeAssumption
    <3>3. CASE worker.snapshot \in Snapshots
      BY Zenon, <3>2, <3>3 DEF Snapshots
    <3>4. CASE worker.snapshot = NoSnapshot
      BY <3>4 DEF NoSnapshot, SportStatuses
    <3> QED
      BY <3>1, <3>3, <3>4
  <2>2. shared' \in SharedStates /\ shared'.command_queue = shared.command_queue
    BY Zenon, <1>0, <1>4, <2>1 DEF ApplySnapshot, SharedStates
  <2>3. PolledStatus(worker.snapshot) \in ControllerStatuses
    BY <1>0, <2>1 DEF PolledStatus, ControllerStatuses, SharedStates
  <2>4. controller' \in ControllerStates /\ GateInv(controller')
    BY <1>0, <1>4, <2>3, UpdateKeeps DEF ApplySnapshot
  <2>5. worker' \in WorkerStates /\ worker'.pc = "poll_settle"
    BY <1>0, <1>4 DEF ApplySnapshot, Goto, WorkerStates, PCs
  <2> QED
    BY <1>0, <1>4, <2>2, <2>4, <2>5, AnsweringType DEF ApplySnapshot, historyVars
<1>5. CASE PollCheck
  <2>1. controller' \in ControllerStates /\ GateInv(controller')
    BY Zenon, <1>0, <1>5, ReadyKeeps DEF PollCheck
  <2>2. promise' \in [Requests -> Answers]
    BY <1>0, <1>5, SetPromiseType DEF PollCheck, fail_mode_transition
  <2>3. worker' \in WorkerStates /\ worker'.pc \in {"poll_complete", "wait"}
    <3>1. PICK armed \in BOOLEAN, t \in {NoTransition, worker.mode_transition},
               p \in {"poll_complete", "wait"} :
            worker' = [worker EXCEPT !.driver_ready_armed = armed,
                         !.snapshot = NoSnapshot, !.mode_transition = t, !.pc = p]
      BY Zenon, <1>5 DEF PollCheck
    <3> QED
      BY Zenon, <1>w, <3>1, Empties DEF WorkerStates, PCs
  <2> QED
    BY Zenon, <1>0, <1>5, <2>1, <2>2, <2>3, AnsweringType DEF PollCheck, historyVars
<1>6. CASE PollComplete
  <2>1. controller' \in ControllerStates /\ GateInv(controller')
    BY Zenon, <1>0, <1>6, CompleteKeeps DEF PollComplete
  <2>2. promise' \in [Requests -> Answers]
    BY <1>0, <1>6, SetPromiseType DEF PollComplete
  <2>3. worker' \in WorkerStates /\ worker'.pc = "wait"
    BY Zenon, <1>w, <1>6, Empties DEF PollComplete, WorkerStates, PCs
  <2> QED
    BY <1>0, <1>6, <2>1, <2>2, <2>3, AnsweringType DEF PollComplete, historyVars
<1>7. CASE \/ SkipMotion \/ NotExpired \/ SkipPoll \/ PollSettle \/ MotionTick
           \/ \E outcome \in {"skip", "ok", "fail"} : Heartbeat(outcome)
           \/ \E s \in Snapshots : TakeSnapshot(s)
  BY <1>7, MovesType, WorkerMembersType
<1> QED
  BY <1>1, <1>2, <1>3, <1>4, <1>5, <1>6, <1>7 DEF PeriodicStep

\* Every state of the runtime has the declared types.
LEMMA InitType == Init => TypeInv
<1> SUFFICES ASSUME Init PROVE TypeInv
  OBVIOUS
<1>1. controller \in ControllerStates /\ GateInv(controller)
  BY InitialKeeps DEF Init
<1>2. shared \in SharedStates /\ shared.command_queue = <<>>
  BY DEF Init, SharedStates, SportStatuses
<1>3. 0 \in 0..HeartbeatThreshold
  BY RuntimeAssumption DEF HeartbeatThreshold
<1>4. worker \in WorkerStates /\ worker.pc = "not_started"
  BY <1>3, Zeros, Empties, RuntimeAssumption DEF Init, WorkerStates, PCs
<1>5. sdk \in [live : BOOLEAN, velocity : Velocities]
  BY Zeros DEF Init
<1>6. Len(shared.command_queue) <= QueueCapacity
  BY <1>2, RuntimeAssumption
<1> QED
  BY Zenon, <1>1, <1>2, <1>4, <1>5, <1>6, RequestSets
  DEF Init, TypeInv, TypeOK, ModesAreVendorModes

\* Every step keeps the types, the gate's invariant and the modes.
LEMMA StepType == TypeInv /\ [Next]_vars => TypeInv'
<1>1. ASSUME TypeInv, UNCHANGED vars PROVE TypeInv'
  BY <1>1 DEF vars, TypeInv, TypeOK, ModesAreVendorModes
<1> QED
  BY <1>1, CallersType, OutsideType, ConnectType, CommandType, PeriodicType, MovesType
  DEF Next, WorkerStep

\* Every variable keeps its type and the command queue its capacity, for any sets
\* of callers, any queue capacity and any periods (ThreadSafeQueue with RejectNew,
\* and every assignment of direct_driver_runtime.cpp to its members).
THEOREM TypeCorrect == Spec => []TypeOK
<1>1. TypeInv => TypeOK
  BY DEF TypeInv
<1> QED
  BY <1>1, InitType, StepType, PTL DEF Spec

-----------------------------------------------------------------------------
(* Sessions *)

\* The places of worker_main outside run_connected_loop.
OfflinePCs == {"not_started", "head", "preflight", "init", "subscribe",
               "invalidate", "invalidate_controller", "deinit", "backoff",
               "exited"}

\* A session is served exactly while the worker is in run_connected_loop, and
\* callbacks may come from the init call on.
Located ==
  /\ shared.connected <=> worker.pc \notin OfflinePCs
  /\ worker.pc \in {"init", "subscribe"} \/ shared.connected => sdk.live

\* The inductive invariant about sessions.
SessionInv ==
  /\ Located
  /\ NothingQueuedOffline
  /\ GateNeverAhead
  /\ ReadyOnlyInSession

\* What the gate may have been told in a step: nothing, or what the runtime's
\* caches hold.
ToldTheCache ==
  \/ controller'.status = controller.status
  \/ /\ controller'.status.sdk_linked = shared'.sdk_linked
     /\ controller'.status.control_authority = shared'.control_authority

\* What a step of run_connected_loop may do to what SessionInv speaks of.
SessionEffect ==
  /\ worker.pc \notin OfflinePCs /\ worker'.pc \notin OfflinePCs
  /\ worker'.backoff = worker.backoff
  /\ worker.driver_ready_armed => worker'.driver_ready_armed
  /\ shared'.connected = shared.connected
  /\ shared'.sdk_linked = shared.sdk_linked
  /\ shared'.control_authority = shared.control_authority
  /\ sdk'.live = sdk.live
  /\ ToldTheCache
  /\ controller'.driver_ready =>
       controller.driver_ready \/ worker'.driver_ready_armed

\* The worker's step concerns neither the backoff nor the readiness.
KeepsArming ==
  /\ worker'.backoff = worker.backoff
  /\ worker'.driver_ready_armed = worker.driver_ready_armed

\* A step of the loop that changes no flag of the caches and tells the controller
\* nothing new.
LEMMA QuietEffect ==
  ASSUME TypeInv, worker.pc \notin OfflinePCs, worker'.pc \notin OfflinePCs,
         worker'.backoff = worker.backoff,
         worker'.driver_ready_armed = worker.driver_ready_armed,
         \/ shared' = shared
         \/ \E q : shared' = [shared EXCEPT !.command_queue = q]
         \/ shared' = [shared EXCEPT !.estop_promise = NoRequest]
         \/ shared' = [shared EXCEPT !.motion_refresh_due = FALSE],
         sdk'.live = sdk.live,
         controller' = controller \/ \E b : controller' = complete_mode_transition(controller, b)
  PROVE  SessionEffect
<1>1. /\ controller \in ControllerStates /\ shared \in SharedStates
  BY DEF TypeInv, TypeOK
<1>2. SameReport(controller, controller')
  <2>1. CASE controller' = controller
    BY <2>1 DEF SameReport
  <2>2. ASSUME NEW b, controller' = complete_mode_transition(controller, b)
        PROVE  SameReport(controller, controller')
    BY Zenon, <1>1, <2>2, OnlyUpdateReports
  <2> QED
    BY <2>1, <2>2
<1>3. /\ shared'.connected = shared.connected
      /\ shared'.sdk_linked = shared.sdk_linked
      /\ shared'.control_authority = shared.control_authority
  BY <1>1 DEF SharedStates
<1> QED
  BY <1>2, <1>3 DEF SessionEffect, ToldTheCache, SameReport

\* Emergency stops and commands.
LEMMA CommandEffect == ASSUME TypeInv, CommandStep PROVE SessionEffect
<1>0. worker \in WorkerStates
  BY DEF TypeInv, TypeOK
<1>1. CASE Wait
  <2>1. worker.pc = "wait" /\ worker'.pc \in {"actuate", "session_end", "estop"} /\ KeepsArming
    BY <1>0, <1>1 DEF Wait, At, Goto, KeepsArming, WorkerStates
  <2> QED
    BY <1>1, <2>1, QuietEffect DEF Wait, KeepsArming, OfflinePCs
<1>2. CASE Actuate
  <2>1. worker.pc = "actuate" /\ worker'.pc \in {"send_zero", "session_end"} /\ KeepsArming
    BY <1>0, <1>2 DEF Actuate, At, Goto, KeepsArming, WorkerStates
  <2> QED
    BY <1>2, <2>1, QuietEffect DEF Actuate, KeepsArming, OfflinePCs
<1>3. CASE TakeEstop
  <2>1. worker.pc = "estop" /\ worker'.pc \in {"settle", "estop_drain"} /\ KeepsArming
    BY Zenon, <1>0, <1>3 DEF TakeEstop, At, Goto, KeepsArming, WorkerStates
  <2> QED
    BY Zenon, <1>3, <2>1, QuietEffect DEF TakeEstop, KeepsArming, OfflinePCs
<1>4. CASE DrainForEstop
  <2>1. worker.pc = "estop_drain" /\ worker'.pc \in {"estop_drain", "estop_gate"} /\ KeepsArming
    BY Zenon, <1>0, <1>4 DEF DrainForEstop, At, Goto, KeepsArming, WorkerStates
  <2> QED
    BY Zenon, <1>4, <2>1, QuietEffect DEF DrainForEstop, KeepsArming, OfflinePCs
<1>5. CASE EstopGate
  <2>1. worker.pc = "estop_gate" /\ worker'.pc \in {"send_zero", "settle"} /\ KeepsArming
    BY Zenon, <1>0, <1>5 DEF EstopGate, At, Goto, KeepsArming, WorkerStates
  <2> QED
    BY <1>5, <2>1, QuietEffect DEF EstopGate, KeepsArming, OfflinePCs
<1>6. ASSUME NEW ok \in BOOLEAN, SendZero(ok) PROVE SessionEffect
  <2>1. worker.pc = "send_zero" /\ worker'.pc \in {"send_damping"} /\ KeepsArming
    BY <1>0, <1>6 DEF SendZero, At, Goto, KeepsArming, WorkerStates
  <2>2. sdk'.live = sdk.live
    BY <1>0, <1>6, Zeros, MovedType DEF SendZero, TypeInv, WorkerStates
  <2> QED
    BY <1>6, <2>1, <2>2, QuietEffect DEF SendZero, KeepsArming, OfflinePCs
<1>7. ASSUME NEW ok \in BOOLEAN, SendDamping(ok) PROVE SessionEffect
  <2>1. worker.pc = "send_damping" /\ worker'.pc \in {"settle", "session_end"} /\ KeepsArming
    BY <1>0, <1>7 DEF SendDamping, At, Goto, KeepsArming, WorkerStates
  <2> QED
    BY <1>7, <2>1, QuietEffect DEF SendDamping, KeepsArming, OfflinePCs
<1>8. CASE Settle
  <2>1. worker.pc = "settle" /\ worker'.pc \in {"settle_abort", "pop"} /\ KeepsArming
    BY <1>0, <1>8 DEF Settle, At, Goto, KeepsArming, WorkerStates
  <2> QED
    BY <1>8, <2>1, QuietEffect DEF Settle, KeepsArming, OfflinePCs
<1>9. CASE SettleAbort
  <2>1. worker.pc = "settle_abort" /\ worker'.pc \in {"pop"} /\ KeepsArming
    BY <1>0, <1>9 DEF SettleAbort, AbortTransition, At, Goto, KeepsArming,
       WorkerStates
  <2> QED
    BY Zenon, <1>9, <2>1, QuietEffect DEF SettleAbort, AbortTransition, KeepsArming,
       OfflinePCs
<1>10. CASE Pop
  <2>1. worker.pc = "pop" /\ worker'.pc \in {"flag", "authority", "mode_zero", "mode_set"} /\ KeepsArming
    BY Zenon, <1>0, <1>10 DEF Pop, At, Goto, KeepsArming, WorkerStates
  <2> QED
    BY <1>10, <2>1, QuietEffect DEF Pop, KeepsArming, OfflinePCs
<1>11. ASSUME NEW outcome \in {"ok", "fail", "throw"}, ExecuteAuthority(outcome) PROVE SessionEffect
  <2>1. worker.pc = "authority" /\ worker'.pc \in {"flag"} /\ KeepsArming
    BY <1>0, <1>11 DEF ExecuteAuthority, At, Goto, KeepsArming, WorkerStates
  <2> QED
    BY Zenon, <1>11, <2>1, QuietEffect DEF ExecuteAuthority, KeepsArming, OfflinePCs
<1>12. ASSUME NEW ok \in BOOLEAN, ZeroBeforeMode(ok) PROVE SessionEffect
  <2>1. worker.pc = "mode_zero" /\ worker'.pc \in {"flag", "mode_set"} /\ KeepsArming
    BY Zenon, <1>0, <1>12 DEF ZeroBeforeMode, FailMode, At, Goto, KeepsArming, WorkerStates
  <2>2. sdk'.live = sdk.live
    BY <1>0, <1>12, Zeros, MovedType DEF ZeroBeforeMode, FailMode, TypeInv,
       WorkerStates
  <2> QED
    BY Zenon, <1>12, <2>1, <2>2, QuietEffect DEF ZeroBeforeMode, FailMode, KeepsArming,
       OfflinePCs
<1>13. ASSUME NEW ok \in BOOLEAN, SetMode(ok) PROVE SessionEffect
  <2>1. worker.pc = "mode_set" /\ worker'.pc \in {"flag"} /\ KeepsArming
    BY Zenon, <1>0, <1>13 DEF SetMode, FailMode, At, Goto, KeepsArming, WorkerStates
  <2> QED
    BY Zenon, <1>13, <2>1, QuietEffect DEF SetMode, FailMode, KeepsArming, OfflinePCs
<1> QED
  BY <1>1, <1>2, <1>3, <1>4, <1>5, <1>6, <1>7, <1>8, <1>9, <1>10, <1>11, <1>12,
     <1>13 DEF CommandStep

\* Heartbeat, motion tick, deadline and poll.
LEMMA PeriodicEffect == ASSUME TypeInv, PeriodicStep PROVE SessionEffect
<1>0. worker \in WorkerStates
  BY DEF TypeInv, TypeOK
<1>1. CASE TakeRefresh
  <2>1. worker.pc = "flag" /\ worker'.pc \in {"heartbeat"} /\ KeepsArming
    BY <1>0, <1>1 DEF TakeRefresh, At, Goto, KeepsArming, WorkerStates
  <2> QED
    BY <1>1, <2>1, QuietEffect DEF TakeRefresh, KeepsArming, OfflinePCs
<1>2. ASSUME NEW outcome \in {"skip", "ok", "fail"}, Heartbeat(outcome) PROVE SessionEffect
  <2>1. worker.pc = "heartbeat" /\ worker'.pc \in {"tick", "session_end"} /\ KeepsArming
    BY <1>0, <1>2 DEF Heartbeat, At, Goto, KeepsArming, WorkerStates
  <2> QED
    BY <1>2, <2>1, QuietEffect DEF Heartbeat, KeepsArming, OfflinePCs
<1>3. CASE SkipMotion
  <2>1. worker.pc = "tick" /\ worker'.pc \in {"deadline"} /\ KeepsArming
    BY <1>0, <1>3 DEF SkipMotion, At, Goto, KeepsArming, WorkerStates
  <2> QED
    BY <1>3, <2>1, QuietEffect DEF SkipMotion, KeepsArming, OfflinePCs
<1>4. CASE MotionTick
  <2>1. worker.pc = "tick" /\ worker'.pc \in {"tick_send", "deadline"} /\ KeepsArming
    BY <1>0, <1>4 DEF MotionTick, At, Goto, KeepsArming, WorkerStates
  <2> QED
    BY <1>4, <2>1, QuietEffect DEF MotionTick, KeepsArming, OfflinePCs
<1>5. ASSUME NEW ok \in BOOLEAN, SendTick(ok) PROVE SessionEffect
  <2>1. worker.pc = "tick_send" /\ worker'.pc \in {"deadline"} /\ KeepsArming
    BY <1>0, <1>5 DEF SendTick, At, Goto, KeepsArming, WorkerStates
  <2>2. sdk'.live = sdk.live
    BY <1>0, <1>5, Zeros, MovedType DEF SendTick, TypeInv, WorkerStates
  <2> QED
    BY <1>5, <2>1, <2>2, QuietEffect DEF SendTick, KeepsArming, OfflinePCs
<1>6. CASE Expire
  <2>1. worker.pc = "deadline" /\ worker'.pc \in {"poll"} /\ KeepsArming
    BY <1>0, <1>6 DEF Expire, AbortTransition, At, Goto, KeepsArming, WorkerStates
  <2> QED
    BY Zenon, <1>6, <2>1, QuietEffect DEF Expire, AbortTransition, KeepsArming, OfflinePCs
<1>7. CASE NotExpired
  <2>1. worker.pc = "deadline" /\ worker'.pc \in {"poll"} /\ KeepsArming
    BY <1>0, <1>7 DEF NotExpired, At, Goto, KeepsArming, WorkerStates
  <2> QED
    BY <1>7, <2>1, QuietEffect DEF NotExpired, KeepsArming, OfflinePCs
<1>8. CASE SkipPoll
  <2>1. worker.pc = "poll" /\ worker'.pc \in {"wait"} /\ KeepsArming
    BY <1>0, <1>8 DEF SkipPoll, At, Goto, KeepsArming, WorkerStates
  <2> QED
    BY <1>8, <2>1, QuietEffect DEF SkipPoll, KeepsArming, OfflinePCs
<1>9. ASSUME NEW s \in Snapshots, TakeSnapshot(s) PROVE SessionEffect
  <2>1. worker.pc = "poll" /\ worker'.pc \in {"poll_apply"} /\ KeepsArming
    BY <1>0, <1>9 DEF TakeSnapshot, At, Goto, KeepsArming, WorkerStates
  <2> QED
    BY <1>9, <2>1, QuietEffect DEF TakeSnapshot, KeepsArming, OfflinePCs
<1>10. CASE PollSettle
  <2>1. worker.pc = "poll_settle" /\ worker'.pc \in {"poll_abort", "poll_check"} /\ KeepsArming
    BY <1>0, <1>10 DEF PollSettle, At, Goto, KeepsArming, WorkerStates
  <2> QED
    BY <1>10, <2>1, QuietEffect DEF PollSettle, KeepsArming, OfflinePCs
<1>11. CASE PollAbort
  <2>1. worker.pc = "poll_abort" /\ worker'.pc \in {"poll_check"} /\ KeepsArming
    BY <1>0, <1>11 DEF PollAbort, AbortTransition, At, Goto, KeepsArming, WorkerStates
  <2> QED
    BY Zenon, <1>11, <2>1, QuietEffect DEF PollAbort, AbortTransition, KeepsArming,
       OfflinePCs
<1>12. CASE PollComplete
  <2>1. worker.pc = "poll_complete" /\ worker'.pc \in {"wait"} /\ KeepsArming
    BY <1>0, <1>12 DEF PollComplete, At, Goto, KeepsArming, WorkerStates
  <2> QED
    BY Zenon, <1>12, <2>1, QuietEffect DEF PollComplete, KeepsArming, OfflinePCs
<1>13. CASE ApplySnapshot
  <2>1. worker.pc = "poll_apply" /\ worker'.pc = "poll_settle" /\ KeepsArming
    BY <1>0, <1>13 DEF ApplySnapshot, At, Goto, KeepsArming, WorkerStates
  <2>2. controller \in ControllerStates /\ shared \in SharedStates
    BY DEF TypeInv, TypeOK
  <2>3. /\ shared'.connected = shared.connected
        /\ shared'.sdk_linked = shared.sdk_linked
        /\ shared'.control_authority = shared.control_authority
    BY <1>13, <2>2 DEF ApplySnapshot, SharedStates
  <2>4. /\ controller'.status = PolledStatus(worker.snapshot)
        /\ controller'.driver_ready = controller.driver_ready
    BY <1>13, <2>2, UpdateReports DEF ApplySnapshot
  <2> QED
    BY <1>13, <2>1, <2>3, <2>4
    DEF ApplySnapshot, PolledStatus, KeepsArming, SessionEffect, ToldTheCache,
       OfflinePCs
<1>14. CASE PollCheck
  <2>1. /\ worker.pc = "poll_check" /\ worker'.pc \in {"poll_complete", "wait"}
        /\ worker'.backoff = worker.backoff
        /\ worker'.driver_ready_armed = (worker.driver_ready_armed \/
              (worker.snapshot.sdk_linked /\ ~worker.driver_ready_armed))
    BY <1>0, <1>14 DEF PollCheck, At, WorkerStates
  <2>2. controller \in ControllerStates
    BY DEF TypeInv, TypeOK
  <2>3. /\ controller'.status = controller.status
        /\ controller'.driver_ready =>
             controller.driver_ready \/ worker'.driver_ready_armed
    <3>1. CASE worker.snapshot.sdk_linked /\ ~worker.driver_ready_armed
      BY Zenon, <1>14, <2>1, <2>2, <3>1, OnlyUpdateReports DEF PollCheck
    <3>2. CASE ~(worker.snapshot.sdk_linked /\ ~worker.driver_ready_armed)
      BY Zenon, <1>14, <3>2 DEF PollCheck
    <3> QED
      BY <3>1, <3>2
  <2> QED
    BY Zenon, <1>14, <2>1, <2>3 DEF PollCheck, SessionEffect, ToldTheCache, OfflinePCs
<1> QED
  BY <1>1, <1>2, <1>3, <1>4, <1>5, <1>6, <1>7, <1>8, <1>9, <1>10, <1>11, <1>12,
     <1>13, <1>14 DEF PeriodicStep

\* A session step keeps what SessionInv says of caches, gate and readiness.
LEMMA EffectKeeps ==
  ASSUME SessionInv, SessionEffect
  PROVE  SessionInv'
<1>1. Located'
  BY DEF SessionInv, SessionEffect, Located, OfflinePCs
<1>2. shared.connected /\ shared'.connected
  BY DEF SessionInv, SessionEffect, Located
<1>3. NothingQueuedOffline'
  BY <1>2 DEF NothingQueuedOffline
<1>4. GateNeverAhead'
  BY DEF SessionInv, SessionEffect, GateNeverAhead, ToldTheCache, OfflinePCs
<1>5. ReadyOnlyInSession'
  BY <1>1, <1>2 DEF SessionInv, SessionEffect, ReadyOnlyInSession, Located, OfflinePCs
<1> QED
  BY <1>1, <1>3, <1>4, <1>5 DEF SessionInv

\* What a step outside the worker may do to what SessionInv speaks of.
OutsideEffect ==
  /\ UNCHANGED <<worker, sdk>>
  /\ shared'.connected = shared.connected
  /\ \/ /\ shared'.sdk_linked = shared.sdk_linked
        /\ shared'.control_authority = shared.control_authority
        /\ controller'.status = controller.status
     \/ /\ controller'.status.sdk_linked = shared'.sdk_linked
        /\ controller'.status.control_authority = shared'.control_authority
  /\ controller'.driver_ready => controller.driver_ready
  /\ ~shared.connected =>
       /\ shared'.command_queue = shared.command_queue
       /\ shared'.estop_promise \in {shared.estop_promise, NoRequest}

\* Such a step keeps the session's invariant.
LEMMA OutsideKeeps == ASSUME SessionInv, OutsideEffect PROVE SessionInv'
<1>1. Located' /\ NothingQueuedOffline'
  BY DEF SessionInv, OutsideEffect, Located, NothingQueuedOffline
<1>2. GateNeverAhead'
  BY DEF SessionInv, OutsideEffect, GateNeverAhead
<1>3. ReadyOnlyInSession'
  BY DEF SessionInv, OutsideEffect, ReadyOnlyInSession
<1> QED
  BY <1>1, <1>2, <1>3 DEF SessionInv

\* A call that reaches the controller and leaves the caches alone.
LEMMA CallEffect ==
  ASSUME TypeInv, UNCHANGED <<worker, sdk>>, SameReport(controller, controller'),
         \/ shared' = shared
         \/ \E m : /\ ~Disconnected \/ m = NoRequest
                   /\ shared' = [shared EXCEPT !.estop_promise = m]
         \/ /\ ~Disconnected
            /\ \E q : shared' = [shared EXCEPT !.command_queue = q]
         \/ shared' = [shared EXCEPT !.stop_requested = TRUE]
  PROVE  OutsideEffect
<1>1. shared \in SharedStates
  BY DEF TypeInv, TypeOK
<1>2. /\ shared'.connected = shared.connected
      /\ shared'.sdk_linked = shared.sdk_linked
      /\ shared'.control_authority = shared.control_authority
      /\ ~shared.connected =>
           /\ shared'.command_queue = shared.command_queue
           /\ shared'.estop_promise \in {shared.estop_promise, NoRequest}
  BY <1>1 DEF SharedStates, Disconnected
<1> QED
  BY <1>2 DEF OutsideEffect, SameReport

\* What the callers, the clock and stop() do to the session.
LEMMA CallersEffect ==
  ASSUME TypeInv, CallerStep \/ ClockTick \/ Stop PROVE OutsideEffect
<1>0. controller \in ControllerStates /\ SameReport(controller, controller)
  BY DEF TypeInv, TypeOK, SameReport
<1>1. ASSUME NEW r, LatchEstop(r) \/ MarkEstop(r) PROVE OutsideEffect
  <2>1. SameReport(controller, controller')
    BY Zenon, <1>0, <1>1, OnlyUpdateReports DEF LatchEstop, MarkEstop
  <2> QED
    BY <1>1, <2>1, CallEffect DEF LatchEstop, MarkEstop
<1>2. ASSUME NEW r, RequestAuthority(r) PROVE OutsideEffect
  BY <1>0, <1>2, CallEffect DEF RequestAuthority
<1>3. ASSUME NEW r, NEW name, CheckMode(r, name) PROVE OutsideEffect
  BY <1>0, <1>3, CallEffect DEF CheckMode
<1>4. ASSUME NEW r, AcceptMode(r) PROVE OutsideEffect
  BY Zenon, <1>0, <1>4, CallEffect, OnlyUpdateReports DEF AcceptMode
<1>5. ASSUME NEW r, EnqueueMode(r) PROVE OutsideEffect
  <2>1. SameReport(controller, controller')
    BY Zenon, <1>0, <1>5, OnlyUpdateReports DEF EnqueueMode
  <2> QED
    BY Zenon, <1>5, <2>1, CallEffect DEF EnqueueMode
<1>6. ASSUME NEW r, Collect(r) PROVE OutsideEffect
  BY <1>0, <1>6, CallEffect DEF Collect
<1>7. ASSUME NEW finite, NEW v, SubmitVelocity(finite, v) PROVE OutsideEffect
  BY Zenon, <1>0, <1>7, CallEffect, OnlyUpdateReports DEF SubmitVelocity
<1>8. CASE ReleaseEstop
  BY Zenon, <1>0, <1>8, CallEffect, OnlyUpdateReports DEF ReleaseEstop
<1>9. CASE ClockTick
  BY Zenon, <1>0, <1>9, CallEffect, OnlyUpdateReports DEF ClockTick
<1>10. CASE Stop
  BY <1>0, <1>10, CallEffect DEF Stop
<1> QED
  BY <1>1, <1>2, <1>3, <1>4, <1>5, <1>6, <1>7, <1>8, <1>9, <1>10 DEF CallerStep

\* handle_status writes caches and gate in one critical section.
LEMMA StatusEffect ==
  ASSUME TypeInv, NEW linked \in BOOLEAN, NEW authority \in BOOLEAN,
         HandleStatus(linked, authority)
  PROVE  OutsideEffect
<1>0. controller \in ControllerStates /\ shared \in SharedStates
  BY DEF TypeInv, TypeOK
<1>1. /\ controller'.status.sdk_linked = linked
      /\ controller'.status.control_authority = authority
      /\ controller'.driver_ready = controller.driver_ready
  BY <1>0, UpdateReports DEF HandleStatus
<1>2. /\ shared'.connected = shared.connected
      /\ shared'.sdk_linked = linked
      /\ shared'.control_authority = authority
      /\ shared'.command_queue = shared.command_queue
      /\ shared'.estop_promise = shared.estop_promise
  BY <1>0 DEF HandleStatus, SharedStates
<1> QED
  BY <1>1, <1>2 DEF OutsideEffect, HandleStatus

\* worker_main, and start().
LEMMA ConnectKeeps ==
  ASSUME TypeInv, SessionInv, ConnectStep \/ Start
  PROVE  SessionInv'
<1>0. /\ worker \in WorkerStates /\ shared \in SharedStates
      /\ controller \in ControllerStates
      /\ sdk \in [live : BOOLEAN, velocity : Velocities]
  BY DEF TypeInv, TypeOK
<1> USE DEF SessionInv
<1>1. ASSUME NEW p \in OfflinePCs \ {"invalidate", "invalidate_controller"},
             NEW q \in OfflinePCs \ {"invalidate_controller"},
             worker.pc = p, worker'.pc = q,
             worker'.driver_ready_armed = worker.driver_ready_armed,
             q \in {"init", "subscribe"} => sdk'.live,
             sdk'.live \/ ~controller.driver_ready,
             shared'.connected = shared.connected,
             shared'.sdk_linked = shared.sdk_linked,
             shared'.control_authority = shared.control_authority,
             shared'.command_queue = shared.command_queue,
             shared'.estop_promise = shared.estop_promise,
             UNCHANGED controller
      PROVE  SessionInv'
  <2>1. ~shared.connected /\ ~worker.driver_ready_armed
    BY <1>1 DEF Located, ReadyOnlyInSession
  <2>2. Located' /\ NothingQueuedOffline'
    BY <1>1, <2>1 DEF Located, NothingQueuedOffline
  <2>3. GateNeverAhead'
    BY <1>1 DEF GateNeverAhead
  <2>4. ReadyOnlyInSession'
    BY <1>1, <2>1 DEF ReadyOnlyInSession
  <2> QED
    BY <2>2, <2>3, <2>4
<1>2. CASE LoopHead \/ Start \/ Backoff
  <2>1. /\ worker.pc \in {"head", "not_started", "backoff"}
        /\ worker'.pc \in {"exited", "preflight", "head"}
        /\ worker'.driver_ready_armed = worker.driver_ready_armed
    BY Zenon, <1>0, <1>2 DEF LoopHead, Start, Backoff, At, Goto, WorkerStates
  <2>2. UNCHANGED <<controller, shared, sdk>>
    BY <1>2 DEF LoopHead, Start, Backoff
  <2>3. sdk'.live \/ ~controller.driver_ready
    BY <2>2 DEF ReadyOnlyInSession
  <2> QED
    BY <1>1, <2>1, <2>2, <2>3 DEF OfflinePCs
<1>3. ASSUME NEW ready \in BOOLEAN, Preflight(ready) PROVE SessionInv'
  <2>1. /\ worker.pc = "preflight"
        /\ worker'.pc \in {"init", "exited", "invalidate"}
        /\ worker'.driver_ready_armed = worker.driver_ready_armed
    BY <1>0, <1>3 DEF Preflight, At, Goto, WorkerStates
  <2>2. /\ worker'.pc = "init" => sdk'.live
        /\ sdk.live => sdk'.live
    BY <1>0, <1>3 DEF Preflight, Goto, WorkerStates
  <2>3. /\ shared'.connected = shared.connected
        /\ shared'.sdk_linked = shared.sdk_linked
        /\ shared'.control_authority = shared.control_authority
        /\ shared'.command_queue = shared.command_queue
        /\ shared'.estop_promise = shared.estop_promise
    BY <1>0, <1>3 DEF Preflight, SharedStates
  <2>4. UNCHANGED controller /\ (sdk'.live \/ ~controller.driver_ready)
    BY <1>3, <2>2 DEF Preflight, ReadyOnlyInSession
  <2> QED
    BY <1>1, <2>1, <2>2, <2>3, <2>4 DEF OfflinePCs
<1>4. ASSUME NEW ok \in BOOLEAN, SdkInit(ok) PROVE SessionInv'
  <2>1. /\ worker.pc = "init"
        /\ worker'.pc \in {"invalidate", "deinit", "subscribe"}
        /\ worker'.driver_ready_armed = worker.driver_ready_armed
    BY <1>0, <1>4 DEF SdkInit, At, Goto, WorkerStates
  <2>2. sdk.live
    BY <2>1 DEF Located
  <2> QED
    BY <1>1, <1>4, <2>1, <2>2 DEF SdkInit, OfflinePCs
<1>5. ASSUME NEW ok \in BOOLEAN, Subscribe(ok) PROVE SessionInv'
  <2>1. /\ worker.pc = "subscribe"
        /\ worker'.driver_ready_armed = worker.driver_ready_armed
        /\ worker'.pc \in {"wait", "deinit", "invalidate"}
    BY Zenon, <1>0, <1>5 DEF Subscribe, At, Goto, WorkerStates
  <2>2. sdk.live /\ sdk'.live
    <3>1. sdk'.live = sdk.live
      BY <1>0, <1>5 DEF Subscribe
    <3> QED
      BY <2>1, <3>1 DEF Located
  <2>3. CASE ok /\ ~shared.stop_requested
    <3>1. worker'.pc = "wait"
      BY Zenon, <1>0, <1>5, <2>3 DEF Subscribe, WorkerStates
    <3>2. /\ shared'.connected
          /\ shared'.sdk_linked = shared.sdk_linked
          /\ shared'.control_authority = shared.control_authority
      BY <1>0, <1>5, <2>3 DEF Subscribe, SharedStates
    <3>3. UNCHANGED controller
      BY <1>5 DEF Subscribe
    <3>4. Located' /\ NothingQueuedOffline'
      BY <2>2, <3>1, <3>2 DEF Located, NothingQueuedOffline, OfflinePCs
    <3>5. GateNeverAhead'
      BY <2>1, <3>2, <3>3 DEF GateNeverAhead
    <3>6. ReadyOnlyInSession'
      BY <2>1, <2>2, <3>1, <3>2, <3>3 DEF ReadyOnlyInSession
    <3> QED
      BY <3>4, <3>5, <3>6
  <2>4. CASE ~(ok /\ ~shared.stop_requested)
    <3>1. worker'.pc \in {"deinit", "invalidate"} /\ UNCHANGED <<controller, shared>>
      BY <1>0, <1>5, <2>4 DEF Subscribe, Goto, WorkerStates
    <3> QED
      BY <1>1, <2>1, <2>2, <3>1 DEF OfflinePCs
  <2> QED
    BY <2>3, <2>4
<1>6. CASE SessionEnd
  <2>1. /\ worker.pc = "session_end" /\ worker'.pc = "invalidate"
        /\ worker'.driver_ready_armed = worker.driver_ready_armed
    BY <1>0, <1>6 DEF SessionEnd, At, WorkerStates
  <2>2. /\ ~shared'.connected
        /\ shared'.sdk_linked = shared.sdk_linked
        /\ shared'.control_authority = shared.control_authority
        /\ shared'.command_queue = <<>> /\ shared'.estop_promise = NoRequest
    BY <1>0, <1>6 DEF SessionEnd, SharedStates
  <2>3. SameReport(controller, controller')
    <3>1. \/ controller' = controller
          \/ controller' = complete_mode_transition(controller, FALSE)
      BY Zenon, <1>6 DEF SessionEnd
    <3>2. CASE controller' = controller
      BY <3>2 DEF SameReport
    <3>3. CASE controller' = complete_mode_transition(controller, FALSE)
      BY Zenon, <1>0, <3>3, OnlyUpdateReports
    <3> QED
      BY Zenon, <3>1, <3>2, <3>3
  <2>4. sdk' = sdk
    BY <1>6 DEF SessionEnd
  <2>5. Located' /\ NothingQueuedOffline'
    BY <2>1, <2>2 DEF Located, NothingQueuedOffline, OfflinePCs
  <2>6. GateNeverAhead'
    BY <2>1, <2>2, <2>3 DEF GateNeverAhead, SameReport
  <2>7. ReadyOnlyInSession'
    BY <2>1, <2>2, <2>3, <2>4 DEF ReadyOnlyInSession, SameReport
  <2> QED
    BY <2>5, <2>6, <2>7
<1>7. CASE InvalidateCaches
  <2>1. /\ worker.pc = "invalidate" /\ worker'.pc = "invalidate_controller"
        /\ ~worker'.driver_ready_armed
    BY <1>0, <1>7 DEF InvalidateCaches, At, WorkerStates
  <2>2. /\ shared'.connected = shared.connected
        /\ shared'.command_queue = shared.command_queue
        /\ shared'.estop_promise = shared.estop_promise
    BY <1>0, <1>7 DEF InvalidateCaches, SharedStates
  <2>3. UNCHANGED <<controller, sdk>>
    BY <1>7 DEF InvalidateCaches
  <2>4. Located' /\ NothingQueuedOffline'
    BY <2>1, <2>2 DEF Located, NothingQueuedOffline, OfflinePCs
  <2>5. GateNeverAhead' /\ ReadyOnlyInSession'
    BY <2>1, <2>3 DEF GateNeverAhead, ReadyOnlyInSession
  <2> QED
    BY <2>4, <2>5
<1>8. CASE InvalidateController
  <2>1. /\ worker.pc = "invalidate_controller" /\ worker'.pc = "deinit"
        /\ worker'.driver_ready_armed = worker.driver_ready_armed
    BY <1>0, <1>8 DEF InvalidateController, At, Goto, WorkerStates
  <2>2. UNCHANGED <<shared, sdk>>
    BY <1>8 DEF InvalidateController
  <2>3. ~controller'.driver_ready /\ controller'.status = NoStatus
    <3> DEFINE c == update_robot_state(controller, NoStatus)
    <3>1. NoStatus \in ControllerStatuses
      BY DEF NoStatus, ControllerStatuses, SportStatuses
    <3>2. c \in ControllerStates /\ c.status = NoStatus
      BY <1>0, <3>1, UpdateKeeps, UpdateReports DEF TypeInv
    <3> QED
      BY Zenon, <1>8, <3>2, OnlyUpdateReports DEF InvalidateController
  <2>4. Located' /\ NothingQueuedOffline'
    BY <2>1, <2>2 DEF Located, NothingQueuedOffline, OfflinePCs
  <2>5. GateNeverAhead'
    BY <2>3 DEF GateNeverAhead, NoStatus
  <2>6. ReadyOnlyInSession'
    BY <2>1, <2>2, <2>3 DEF ReadyOnlyInSession
  <2> QED
    BY <2>4, <2>5, <2>6
<1>9. CASE Deinit
  <2>1. /\ worker.pc = "deinit" /\ worker'.pc \in {"exited", "backoff"}
        /\ worker'.driver_ready_armed = worker.driver_ready_armed
    BY <1>0, <1>9 DEF Deinit, At, Goto, WorkerStates
  <2>2. ~controller.driver_ready
    BY <2>1 DEF Located, ReadyOnlyInSession, OfflinePCs
  <2> QED
    BY <1>1, <1>9, <2>1, <2>2 DEF Deinit, OfflinePCs
<1> QED
  BY <1>2, <1>3, <1>4, <1>5, <1>6, <1>7, <1>8, <1>9 DEF ConnectStep

\* Every step keeps the session's invariant.
LEMMA StepSession == TypeInv /\ SessionInv /\ [Next]_vars => SessionInv'
<1> SUFFICES ASSUME TypeInv, SessionInv, [Next]_vars PROVE SessionInv'
  OBVIOUS
<1>1. CASE UNCHANGED vars
  BY <1>1 DEF vars, SessionInv, Located, NothingQueuedOffline, GateNeverAhead,
             ReadyOnlyInSession
<1>2. CASE CallerStep \/ ClockTick \/ Stop
  BY <1>2, CallersEffect, OutsideKeeps
<1>3. ASSUME NEW linked \in BOOLEAN, NEW authority \in BOOLEAN,
             HandleStatus(linked, authority)
      PROVE  SessionInv'
  BY <1>3, StatusEffect, OutsideKeeps
<1>4. CASE ConnectStep \/ Start
  BY <1>4, ConnectKeeps
<1>5. CASE CommandStep \/ PeriodicStep
  BY SMTT(30), <1>5, CommandEffect, PeriodicEffect, EffectKeeps
<1> QED
  BY <1>1, <1>2, <1>3, <1>4, <1>5 DEF Next, WorkerStep

\* Before start() there is no session.
LEMMA InitSession == Init => SessionInv
  BY DEF Init, SessionInv, Located, NothingQueuedOffline, GateNeverAhead,
         ReadyOnlyInSession, OfflinePCs, InitialController, NoStatus

\* TypeInv and SessionInv are invariants.
LEMMA Invariants == Spec => [](TypeInv /\ SessionInv)
  BY InitType, StepType, InitSession, StepSession, PTL DEF Spec

\* Outside a session nothing is queued and no stop is marked, whatever the callers
\* do between the session-end drain and the next connection (request_authority,
\* request_mode and trigger_estop against fail_all_pending_locked).
THEOREM QueueDrained == Spec => []NothingQueuedOffline
<1>1. TypeInv /\ SessionInv => NothingQueuedOffline
  BY DEF SessionInv
<1> QED
  BY <1>1, Invariants, PTL

\* The gate never believes in a link or an authority the runtime's cache has lost,
\* except inside invalidate_session: neither a late callback nor a snapshot taken
\* before it resurrects authority (handle_status, the state poll).
THEOREM GateFollowsCaches == Spec => []GateNeverAhead
<1>1. TypeInv /\ SessionInv => GateNeverAhead
  BY DEF SessionInv
<1> QED
  BY <1>1, Invariants, PTL

\* Readiness belongs to the session that armed it and is gone before the SDK is
\* shut down, through any number of reconnections (run_connected_loop,
\* invalidate_session).
THEOREM ReadinessIsSessions == Spec => []ReadyOnlyInSession
<1>1. TypeInv /\ SessionInv => ReadyOnlyInSession
  BY DEF SessionInv
<1> QED
  BY <1>1, Invariants, PTL

\* The reconnect delay only grows, never beyond the maximum, until a connection
\* resets it, whatever the initial and the maximal delay (wait_backoff,
\* worker_main).
THEOREM BackoffGrows == Spec => BackoffDiscipline
<1> DEFINE Disciplined ==
      worker'.backoff # worker.backoff =>
        \/ worker'.backoff = BackoffInitial /\ ~shared.connected
                                           /\ shared'.connected
        \/ worker'.backoff > worker.backoff /\ worker'.backoff <= BackoffMax
<1>1. TypeInv /\ SessionInv /\ [Next]_vars => [Disciplined]_vars
  <2> SUFFICES ASSUME TypeInv, SessionInv, Next PROVE Disciplined
    OBVIOUS
  <2>0. worker \in WorkerStates /\ shared \in SharedStates /\ worker.backoff \in Nat
    BY DEF TypeInv, TypeOK, WorkerStates
  <2>1. CASE Backoff
    <3>1. worker'.backoff = next_backoff(worker.backoff)
      BY <2>0, <2>1 DEF Backoff, WorkerStates
    <3> QED
      BY <2>0, <3>1, RuntimeAssumption DEF next_backoff
  <2>2. ASSUME NEW ok \in BOOLEAN, Subscribe(ok) PROVE Disciplined
    <3>1. ~shared.connected
      BY <2>2 DEF Subscribe, At, SessionInv, Located, OfflinePCs
    <3>2. CASE ok /\ ~shared.stop_requested
      BY Zenon, <2>0, <2>2, <3>1, <3>2 DEF Subscribe, SharedStates, WorkerStates
    <3>3. CASE ~(ok /\ ~shared.stop_requested)
      BY <2>0, <2>2, <3>3 DEF Subscribe, Goto, WorkerStates
    <3> QED
      BY <3>2, <3>3
  <2>3. CASE \/ LoopHead \/ SessionEnd \/ InvalidateCaches \/ InvalidateController
             \/ Deinit \/ Start
             \/ \E ok \in BOOLEAN : Preflight(ok) \/ SdkInit(ok)
    <3>1. worker'.backoff = worker.backoff
      BY Zenon, <2>0, <2>3
      DEF LoopHead, SessionEnd, InvalidateCaches, InvalidateController, Deinit,
          Start, Preflight, SdkInit, Goto, WorkerStates
    <3> QED
      BY <3>1
  <2>4. CASE CommandStep \/ PeriodicStep
    BY <2>4, CommandEffect, PeriodicEffect DEF SessionEffect
  <2>5. CASE \/ CallerStep \/ ClockTick \/ Stop
             \/ \E linked, authority \in BOOLEAN : HandleStatus(linked, authority)
    BY <2>5, CallersEffect, StatusEffect DEF OutsideEffect
  <2> QED
    BY <2>1, <2>2, <2>3, <2>4, <2>5 DEF Next, WorkerStep, ConnectStep
<1> QED
  BY <1>1, Invariants, PTL DEF Spec, BackoffDiscipline

-----------------------------------------------------------------------------
(* A stopped robot *)

\* The step leaves the emergency-stop latch alone.
Latch == SameLatch(controller, controller')

\* After a served stop the latch stands and the robot stands still: nothing but
\* zero is on its way to it, and a stop is reported done only behind a zero move
\* that arrived.
StillInv ==
  /\ estop_served => controller.estop_latched /\ sdk.velocity = 0
  /\ worker.pc = "tick_send" /\ estop_served => worker.target = 0
  /\ worker.pc = "send_damping" /\ worker.zero_ok => sdk.velocity = 0

\* The worker's step sends nothing and is not about to.
Steady ==
  /\ Latch
  /\ sdk'.velocity = sdk.velocity
  /\ estop_served' = estop_served
  /\ worker'.pc \notin {"tick_send", "send_damping"}

\* Such a step keeps a stopped robot still.
LEMMA SteadyKeeps == ASSUME StillInv, Steady PROVE StillInv'
  BY DEF StillInv, Steady, Latch, SameLatch

\* Outside a session.
LEMMA ConnectSteady ==
  ASSUME TypeInv,
         \/ LoopHead \/ Start \/ Backoff \/ InvalidateCaches \/ InvalidateController
         \/ Deinit \/ SessionEnd
         \/ \E ok \in BOOLEAN : Preflight(ok) \/ SdkInit(ok)
  PROVE  Steady
<1>0. /\ worker \in WorkerStates /\ controller \in ControllerStates
      /\ sdk \in [live : BOOLEAN, velocity : Velocities]
      /\ SameLatch(controller, controller)
  BY DEF TypeInv, TypeOK, SameLatch
<1>1. worker'.pc \in OfflinePCs
  BY ZenonT(40), <1>0 DEF LoopHead, Start, Backoff, InvalidateCaches, InvalidateController,
     Deinit, SessionEnd, Preflight, SdkInit, Goto, WorkerStates, OfflinePCs
<1>2. sdk'.velocity = sdk.velocity /\ estop_served' = estop_served
  BY Zenon, <1>0 DEF LoopHead, Start, Backoff, InvalidateCaches, InvalidateController,
     Deinit, SessionEnd, Preflight, SdkInit, historyVars
<1>3. Latch
  <2>1. CASE InvalidateController
    <3> DEFINE c == update_robot_state(controller, NoStatus)
    <3>1. NoStatus \in ControllerStatuses
      BY DEF NoStatus, ControllerStatuses, SportStatuses
    <3>2. c \in ControllerStates /\ SameLatch(controller, c)
      BY <1>0, <3>1, UpdateKeeps, UpdateLatches DEF TypeInv
    <3>3. SameLatch(c, invalidate_connection(c))
      BY Zenon, <3>2, OnlyEstopLatches
    <3> QED
      BY <2>1, <3>2, <3>3 DEF InvalidateController, Latch, SameLatch
  <2>2. CASE SessionEnd
    BY Zenon, <1>0, <2>2, OnlyEstopLatches DEF SessionEnd, Latch
  <2>3. CASE controller' = controller
    BY <1>0, <2>3 DEF Latch
  <2> QED
    BY <2>1, <2>2, <2>3 DEF LoopHead, Start, Backoff, InvalidateCaches, Deinit,
       Preflight, SdkInit
<1> QED
  BY <1>1, <1>2, <1>3 DEF Steady, OfflinePCs

\* Steps of the loop that only look around.
LEMMA LoopSteady ==
  ASSUME TypeInv,
         \/ Wait \/ Settle \/ TakeRefresh \/ SkipMotion
         \/ NotExpired \/ SkipPoll \/ ApplySnapshot \/ PollSettle \/ Actuate
         \/ \E outcome \in {"skip", "ok", "fail"} : Heartbeat(outcome)
         \/ \E s \in Snapshots : TakeSnapshot(s)
  PROVE  Steady
<1>0. /\ worker \in WorkerStates /\ controller \in ControllerStates
      /\ SameLatch(controller, controller)
  BY DEF TypeInv, TypeOK, SameLatch
<1>1. CASE \/ Wait \/ Settle \/ SkipMotion \/ NotExpired \/ SkipPoll
           \/ ApplySnapshot \/ PollSettle \/ Actuate
  <2>1. worker'.pc \notin {"tick_send", "send_damping"}
    BY <1>0, <1>1 DEF Wait, Settle, SkipMotion, NotExpired, SkipPoll, ApplySnapshot,
       PollSettle, Actuate, Goto, WorkerStates
  <2>2. sdk' = sdk /\ estop_served' = estop_served
    BY <1>1 DEF Wait, Settle, SkipMotion, NotExpired, SkipPoll, ApplySnapshot,
       PollSettle, Actuate, historyVars
  <2>3. Latch
    BY SMTT(30), <1>0, <1>1, UpdateLatches DEF Wait, Settle, SkipMotion, NotExpired, SkipPoll,
       ApplySnapshot, PollSettle, Actuate, Latch
  <2> QED
    BY <2>1, <2>2, <2>3 DEF Steady
<1>2. CASE TakeRefresh \/ \E s \in Snapshots : TakeSnapshot(s)
  BY Zenon, <1>0, <1>2 DEF TakeRefresh, TakeSnapshot, WorkerStates, historyVars, Steady,
     Latch
<1>3. ASSUME NEW outcome \in {"skip", "ok", "fail"}, Heartbeat(outcome) PROVE Steady
  <2>1. worker'.pc \in {"tick", "session_end"}
    BY <1>0, <1>3 DEF Heartbeat, WorkerStates
  <2> QED
    BY <1>0, <1>3, <2>1 DEF Heartbeat, historyVars, Steady, Latch
<1> QED
  BY <1>1, <1>2, <1>3

\* Steps that answer without sending a move.
LEMMA AnswersSteady ==
  ASSUME TypeInv,
         \/ TakeEstop \/ DrainForEstop \/ EstopGate \/ Pop
         \/ SettleAbort \/ Expire \/ PollAbort \/ PollCheck \/ PollComplete
         \/ \E outcome \in {"ok", "fail", "throw"} : ExecuteAuthority(outcome)
         \/ \E ok \in BOOLEAN : SetMode(ok)
  PROVE  Steady
<1>0. /\ worker \in WorkerStates /\ controller \in ControllerStates
      /\ SameLatch(controller, controller)
  BY DEF TypeInv, TypeOK, SameLatch
<1>1. sdk' = sdk /\ estop_served' = estop_served
  BY Zenon DEF TakeEstop, DrainForEstop, EstopGate, Pop, SettleAbort, Expire, PollAbort,
     AbortTransition, PollCheck, PollComplete, ExecuteAuthority, SetMode, historyVars
<1>2. Latch
  <2>1. CASE TakeEstop \/ DrainForEstop \/ EstopGate \/ Pop
    BY Zenon, <1>0, <2>1, OnlyEstopLatches DEF TakeEstop, DrainForEstop, EstopGate, Pop,
       Latch
  <2>2. CASE SettleAbort \/ Expire \/ PollAbort \/ PollCheck \/ PollComplete
    BY Zenon, <1>0, <2>2, OnlyEstopLatches DEF SettleAbort, Expire, PollAbort,
       AbortTransition, PollCheck, PollComplete, Latch
  <2>3. ASSUME NEW outcome \in {"ok", "fail", "throw"}, ExecuteAuthority(outcome)
        PROVE  Latch
    BY Zenon, <1>0, <2>3, OnlyEstopLatches DEF ExecuteAuthority, Latch
  <2>4. ASSUME NEW ok \in BOOLEAN, SetMode(ok) PROVE Latch
    BY Zenon, <1>0, <2>4, OnlyEstopLatches DEF SetMode, FailMode, Latch
  <2> QED
    BY <2>1, <2>2, <2>3, <2>4
<1>3. worker'.pc \notin {"tick_send", "send_damping"}
  <2>1. CASE TakeEstop \/ EstopGate
    BY Zenon, <1>0, <2>1 DEF TakeEstop, EstopGate, Goto, WorkerStates
  <2>2. CASE DrainForEstop
    BY Zenon, <1>0, <2>2 DEF DrainForEstop, At, Goto, WorkerStates
  <2>3. CASE Pop
    BY Zenon, <1>0, <2>3 DEF Pop, Goto, WorkerStates
  <2>4. CASE SettleAbort \/ Expire \/ PollAbort \/ PollCheck \/ PollComplete
    BY Zenon, <1>0, <2>4 DEF SettleAbort, Expire, PollAbort, AbortTransition, PollCheck,
       PollComplete, WorkerStates
  <2>5. CASE \/ \E outcome \in {"ok", "fail", "throw"} : ExecuteAuthority(outcome)
             \/ \E ok \in BOOLEAN : SetMode(ok)
    BY Zenon, <1>0, <2>5 DEF ExecuteAuthority, SetMode, FailMode, WorkerStates
  <2> QED
    BY <2>1, <2>2, <2>3, <2>4, <2>5
<1> QED
  BY <1>1, <1>2, <1>3 DEF Steady

\* What a move may leave behind: what was sent, or what the robot was told before.
LEMMA MovedTo ==
  ASSUME TypeInv, NEW v, NEW ok \in BOOLEAN,
         sdk' \in {[sdk EXCEPT !.velocity = x] : x \in Moved(v, ok)}
  PROVE  /\ sdk'.velocity \in {v, sdk.velocity}
         /\ ok => sdk'.velocity = v
<1>1. sdk \in [live : BOOLEAN, velocity : Velocities]
  BY DEF TypeInv, TypeOK
<1>2. PICK x \in Moved(v, ok) : sdk' = [sdk EXCEPT !.velocity = x]
  OBVIOUS
<1>3. x \in {v, sdk.velocity} /\ (ok => x = v)
  BY <1>2 DEF Moved
<1> QED
  BY <1>1, <1>2, <1>3

\* The steps that send a move, or are about to.
LEMMA Senders ==
  ASSUME TypeInv
  PROVE  /\ \A ok \in BOOLEAN : SendZero(ok) =>
              /\ Latch /\ estop_served' = estop_served
              /\ worker'.pc = "send_damping" /\ worker'.zero_ok = ok
              /\ sdk'.velocity \in {0, sdk.velocity} /\ (ok => sdk'.velocity = 0)
         /\ \A ok \in BOOLEAN : ZeroBeforeMode(ok) =>
              /\ Latch /\ estop_served' = estop_served
              /\ worker'.pc \in {"mode_set", "flag"}
              /\ sdk'.velocity \in {0, sdk.velocity}
         /\ \A ok \in BOOLEAN : SendTick(ok) =>
              /\ Latch /\ estop_served' = estop_served
              /\ worker.pc = "tick_send" /\ worker'.pc = "deadline"
              /\ sdk'.velocity \in {worker.target, sdk.velocity}
         /\ MotionTick =>
              /\ Latch /\ estop_served' = estop_served /\ sdk' = sdk
              /\ worker'.pc \in {"tick_send", "deadline"}
              /\ worker'.target = velocity_for_tick(controller)
         /\ \A ok \in BOOLEAN : SendDamping(ok) =>
              /\ Latch /\ sdk' = sdk /\ worker.pc = "send_damping"
              /\ worker'.pc \in {"settle", "session_end"}
              /\ estop_served' = (estop_served \/
                   (worker.cur.req # NoRequest /\ Stopped(ok) /\ controller.estop_latched))
         /\ \A ok \in BOOLEAN : Subscribe(ok) =>
              /\ Latch /\ estop_served' = estop_served
              /\ worker'.pc \in {"wait", "deinit", "invalidate"}
              /\ sdk'.velocity \in {0, sdk.velocity}
<1>0. /\ worker \in WorkerStates /\ controller \in ControllerStates
      /\ sdk \in [live : BOOLEAN, velocity : Velocities]
      /\ SameLatch(controller, controller)
  BY DEF TypeInv, TypeOK, SameLatch
<1>1. ASSUME NEW ok \in BOOLEAN, SendZero(ok)
      PROVE  /\ Latch /\ estop_served' = estop_served
             /\ worker'.pc = "send_damping" /\ worker'.zero_ok = ok
             /\ sdk'.velocity \in {0, sdk.velocity} /\ (ok => sdk'.velocity = 0)
  <2>1. sdk'.velocity \in {0, sdk.velocity} /\ (ok => sdk'.velocity = 0)
    BY <1>1, MovedTo DEF SendZero
  <2>2. worker'.pc = "send_damping" /\ worker'.zero_ok = ok
    BY <1>0, <1>1 DEF SendZero, WorkerStates
  <2> QED
    BY <1>0, <1>1, <2>1, <2>2 DEF SendZero, historyVars, Latch
<1>2. ASSUME NEW ok \in BOOLEAN, ZeroBeforeMode(ok)
      PROVE  /\ Latch /\ estop_served' = estop_served
             /\ worker'.pc \in {"mode_set", "flag"}
             /\ sdk'.velocity \in {0, sdk.velocity}
  <2>1. sdk'.velocity \in {0, sdk.velocity}
    BY <1>2, MovedTo DEF ZeroBeforeMode
  <2>2. worker'.pc \in {"mode_set", "flag"}
    BY Zenon, <1>0, <1>2 DEF ZeroBeforeMode, FailMode, WorkerStates
  <2>3. Latch
    BY Zenon, <1>0, <1>2, OnlyEstopLatches DEF ZeroBeforeMode, FailMode, Latch
  <2> QED
    BY <1>2, <2>1, <2>2, <2>3 DEF ZeroBeforeMode, historyVars
<1>3. ASSUME NEW ok \in BOOLEAN, SendTick(ok)
      PROVE  /\ Latch /\ estop_served' = estop_served
             /\ worker.pc = "tick_send" /\ worker'.pc = "deadline"
             /\ sdk'.velocity \in {worker.target, sdk.velocity}
  <2>1. sdk'.velocity \in {worker.target, sdk.velocity}
    BY <1>3, MovedTo DEF SendTick
  <2>2. worker.pc = "tick_send" /\ worker'.pc = "deadline"
    BY <1>0, <1>3 DEF SendTick, At, WorkerStates
  <2> QED
    BY <1>0, <1>3, <2>1, <2>2 DEF SendTick, historyVars, Latch
<1>4. ASSUME MotionTick
      PROVE  /\ Latch /\ estop_served' = estop_served /\ sdk' = sdk
             /\ worker'.pc \in {"tick_send", "deadline"}
             /\ worker'.target = velocity_for_tick(controller)
  BY <1>0, <1>4 DEF MotionTick, historyVars, Latch, WorkerStates
<1>5. ASSUME NEW ok \in BOOLEAN, SendDamping(ok)
      PROVE  /\ Latch /\ sdk' = sdk /\ worker.pc = "send_damping"
             /\ worker'.pc \in {"settle", "session_end"}
             /\ estop_served' = (estop_served \/
                  (worker.cur.req # NoRequest /\ Stopped(ok) /\ controller.estop_latched))
  <2>1. worker.pc = "send_damping" /\ worker'.pc \in {"settle", "session_end"}
    BY <1>0, <1>5 DEF SendDamping, At, WorkerStates
  <2> QED
    BY <1>0, <1>5, <2>1 DEF SendDamping, Latch
<1>6. ASSUME NEW ok \in BOOLEAN, Subscribe(ok)
      PROVE  /\ Latch /\ estop_served' = estop_served
             /\ worker'.pc \in {"wait", "deinit", "invalidate"}
             /\ sdk'.velocity \in {0, sdk.velocity}
  <2>1. worker'.pc \in {"wait", "deinit", "invalidate"}
    BY Zenon, <1>0, <1>6 DEF Subscribe, Goto, WorkerStates
  <2>2. sdk'.velocity \in {0, sdk.velocity}
    BY <1>0, <1>6 DEF Subscribe
  <2> QED
    BY <1>0, <1>6, <2>1, <2>2 DEF Subscribe, historyVars, Latch
<1> QED
  BY <1>1, <1>2, <1>3, <1>4, <1>5, <1>6

\* The worker keeps a stopped robot still.
LEMMA WorkerStill ==
  ASSUME TypeInv, StillInv, WorkerStep \/ Start PROVE StillInv'
<1>1. ASSUME NEW ok \in BOOLEAN,
             SendZero(ok) \/ ZeroBeforeMode(ok) \/ SendTick(ok) \/ Subscribe(ok)
      PROVE  StillInv'
  <2>1. CASE SendZero(ok)
    BY <2>1, Senders DEF StillInv, Latch, SameLatch
  <2>2. CASE ZeroBeforeMode(ok)
    BY <2>2, Senders DEF StillInv, Latch, SameLatch
  <2>3. CASE SendTick(ok)
    BY <2>3, Senders DEF StillInv, Latch, SameLatch
  <2>4. CASE Subscribe(ok)
    BY <2>4, Senders DEF StillInv, Latch, SameLatch
  <2> QED
    BY SMTT(30), <1>1, <2>1, <2>2, <2>3, <2>4
<1>2. ASSUME NEW ok \in BOOLEAN, SendDamping(ok) PROVE StillInv'
  BY Zenon, <1>2, Senders DEF StillInv, Latch, SameLatch, Stopped
<1>3. CASE MotionTick
  <2>1. controller.estop_latched => velocity_for_tick(controller) = 0
    BY LatchedIsZero DEF TypeInv, TypeOK
  <2> QED
    BY <1>3, <2>1, Senders DEF StillInv, Latch, SameLatch
<1>4. CASE ConnectStep \/ Start
  BY <1>1, <1>4, ConnectSteady, SteadyKeeps DEF ConnectStep
<1>5. CASE CommandStep
  BY <1>1, <1>2, <1>5, LoopSteady, AnswersSteady, SteadyKeeps DEF CommandStep
<1>6. CASE PeriodicStep
  BY <1>1, <1>3, <1>6, LoopSteady, AnswersSteady, SteadyKeeps DEF PeriodicStep
<1> QED
  BY <1>4, <1>5, <1>6 DEF WorkerStep

\* Every step keeps a stopped robot still.
LEMMA StepStill == TypeInv /\ StillInv /\ [Next]_vars => StillInv'
<1> SUFFICES ASSUME TypeInv, StillInv, [Next]_vars PROVE StillInv'
  OBVIOUS
<1>0. controller \in ControllerStates /\ SameLatch(controller, controller)
  BY DEF TypeInv, TypeOK, SameLatch
<1>1. ASSUME UNCHANGED <<worker, sdk>>, estop_served' = estop_served,
             Latch \/ controller'.estop_latched
      PROVE  StillInv'
  BY <1>1 DEF StillInv, Latch, SameLatch
<1>2. ASSUME NEW r, LatchEstop(r) PROVE StillInv'
  BY Zenon, <1>0, <1>1, <1>2, OnlyEstopLatches DEF LatchEstop, historyVars
<1>3. ASSUME NEW r, MarkEstop(r) \/ RequestAuthority(r) \/ Collect(r) PROVE StillInv'
  BY <1>1, <1>3 DEF MarkEstop, RequestAuthority, Collect, historyVars, Latch,
     SameLatch
<1>4. ASSUME NEW r, NEW name, CheckMode(r, name) PROVE StillInv'
  BY <1>1, <1>4 DEF CheckMode, historyVars, Latch, SameLatch
<1>5. ASSUME NEW r, AcceptMode(r) PROVE StillInv'
  BY Zenon, <1>0, <1>1, <1>5, OnlyEstopLatches DEF AcceptMode, historyVars, Latch
<1>6. ASSUME NEW r, EnqueueMode(r) PROVE StillInv'
  <2>1. Latch
    BY Zenon, <1>0, <1>6, OnlyEstopLatches DEF EnqueueMode, Latch
  <2> QED
    BY <1>1, <1>6, <2>1 DEF EnqueueMode, historyVars
<1>7. ASSUME NEW finite, NEW v, SubmitVelocity(finite, v) PROVE StillInv'
  BY Zenon, <1>0, <1>1, <1>7, OnlyEstopLatches DEF SubmitVelocity, historyVars, Latch
<1>8. CASE ReleaseEstop
  BY <1>8 DEF ReleaseEstop, StillInv
<1>9. CASE CallerStep
  BY <1>2, <1>3, <1>4, <1>5, <1>6, <1>7, <1>8, <1>9 DEF CallerStep
<1>10. ASSUME NEW linked, NEW authority, HandleStatus(linked, authority) PROVE StillInv'
  BY <1>0, <1>1, <1>10, UpdateLatches DEF HandleStatus, Latch
<1>11. CASE ClockTick
  BY Zenon, <1>0, <1>1, <1>11, OnlyEstopLatches DEF ClockTick, historyVars, Latch
<1>12. CASE Stop
  BY <1>1, <1>12 DEF Stop, historyVars, Latch, SameLatch
<1>13. CASE UNCHANGED vars
  BY SMTT(30), <1>1, <1>13 DEF vars, Latch, SameLatch
<1> QED
  BY <1>9, <1>10, <1>11, <1>12, <1>13, WorkerStill DEF Next

\* Before start() no stop was served.
LEMMA InitStill == Init => StillInv
  BY DEF Init, StillInv

-----------------------------------------------------------------------------
(* What follows from the contract *)

\* The contract's "accepted" and "moving", under the mapping.
Accepted == {r \in Requests : caller[r] = "returned" /\ promise[r] = "waiting"}
Moving == sdk.velocity # 0

\* The inductive invariant of the contract.
ContractInv == Contract!TypeOK /\ Contract!HeldIsStill /\ Contract!NobodyLeftWaiting

\* The answers of a set of requests are answers.
LEMMA AnsweredType ==
  ASSUME Contract!TypeOK, NEW S, NEW a \in {"none", "waiting", "ok", "failed"}
  PROVE  Contract!Answered(S, a) \in [Requests -> {"none", "waiting", "ok", "failed"}]
  BY DEF Contract!TypeOK, Contract!Answered

\* Every step of the contract keeps its invariant.
LEMMA ContractStep == ContractInv /\ [Contract!Next]_(Contract!vars) => ContractInv'
<1> SUFFICES ASSUME ContractInv, [Contract!Next]_(Contract!vars) PROVE ContractInv'
  OBVIOUS
<1> USE DEF ContractInv
<1>1. ASSUME NEW r \in Requests, Contract!Ask(r) PROVE ContractInv'
  <2>1. promise' \in [Requests -> {"none", "waiting", "ok", "failed"}]
    BY <1>1, AnsweredType DEF Contract!Ask
  <2>2. QED
    BY <1>1, <2>1
    DEF Contract!Ask, Contract!Answered, Contract!TypeOK, Contract!HeldIsStill,
        Contract!NobodyLeftWaiting
<1>2. ASSUME NEW r \in Requests, Contract!Accept(r) PROVE ContractInv'
  <2>1. PICK S \in SUBSET Contract!Superseded(r) :
          /\ promise' = [Contract!Answered(S, "failed") EXCEPT ![r] = "waiting"]
          /\ Accepted' = (Accepted \ S) \cup {r}
    BY <1>2 DEF Contract!Accept, Accepted
  <2>2. promise' \in [Requests -> {"none", "waiting", "ok", "failed"}]
    BY <2>1, AnsweredType
  <2>3. QED
    BY <1>2, <2>1, <2>2
    DEF Contract!Accept, Contract!Answered, Contract!TypeOK, Contract!HeldIsStill,
        Contract!NobodyLeftWaiting
<1>3. ASSUME NEW r \in Requests, Contract!Refuse(r) PROVE ContractInv'
  <2>1. PICK S \in SUBSET Contract!Superseded(r) :
          /\ promise' = Contract!Answered(S \cup {r}, "failed")
          /\ Accepted' = Accepted \ S
    BY <1>3 DEF Contract!Refuse, Accepted
  <2>2. promise' \in [Requests -> {"none", "waiting", "ok", "failed"}]
    BY <2>1, AnsweredType
  <2>3. r \notin Accepted
    BY <1>3 DEF Contract!Refuse, Contract!Called, Contract!TypeOK, Accepted
  <2>4. QED
    BY <1>3, <2>1, <2>2, <2>3
    DEF Contract!Refuse, Contract!Answered, Contract!TypeOK, Contract!HeldIsStill,
        Contract!NobodyLeftWaiting
<1>4. ASSUME NEW r \in Requests, Contract!Collect(r) PROVE ContractInv'
  <2>1. promise' \in [Requests -> {"none", "waiting", "ok", "failed"}]
    BY <1>4, AnsweredType DEF Contract!Collect
  <2>2. r \notin Accepted
    BY <1>4 DEF Contract!Collect, Contract!TypeOK, Accepted
  <2>3. QED
    BY <1>4, <2>1, <2>2
    DEF Contract!Collect, Contract!Answered, Contract!TypeOK, Contract!HeldIsStill,
        Contract!NobodyLeftWaiting
<1>5. ASSUME NEW r \in Accepted, Contract!Succeed(r) PROVE ContractInv'
  <2>1. promise' \in [Requests -> {"none", "waiting", "ok", "failed"}]
    BY <1>5, AnsweredType DEF Contract!Succeed
  <2>2. QED
    BY <1>5, <2>1
    DEF Contract!Succeed, Contract!Answered, Contract!TypeOK, Contract!HeldIsStill,
        Contract!NobodyLeftWaiting
<1>6. ASSUME NEW S \in SUBSET Accepted, Contract!Fail(S) PROVE ContractInv'
  <2>1. promise' \in [Requests -> {"none", "waiting", "ok", "failed"}]
    BY <1>6, AnsweredType DEF Contract!Fail
  <2>2. Accepted' \subseteq {r \in Requests : promise'[r] = "waiting"}
    BY <1>6 DEF Contract!Fail, Contract!Answered, Contract!TypeOK, Accepted
  <2>3. Moving' \in BOOLEAN /\ (~Moving => ~Moving')
    <3>1. Moving \in BOOLEAN
      BY DEF Moving
    <3>2. Moving' = Moving \/ Moving' = FALSE
      BY <1>6, Zenon DEF Contract!Fail, Moving
    <3>3. CASE Moving' = Moving
      BY <3>1, <3>3
    <3>4. CASE Moving' = FALSE
      BY <3>4
    <3>5. QED
      BY <3>2, <3>3, <3>4
  <2>4. Contract!TypeOK'
    BY <1>6, <2>1, <2>2, <2>3 DEF Contract!Fail, Contract!TypeOK
  <2>5. Contract!HeldIsStill'
    BY <1>6, <2>3, Zenon DEF Contract!Fail, Contract!HeldIsStill
  <2>6. Contract!NobodyLeftWaiting'
    BY <1>6 DEF Contract!Fail, Contract!NobodyLeftWaiting
  <2>7. QED
    BY <2>4, <2>5, <2>6
<1>7. CASE Contract!Disconnect
  <2>1. promise' \in [Requests -> {"none", "waiting", "ok", "failed"}]
    BY <1>7, AnsweredType DEF Contract!Disconnect
  <2>2. QED
    BY <1>7, <2>1
    DEF Contract!Disconnect, Contract!TypeOK, Contract!HeldIsStill,
        Contract!NobodyLeftWaiting
<1>8. CASE Contract!Connect \/ Contract!Release \/ Contract!Move \/ Contract!Halt
  <2>1. Contract!TypeOK'
    BY <1>8
    DEF Contract!Connect, Contract!Release, Contract!Move, Contract!Halt,
        Contract!TypeOK
  <2>2. Contract!HeldIsStill'
    BY <1>8, Zenon
    DEF Contract!Connect, Contract!Release, Contract!Move, Contract!Halt,
        Contract!HeldIsStill
  <2>3. Contract!NobodyLeftWaiting'
    BY <1>8, Zenon
    DEF Contract!Connect, Contract!Release, Contract!Move, Contract!Halt,
        Contract!NobodyLeftWaiting
  <2>4. QED
    BY <2>1, <2>2, <2>3
<1>9. CASE UNCHANGED Contract!vars
  BY <1>9
  DEF Contract!vars, Contract!TypeOK, Contract!HeldIsStill, Contract!NobodyLeftWaiting
<1>10. QED
  BY <1>1, <1>2, <1>3, <1>4, <1>5, <1>6, <1>7, <1>8, <1>9 DEF Contract!Next, Accepted

\* Where the contract is kept, its invariant holds.
LEMMA ContractInvariance == Contract!Spec => []ContractInv
<1>1. Contract!Init => ContractInv
  BY DEF Contract!Init, ContractInv, Contract!TypeOK, Contract!HeldIsStill,
         Contract!NobodyLeftWaiting
<1>2. QED
  BY <1>1, ContractStep, PTL DEF Contract!Spec

\* Where the contract is kept, an answer stays until it was read.
LEMMA ContractAnswers == Contract!Spec => Contract!AnswerIsFinal
<1> DEFINE Final ==
      \A r \in Requests :
        promise[r] \in {"ok", "failed"} => promise'[r] \in {promise[r], "none"}
<1>1. ContractInv /\ [Contract!Next]_(Contract!vars) => [Final]_(Contract!vars)
  <2> SUFFICES ASSUME ContractInv, Contract!Next,
                      NEW q \in Requests, promise[q] \in {"ok", "failed"}
               PROVE  promise'[q] \in {promise[q], "none"}
    OBVIOUS
  <2>1. q \notin Accepted
    BY DEF ContractInv, Contract!TypeOK, Accepted
  <2>2. ASSUME NEW r \in Requests,
               \/ Contract!Ask(r) \/ Contract!Accept(r)
               \/ Contract!Refuse(r) \/ Contract!Collect(r)
        PROVE  promise'[q] \in {promise[q], "none"}
    BY <2>1, <2>2
   
    DEF Contract!Ask, Contract!Accept, Contract!Refuse, Contract!Collect,
        Contract!Called, Contract!Superseded, Contract!Answered, ContractInv,
            Contract!TypeOK
  <2>3. ASSUME NEW r \in Accepted, Contract!Succeed(r) PROVE promise'[q] = promise[q]
    BY <2>1, <2>3 DEF Contract!Succeed, Contract!Answered
  <2>4. ASSUME NEW S \in SUBSET Accepted,
      Contract!Fail(S) PROVE promise'[q] = promise[q]
    BY <2>1, <2>4 DEF Contract!Fail, Contract!Answered
  <2>5. CASE Contract!Disconnect
    BY <2>1, <2>5 DEF Contract!Disconnect, Contract!Answered
  <2>6. CASE Contract!Halt \/ Contract!Move \/ Contract!Connect \/ Contract!Release
    BY <2>6 DEF Contract!Halt, Contract!Move, Contract!Connect, Contract!Release
  <2>7. QED
    BY <2>2, <2>3, <2>4, <2>5, <2>6 DEF Contract!Next, Accepted
<1>2. QED
  BY <1>1, ContractInvariance, PTL DEF Contract!Spec, Contract!AnswerIsFinal
=============================================================================
