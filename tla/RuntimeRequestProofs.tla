------------------------- MODULE RuntimeRequestProofs -------------------------
(***************************************************************************)
(* The runtime's requests, for any sets of callers and any queue capacity: *)
(* every awaited future has exactly one holder that will answer it, every  *)
(* pending transition has a carrier, and the runtime implements the        *)
(* contract and so has what follows from it.                               *)
(***************************************************************************)
EXTENDS RuntimeProofs

\* The requests a queue of commands is about.
Reqs(q) == {q[i].req : i \in DOMAIN q}

\* No two commands of the queue are about the same request.
Distinct(q) == \A i, j \in DOMAIN q : q[i].req = q[j].req => i = j

\* The requests in command_queue_.
Queued == Reqs(shared.command_queue)

\* The requests the runtime holds: their calls have returned, and the queue, the
\* mark or the worker will answer them.
Held ==
  {r \in Requests : \/ r \in Queued
                    \/ r = shared.estop_promise
                    \/ r = worker.cur.req
                    \/ r = worker.mode_transition.promise}

\* The requests the worker may be serving at each place of its loop.
ServedAt(pc) ==
  IF pc \in {"estop_drain", "estop_gate"} THEN EstopRequests
  ELSE IF pc \in {"send_zero", "send_damping"} THEN EstopRequests \cup {NoRequest}
  ELSE IF pc = "authority" THEN AuthorityRequests
  ELSE IF pc \in {"mode_zero", "mode_set"} THEN ModeRequests
  ELSE {NoRequest}

\* No request is held twice, and the worker serves one of the kind its place in
\* the loop is for.
HeldOnce ==
  /\ Distinct(shared.command_queue)
  /\ worker.cur.req \notin Queued
  /\ worker.mode_transition.promise \notin Queued
  /\ worker.cur.req # NoRequest =>
       worker.cur.req \notin {shared.estop_promise, worker.mode_transition.promise}
  /\ worker.cur.req \in ServedAt(worker.pc)
  /\ worker.pc \in {"mode_zero", "mode_set"} =>
       worker.mode_transition.promise = NoRequest

\* A call between two of its critical sections.
Running == {"checked", "accepted", "latched"}

\* A held request's call has returned, an idle caller has no answer, and those
\* awaited are the held ones and the ones whose call is running.
Awaited ==
  \A r \in Requests :
    /\ r \in Held => caller[r] = "returned"
    /\ caller[r] = "idle" => promise[r] = "none"
    /\ promise[r] = "waiting" <=> caller[r] \in Running \/ r \in Held

\* The inductive invariant about requests.
RequestInv == HeldOnce /\ Awaited

-----------------------------------------------------------------------------
(* Queues and answers *)

\* A pushed command adds its request.
LEMMA ReqsPush ==
  ASSUME NEW q \in Seq(Commands), NEW x \in Commands
  PROVE  /\ Reqs(Append(q, x)) = Reqs(q) \cup {x.req}
         /\ Distinct(q) /\ x.req \notin Reqs(q) => Distinct(Append(q, x))
<1> DEFINE p == Append(q, x)
<1>1. /\ p \in Seq(Commands) /\ Len(p) = Len(q) + 1
      /\ DOMAIN q = 1..Len(q) /\ DOMAIN p = 1..(Len(q) + 1) /\ Len(q) \in Nat
      /\ \A i \in 1..Len(q) : p[i] = q[i]
      /\ p[Len(q) + 1] = x
  OBVIOUS
<1> HIDE DEF p
<1>2. Reqs(p) = Reqs(q) \cup {x.req}
  BY <1>1 DEF Reqs
<1>3. Distinct(q) /\ x.req \notin Reqs(q) => Distinct(p)
  BY <1>1 DEF Reqs, Distinct
<1> QED
  BY <1>2, <1>3 DEF p

\* A popped command takes its request along.
LEMMA ReqsPop ==
  ASSUME NEW q \in Seq(Commands), q # <<>>, Distinct(q)
  PROVE  /\ Head(q).req \in Reqs(q)
         /\ Reqs(Tail(q)) = Reqs(q) \ {Head(q).req}
         /\ Distinct(Tail(q))
<1> DEFINE p == Tail(q)
<1>1. /\ Len(q) \in Nat \ {0} /\ DOMAIN q = 1..Len(q) /\ DOMAIN p = 1..(Len(q) - 1)
      /\ \A i \in 1..(Len(q) - 1) : p[i] = q[i + 1]
      /\ Head(q) = q[1]
  OBVIOUS
<1> HIDE DEF p
<1>2. Head(q).req \in Reqs(q)
  BY <1>1 DEF Reqs
<1>3. \A i \in 1..Len(q) : i # 1 => i - 1 \in 1..(Len(q) - 1) /\ p[i - 1] = q[i]
  BY <1>1
<1>4. Reqs(p) \subseteq Reqs(q) \ {Head(q).req}
  BY <1>1 DEF Reqs, Distinct
<1>5. Reqs(q) \ {Head(q).req} \subseteq Reqs(p)
  BY <1>1, <1>3 DEF Reqs
<1>6. Distinct(p)
  BY SMTT(30), <1>1 DEF Distinct
<1> QED
  BY <1>2, <1>4, <1>5, <1>6 DEF p

\* The empty queue is about nobody.
LEMMA ReqsEmpty == Reqs(<<>>) = {} /\ Distinct(<<>>)
  BY DEF Reqs, Distinct

\* Who may be held where.
LEMMA Holders ==
  ASSUME TypeInv
  PROVE  /\ Queued \subseteq ModeRequests \cup AuthorityRequests
         /\ shared.estop_promise \in EstopRequests \cup {NoRequest}
         /\ worker.cur.req \in Requests \cup {NoRequest}
         /\ worker.mode_transition.promise \in ModeRequests \cup {NoRequest}
         /\ shared.command_queue \in Seq(Commands)
<1>1. shared \in SharedStates /\ worker \in WorkerStates
  BY DEF TypeInv, TypeOK
<1>2. shared.command_queue \in Seq(Commands)
      /\ shared.estop_promise \in EstopRequests \cup {NoRequest}
  BY <1>1 DEF SharedStates
<1>3. \A i \in DOMAIN shared.command_queue :
        shared.command_queue[i].req \in ModeRequests \cup AuthorityRequests
  <2>1. \A i \in DOMAIN shared.command_queue : shared.command_queue[i] \in Commands
    BY <1>2
  <2> QED
    BY <2>1 DEF Commands
<1>4. worker.cur \in CurrentCommands /\ worker.mode_transition \in Transitions
  BY <1>1 DEF WorkerStates
<1> QED
  BY <1>2, <1>3, <1>4 DEF Queued, Reqs, CurrentCommands, Transitions

\* The requests in A get the answer a.
Given(A, a) == [r \in Requests |-> IF r \in A THEN a ELSE promise[r]]

\* set_promise answers a request that is awaited.
LEMMA GivenOne ==
  ASSUME TypeInv, NEW r, r \in Requests => promise[r] = "waiting", NEW a
  PROVE  set_promise(promise, r, a) = Given({r} \cap Requests, a)
<1>1. promise \in [Requests -> Answers]
  BY DEF TypeInv, TypeOK, Answers
<1> QED
  BY Zenon, <1>1 DEF set_promise, Given

\* set_promise after others were failed.
LEMMA GivenMore ==
  ASSUME TypeInv, NEW r, r \in Requests => promise[r] = "waiting", NEW A
  PROVE  set_promise(Given(A, "failed"), r, "failed") =
           Given(A \cup ({r} \cap Requests), "failed")
  BY DEF set_promise, Given

\* Answering nobody changes no answer.
LEMMA GivenNone == ASSUME TypeInv, NEW a PROVE Given({}, a) = promise
  BY DEF Given, TypeInv, TypeOK

\* The worker answers the requests in A, which it held, and none else.
Settles(A, a) ==
  /\ A \subseteq Held
  /\ Held' = Held \ A
  /\ promise' = Given(A, a)
  /\ UNCHANGED caller

\* Answering held requests leaves exactly the held ones awaited.
LEMMA SettlesKeeps ==
  ASSUME TypeInv, Awaited, NEW A, NEW a \in {"ok", "failed"}, Settles(A, a)
  PROVE  Awaited'
<1> SUFFICES ASSUME NEW r \in Requests
             PROVE  /\ r \in Held' => caller'[r] = "returned"
                    /\ caller'[r] = "idle" => promise'[r] = "none"
                    /\ promise'[r] = "waiting" <=> caller'[r] \in Running \/ r \in Held'
  BY DEF Awaited
<1>1. promise'[r] = IF r \in A THEN a ELSE promise[r]
  BY DEF Settles, Given
<1>2. caller' = caller /\ (r \in Held' <=> r \in Held /\ r \notin A)
      /\ (r \in A => r \in Held)
  BY DEF Settles
<1>3. /\ r \in Held => caller[r] = "returned"
      /\ caller[r] = "idle" => promise[r] = "none"
      /\ promise[r] = "waiting" <=> caller[r] \in Running \/ r \in Held
  BY DEF Awaited
<1> QED
  BY <1>1, <1>2, <1>3 DEF Running

\* A step that concerns neither queue, mark, served command nor transition.
Undisturbed ==
  /\ shared'.command_queue = shared.command_queue
  /\ shared'.estop_promise = shared.estop_promise
  /\ worker'.cur = worker.cur
  /\ worker'.mode_transition = worker.mode_transition
  /\ UNCHANGED <<promise, caller>>

\* Such a step answers nobody.
LEMMA KeepsAll ==
  ASSUME TypeInv, HeldOnce, Undisturbed,
         worker.cur.req \in ServedAt(worker'.pc),
         worker'.pc \in {"mode_zero", "mode_set"} =>
           worker.mode_transition.promise = NoRequest
  PROVE  HeldOnce' /\ Settles({}, "failed")
<1> USE DEF Undisturbed
<1>1. Held' = Held
  BY DEF Held, Queued
<1>2. HeldOnce'
  BY DEF HeldOnce, Queued
<1> QED
  BY <1>1, <1>2, GivenNone DEF Settles

-----------------------------------------------------------------------------
(* The worker *)

\* Between requests: the worker serves nobody before or after the step.
Idle == {pc \in PCs : ServedAt(pc) = {NoRequest}}

\* The places between requests.
LEMMA IdlePlaces ==
  /\ OfflinePCs \cup {"wait", "actuate", "estop", "settle", "settle_abort", "pop",
       "flag", "heartbeat", "tick", "tick_send", "deadline", "poll", "poll_apply",
       "poll_settle", "poll_abort", "poll_check", "poll_complete", "session_end"}
       \subseteq Idle
  /\ \A pc \in Idle : pc \notin {"mode_zero", "mode_set"} /\ ServedAt(pc) = {NoRequest}
<1>1. ASSUME NEW pc \in Idle PROVE pc \notin {"mode_zero", "mode_set"}
  <2>1. NoRequest \in ServedAt(pc) /\ NoRequest \notin ModeRequests
    BY RuntimeAssumption, RequestSets DEF Idle
  <2> QED
    BY <2>1 DEF ServedAt
<1> QED
  BY <1>1 DEF Idle, ServedAt, PCs, OfflinePCs

\* Steps of the worker that answer nobody, outside a session ...
LEMMA ConnectQuiet ==
  ASSUME TypeInv, HeldOnce,
         \/ LoopHead \/ Start \/ Backoff \/ InvalidateCaches
         \/ InvalidateController \/ Deinit
         \/ \E ok \in BOOLEAN : Preflight(ok) \/ SdkInit(ok) \/ Subscribe(ok)
  PROVE  HeldOnce' /\ Settles({}, "failed") /\ Undisturbed
<1>0. worker \in WorkerStates /\ shared \in SharedStates
  BY DEF TypeInv, TypeOK
<1>1. worker.pc \in OfflinePCs /\ worker'.pc \in OfflinePCs \cup {"wait"}
  BY Zenon, <1>0 DEF LoopHead, Start, Backoff, InvalidateCaches, InvalidateController,
     Deinit, Preflight, SdkInit, Subscribe, At, Goto, WorkerStates, OfflinePCs
<1>2. worker'.cur = worker.cur /\ worker'.mode_transition = worker.mode_transition
  BY Zenon, <1>0 DEF LoopHead, Start, Backoff, InvalidateCaches, InvalidateController,
     Deinit, Preflight, SdkInit, Subscribe, Goto, WorkerStates
<1>3. /\ shared'.command_queue = shared.command_queue
      /\ shared'.estop_promise = shared.estop_promise
  BY ZenonT(40), <1>0 DEF LoopHead, Start, Backoff, InvalidateCaches, InvalidateController,
     Deinit, Preflight, SdkInit, Subscribe, SharedStates
<1>4. UNCHANGED <<promise, caller>>
  BY DEF LoopHead, Start, Backoff, InvalidateCaches, InvalidateController,
     Deinit, Preflight, SdkInit, Subscribe
<1>5. worker.cur.req \in ServedAt(worker'.pc) /\ worker'.pc \notin {"mode_zero", "mode_set"}
  BY <1>1, IdlePlaces DEF HeldOnce
<1> QED
  BY <1>2, <1>3, <1>4, <1>5, KeepsAll DEF Undisturbed

\* ... and inside one.
LEMMA LoopQuiet ==
  ASSUME TypeInv, HeldOnce,
         \/ Wait \/ Settle \/ TakeRefresh \/ SkipMotion \/ MotionTick
         \/ NotExpired \/ SkipPoll \/ ApplySnapshot \/ PollSettle
         \/ \E outcome \in {"skip", "ok", "fail"} : Heartbeat(outcome)
         \/ \E ok \in BOOLEAN : SendTick(ok)
         \/ \E s \in Snapshots : TakeSnapshot(s)
  PROVE  HeldOnce' /\ Settles({}, "failed") /\ Undisturbed
<1>0. worker \in WorkerStates /\ shared \in SharedStates
  BY DEF TypeInv, TypeOK
<1>1. ASSUME \/ Wait \/ Settle \/ SkipMotion \/ NotExpired \/ SkipPoll
             \/ ApplySnapshot \/ PollSettle
      PROVE  /\ worker.pc \in Idle /\ worker'.pc \in Idle
             /\ worker'.cur = worker.cur
             /\ worker'.mode_transition = worker.mode_transition
  BY <1>0, <1>1, IdlePlaces
  DEF Wait, Settle, SkipMotion, NotExpired, SkipPoll, ApplySnapshot, PollSettle,
      At, Goto, WorkerStates
<1>2. ASSUME \/ TakeRefresh \/ MotionTick
             \/ \E ok \in BOOLEAN : SendTick(ok)
             \/ \E s \in Snapshots : TakeSnapshot(s)
      PROVE  /\ worker.pc \in Idle /\ worker'.pc \in Idle
             /\ worker'.cur = worker.cur
             /\ worker'.mode_transition = worker.mode_transition
  BY ZenonT(40), <1>0, <1>2, IdlePlaces
  DEF TakeRefresh, MotionTick, SendTick, TakeSnapshot, At, WorkerStates
<1>3. ASSUME NEW outcome \in {"skip", "ok", "fail"}, Heartbeat(outcome)
      PROVE  /\ worker.pc \in Idle /\ worker'.pc \in Idle
             /\ worker'.cur = worker.cur
             /\ worker'.mode_transition = worker.mode_transition
  BY <1>0, <1>3, IdlePlaces DEF Heartbeat, At, WorkerStates
<1>4. /\ shared'.command_queue = shared.command_queue
      /\ shared'.estop_promise = shared.estop_promise
  BY ZenonT(40), <1>0 DEF Wait, Settle, SkipMotion, NotExpired, SkipPoll, ApplySnapshot,
     PollSettle, TakeRefresh, MotionTick, SendTick, TakeSnapshot, Heartbeat,
     SharedStates
<1>5. UNCHANGED <<promise, caller>>
  BY Zenon DEF Wait, Settle, SkipMotion, NotExpired, SkipPoll, ApplySnapshot,
     PollSettle, TakeRefresh, MotionTick, SendTick, TakeSnapshot, Heartbeat
<1>6. /\ worker.pc \in Idle /\ worker'.pc \in Idle
      /\ worker'.cur = worker.cur
      /\ worker'.mode_transition = worker.mode_transition
  BY <1>1, <1>2, <1>3
<1>7. worker.cur.req \in ServedAt(worker'.pc) /\ worker'.pc \notin {"mode_zero", "mode_set"}
  BY <1>6, IdlePlaces DEF HeldOnce
<1> QED
  BY <1>4, <1>5, <1>6, <1>7, KeepsAll DEF Undisturbed

\* Steps that carry the served request on.
LEMMA ServingQuiet ==
  ASSUME TypeInv, HeldOnce,
         \/ Actuate \/ SendZero(TRUE) \/ SendZero(FALSE) \/ ZeroBeforeMode(TRUE)
  PROVE  HeldOnce' /\ Settles({}, "failed") /\ Undisturbed
<1>0. worker \in WorkerStates
  BY DEF TypeInv, TypeOK
<1>1. /\ \/ worker.pc = "actuate" /\ worker'.pc \in {"send_zero", "session_end"}
         \/ worker.pc = "send_zero" /\ worker'.pc = "send_damping"
         \/ worker.pc = "mode_zero" /\ worker'.pc = "mode_set"
      /\ worker'.cur = worker.cur
      /\ worker'.mode_transition = worker.mode_transition
  BY Zenon, <1>0 DEF Actuate, SendZero, ZeroBeforeMode, At, Goto, WorkerStates
<1>2. UNCHANGED <<shared, promise, caller>>
  BY Zenon DEF Actuate, SendZero, ZeroBeforeMode
<1>3. /\ worker.cur.req \in ServedAt(worker'.pc)
      /\ worker'.pc \in {"mode_zero", "mode_set"} =>
           worker.mode_transition.promise = NoRequest
  BY <1>1 DEF HeldOnce, ServedAt
<1> QED
  BY <1>1, <1>2, <1>3, KeepsAll DEF Undisturbed

\* The worker is done with the command it serves, with the armed transition, or
\* with both.
LEMMA Frees ==
  ASSUME TypeInv, HeldOnce, NEW A,
         UNCHANGED <<shared, caller>>,
         worker'.cur.req \in {worker.cur.req, NoRequest},
         worker'.mode_transition.promise \in {worker.mode_transition.promise, NoRequest},
         worker'.cur.req \in ServedAt(worker'.pc),
         worker'.pc \notin {"mode_zero", "mode_set"},
         A = ({worker.cur.req, worker.mode_transition.promise} \
                {worker'.cur.req, worker'.mode_transition.promise}) \cap Requests
  PROVE  HeldOnce' /\ A \subseteq Held /\ Held' = Held \ A
<1> DEFINE c == worker.cur.req
           t == worker.mode_transition.promise
           e == shared.estop_promise
<1>1. /\ Queued \subseteq ModeRequests \cup AuthorityRequests
      /\ e \in EstopRequests \cup {NoRequest}
      /\ t \in ModeRequests \cup {NoRequest}
      /\ NoRequest \notin Requests
      /\ ModeRequests \cap EstopRequests = {} /\ AuthorityRequests \cap EstopRequests = {}
      /\ c \notin Queued /\ t \notin Queued /\ (c # NoRequest => c \notin {e, t})
  BY Holders, RuntimeAssumption DEF HeldOnce
<1>2. Queued' = Queued /\ shared'.estop_promise = e
  BY DEF Queued
<1>3. NoRequest \notin Queued
  BY <1>1, RequestSets
<1>4. HeldOnce'
  BY <1>1, <1>2, <1>3 DEF HeldOnce
<1>5. A \subseteq Held
  BY DEF Held
<1>6. ASSUME NEW r \in Requests PROVE r \in Held' <=> r \in Held /\ r \notin A
  <2>1. r \in Held' <=> \/ r \in Queued \/ r = e
                        \/ r = worker'.cur.req \/ r = worker'.mode_transition.promise
    BY <1>2 DEF Held
  <2>2. r \in Held <=> r \in Queued \/ r = e \/ r = c \/ r = t
    BY DEF Held
  <2>3. r # NoRequest /\ (r \in Queued => r # c /\ r # t) /\ (r = e => r # c /\ r # t)
    BY <1>1
  <2> QED
    BY <2>1, <2>2, <2>3
<1>7. Held' \subseteq Requests /\ Held \subseteq Requests
  BY DEF Held
<1>8. Held' = Held \ A
  BY <1>6, <1>7
<1> QED
  BY <1>4, <1>5, <1>8

\* What the worker serves, and the armed transition, are awaited.
LEMMA ServedAwaited ==
  ASSUME TypeInv, Awaited
  PROVE  /\ worker.cur.req \in Requests => promise[worker.cur.req] = "waiting"
         /\ worker.mode_transition.promise \in Requests =>
              promise[worker.mode_transition.promise] = "waiting"
         /\ shared.estop_promise \in Requests =>
              promise[shared.estop_promise] = "waiting"
  BY DEF Awaited, Held

\* The empty command and the empty transition are about nobody.
LEMMA NobodyServed == NoCommand.req = NoRequest /\ NoTransition.promise = NoRequest
  BY DEF NoCommand, NoTransition

\* fail_mode_transition answers the armed transition's request.
LEMMA FailTransition ==
  ASSUME TypeInv, Awaited
  PROVE  fail_mode_transition(promise) =
           Given({worker.mode_transition.promise} \cap Requests, "failed")
  BY ServedAwaited, GivenOne DEF fail_mode_transition

\* fail_mode_transition answers the armed transition.
LEMMA AbortSettles ==
  ASSUME TypeInv, RequestInv, NEW from \in Idle, NEW to \in Idle,
         AbortTransition(from, to)
  PROVE  HeldOnce' /\ \E A : Settles(A, "failed")
<1>0. worker \in WorkerStates
  BY DEF TypeInv, TypeOK
<1> DEFINE A == {worker.mode_transition.promise} \cap Requests
<1>1. /\ worker.pc = from /\ worker'.pc = to /\ worker'.cur = worker.cur
      /\ worker'.mode_transition.promise = NoRequest
  BY <1>0, NobodyServed DEF AbortTransition, At, WorkerStates
<1>2. worker.cur.req = NoRequest
  BY <1>1, IdlePlaces DEF RequestInv, HeldOnce
<1>3. HeldOnce' /\ A \subseteq Held /\ Held' = Held \ A
  <2>1. A = ({worker.cur.req, worker.mode_transition.promise} \
                {worker'.cur.req, worker'.mode_transition.promise}) \cap Requests
    BY <1>1, <1>2, RuntimeAssumption
  <2> QED
    BY Zenon, <1>1, <1>2, <2>1, IdlePlaces, Frees DEF AbortTransition, RequestInv
<1> QED
  BY <1>3, FailTransition DEF AbortTransition, Settles, RequestInv

\* The served command is answered, by whatever step is through with it.
LEMMA ServedSettles ==
  ASSUME TypeInv, RequestInv, NEW a,
         UNCHANGED <<shared, caller>>,
         worker'.cur = NoCommand, worker'.pc \in Idle \cup {"session_end"},
         worker'.mode_transition = worker.mode_transition,
         promise' = set_promise(promise, worker.cur.req, a)
  PROVE  HeldOnce' /\ Settles({worker.cur.req} \cap Requests, a)
<1> DEFINE A == {worker.cur.req} \cap Requests
<1>1. worker'.cur.req = NoRequest /\ worker'.pc \in Idle
  BY NobodyServed, IdlePlaces
<1>2. HeldOnce' /\ A \subseteq Held /\ Held' = Held \ A
  <2>1. A = ({worker.cur.req, worker.mode_transition.promise} \
                {worker'.cur.req, worker'.mode_transition.promise}) \cap Requests
    BY <1>1, RuntimeAssumption DEF RequestInv, HeldOnce
  <2>2. /\ worker'.cur.req \in ServedAt(worker'.pc)
        /\ worker'.pc \notin {"mode_zero", "mode_set"}
    BY <1>1, IdlePlaces
  <2>3. worker'.mode_transition.promise = worker.mode_transition.promise
    OBVIOUS
  <2> HIDE DEF A
  <2> QED
    BY <1>1, <2>1, <2>2, <2>3, Frees DEF RequestInv
<1>3. promise' = Given(A, a)
  BY ServedAwaited, GivenOne DEF RequestInv
<1> QED
  BY <1>2, <1>3 DEF Settles

\* A mode command that failed is answered.
LEMMA FailModeSettles ==
  ASSUME TypeInv, RequestInv, FailMode, UNCHANGED <<shared, caller>>
  PROVE  HeldOnce' /\ Settles({worker.cur.req} \cap Requests, "failed")
<1>1. /\ worker'.cur = NoCommand /\ worker'.pc = "flag"
      /\ worker'.mode_transition = worker.mode_transition
  BY DEF FailMode, TypeInv, TypeOK, WorkerStates
<1> QED
  BY <1>1, IdlePlaces, ServedSettles DEF FailMode

\* Without link or authority the stop is answered as failed.
LEMMA EstopGateSettles ==
  ASSUME TypeInv, RequestInv, EstopGate
  PROVE  HeldOnce' /\ \E A : Settles(A, "failed")
<1>0. worker \in WorkerStates
  BY DEF TypeInv, TypeOK
<1>1. CASE MayActuate
  <2>1. /\ worker.pc = "estop_gate" /\ worker'.pc = "send_zero"
        /\ worker'.cur = worker.cur /\ worker'.mode_transition = worker.mode_transition
    BY <1>0, <1>1 DEF EstopGate, At, Goto, WorkerStates
  <2>2. worker.cur.req \in ServedAt(worker'.pc)
    BY <2>1 DEF RequestInv, HeldOnce, ServedAt
  <2>3. UNCHANGED <<promise, caller, shared>>
    BY <1>1 DEF EstopGate
  <2> QED
    BY <2>1, <2>2, <2>3, KeepsAll DEF RequestInv, Undisturbed
<1>2. CASE ~MayActuate
  <2>1. /\ worker'.cur = NoCommand /\ worker'.pc = "settle"
        /\ worker'.mode_transition = worker.mode_transition
    BY Zenon, <1>0, <1>2 DEF EstopGate, WorkerStates
  <2> QED
    BY <1>2, <2>1, IdlePlaces, ServedSettles DEF EstopGate
<1> QED
  BY <1>1, <1>2

\* The stop is answered with the outcome of zero and damping.
LEMMA DampingSettles ==
  ASSUME TypeInv, RequestInv, NEW ok \in BOOLEAN, SendDamping(ok)
  PROVE  /\ HeldOnce'
         /\ Settles({worker.cur.req} \cap Requests,
                    IF Stopped(ok) THEN "ok" ELSE "failed")
<1>0. worker \in WorkerStates
  BY DEF TypeInv, TypeOK
<1>1. /\ worker'.cur = NoCommand /\ worker'.pc \in {"settle", "session_end"}
      /\ worker'.mode_transition = worker.mode_transition
  BY <1>0 DEF SendDamping, WorkerStates
<1>2. promise' = set_promise(promise, worker.cur.req,
                             IF Stopped(ok) THEN "ok" ELSE "failed")
      /\ UNCHANGED <<shared, caller>>
  BY DEF SendDamping
<1> QED
  BY <1>1, <1>2, IdlePlaces, ServedSettles

\* An authority command is answered; an exception also fails the transition.
LEMMA AuthoritySettles ==
  ASSUME TypeInv, RequestInv, NEW outcome \in {"ok", "fail", "throw"},
         ExecuteAuthority(outcome)
  PROVE  /\ HeldOnce'
         /\ IF outcome = "ok" THEN Settles({worker.cur.req} \cap Requests, "ok")
            ELSE \E A : Settles(A, "failed")
<1>0. worker \in WorkerStates
  BY DEF TypeInv, TypeOK
<1>1. worker'.cur = NoCommand /\ worker'.pc = "flag" /\ UNCHANGED <<shared, caller>>
  BY <1>0 DEF ExecuteAuthority, WorkerStates
<1>2. CASE outcome # "throw"
  <2>1. /\ worker'.mode_transition = worker.mode_transition
        /\ promise' = set_promise(promise, worker.cur.req,
                                  IF outcome = "ok" THEN "ok" ELSE "failed")
    BY <1>0, <1>2 DEF ExecuteAuthority, WorkerStates
  <2>2. HeldOnce' /\ Settles({worker.cur.req} \cap Requests,
                             IF outcome = "ok" THEN "ok" ELSE "failed")
    BY <1>1, <2>1, IdlePlaces, ServedSettles
  <2> QED
    BY <2>2
<1>3. CASE outcome = "throw"
  <2> DEFINE T == {worker.mode_transition.promise} \cap Requests
             A == T \cup ({worker.cur.req} \cap Requests)
  <2>1. /\ worker'.mode_transition = NoTransition
        /\ promise' = set_promise(fail_mode_transition(promise), worker.cur.req, "failed")
    BY <1>0, <1>3 DEF ExecuteAuthority, WorkerStates
  <2>2. promise' = Given(A, "failed")
    BY <2>1, FailTransition, ServedAwaited, GivenMore DEF RequestInv
  <2>3. /\ worker'.cur.req = NoRequest /\ worker'.mode_transition.promise = NoRequest
        /\ worker'.pc \in Idle
    BY <1>1, <2>1, NobodyServed, IdlePlaces
  <2>4. A = ({worker.cur.req, worker.mode_transition.promise} \
                {worker'.cur.req, worker'.mode_transition.promise}) \cap Requests
    BY <2>3, RuntimeAssumption
  <2>5. HeldOnce' /\ A \subseteq Held /\ Held' = Held \ A
    BY Zenon, <1>1, <2>3, <2>4, IdlePlaces, Frees DEF RequestInv
  <2> QED
    BY <1>1, <1>3, <2>2, <2>5 DEF Settles
<1> QED
  BY <1>2, <1>3

\* The armed transition is answered or dropped after a poll.
LEMMA PollSettles ==
  ASSUME TypeInv, RequestInv, PollCheck \/ PollComplete
  PROVE  /\ HeldOnce'
         /\ PollCheck => \E A : Settles(A, "failed")
         /\ PollComplete =>
              Settles({worker.mode_transition.promise} \cap Requests, "ok")
<1>0. worker \in WorkerStates
  BY DEF TypeInv, TypeOK
<1> DEFINE T == {worker.mode_transition.promise} \cap Requests
<1>1. /\ worker.pc \in {"poll_check", "poll_complete"}
      /\ worker'.pc \in {"poll_complete", "wait"}
      /\ worker'.cur = worker.cur /\ UNCHANGED <<shared, caller>>
  BY Zenon, <1>0 DEF PollCheck, PollComplete, At, WorkerStates
<1>2. worker.cur.req = NoRequest /\ worker'.pc \in Idle
  BY <1>1, IdlePlaces DEF RequestInv, HeldOnce
<1>3. ASSUME worker'.mode_transition = NoTransition
      PROVE  HeldOnce' /\ T \subseteq Held /\ Held' = Held \ T
  <2>1. T = ({worker.cur.req, worker.mode_transition.promise} \
                {worker'.cur.req, worker'.mode_transition.promise}) \cap Requests
    BY <1>1, <1>2, <1>3, NobodyServed, RuntimeAssumption
  <2> QED
    BY Zenon, <1>1, <1>2, <1>3, <2>1, NobodyServed, IdlePlaces, Frees DEF RequestInv
<1>4. CASE PollComplete
  <2>1. /\ worker'.mode_transition = NoTransition
        /\ promise' = set_promise(promise, worker.mode_transition.promise, "ok")
    BY <1>0, <1>4 DEF PollComplete, WorkerStates
  <2>2. promise' = Given(T, "ok")
    BY <2>1, ServedAwaited, GivenOne DEF RequestInv
  <2>3. worker.pc = "poll_complete"
    BY <1>4 DEF PollComplete, At
  <2>4. ~PollCheck
    BY <2>3 DEF PollCheck, At
  <2> QED
    BY <1>1, <1>3, <2>1, <2>2, <2>4 DEF Settles
<1>5. CASE PollCheck /\ Orphaned
  <2>1. /\ worker'.mode_transition = NoTransition
        /\ promise' = fail_mode_transition(promise)
    BY <1>0, <1>5 DEF PollCheck, WorkerStates
  <2>2. promise' = Given(T, "failed")
    BY <2>1, FailTransition DEF RequestInv
  <2>3. ~PollComplete
    BY <1>5 DEF PollCheck, PollComplete, At
  <2> QED
    BY <1>1, <1>3, <2>1, <2>2, <2>3 DEF Settles
<1>6. CASE PollCheck /\ ~Orphaned
  <2>1. /\ worker'.mode_transition = worker.mode_transition
        /\ promise' = promise
    BY <1>0, <1>6 DEF PollCheck, WorkerStates
  <2>2. ~PollComplete
    BY <1>6 DEF PollCheck, PollComplete, At
  <2>3. HeldOnce' /\ Settles({}, "failed")
    BY <1>1, <1>2, <2>1, IdlePlaces, KeepsAll DEF RequestInv, Undisturbed
  <2> QED
    BY <2>2, <2>3
<1> QED
  BY <1>4, <1>5, <1>6

\* The mark passes to the worker and the armed transition fails.
LEMMA TakeEstopSettles ==
  ASSUME TypeInv, RequestInv, TakeEstop
  PROVE  HeldOnce' /\ \E A : Settles(A, "failed")
<1>0. worker \in WorkerStates /\ shared \in SharedStates
  BY DEF TypeInv, TypeOK
<1>1. worker.pc = "estop" /\ worker.cur.req = NoRequest
  BY IdlePlaces DEF TakeEstop, At, RequestInv, HeldOnce
<1>2. CASE shared.estop_promise = NoRequest
  <2>1. /\ worker'.pc = "settle" /\ worker'.cur = worker.cur
        /\ worker'.mode_transition = worker.mode_transition
    BY <1>0, <1>2 DEF TakeEstop, Goto, WorkerStates
  <2>2. UNCHANGED <<promise, caller, shared>>
    BY <1>2 DEF TakeEstop
  <2> QED
    BY <1>1, <2>1, <2>2, IdlePlaces, KeepsAll DEF RequestInv, Undisturbed
<1>3. CASE shared.estop_promise # NoRequest
  <2> DEFINE e == shared.estop_promise
             t == worker.mode_transition.promise
             A == {t} \cap Requests
  <2>1. /\ worker'.pc = "estop_drain" /\ worker'.cur.req = e
        /\ worker'.mode_transition.promise = NoRequest
    <3>1. worker' = [worker EXCEPT !.pc = "estop_drain",
                       !.cur = [NoCommand EXCEPT !.req = e],
                       !.mode_transition = NoTransition]
      BY <1>3 DEF TakeEstop
    <3>2. [NoCommand EXCEPT !.req = e].req = e
      BY DEF NoCommand
    <3> QED
      BY Zenon, <1>0, <3>1, <3>2, NobodyServed DEF WorkerStates
  <2>2. shared'.estop_promise = NoRequest /\ Queued' = Queued
        /\ shared'.command_queue = shared.command_queue
    BY <1>0, <1>3 DEF TakeEstop, SharedStates, Queued
  <2>3. /\ Queued \subseteq ModeRequests \cup AuthorityRequests
        /\ e \in EstopRequests
        /\ t \in ModeRequests \cup {NoRequest} /\ t \notin Queued
        /\ NoRequest \notin Requests
        /\ ModeRequests \cap EstopRequests = {} /\ AuthorityRequests \cap EstopRequests = {}
    BY <1>3, Holders, RuntimeAssumption DEF RequestInv, HeldOnce
  <2>4. HeldOnce'
    BY <2>1, <2>2, <2>3, RequestSets DEF RequestInv, HeldOnce, ServedAt
  <2>5. A \subseteq Held
    BY DEF Held
  <2>6. Held' = Held \ A
    <3>1. ASSUME NEW r \in Requests PROVE r \in Held' <=> r \in Held /\ r \notin A
      <4>1. r \in Held' <=> r \in Queued \/ r = NoRequest \/ r = e
        BY <2>1, <2>2 DEF Held
      <4>2. r \in Held <=> r \in Queued \/ r = e \/ r = NoRequest \/ r = t
        BY <1>1 DEF Held
      <4> QED
        BY <2>3, <4>1, <4>2
    <3> QED
      BY <3>1 DEF Held
  <2>7. promise' = Given(A, "failed") /\ UNCHANGED caller
    BY <1>3, FailTransition DEF TakeEstop, RequestInv
  <2> QED
    BY <2>4, <2>5, <2>6, <2>7 DEF Settles
<1> QED
  BY <1>2, <1>3

\* A command drained for a stop is answered.
LEMMA DrainSettles ==
  ASSUME TypeInv, RequestInv, DrainForEstop
  PROVE  HeldOnce' /\ \E A : Settles(A, "failed")
<1>0. worker \in WorkerStates /\ shared \in SharedStates
  BY DEF TypeInv, TypeOK
<1>1. CASE shared.command_queue = <<>>
  <2>1. /\ worker.pc = "estop_drain" /\ worker'.pc = "estop_gate"
        /\ worker'.cur = worker.cur
        /\ worker'.mode_transition = worker.mode_transition
    BY <1>0, <1>1 DEF DrainForEstop, At, Goto, WorkerStates
  <2>2. UNCHANGED <<promise, caller, shared>>
    BY <1>1 DEF DrainForEstop
  <2>3. worker.cur.req \in ServedAt(worker'.pc)
    BY <2>1 DEF RequestInv, HeldOnce, ServedAt
  <2> QED
    BY <2>1, <2>2, <2>3, KeepsAll DEF RequestInv, Undisturbed
<1>2. CASE shared.command_queue # <<>>
  <2> DEFINE h == Head(shared.command_queue).req
             A == {h} \cap Requests
  <2>1. /\ UNCHANGED <<worker, caller>>
        /\ shared'.command_queue = Tail(shared.command_queue)
        /\ shared'.estop_promise = shared.estop_promise
        /\ promise' = set_promise(promise, h, "failed")
    BY <1>0, <1>2 DEF DrainForEstop, SharedStates
  <2>2. /\ h \in Queued /\ Queued' = Queued \ {h}
        /\ Distinct(shared'.command_queue)
    BY <1>2, <2>1, Holders, ReqsPop DEF Queued, RequestInv, HeldOnce
  <2>3. HeldOnce'
    BY <2>1, <2>2 DEF RequestInv, HeldOnce
  <2>4. h \in Requests /\ h \in Held
    BY <2>2, Holders, RequestSets DEF Held
  <2>5. /\ h # shared.estop_promise /\ h # worker.cur.req
        /\ h # worker.mode_transition.promise
    BY <2>2, <2>4, Holders, RuntimeAssumption DEF RequestInv, HeldOnce
  <2>6. Held' = Held \ A
    BY <2>1, <2>2, <2>4, <2>5 DEF Held
  <2>7. promise' = Given(A, "failed")
    <3>1. promise[h] = "waiting"
      BY <2>4 DEF RequestInv, Awaited
    <3> QED
      BY <2>1, <3>1, GivenOne
  <2> QED
    BY <2>1, <2>3, <2>4, <2>6, <2>7 DEF Settles
<1> QED
  BY <1>1, <1>2

\* A command passes from the queue to the worker, and a mode command supersedes the
\* armed transition.
LEMMA PopSettles ==
  ASSUME TypeInv, RequestInv, Pop
  PROVE  HeldOnce' /\ \E A : Settles(A, "failed")
<1>0. worker \in WorkerStates /\ shared \in SharedStates
  BY DEF TypeInv, TypeOK
<1>1. worker.pc = "pop" /\ worker.cur.req = NoRequest
  BY IdlePlaces DEF Pop, At, RequestInv, HeldOnce
<1>2. CASE shared.command_queue = <<>>
  <2>1. /\ worker'.pc = "flag" /\ worker'.cur = worker.cur
        /\ worker'.mode_transition = worker.mode_transition
    BY <1>0, <1>2 DEF Pop, Goto, WorkerStates
  <2>2. UNCHANGED <<promise, caller, shared>>
    BY <1>2 DEF Pop
  <2> QED
    BY <1>1, <2>1, <2>2, IdlePlaces, KeepsAll DEF RequestInv, Undisturbed
<1>3. CASE shared.command_queue # <<>>
  <2> DEFINE h == Head(shared.command_queue).req
             t == worker.mode_transition.promise
             e == shared.estop_promise
             is_mode == h \in ModeRequests
             A == IF is_mode THEN {t} \cap Requests ELSE {}
  <2>1. /\ worker'.cur.req = h
        /\ worker'.mode_transition.promise = IF is_mode THEN NoRequest ELSE t
        /\ is_mode => worker'.pc \in {"mode_zero", "mode_set"}
        /\ ~is_mode => worker'.pc = "authority"
    BY Zenon, <1>0, <1>3, NobodyServed DEF Pop, WorkerStates
  <2>2. /\ shared'.command_queue = Tail(shared.command_queue)
        /\ shared'.estop_promise = e /\ UNCHANGED caller
        /\ promise' = IF is_mode THEN fail_mode_transition(promise) ELSE promise
    BY <1>0, <1>3 DEF Pop, SharedStates
  <2>3. /\ h \in Queued /\ Queued' = Queued \ {h}
        /\ Distinct(shared'.command_queue)
    BY <1>3, <2>2, Holders, ReqsPop DEF Queued, RequestInv, HeldOnce
  <2>4. /\ h \in ModeRequests \cup AuthorityRequests /\ h \in Requests
        /\ e \in EstopRequests \cup {NoRequest}
        /\ t \in ModeRequests \cup {NoRequest} /\ t \notin Queued
        /\ NoRequest \notin Requests /\ NoRequest \notin Queued
        /\ h # e /\ h # t
    BY <2>3, Holders, RuntimeAssumption, RequestSets DEF RequestInv, HeldOnce
  <2>5. worker'.cur.req \in ServedAt(worker'.pc)
    BY <2>1, <2>4 DEF ServedAt
  <2>6. HeldOnce'
    BY <2>1, <2>2, <2>3, <2>4, <2>5 DEF HeldOnce
  <2>7. A \subseteq Held
    BY DEF Held
  <2>8. Held' = Held \ A
    <3>1. ASSUME NEW r \in Requests PROVE r \in Held' <=> r \in Held /\ r \notin A
      <4>1. r \in Held' <=> \/ (r \in Queued /\ r # h) \/ r = e \/ r = h
                            \/ r = IF is_mode THEN NoRequest ELSE t
        BY <2>1, <2>2, <2>3 DEF Held
      <4>2. r \in Held <=> r \in Queued \/ r = e \/ r = NoRequest \/ r = t
        BY <1>1 DEF Held
      <4>3. r # NoRequest /\ (r = t => r # e /\ r \notin Queued)
        BY <2>4, RuntimeAssumption
      <4> QED
        BY <2>3, <2>4, <4>1, <4>2, <4>3
    <3> QED
      BY <3>1 DEF Held
  <2>9. promise' = Given(A, "failed")
    BY <2>2, FailTransition, GivenNone DEF RequestInv
  <2> QED
    BY <2>2, <2>6, <2>7, <2>8, <2>9 DEF Settles
<1> QED
  BY <1>2, <1>3

\* A mode command passes to the armed transition, or fails.
LEMMA SetModeSettles ==
  ASSUME TypeInv, RequestInv, NEW ok \in BOOLEAN, SetMode(ok)
  PROVE  HeldOnce' /\ \E A : Settles(A, "failed")
<1>0. worker \in WorkerStates
  BY DEF TypeInv, TypeOK
<1>1. CASE FailMode
  BY <1>1, FailModeSettles DEF SetMode
<1>2. CASE ~FailMode
  <2> DEFINE c == worker.cur.req
  <2>1. /\ worker.pc = "mode_set" /\ worker'.pc = "flag" /\ worker'.cur.req = NoRequest
        /\ worker'.mode_transition.promise = c
    <3>1. worker' = [worker EXCEPT !.pc = "flag", !.cur = NoCommand,
                       !.mode_transition = Armed(worker.cur.mode)]
      BY <1>2 DEF SetMode
    <3>2. Armed(worker.cur.mode).promise = c
      BY DEF Armed
    <3> QED
      BY <1>0, <3>1, <3>2, NobodyServed DEF SetMode, At, WorkerStates
  <2>2. UNCHANGED <<promise, caller, shared>>
    BY <1>2 DEF SetMode
  <2>3. /\ c \in ModeRequests /\ c \notin Queued
        /\ worker.mode_transition.promise = NoRequest
    BY <2>1 DEF RequestInv, HeldOnce, ServedAt
  <2>4. Queued' = Queued /\ NoRequest \notin Queued
    BY <2>2, Holders, RequestSets, RuntimeAssumption DEF Queued
  <2>5. HeldOnce'
    BY <2>1, <2>2, <2>3, <2>4, IdlePlaces DEF RequestInv, HeldOnce
  <2>6. Held' = Held
    BY <2>1, <2>2, <2>3, <2>4 DEF Held
  <2> QED
    BY <2>2, <2>5, <2>6, GivenNone DEF Settles
<1> QED
  BY <1>1, <1>2

\* fail_all_pending_locked answers everyone the session still held.
LEMMA SessionEndSettles ==
  ASSUME TypeInv, RequestInv, SessionEnd
  PROVE  HeldOnce' /\ Held' = {} /\ Settles(Held, "failed")
<1>0. worker \in WorkerStates /\ shared \in SharedStates
      /\ promise \in [Requests -> Answers]
  BY DEF TypeInv, TypeOK, Answers
<1>1. worker.pc = "session_end" /\ worker.cur.req = NoRequest
  BY IdlePlaces DEF SessionEnd, At, RequestInv, HeldOnce
<1>2. /\ worker'.pc = "invalidate" /\ worker'.cur = worker.cur
      /\ worker'.mode_transition.promise = NoRequest
  BY <1>0, NobodyServed DEF SessionEnd, WorkerStates
<1>3. shared'.command_queue = <<>> /\ shared'.estop_promise = NoRequest /\ UNCHANGED caller
  BY <1>0 DEF SessionEnd, SharedStates
<1>4. Queued' = {} /\ Distinct(shared'.command_queue)
  BY <1>3, ReqsEmpty DEF Queued
<1>5. HeldOnce'
  <2>1. worker'.pc \in Idle
    BY <1>2, IdlePlaces DEF OfflinePCs
  <2> QED
    BY <1>1, <1>2, <1>3, <1>4, <2>1, IdlePlaces DEF HeldOnce
<1>6. Held' = {}
  BY <1>1, <1>2, <1>3, <1>4, RuntimeAssumption DEF Held
<1>7. promise' = Given(Held, "failed")
  <2> DEFINE failed == Queued \cup {shared.estop_promise}
                              \cup {worker.mode_transition.promise}
  <2>1. promise' = [r \in Requests |->
                      IF r \in failed /\ promise[r] = "waiting"
                      THEN "failed" ELSE promise[r]]
    BY DEF SessionEnd, Queued, Reqs
  <2>2. \A r \in Requests : r \in Held <=> r \in failed
    BY <1>1, RuntimeAssumption DEF Held
  <2>3. \A r \in Requests : r \in Held => promise[r] = "waiting"
    BY DEF RequestInv, Awaited
  <2> HIDE DEF failed
  <2> QED
    BY <2>1, <2>2, <2>3 DEF Given
<1> QED
  BY <1>3, <1>5, <1>6, <1>7 DEF Settles

-----------------------------------------------------------------------------
(* The callers *)

\* Awaited, for a single request and a single caller's state.
Fits(held, at, answer) ==
  /\ held => at = "returned"
  /\ at = "idle" => answer = "none"
  /\ answer = "waiting" <=> at \in Running \/ held

\* Awaited speaks of each request by itself.
LEMMA AwaitedFits == Awaited <=> \A r \in Requests : Fits(r \in Held, caller[r], promise[r])
  BY DEF Awaited, Fits

\* One caller moves, its request may be handed over or dropped, and those in S are
\* failed: nobody else notices.
LEMMA OneMoves ==
  ASSUME TypeInv, Awaited, NEW r \in Requests, NEW at, NEW a, NEW S,
         S \subseteq Held, r \notin S,
         caller' = [caller EXCEPT ![r] = at],
         promise' = [Given(S, "failed") EXCEPT ![r] = a],
         \A q \in Requests \ {r} : q \in Held' <=> q \in Held \ S,
         Fits(r \in Held', at, a)
  PROVE  Awaited'
<1> SUFFICES ASSUME NEW q \in Requests PROVE Fits(q \in Held', caller'[q], promise'[q])
  BY DEF Awaited, Fits
<1>1. caller \in [Requests -> {"idle", "checked", "accepted", "latched", "returned"}]
  BY DEF TypeInv, TypeOK
<1>2. Fits(q \in Held, caller[q], promise[q])
  BY AwaitedFits
<1>3. CASE q = r
  BY <1>1, <1>3 DEF Given
<1>4. CASE q # r
  <2>1. caller'[q] = caller[q] /\ promise'[q] = IF q \in S THEN "failed" ELSE promise[q]
    BY <1>1, <1>4 DEF Given
  <2> QED
    BY <1>2, <1>4, <2>1 DEF Fits, Running
<1> QED
  BY <1>3, <1>4

\* The mark and the queue stay as they are.
LEMMA NothingHandedOver ==
  ASSUME HeldOnce, UNCHANGED <<shared, worker>> PROVE HeldOnce' /\ Held' = Held
  BY DEF HeldOnce, Held, Queued

\* One caller moves and nobody is superseded.
LEMMA OneMovesAlone ==
  ASSUME TypeInv, Awaited, NEW r \in Requests, NEW at, NEW a,
         caller' = [caller EXCEPT ![r] = at],
         promise' = [promise EXCEPT ![r] = a],
         \A q \in Requests \ {r} : q \in Held' <=> q \in Held,
         Fits(r \in Held', at, a)
  PROVE  Awaited'
<1> DEFINE S == {}
<1>1. promise' = [Given(S, "failed") EXCEPT ![r] = a]
  BY Zenon, GivenNone
<1>2. S \subseteq Held /\ r \notin S /\ \A q \in Requests \ {r} : q \in Held' <=> q \in Held \ S
  OBVIOUS
<1> HIDE DEF S
<1> QED
  BY Zenon, <1>1, <1>2, OneMoves

\* A call that leaves nothing behind: from one place and answer to the next.
LEMMA CallKeepsRequests ==
  ASSUME TypeInv, RequestInv, UNCHANGED <<shared, worker>>, NEW r \in Requests,
         r \notin Held, NEW at, NEW a, Fits(FALSE, at, a),
         caller' = [caller EXCEPT ![r] = at],
         promise' = [promise EXCEPT ![r] = a]
  PROVE  RequestInv'
<1>1. HeldOnce' /\ Held' = Held
  BY NothingHandedOver DEF RequestInv
<1>2. Fits(r \in Held', at, a)
  BY <1>1 DEF Fits
<1>3. Awaited'
  BY Zenon, <1>1, <1>2, OneMovesAlone DEF RequestInv
<1> QED
  BY <1>1, <1>3 DEF RequestInv

\* Nobody holds a request whose call has not returned.
LEMMA RunningNotHeld ==
  ASSUME Awaited, NEW r \in Requests, caller[r] # "returned" PROVE r \notin Held
  BY DEF Awaited

\* trigger_estop, first half.
LEMMA LatchKeeps ==
  ASSUME TypeInv, RequestInv, NEW r \in EstopRequests, LatchEstop(r) PROVE RequestInv'
<1>1. r \in Requests /\ r \notin Held
  BY RequestSets, RunningNotHeld DEF LatchEstop, RequestInv
<1>2. Fits(FALSE, "latched", "waiting")
  BY DEF Fits, Running
<1> QED
  BY Zenon, <1>1, <1>2, CallKeepsRequests DEF LatchEstop

\* What MarkEstop does to the answers and to the held requests.
LEMMA MarkEffect ==
  ASSUME TypeInv, RequestInv, NEW r \in EstopRequests, MarkEstop(r)
  PROVE  LET S == {shared.estop_promise} \cap Requests
             a == IF Disconnected THEN "failed" ELSE "waiting"
         IN  /\ S \subseteq Held \cap EstopRequests /\ r \notin S /\ r \notin Held
             /\ promise[r] = "waiting"
             /\ promise' = [Given(S, "failed") EXCEPT ![r] = a]
             /\ caller' = [caller EXCEPT ![r] = "returned"]
             /\ HeldOnce'
             /\ Held' = IF Disconnected THEN Held \ S ELSE (Held \ S) \cup {r}
<1> DEFINE e == shared.estop_promise
           S == {e} \cap Requests
<1>0. shared \in SharedStates /\ promise \in [Requests -> Answers]
  BY DEF TypeInv, TypeOK, Answers
<1>1. r \in Requests /\ r \notin Held /\ caller[r] = "latched" /\ promise[r] = "waiting"
  BY RequestSets, RunningNotHeld DEF MarkEstop, RequestInv, Awaited, Running
<1>2. /\ Queued \subseteq ModeRequests \cup AuthorityRequests
      /\ e \in EstopRequests \cup {NoRequest} /\ NoRequest \notin Requests
      /\ worker.mode_transition.promise \in ModeRequests \cup {NoRequest}
      /\ ModeRequests \cap EstopRequests = {} /\ AuthorityRequests \cap EstopRequests = {}
  BY Holders, RuntimeAssumption
<1>3. S \subseteq Held \cap EstopRequests /\ r \notin S
  BY <1>1, <1>2 DEF Held
<1>4. /\ Queued' = Queued /\ shared'.command_queue = shared.command_queue
      /\ shared'.estop_promise = IF Disconnected THEN NoRequest ELSE r
      /\ worker' = worker
  BY <1>0 DEF MarkEstop, SharedStates, Queued
<1>5. HeldOnce'
  <2>1. worker.cur.req # r
    BY <1>1 DEF Held
  <2>2. worker.mode_transition.promise # r
    BY <1>1, <1>2
  <2> QED
    BY <1>2, <1>4, <2>1, <2>2 DEF RequestInv, HeldOnce
<1>6. Held' = IF Disconnected THEN Held \ S ELSE (Held \ S) \cup {r}
  <2>1. ASSUME NEW q \in Requests
        PROVE  q \in Held' <=> \/ q \in Held /\ q \notin S
                               \/ ~Disconnected /\ q = r
    <3>1. q \in Held' <=> \/ q \in Queued
                          \/ q = IF Disconnected THEN NoRequest ELSE r
                          \/ q = worker.cur.req \/ q = worker.mode_transition.promise
      BY <1>4 DEF Held
    <3>2. q \in Held <=> q \in Queued \/ q = e \/ q = worker.cur.req
                         \/ q = worker.mode_transition.promise
      BY DEF Held
    <3>3. q = e => /\ q \notin Queued /\ q # worker.cur.req
                   /\ q # worker.mode_transition.promise
      BY <1>2 DEF RequestInv, HeldOnce
    <3> QED
      BY <1>2, <3>1, <3>2, <3>3
  <2> QED
    BY <1>1, <2>1 DEF Held
<1>7. promise' = [Given(S, "failed") EXCEPT ![r] = IF Disconnected THEN "failed" ELSE "waiting"]
  <2>1. Supersede(promise) = Given(S, "failed")
    BY ServedAwaited, GivenOne DEF Supersede, RequestInv
  <2>2. Given(S, "failed") \in [Requests -> Answers] /\ Given(S, "failed")[r] = "waiting"
    BY <1>0, <1>1, <1>3 DEF Given, Answers
  <2>3. promise' = IF Disconnected THEN set_promise(Given(S, "failed"), r, "failed")
                   ELSE Given(S, "failed")
    BY <2>1 DEF MarkEstop
  <2> QED
    BY SMTT(30), <1>1, <2>2, <2>3 DEF set_promise
<1> QED
  BY <1>1, <1>3, <1>5, <1>6, <1>7 DEF MarkEstop

\* trigger_estop, second half.
LEMMA MarkKeeps ==
  ASSUME TypeInv, RequestInv, NEW r \in EstopRequests, MarkEstop(r) PROVE RequestInv'
<1> DEFINE S == {shared.estop_promise} \cap Requests
           a == IF Disconnected THEN "failed" ELSE "waiting"
<1>1. /\ S \subseteq Held /\ r \notin S /\ r \notin Held
      /\ promise' = [Given(S, "failed") EXCEPT ![r] = a]
      /\ caller' = [caller EXCEPT ![r] = "returned"]
      /\ HeldOnce'
      /\ Held' = IF Disconnected THEN Held \ S ELSE (Held \ S) \cup {r}
  BY SMTT(30), MarkEffect
<1>2. r \in Held' <=> ~Disconnected
  BY <1>1
<1>3. Fits(r \in Held', "returned", a)
  BY <1>2 DEF Fits, Running
<1>4. \A q \in Requests \ {r} : q \in Held' <=> q \in Held \ S
  BY <1>1
<1>5. r \in Requests
  BY RequestSets
<1> HIDE DEF S, a
<1>6. Awaited'
  BY Zenon, <1>1, <1>3, <1>4, <1>5, OneMoves DEF RequestInv
<1> QED
  BY <1>1, <1>6 DEF RequestInv

\* A command is queued for the session.
LEMMA PushKeeps ==
  ASSUME TypeInv, RequestInv, NEW command \in Commands,
         command.req \notin Held,
         shared' = [shared EXCEPT !.command_queue = Append(@, command)],
         UNCHANGED worker,
         caller' = [caller EXCEPT ![command.req] = "returned"],
         promise' = [promise EXCEPT ![command.req] = "waiting"]
  PROVE  RequestInv' /\ Held' = Held \cup {command.req}
<1> DEFINE r == command.req
<1>0. shared \in SharedStates
  BY DEF TypeInv, TypeOK
<1>1. /\ r \in ModeRequests \cup AuthorityRequests /\ r \in Requests
      /\ shared.command_queue \in Seq(Commands)
  BY Holders, RequestSets DEF Commands
<1>2. /\ shared'.command_queue = Append(shared.command_queue, command)
      /\ shared'.estop_promise = shared.estop_promise
  BY <1>0 DEF SharedStates
<1>3. /\ r \notin Queued /\ r # worker.cur.req
      /\ r # worker.mode_transition.promise
  BY <1>1 DEF Held
<1>4. Queued' = Queued \cup {r} /\ Distinct(shared'.command_queue)
  BY <1>1, <1>2, <1>3, ReqsPush DEF Queued, RequestInv, HeldOnce
<1>5. HeldOnce'
  BY <1>2, <1>3, <1>4 DEF RequestInv, HeldOnce
<1>6. Held' = Held \cup {r}
  BY <1>1, <1>2, <1>4 DEF Held
<1>7. Fits(r \in Held', "returned", "waiting")
  BY <1>6 DEF Fits, Running
<1>8. Awaited'
  <2>1. \A q \in Requests \ {r} : q \in Held' <=> q \in Held
    BY <1>6
  <2>2. /\ caller' = [caller EXCEPT ![r] = "returned"]
        /\ promise' = [promise EXCEPT ![r] = "waiting"]
    OBVIOUS
  <2> HIDE DEF r
  <2> QED
    BY Zenon, <1>1, <1>7, <2>1, <2>2, OneMovesAlone DEF RequestInv
<1> QED
  BY <1>5, <1>6, <1>8 DEF RequestInv

\* request_authority.
LEMMA AuthorityKeeps ==
  ASSUME TypeInv, RequestInv, NEW r \in AuthorityRequests, RequestAuthority(r)
  PROVE  RequestInv'
<1>1. r \in Requests /\ r \notin Held
  BY RequestSets, RunningNotHeld DEF RequestAuthority, RequestInv
<1>2. CASE ~Disconnected /\ HasRoom
  <2> DEFINE command == [req |-> r, mode |-> NoMode]
  <2>1. command \in Commands /\ command.req = r
    BY DEF Commands
  <2>2. /\ shared' = [shared EXCEPT !.command_queue = Append(@, command)]
        /\ UNCHANGED worker
        /\ caller' = [caller EXCEPT ![r] = "returned"]
        /\ promise' = [promise EXCEPT ![r] = "waiting"]
    BY <1>2 DEF RequestAuthority
  <2> HIDE DEF command
  <2> QED
    BY Zenon, <1>1, <2>1, <2>2, PushKeeps
<1>3. CASE ~(~Disconnected /\ HasRoom)
  <2>1. Fits(FALSE, "returned", "failed")
    BY DEF Fits, Running
  <2> QED
    BY Zenon, <1>1, <1>3, <2>1, CallKeepsRequests DEF RequestAuthority
<1> QED
  BY <1>2, <1>3

\* request_mode, first critical section.
LEMMA CheckKeeps ==
  ASSUME TypeInv, RequestInv, NEW r \in ModeRequests, NEW name, CheckMode(r, name)
  PROVE  RequestInv'
<1>1. r \in Requests /\ r \notin Held
  BY RequestSets, RunningNotHeld DEF CheckMode, RequestInv
<1>2. Fits(FALSE, "returned", "failed") /\ Fits(FALSE, "checked", "waiting")
  BY DEF Fits, Running
<1>3. CASE Disconnected
  BY Zenon, <1>1, <1>2, <1>3, CallKeepsRequests DEF CheckMode
<1>4. CASE ~Disconnected
  BY Zenon, <1>1, <1>2, <1>4, CallKeepsRequests DEF CheckMode
<1> QED
  BY <1>3, <1>4

\* A call of request_mode that is running is awaited.
LEMMA RunningAwaited ==
  ASSUME TypeInv, RequestInv, NEW r \in ModeRequests, caller[r] \in {"checked", "accepted"}
  PROVE  /\ r \in Requests /\ r \notin Held /\ promise[r] = "waiting"
         /\ promise = [promise EXCEPT ![r] = "waiting"]
         /\ set_promise(promise, r, "failed") = [promise EXCEPT ![r] = "failed"]
<1>1. r \in Requests /\ r \notin Held /\ promise[r] = "waiting"
  BY RequestSets DEF RequestInv, Awaited, Running
<1>2. promise \in [Requests -> Answers]
  BY DEF TypeInv, TypeOK, Answers
<1> QED
  BY <1>1, <1>2 DEF set_promise

\* request_mode, the controller's decision.
LEMMA AcceptKeeps ==
  ASSUME TypeInv, RequestInv, NEW r \in ModeRequests, AcceptMode(r)
  PROVE  RequestInv'
<1>1. /\ r \in Requests /\ r \notin Held
      /\ promise = [promise EXCEPT ![r] = "waiting"]
      /\ set_promise(promise, r, "failed") = [promise EXCEPT ![r] = "failed"]
  BY RunningAwaited DEF AcceptMode
<1>2. Fits(FALSE, "returned", "failed") /\ Fits(FALSE, "accepted", "waiting")
  BY DEF Fits, Running
<1>3. CASE mode_accepted(controller, wanted[r])
  <2>1. /\ UNCHANGED <<shared, worker>>
        /\ caller' = [caller EXCEPT ![r] = "accepted"]
        /\ promise' = [promise EXCEPT ![r] = "waiting"]
    BY <1>1, <1>3 DEF AcceptMode
  <2> QED
    BY Zenon, <1>1, <1>2, <2>1, CallKeepsRequests
<1>4. CASE ~mode_accepted(controller, wanted[r])
  <2>1. /\ UNCHANGED <<shared, worker>>
        /\ caller' = [caller EXCEPT ![r] = "returned"]
        /\ promise' = [promise EXCEPT ![r] = "failed"]
    BY <1>1, <1>4 DEF AcceptMode
  <2> QED
    BY Zenon, <1>1, <1>2, <2>1, CallKeepsRequests
<1> QED
  BY <1>3, <1>4

\* request_mode, second critical section.
LEMMA EnqueueKeeps ==
  ASSUME TypeInv, RequestInv, NEW r \in ModeRequests, EnqueueMode(r)
  PROVE  RequestInv'
<1>1. /\ r \in Requests /\ r \notin Held
      /\ promise = [promise EXCEPT ![r] = "waiting"]
      /\ set_promise(promise, r, "failed") = [promise EXCEPT ![r] = "failed"]
  BY RunningAwaited DEF EnqueueMode
<1>2. CASE ~Disconnected /\ HasRoom
  <2> DEFINE command == [req |-> r, mode |-> wanted[r]]
  <2>1. command \in Commands /\ command.req = r
    BY DEF Commands, EnqueueMode, TypeInv, ModesAreVendorModes
  <2>2. /\ shared' = [shared EXCEPT !.command_queue = Append(@, command)]
        /\ UNCHANGED worker
        /\ caller' = [caller EXCEPT ![r] = "returned"]
        /\ promise' = [promise EXCEPT ![r] = "waiting"]
    BY <1>1, <1>2 DEF EnqueueMode
  <2> HIDE DEF command
  <2> QED
    BY Zenon, <1>1, <2>1, <2>2, PushKeeps
<1>3. CASE ~(~Disconnected /\ HasRoom)
  <2>1. Fits(FALSE, "returned", "failed")
    BY DEF Fits, Running
  <2>2. /\ UNCHANGED <<shared, worker>>
        /\ caller' = [caller EXCEPT ![r] = "returned"]
        /\ promise' = [promise EXCEPT ![r] = "failed"]
    BY Zenon, <1>1, <1>3 DEF EnqueueMode
  <2> QED
    BY Zenon, <1>1, <2>1, <2>2, CallKeepsRequests
<1> QED
  BY <1>2, <1>3

\* The caller reads its future.
LEMMA CollectKeeps ==
  ASSUME TypeInv, RequestInv, NEW r \in Requests, Collect(r) PROVE RequestInv'
<1>1. r \notin Held
  BY DEF Collect, RequestInv, Awaited
<1>2. Fits(FALSE, "idle", "none")
  BY DEF Fits, Running
<1> QED
  BY Zenon, <1>1, <1>2, CallKeepsRequests DEF Collect

\* Steps that concern no request at all.
LEMMA Bystanders ==
  ASSUME TypeInv, RequestInv,
         \/ \E finite \in BOOLEAN, v \in VelocityInputs : SubmitVelocity(finite, v)
         \/ \E linked, authority \in BOOLEAN : HandleStatus(linked, authority)
         \/ ReleaseEstop \/ ClockTick \/ Stop
  PROVE  RequestInv' /\ UNCHANGED <<caller, promise, worker, sdk>>
                     /\ shared'.connected = shared.connected
<1>0. shared \in SharedStates
  BY SMTT(30) DEF TypeInv, TypeOK
<1>1. /\ UNCHANGED <<caller, promise, worker, sdk>>
      /\ shared'.connected = shared.connected
      /\ shared'.command_queue = shared.command_queue
      /\ shared'.estop_promise = shared.estop_promise
  BY Zenon, <1>0 DEF SubmitVelocity, HandleStatus, ReleaseEstop, ClockTick, Stop,
     SharedStates
<1>2. Queued' = Queued /\ Held' = Held
  BY <1>1 DEF Queued, Held
<1> QED
  BY <1>1, <1>2 DEF RequestInv, HeldOnce, Awaited

-----------------------------------------------------------------------------
(* Every promise has its holder *)

\* A step of the worker settles the requests of a set, or of none.
LEMMA WorkerSettles ==
  ASSUME TypeInv, RequestInv, WorkerStep \/ Start
  PROVE  HeldOnce' /\ \E A : Settles(A, "ok") \/ Settles(A, "failed")
<1>1. CASE ConnectStep \/ Start
  BY <1>1, ConnectQuiet, SessionEndSettles DEF ConnectStep, RequestInv
<1>2. CASE CommandStep
  <2>1. CASE \/ Wait \/ Settle \/ Actuate \/ \E ok \in BOOLEAN : SendZero(ok)
    BY Zenon, <2>1, LoopQuiet, ServingQuiet DEF RequestInv
  <2>2. CASE TakeEstop \/ DrainForEstop \/ EstopGate \/ Pop
    BY <2>2, TakeEstopSettles, DrainSettles, EstopGateSettles, PopSettles
  <2>3. ASSUME NEW ok \in BOOLEAN, SendDamping(ok)
        PROVE  HeldOnce' /\ \E A : Settles(A, "ok") \/ Settles(A, "failed")
    BY <2>3, DampingSettles
  <2>4. CASE SettleAbort
    BY <2>4, AbortSettles, IdlePlaces DEF SettleAbort
  <2>5. ASSUME NEW outcome \in {"ok", "fail", "throw"}, ExecuteAuthority(outcome)
        PROVE  HeldOnce' /\ \E A : Settles(A, "ok") \/ Settles(A, "failed")
    BY <2>5, AuthoritySettles
  <2>6. ASSUME NEW ok \in BOOLEAN, ZeroBeforeMode(ok)
        PROVE  HeldOnce' /\ \E A : Settles(A, "ok") \/ Settles(A, "failed")
    <3>1. CASE ok
      BY <2>6, <3>1, ServingQuiet DEF RequestInv
    <3>2. CASE ~ok
      BY <2>6, <3>2, FailModeSettles DEF ZeroBeforeMode
    <3> QED
      BY <3>1, <3>2
  <2>7. ASSUME NEW ok \in BOOLEAN, SetMode(ok)
        PROVE  HeldOnce' /\ \E A : Settles(A, "ok") \/ Settles(A, "failed")
    BY <2>7, SetModeSettles
  <2> QED
    BY <1>2, <2>1, <2>2, <2>3, <2>4, <2>5, <2>6, <2>7 DEF CommandStep
<1>3. CASE PeriodicStep
  <2>1. CASE Expire \/ PollAbort
    BY <2>1, AbortSettles, IdlePlaces DEF Expire, PollAbort
  <2>2. CASE PollCheck \/ PollComplete
    BY <2>2, PollSettles
  <2> QED
    BY <1>3, <2>1, <2>2, LoopQuiet DEF PeriodicStep, RequestInv
<1> QED
  BY <1>1, <1>2, <1>3 DEF WorkerStep

\* Every step keeps the requests' invariant.
LEMMA StepRequests == TypeInv /\ RequestInv /\ [Next]_vars => RequestInv'
<1> SUFFICES ASSUME TypeInv, RequestInv, [Next]_vars PROVE RequestInv'
  OBVIOUS
<1>1. CASE WorkerStep \/ Start
  BY <1>1, WorkerSettles, SettlesKeeps DEF RequestInv
<1>2. CASE CallerStep
  BY <1>2, LatchKeeps, MarkKeeps, AuthorityKeeps, CheckKeeps, AcceptKeeps,
     EnqueueKeeps, CollectKeeps, Bystanders DEF CallerStep
<1>3. CASE \/ \E linked, authority \in BOOLEAN : HandleStatus(linked, authority)
           \/ ClockTick \/ Stop
  BY SMTT(30), <1>3, Bystanders
<1>4. CASE UNCHANGED vars
  BY <1>4 DEF vars, RequestInv, HeldOnce, Awaited, Held, Queued
<1> QED
  BY <1>1, <1>2, <1>3, <1>4 DEF Next

\* Nobody has called yet.
LEMMA InitRequests == Init => RequestInv
<1> SUFFICES ASSUME Init PROVE RequestInv
  BY SMTT(30)
<1>1. /\ worker.cur.req = NoRequest /\ worker.mode_transition.promise = NoRequest
      /\ worker.pc = "not_started"
      /\ shared.command_queue = <<>> /\ shared.estop_promise = NoRequest
  BY NobodyServed DEF Init
<1>2. Queued = {} /\ Distinct(shared.command_queue)
  BY <1>1, ReqsEmpty DEF Queued
<1>3. Held = {}
  BY <1>1, <1>2, RuntimeAssumption DEF Held
<1>4. HeldOnce
  BY <1>1, <1>2 DEF HeldOnce, ServedAt
<1>5. Awaited
  BY <1>3 DEF Init, Awaited, Running
<1> QED
  BY <1>4, <1>5 DEF RequestInv

\* A future still waiting has a holder that will answer it and an answered one has
\* none, for any number of callers and any queue capacity (set_promise,
\* fail_all_pending_locked, handle_estop_if_requested, execute_command).
THEOREM PromisesOwned == Spec => []EveryPromiseOwned
<1>1. TypeInv /\ RequestInv => EveryPromiseOwned
  <2> SUFFICES ASSUME TypeInv, RequestInv, NEW r \in Requests
               PROVE  promise[r] = "waiting" <=> Owned(r)
    BY DEF EveryPromiseOwned
  <2>1. InQueue(r) <=> r \in Queued
    BY DEF InQueue, Queued, Reqs
  <2>2. promise[r] = "waiting" <=> caller[r] \in Running \/ r \in Held
    BY DEF RequestInv, Awaited
  <2> QED
    BY <2>1, <2>2 DEF Owned, Held, Running
<1> QED
  BY <1>1, InitType, StepType, InitRequests, StepRequests, PTL DEF Spec

-----------------------------------------------------------------------------
(* Every pending transition has its carrier *)

\* Where a request_mode call is: between its two critical sections, queued or
\* being executed.
Carries(r) == caller[r] = "accepted" \/ r \in Queued \/ worker.cur.req = r

\* invalidate_session is running.
TearingDown == worker.pc \in {"invalidate", "invalidate_controller"}

\* PendingHasCarrier in these terms.
LEMMA CarrierPlaces ==
  PendingHasCarrier <=>
    (controller.mode_transition_pending =>
       \/ \E r \in ModeRequests : Carries(r)
       \/ worker.mode_transition.active \/ TearingDown)
  BY DEF PendingHasCarrier, Carries, TearingDown, InQueue, Queued, Reqs

\* A step that begins no transition and loses no carrier.
LEMMA CarrierKept ==
  ASSUME PendingHasCarrier, NoNewPending(controller, controller'),
         \A r \in ModeRequests : Carries(r) => Carries(r)',
         worker.mode_transition.active => worker'.mode_transition.active,
         TearingDown => TearingDown'
  PROVE  PendingHasCarrier'
  BY CarrierPlaces DEF NoNewPending, Carries, TearingDown, PendingHasCarrier,
     InQueue, Queued, Reqs

\* A step that leaves nothing pending.
LEMMA NothingPends ==
  ASSUME ~controller'.mode_transition_pending PROVE PendingHasCarrier'
  BY DEF PendingHasCarrier

\* complete_mode_transition leaves nothing pending.
LEMMA CompletesCarrier ==
  ASSUME TypeInv, NEW b, controller' = complete_mode_transition(controller, b)
  PROVE  PendingHasCarrier'
  BY Zenon, OnlyRequestPends, NothingPends DEF TypeInv, TypeOK

\* Steps of the worker that neither complete a transition nor answer a request.
LEMMA QuietCarrier ==
  ASSUME TypeInv, PendingHasCarrier, Undisturbed,
         NoNewPending(controller, controller'), TearingDown => TearingDown'
  PROVE  PendingHasCarrier'
<1>1. \A r \in ModeRequests : Carries(r) => Carries(r)'
  BY DEF Undisturbed, Carries, Queued
<1> QED
  BY SMTT(30), <1>1, CarrierKept DEF Undisturbed

\* The worker is done with a command that is not a mode command.
LEMMA ServedCarrier ==
  ASSUME TypeInv, RequestInv, PendingHasCarrier, UNCHANGED <<controller, caller, shared>>,
         worker.cur.req \notin ModeRequests, ~TearingDown,
         worker'.mode_transition = worker.mode_transition
  PROVE  PendingHasCarrier'
<1>1. \A r \in ModeRequests : Carries(r) => Carries(r)'
  BY DEF Carries, Queued
<1>2. NoNewPending(controller, controller')
  BY DEF NoNewPending
<1> QED
  BY <1>1, <1>2, CarrierKept

\* The worker completes a transition or keeps a carrier for it.
LEMMA WorkerCarrier ==
  ASSUME TypeInv, RequestInv, PendingHasCarrier, WorkerStep \/ Start
  PROVE  PendingHasCarrier'
<1>0. worker \in WorkerStates /\ shared \in SharedStates
      /\ controller \in ControllerStates
      /\ NoNewPending(controller, controller)
  BY DEF TypeInv, TypeOK, NoNewPending
<1>1. CASE \/ LoopHead \/ Start \/ Backoff \/ InvalidateCaches \/ Deinit
           \/ \E ok \in BOOLEAN : Preflight(ok) \/ SdkInit(ok) \/ Subscribe(ok)
  <2>1. Undisturbed /\ controller' = controller
    BY Zenon, <1>1, ConnectQuiet DEF RequestInv, LoopHead, Start, Backoff, InvalidateCaches,
       Deinit, Preflight, SdkInit, Subscribe
  <2>2. TearingDown => TearingDown'
    BY Zenon, <1>0, <1>1 DEF TearingDown, LoopHead, Start, Backoff, InvalidateCaches,
       Deinit, Preflight, SdkInit, Subscribe, At, WorkerStates
  <2> QED
    BY SMTT(30), <1>0, <2>1, <2>2, QuietCarrier
<1>2. CASE InvalidateController
  <2> DEFINE c == update_robot_state(controller, NoStatus)
  <2>1. c \in ControllerStates
    <3>1. NoStatus \in ControllerStatuses
      BY DEF NoStatus, ControllerStatuses, SportStatuses
    <3> QED
      BY <1>0, <3>1, UpdateKeeps DEF TypeInv
  <2>2. ~invalidate_connection(c).mode_transition_pending
    BY ZenonT(40), <2>1, OnlyRequestPends
  <2> QED
    BY <1>2, <2>2, NothingPends DEF InvalidateController
<1>3. CASE SessionEnd
  <2>1. worker'.pc = "invalidate"
    BY <1>0, <1>3 DEF SessionEnd, WorkerStates
  <2> QED
    BY <2>1 DEF PendingHasCarrier
<1>4. CASE \/ Wait \/ Settle \/ TakeRefresh \/ SkipMotion \/ MotionTick
           \/ NotExpired \/ SkipPoll \/ ApplySnapshot \/ PollSettle
           \/ \E outcome \in {"skip", "ok", "fail"} : Heartbeat(outcome)
           \/ \E ok \in BOOLEAN : SendTick(ok)
           \/ \E s \in Snapshots : TakeSnapshot(s)
  <2>1. Undisturbed
    BY <1>4, LoopQuiet DEF RequestInv
  <2>2. ~TearingDown
    BY Zenon, <1>4 DEF TearingDown, Wait, Settle, TakeRefresh, SkipMotion, MotionTick,
       NotExpired, SkipPoll, ApplySnapshot, PollSettle, Heartbeat, SendTick,
       TakeSnapshot, At
  <2>3. NoNewPending(controller, controller')
    BY Zenon, <1>0, <1>4, UpdatePends DEF Wait, Settle, TakeRefresh, SkipMotion, MotionTick,
       NotExpired, SkipPoll, ApplySnapshot, PollSettle, Heartbeat, SendTick,
       TakeSnapshot
  <2> QED
    BY <2>1, <2>2, <2>3, QuietCarrier
<1>5. CASE Actuate \/ SendZero(TRUE) \/ SendZero(FALSE) \/ ZeroBeforeMode(TRUE)
  <2>1. Undisturbed
    BY Zenon, <1>5, ServingQuiet DEF RequestInv
  <2>2. ~TearingDown /\ controller' = controller
    BY Zenon, <1>5 DEF TearingDown, Actuate, SendZero, ZeroBeforeMode, At
  <2> QED
    BY <1>0, <2>1, <2>2, QuietCarrier
<1>6. CASE TakeEstop
  <2>1. CASE shared.estop_promise = NoRequest
    <3>1. /\ UNCHANGED <<controller, promise, caller, shared>> /\ ~TearingDown
          /\ worker'.cur = worker.cur
          /\ worker'.mode_transition = worker.mode_transition
      BY <1>0, <1>6, <2>1 DEF TakeEstop, Goto, At, WorkerStates, TearingDown
    <3> QED
      BY <1>0, <3>1, QuietCarrier DEF Undisturbed
  <2>2. CASE shared.estop_promise # NoRequest
    BY Zenon, <1>6, <2>2, CompletesCarrier DEF TakeEstop
  <2> QED
    BY <2>1, <2>2
<1>7. CASE DrainForEstop
  <2>0. ~TearingDown
    BY <1>7 DEF DrainForEstop, At, TearingDown
  <2>1. CASE shared.command_queue = <<>>
    <3>1. /\ UNCHANGED <<controller, promise, caller, shared>>
          /\ worker'.cur = worker.cur
          /\ worker'.mode_transition = worker.mode_transition
      BY <1>0, <1>7, <2>1 DEF DrainForEstop, Goto, WorkerStates
    <3> QED
      BY <1>0, <2>0, <3>1, QuietCarrier DEF Undisturbed
  <2>2. CASE shared.command_queue # <<>> /\ Head(shared.command_queue).req \in ModeRequests
    BY ZenonT(40), <1>7, <2>2, CompletesCarrier DEF DrainForEstop
  <2>3. CASE shared.command_queue # <<>> /\ Head(shared.command_queue).req \notin ModeRequests
    <3>1. /\ UNCHANGED <<controller, worker, caller>>
          /\ shared'.command_queue = Tail(shared.command_queue)
      BY SMTT(30), <1>0, <1>7, <2>3 DEF DrainForEstop, SharedStates
    <3>2. Queued' = Queued \ {Head(shared.command_queue).req}
      BY <2>3, <3>1, Holders, ReqsPop DEF Queued, RequestInv, HeldOnce
    <3>3. \A r \in ModeRequests : Carries(r) => Carries(r)'
      BY <2>3, <3>1, <3>2 DEF Carries
    <3> QED
      BY <1>0, <2>0, <3>1, <3>3, CarrierKept
  <2> QED
    BY <2>1, <2>2, <2>3
<1>8. CASE EstopGate
  <2>1. /\ UNCHANGED <<controller, caller, shared>> /\ worker.pc = "estop_gate"
        /\ worker'.mode_transition = worker.mode_transition
    BY Zenon, <1>0, <1>8 DEF EstopGate, At, Goto, WorkerStates
  <2>2. worker.cur.req \notin ModeRequests /\ ~TearingDown
    BY <2>1, RuntimeAssumption DEF RequestInv, HeldOnce, ServedAt, TearingDown
  <2> QED
    BY <2>1, <2>2, ServedCarrier
<1>9. ASSUME NEW ok \in BOOLEAN, SendDamping(ok) PROVE PendingHasCarrier'
  <2>1. /\ UNCHANGED <<controller, caller, shared>> /\ worker.pc = "send_damping"
        /\ worker'.mode_transition = worker.mode_transition
    BY <1>0, <1>9 DEF SendDamping, At, WorkerStates
  <2>2. worker.cur.req \notin ModeRequests /\ ~TearingDown
    BY <2>1, RuntimeAssumption, RequestSets DEF RequestInv, HeldOnce, ServedAt,
       TearingDown
  <2> QED
    BY <2>1, <2>2, ServedCarrier
<1>10. CASE SettleAbort \/ Expire \/ PollAbort
  BY Zenon, <1>10, CompletesCarrier DEF SettleAbort, Expire, PollAbort, AbortTransition
<1>11. CASE Pop
  <2>0. worker.cur.req = NoRequest /\ ~TearingDown
    BY <1>11, IdlePlaces DEF Pop, At, RequestInv, HeldOnce, TearingDown
  <2>1. CASE shared.command_queue = <<>>
    <3>1. /\ UNCHANGED <<controller, promise, caller, shared>>
          /\ worker'.cur = worker.cur
          /\ worker'.mode_transition = worker.mode_transition
      BY <1>0, <1>11, <2>1 DEF Pop, Goto, WorkerStates
    <3> QED
      BY <1>0, <2>0, <3>1, QuietCarrier DEF Undisturbed
  <2>2. CASE shared.command_queue # <<>>
    <3> DEFINE h == Head(shared.command_queue).req
    <3>1. /\ UNCHANGED <<controller, caller>>
          /\ shared'.command_queue = Tail(shared.command_queue)
          /\ worker'.cur.req = h
          /\ h \notin ModeRequests => worker'.mode_transition = worker.mode_transition
      BY ZenonT(40), <1>0, <1>11, <2>2 DEF Pop, SharedStates, WorkerStates
    <3>2. Queued' = Queued \ {h}
      BY SMTT(30), <2>2, <3>1, Holders, ReqsPop DEF Queued, RequestInv, HeldOnce
    <3>3. \A r \in ModeRequests : Carries(r) => Carries(r)'
      BY <2>0, <3>1, <3>2, RuntimeAssumption, RequestSets DEF Carries
    <3>4. CASE h \in ModeRequests
      BY <3>1, <3>4 DEF PendingHasCarrier
    <3>5. CASE h \notin ModeRequests
      BY <1>0, <2>0, <3>1, <3>3, <3>5, CarrierKept
    <3> QED
      BY <3>4, <3>5
  <2> QED
    BY <2>1, <2>2
<1>12. ASSUME NEW outcome \in {"ok", "fail", "throw"}, ExecuteAuthority(outcome)
       PROVE  PendingHasCarrier'
  <2>1. CASE outcome = "throw"
    BY Zenon, <1>12, <2>1, CompletesCarrier DEF ExecuteAuthority
  <2>2. CASE outcome # "throw"
    <3>1. /\ UNCHANGED <<controller, caller, shared>> /\ worker.pc = "authority"
          /\ worker'.mode_transition = worker.mode_transition
      BY <1>0, <1>12, <2>2 DEF ExecuteAuthority, At, WorkerStates
    <3>2. worker.cur.req \notin ModeRequests /\ ~TearingDown
      BY <3>1, RuntimeAssumption DEF RequestInv, HeldOnce, ServedAt, TearingDown
    <3> QED
      BY <3>1, <3>2, ServedCarrier
  <2> QED
    BY <2>1, <2>2
<1>13. CASE ZeroBeforeMode(FALSE)
  BY Zenon, <1>13, CompletesCarrier DEF ZeroBeforeMode, FailMode
<1>14. ASSUME NEW ok \in BOOLEAN, SetMode(ok) PROVE PendingHasCarrier'
  <2>1. CASE FailMode
    BY Zenon, <2>1, CompletesCarrier DEF FailMode
  <2>2. CASE ~FailMode
    <3>1. worker' = [worker EXCEPT !.pc = "flag", !.cur = NoCommand,
                       !.mode_transition = Armed(worker.cur.mode)]
      BY <1>14, <2>2 DEF SetMode
    <3>2. Armed(worker.cur.mode).active
      BY DEF Armed
    <3>3. worker'.mode_transition.active
      BY <1>0, <3>1, <3>2 DEF WorkerStates
    <3> QED
      BY <3>3 DEF PendingHasCarrier
  <2> QED
    BY <2>1, <2>2
<1>15. CASE PollCheck
  <2>1. NoNewPending(controller, controller')
    BY Zenon, <1>0, <1>15, OnlyRequestPends DEF PollCheck
  <2>2. /\ worker'.cur = worker.cur /\ UNCHANGED <<caller, shared>> /\ ~TearingDown
        /\ ~Orphaned => worker'.mode_transition = worker.mode_transition
    BY <1>0, <1>15 DEF PollCheck, At, TearingDown, WorkerStates
  <2>3. CASE Orphaned
    BY <2>1, <2>3, NothingPends DEF Orphaned, NoNewPending
  <2>4. CASE ~Orphaned
    <3>1. \A r \in ModeRequests : Carries(r) => Carries(r)'
      BY <2>2 DEF Carries, Queued
    <3> QED
      BY <2>1, <2>2, <2>4, <3>1, CarrierKept
  <2> QED
    BY <2>3, <2>4
<1>16. CASE PollComplete
  BY Zenon, <1>16, CompletesCarrier DEF PollComplete
<1>17. CASE ConnectStep \/ Start
  BY <1>1, <1>2, <1>3, <1>17 DEF ConnectStep
<1>18. CASE CommandStep
  BY Zenon, <1>4, <1>5, <1>6, <1>7, <1>8, <1>9, <1>10, <1>11, <1>12, <1>13, <1>14, <1>18
  DEF CommandStep
<1>19. CASE PeriodicStep
  BY SMTT(30), <1>4, <1>10, <1>15, <1>16, <1>19 DEF PeriodicStep
<1> QED
  BY <1>17, <1>18, <1>19 DEF WorkerStep

\* A step outside the worker that hands a carried request on, if it touches one.
LEMMA OutsideCarrier ==
  ASSUME PendingHasCarrier, NoNewPending(controller, controller'), UNCHANGED worker,
         \A r \in ModeRequests : caller[r] = "accepted" => Carries(r)',
         Queued \subseteq Queued'
  PROVE  PendingHasCarrier'
<1>1. \A r \in ModeRequests : Carries(r) => Carries(r)'
  BY DEF Carries
<1>2. TearingDown => TearingDown'
  BY DEF TearingDown
<1> QED
  BY <1>1, <1>2, CarrierKept

\* Only an accepted request_mode makes a transition pending, and carries it.
LEMMA CallersCarrier ==
  ASSUME TypeInv, RequestInv, PendingHasCarrier,
         \/ CallerStep \/ ClockTick \/ Stop
         \/ \E linked, authority \in BOOLEAN : HandleStatus(linked, authority)
  PROVE  PendingHasCarrier'
<1>0. /\ shared \in SharedStates /\ controller \in ControllerStates
      /\ caller \in [Requests -> {"idle", "checked", "accepted", "latched", "returned"}]
      /\ NoNewPending(controller, controller)
      /\ ModeRequests \subseteq Requests
  BY RequestSets DEF TypeInv, TypeOK, NoNewPending
<1>1. CASE \/ \E finite \in BOOLEAN, v \in VelocityInputs : SubmitVelocity(finite, v)
           \/ ReleaseEstop \/ ClockTick \/ Stop
           \/ \E linked, authority \in BOOLEAN : HandleStatus(linked, authority)
  <2>1. NoNewPending(controller, controller')
    <3>1. ASSUME NEW finite \in BOOLEAN, NEW v \in VelocityInputs,
                 SubmitVelocity(finite, v)
          PROVE  NoNewPending(controller, controller')
      BY Zenon, <1>0, <3>1, OnlyRequestPends DEF SubmitVelocity
    <3>2. ASSUME NEW linked \in BOOLEAN, NEW authority \in BOOLEAN,
                 HandleStatus(linked, authority)
          PROVE  NoNewPending(controller, controller')
      BY Zenon, <1>0, <3>2, UpdatePends DEF HandleStatus
    <3>3. CASE ReleaseEstop \/ ClockTick \/ Stop
      BY Zenon, <1>0, <3>3, OnlyRequestPends DEF ReleaseEstop, ClockTick, Stop
    <3> QED
      BY <1>1, <3>1, <3>2, <3>3
  <2>2. UNCHANGED <<caller, worker>> /\ shared'.command_queue = shared.command_queue
    BY Zenon, <1>0, <1>1 DEF SubmitVelocity, ReleaseEstop, ClockTick, Stop, HandleStatus,
       SharedStates
  <2> QED
    BY <2>1, <2>2, OutsideCarrier DEF Carries, Queued
<1>2. ASSUME NEW r \in EstopRequests, LatchEstop(r) \/ MarkEstop(r)
      PROVE  PendingHasCarrier'
  <2>1. NoNewPending(controller, controller')
    BY Zenon, <1>0, <1>2, OnlyRequestPends DEF LatchEstop, MarkEstop
  <2>2. UNCHANGED worker /\ shared'.command_queue = shared.command_queue
    BY <1>0, <1>2 DEF LatchEstop, MarkEstop, SharedStates
  <2>3. \A q \in ModeRequests : q # r /\ caller'[q] = caller[q]
    BY <1>0, <1>2, RuntimeAssumption DEF LatchEstop, MarkEstop
  <2> QED
    BY <2>1, <2>2, <2>3, OutsideCarrier DEF Carries, Queued
<1>3. ASSUME NEW r \in AuthorityRequests, RequestAuthority(r) PROVE PendingHasCarrier'
  <2>1. UNCHANGED <<controller, worker>>
    BY <1>3 DEF RequestAuthority
  <2>2. Queued \subseteq Queued'
    <3>1. CASE ~Disconnected /\ HasRoom
      <4> DEFINE command == [req |-> r, mode |-> NoMode]
      <4>1. command \in Commands
        BY DEF Commands
      <4>2. shared'.command_queue = Append(shared.command_queue, command)
        BY <1>0, <1>3, <3>1 DEF RequestAuthority, SharedStates
      <4> HIDE DEF command
      <4> QED
        BY <4>1, <4>2, Holders, ReqsPush DEF Queued
    <3>2. CASE ~(~Disconnected /\ HasRoom)
      BY <1>3, <3>2 DEF RequestAuthority, Queued
    <3> QED
      BY <3>1, <3>2
  <2>3. \A q \in ModeRequests : caller[q] = "accepted" => caller'[q] = "accepted"
    BY SMTT(30), <1>0, <1>3 DEF RequestAuthority
  <2> QED
    BY <1>0, <2>1, <2>2, <2>3, OutsideCarrier DEF Carries
<1>4. ASSUME NEW r \in ModeRequests, NEW name, CheckMode(r, name) PROVE PendingHasCarrier'
  <2>1. UNCHANGED <<controller, worker, shared>>
    BY <1>4 DEF CheckMode
  <2>2. \A q \in ModeRequests : caller[q] = "accepted" => caller'[q] = "accepted"
    BY <1>0, <1>4 DEF CheckMode
  <2> QED
    BY <1>0, <2>1, <2>2, OutsideCarrier DEF Carries, Queued
<1>5. ASSUME NEW r \in ModeRequests, AcceptMode(r) PROVE PendingHasCarrier'
  <2>1. CASE mode_accepted(controller, wanted[r])
    <3>1. caller'[r] = "accepted"
      BY SMTT(30), <1>0, <1>5, <2>1 DEF AcceptMode
    <3> QED
      BY SMTT(30), <3>1 DEF PendingHasCarrier
  <2>2. CASE ~mode_accepted(controller, wanted[r])
    <3>1. UNCHANGED <<controller, worker, shared>>
      BY SMTT(30), <1>5, <2>2 DEF AcceptMode, request_mode
    <3>2. \A q \in ModeRequests : caller[q] = "accepted" => caller'[q] = "accepted"
      BY <1>0, <1>5, <2>2 DEF AcceptMode
    <3> QED
      BY <1>0, <3>1, <3>2, OutsideCarrier DEF Carries, Queued
  <2> QED
    BY SMTT(30), <2>1, <2>2
<1>6. ASSUME NEW r \in ModeRequests, EnqueueMode(r) PROVE PendingHasCarrier'
  <2>1. CASE ~Disconnected /\ HasRoom
    <3> DEFINE command == [req |-> r, mode |-> wanted[r]]
    <3>1. command \in Commands /\ command.req = r
      BY <1>6 DEF Commands, EnqueueMode, TypeInv, ModesAreVendorModes
    <3>2. /\ shared'.command_queue = Append(shared.command_queue, command)
          /\ UNCHANGED <<controller, worker>>
          /\ \A q \in ModeRequests : q # r => caller'[q] = caller[q]
      BY SMTT(30), <1>0, <1>6, <2>1 DEF EnqueueMode, SharedStates
    <3> HIDE DEF command
    <3>3. Queued' = Queued \cup {r}
      BY <3>1, <3>2, Holders, ReqsPush DEF Queued
    <3> QED
      BY <1>0, <3>2, <3>3, OutsideCarrier DEF Carries
  <2>2. CASE ~(~Disconnected /\ HasRoom)
    BY Zenon, <1>6, <2>2, CompletesCarrier DEF EnqueueMode
  <2> QED
    BY <2>1, <2>2
<1>7. ASSUME NEW r \in Requests, Collect(r) PROVE PendingHasCarrier'
  <2>1. UNCHANGED <<controller, worker, shared>>
    BY <1>7 DEF Collect
  <2>2. \A q \in ModeRequests : caller[q] = "accepted" => caller'[q] = "accepted"
    BY <1>0, <1>7 DEF Collect
  <2> QED
    BY <1>0, <2>1, <2>2, OutsideCarrier DEF Carries, Queued
<1> QED
  BY SMTT(30), <1>1, <1>2, <1>3, <1>4, <1>5, <1>6, <1>7 DEF CallerStep

\* A transition pending in the controller is always on its way through a caller,
\* the queue or the worker, or the session is being torn down, for any number of
\* callers and any queue capacity: no interleaving of request_mode, the worker and
\* the emergency stop leaves motion gated by a transition nobody completes.
THEOREM PendingIsCarried == Spec => []PendingHasCarrier
<1>1. Init => PendingHasCarrier
  <2>1. ~InitialController.mode_transition_pending
    BY DEF InitialController
  <2> QED
    BY <2>1 DEF Init, PendingHasCarrier
<1>2. TypeInv /\ RequestInv /\ PendingHasCarrier /\ [Next]_vars => PendingHasCarrier'
  <2> SUFFICES ASSUME TypeInv, RequestInv, PendingHasCarrier, [Next]_vars
               PROVE  PendingHasCarrier'
    OBVIOUS
  <2>1. CASE UNCHANGED vars
    BY <2>1 DEF vars, PendingHasCarrier, InQueue
  <2> QED
    BY <2>1, WorkerCarrier, CallersCarrier DEF Next
<1> QED
  BY <1>1, <1>2, InitType, StepType, InitRequests, StepRequests, PTL DEF Spec

-----------------------------------------------------------------------------
(* The contract's steps, in the runtime's variables *)

\* The requests the contract calls accepted are the ones the runtime holds.
LEMMA AcceptedHeld ==
  ASSUME RequestInv, RequestInv' PROVE Accepted = Held /\ Accepted' = Held'
<1>1. Accepted = Held
  BY DEF RequestInv, Awaited, Accepted, Running, Held
<1>2. Accepted' = Held'
  BY DEF RequestInv, Awaited, Accepted, Running, Held
<1> QED
  BY SMTT(30), <1>1, <1>2

\* What a step may leave alone of what the contract speaks of.
SameSession == shared'.connected = shared.connected
SameServed == estop_served' = estop_served
SameMotion == sdk'.velocity = sdk.velocity

\* The contract does not see the step.
LEMMA MapStutter ==
  ASSUME promise' = promise, Accepted' = Accepted, SameSession, Latch, SameServed, SameMotion
  PROVE  UNCHANGED Contract!vars
  BY SMTT(30) DEF Contract!vars, Accepted, SameSession, Latch, SameLatch, SameServed,
     SameMotion

\* The robot is told to stand still.
LEMMA MapHalt ==
  ASSUME promise' = promise, Accepted' = Accepted, SameSession, Latch, SameServed,
         sdk'.velocity = 0
  PROVE  Contract!Next
  BY Zenon DEF Contract!Next, Contract!Halt, Accepted, SameSession, Latch, SameLatch,
     SameServed

\* The robot is told to move, in a session and with no stop served.
LEMMA MapMove ==
  ASSUME promise' = promise, Accepted' = Accepted, SameSession, Latch, SameServed,
         sdk'.velocity # 0, shared.connected, ~estop_served
  PROVE  Contract!Next
  BY DEF Contract!Next, Contract!Move, Accepted, SameSession, Latch, SameLatch,
     SameServed

\* A session begins with the robot told to stand still.
LEMMA MapConnect ==
  ASSUME promise' = promise, Accepted' = Accepted, ~shared.connected, shared'.connected,
         shared'.connected \in BOOLEAN, Latch, SameServed, sdk'.velocity = 0
  PROVE  Contract!Next
<1>1. Contract!Connect
  BY DEF Contract!Connect, Accepted, Latch, SameLatch, SameServed
<1> QED
  BY <1>1 DEF Contract!Next

\* A session ends and everyone accepted is failed.
LEMMA MapDisconnect ==
  ASSUME promise' = Given(Accepted, "failed"), Accepted' = {}, shared.connected,
         ~shared'.connected, Latch, SameServed, SameMotion
  PROVE  Contract!Next
<1>1. Contract!Disconnect
  BY DEF Contract!Disconnect, Contract!Answered, Given, Accepted, Latch, SameLatch,
     SameServed, SameMotion
<1> QED
  BY SMTT(30), <1>1 DEF Contract!Next

\* The latch is released.
LEMMA MapRelease ==
  ASSUME promise' = promise, Accepted' = Accepted, SameSession, SameMotion,
         ~controller'.estop_latched, ~estop_served'
  PROVE  Contract!Next
<1>1. Contract!Release
  BY DEF Contract!Release, Accepted, SameSession, SameMotion
<1> QED
  BY <1>1 DEF Contract!Next

\* Accepted requests fail.
LEMMA MapFail ==
  ASSUME NEW S, S \subseteq Accepted, S # {}, promise' = Given(S, "failed"),
         Accepted' = Accepted \ S, SameSession, Latch, SameServed,
         sdk'.velocity \in {0, sdk.velocity}
  PROVE  Contract!Next
<1>1. Contract!Fail(S)
  BY Zenon DEF Contract!Fail, Contract!Answered, Given, Accepted, SameSession, Latch,
     SameLatch, SameServed
<1> QED
  BY <1>1 DEF Contract!Next, Accepted

\* An accepted request succeeds.
LEMMA MapSucceed ==
  ASSUME NEW q \in Accepted, promise' = Given({q}, "ok"),
         Accepted' = Accepted \ {q}, SameSession, Latch, SameMotion, shared.connected,
         IF q \in EstopRequests
         THEN sdk.velocity = 0 /\ estop_served' = (estop_served \/ controller.estop_latched)
         ELSE SameServed
  PROVE  Contract!Next
<1>1. Contract!Succeed(q)
  BY SMTT(30) DEF Contract!Succeed, Contract!Answered, Given, Accepted, SameSession, Latch,
     SameLatch, SameServed, SameMotion
<1> QED
  BY SMTT(30), <1>1 DEF Contract!Next, Accepted

\* A caller reads its answer.
LEMMA MapCollect ==
  ASSUME NEW q \in Requests, promise[q] \in {"ok", "failed"},
         promise' = Given({q}, "none"), Accepted' = Accepted,
         SameSession, Latch, SameServed, SameMotion
  PROVE  Contract!Next
<1>1. Contract!Collect(q)
  BY DEF Contract!Collect, Contract!Answered, Given, Accepted, SameSession, Latch,
     SameLatch, SameServed, SameMotion
<1> QED
  BY <1>1 DEF Contract!Next

\* A call begins.
LEMMA MapAsk ==
  ASSUME NEW q \in Requests, promise[q] = "none",
         promise' = Given({q}, "waiting"), Accepted' = Accepted,
         controller'.estop_latched = (controller.estop_latched \/ q \in EstopRequests),
         SameSession, SameServed, SameMotion
  PROVE  Contract!Next
<1>1. Contract!Ask(q)
  BY DEF Contract!Ask, Contract!Answered, Given, Accepted, SameSession, SameServed,
     SameMotion
<1> QED
  BY <1>1 DEF Contract!Next

\* A call that is running, under the mapping.
Calling(q) ==
  \/ promise[q] = "waiting" /\ q \notin Accepted
  \/ promise[q] = "none" /\ q \notin EstopRequests

\* A call leaves its request with the session.
LEMMA MapAccept ==
  ASSUME NEW q \in Requests, Calling(q), shared.connected, NEW S,
         S \subseteq IF q \in EstopRequests THEN Accepted \cap EstopRequests ELSE {},
         promise' = [Given(S, "failed") EXCEPT ![q] = "waiting"],
         Accepted' = (Accepted \ S) \cup {q},
         SameSession, Latch, SameServed, SameMotion
  PROVE  Contract!Next
<1>1. Contract!Accept(q)
  <2>1. S \in SUBSET Contract!Superseded(q)
    BY DEF Contract!Superseded, Accepted
  <2>2. Contract!Called(q)
    BY DEF Contract!Called, Calling, Accepted
  <2> QED
    BY ZenonT(40), <2>1, <2>2 DEF Contract!Accept, Contract!Answered, Given, Accepted,
       SameSession, Latch, SameLatch, SameServed, SameMotion
<1> QED
  BY SMTT(30), <1>1 DEF Contract!Next

\* A call fails at once.
LEMMA MapRefuse ==
  ASSUME NEW q \in Requests, Calling(q), NEW S,
         S \subseteq IF q \in EstopRequests THEN Accepted \cap EstopRequests ELSE {},
         promise' = Given(S \cup {q}, "failed"),
         Accepted' = Accepted \ S,
         SameSession, Latch, SameServed, SameMotion
  PROVE  Contract!Next
<1>1. Contract!Refuse(q)
  <2>1. S \in SUBSET Contract!Superseded(q)
    BY DEF Contract!Superseded, Accepted
  <2>2. Contract!Called(q)
    BY DEF Contract!Called, Calling, Accepted
  <2> QED
    BY SMTT(30), <2>1, <2>2 DEF Contract!Refuse, Contract!Answered, Given, Accepted,
       SameSession, Latch, SameLatch, SameServed, SameMotion
<1> QED
  BY SMTT(30), <1>1 DEF Contract!Next

-----------------------------------------------------------------------------
(* The runtime's steps are steps of the contract *)

\* A step of the contract, or none.
Allowed == [Contract!Next]_(Contract!vars)

\* A step of the worker that fails some requests, or none, and may stop the robot.
LEMMA SettlesMaps ==
  ASSUME TypeInv, RequestInv, RequestInv', NEW A, Settles(A, "failed"),
         SameSession, Latch, SameServed, sdk'.velocity \in {0, sdk.velocity}
  PROVE  Allowed
<1>1. /\ A \subseteq Accepted /\ Accepted' = Accepted \ A /\ promise' = Given(A, "failed")
  BY AcceptedHeld DEF Settles
<1>2. CASE A # {}
  BY <1>1, <1>2, MapFail DEF Allowed
<1>3. CASE A = {}
  <2>1. promise' = promise /\ Accepted' = Accepted
    BY <1>1, <1>3, GivenNone
  <2> QED
    BY <2>1, MapStutter, MapHalt DEF Allowed, SameMotion
<1> QED
  BY <1>2, <1>3

\* A step of the worker that reports success.
LEMMA SucceedsMaps ==
  ASSUME TypeInv, RequestInv, RequestInv', NEW q, Settles({q} \cap Requests, "ok"),
         SameSession, Latch, SameMotion, shared.connected,
         IF q \in EstopRequests
         THEN sdk.velocity = 0 /\ estop_served' = (estop_served \/ controller.estop_latched)
         ELSE SameServed
  PROVE  Allowed
<1>1. CASE q \in Requests
  <2>1. {q} \cap Requests = {q}
    BY <1>1
  <2>2. q \in Accepted /\ Accepted' = Accepted \ {q} /\ promise' = Given({q}, "ok")
    BY <2>1, AcceptedHeld DEF Settles
  <2> QED
    BY <2>2, MapSucceed DEF Allowed
<1>2. CASE q \notin Requests
  <2>1. {q} \cap Requests = {} /\ q \notin EstopRequests
    BY <1>2, RequestSets
  <2>2. Accepted' = Accepted /\ promise' = promise
    BY <2>1, AcceptedHeld, GivenNone DEF Settles
  <2> QED
    BY SMTT(30), <2>1, <2>2, MapStutter DEF Allowed
<1> QED
  BY <1>1, <1>2

\* Connecting and tearing down.
LEMMA ConnectMaps ==
  ASSUME TypeInv, SessionInv, RequestInv, RequestInv', ConnectStep \/ Start
  PROVE  Allowed
<1>0. worker \in WorkerStates /\ shared \in SharedStates
      /\ sdk \in [live : BOOLEAN, velocity : Velocities]
  BY DEF TypeInv, TypeOK
<1>1. CASE \/ LoopHead \/ Start \/ Backoff \/ InvalidateCaches \/ InvalidateController
           \/ Deinit \/ \E ok \in BOOLEAN : Preflight(ok) \/ SdkInit(ok)
  <2>1. Steady
    BY <1>1, ConnectSteady
  <2>2. Settles({}, "failed")
    BY <1>1, ConnectQuiet DEF RequestInv
  <2>3. SameSession
    BY Zenon, <1>0, <1>1 DEF LoopHead, Start, Backoff, InvalidateCaches,
       InvalidateController,
       Deinit, Preflight, SdkInit, SameSession, SharedStates
  <2> QED
    BY <2>1, <2>2, <2>3, SettlesMaps DEF Steady, SameServed
<1>2. ASSUME NEW ok \in BOOLEAN, Subscribe(ok) PROVE Allowed
  <2>0. Settles({}, "failed") /\ Latch /\ SameServed
    BY <1>2, ConnectQuiet, Senders DEF RequestInv, SameServed
  <2>1. CASE ok /\ ~shared.stop_requested
    <3>1. worker.pc = "subscribe" /\ shared'.connected = TRUE /\ sdk'.velocity = 0
      BY <1>0, <1>2, <2>1 DEF Subscribe, At, SharedStates
    <3>2. ~shared.connected
      BY <3>1 DEF SessionInv, Located, OfflinePCs
    <3>3. promise' = promise /\ Accepted' = Accepted
      BY <2>0, AcceptedHeld, GivenNone DEF Settles
    <3> QED
      BY Zenon, <2>0, <3>1, <3>2, <3>3, MapConnect DEF Allowed
  <2>2. CASE ~(ok /\ ~shared.stop_requested)
    <3>1. UNCHANGED <<shared, sdk>>
      BY SMTT(30), <1>2, <2>2 DEF Subscribe
    <3> QED
      BY <2>0, <3>1, SettlesMaps DEF SameSession
  <2> QED
    BY <2>1, <2>2
<1>3. CASE SessionEnd
  <2>1. Steady
    BY <1>3, ConnectSteady
  <2>2. Held' = {} /\ Settles(Held, "failed")
    BY <1>3, SessionEndSettles
  <2>3. worker.pc = "session_end" /\ ~shared'.connected
    BY <1>0, <1>3 DEF SessionEnd, At, SharedStates
  <2>4. shared.connected
    BY <2>3 DEF SessionInv, Located, OfflinePCs
  <2> QED
    BY SMTT(30), <2>1, <2>2, <2>3, <2>4, AcceptedHeld, MapDisconnect
    DEF Allowed, Settles, Steady, SameServed, SameMotion
<1> QED
  BY <1>1, <1>2, <1>3 DEF ConnectStep

\* Serving a session.
LEMMA ServingMaps ==
  ASSUME TypeInv, SessionInv, RequestInv, RequestInv', StillInv,
         CommandStep \/ PeriodicStep
  PROVE  Allowed
<1>0. SameSession /\ shared.connected /\ worker \in WorkerStates
  BY Zenon, CommandEffect, PeriodicEffect
  DEF SessionEffect, SameSession, SessionInv, Located, TypeInv, TypeOK
<1>1. ASSUME NEW A, Settles(A, "failed"), Steady PROVE Allowed
  BY <1>0, <1>1, SettlesMaps DEF Steady, SameServed
<1>2. CASE \/ Wait \/ Settle \/ TakeRefresh \/ SkipMotion
           \/ NotExpired \/ SkipPoll \/ ApplySnapshot \/ PollSettle \/ Actuate
           \/ \E outcome \in {"skip", "ok", "fail"} : Heartbeat(outcome)
           \/ \E s \in Snapshots : TakeSnapshot(s)
  BY Zenon, <1>1, <1>2, LoopQuiet, ServingQuiet, LoopSteady DEF RequestInv
<1>3. CASE \/ TakeEstop \/ DrainForEstop \/ EstopGate \/ Pop
           \/ \E ok \in BOOLEAN : SetMode(ok)
  BY SMTT(30), <1>1, <1>3, AnswersSteady, TakeEstopSettles, DrainSettles, EstopGateSettles,
     PopSettles, SetModeSettles
<1>4. CASE SettleAbort \/ Expire \/ PollAbort
  BY SMTT(30), <1>1, <1>4, AnswersSteady, AbortSettles, IdlePlaces DEF SettleAbort, Expire,
     PollAbort
<1>5. CASE PollCheck
  BY <1>1, <1>5, AnswersSteady, PollSettles
<1>6. CASE PollComplete
  <2>1. Steady /\ Settles({worker.mode_transition.promise} \cap Requests, "ok")
    BY <1>6, AnswersSteady, PollSettles
  <2>2. worker.mode_transition.promise \notin EstopRequests
    BY Holders, RuntimeAssumption, RequestSets
  <2> QED
    BY <1>0, <2>1, <2>2, SucceedsMaps DEF Steady, SameServed, SameMotion
<1>7. ASSUME NEW outcome \in {"ok", "fail", "throw"}, ExecuteAuthority(outcome)
      PROVE  Allowed
  <2>0. Steady
    BY <1>7, AnswersSteady
  <2>1. CASE outcome = "ok"
    <3>1. Settles({worker.cur.req} \cap Requests, "ok")
      BY <1>7, <2>1, AuthoritySettles
    <3>2. worker.cur.req \notin EstopRequests
      BY <1>7, RuntimeAssumption DEF ExecuteAuthority, At, RequestInv, HeldOnce,
         ServedAt
    <3> QED
      BY <1>0, <2>0, <3>1, <3>2, SucceedsMaps DEF Steady, SameServed, SameMotion
  <2>2. CASE outcome # "ok"
    BY <1>1, <1>7, <2>0, <2>2, AuthoritySettles
  <2> QED
    BY <2>1, <2>2
<1>8. ASSUME NEW ok \in BOOLEAN, SendDamping(ok) PROVE Allowed
  <2> DEFINE q == worker.cur.req
  <2>0. /\ Latch /\ sdk' = sdk /\ worker.pc = "send_damping"
        /\ estop_served' = (estop_served \/
             (q # NoRequest /\ Stopped(ok) /\ controller.estop_latched))
    BY <1>8, Senders
  <2>1. Settles({q} \cap Requests, IF Stopped(ok) THEN "ok" ELSE "failed")
    BY SMTT(30), <1>8, DampingSettles
  <2>2. q \in EstopRequests \cup {NoRequest}
    BY <2>0 DEF RequestInv, HeldOnce, ServedAt
  <2>3. estop_served \in BOOLEAN /\ NoRequest \notin EstopRequests
    BY RuntimeAssumption, RequestSets DEF TypeInv, TypeOK
  <2> HIDE DEF q
  <2>4. CASE Stopped(ok)
    <3>1. sdk.velocity = 0
      BY <2>0, <2>4 DEF StillInv, Stopped
    <3>2. IF q \in EstopRequests
          THEN estop_served' = (estop_served \/ controller.estop_latched)
          ELSE SameServed
      BY <2>0, <2>2, <2>3, <2>4 DEF SameServed
    <3> QED
      BY SMTT(30), <1>0, <2>0, <2>1, <2>4, <3>1, <3>2, SucceedsMaps DEF SameMotion
  <2>5. CASE ~Stopped(ok)
    <3>1. SameServed
      BY SMTT(30), <2>0, <2>3, <2>5 DEF SameServed
    <3> QED
      BY SMTT(30), <1>0, <2>0, <2>1, <2>5, <3>1, SettlesMaps
  <2> QED
    BY <2>4, <2>5
<1>9. ASSUME NEW ok \in BOOLEAN, SendZero(ok) PROVE Allowed
  BY Zenon, <1>0, <1>9, ServingQuiet, Senders, SettlesMaps DEF RequestInv, SameServed
<1>10. ASSUME NEW ok \in BOOLEAN, ZeroBeforeMode(ok) PROVE Allowed
  <2>1. \E A : Settles(A, "failed")
    <3>1. CASE ok
      BY <1>10, <3>1, ServingQuiet DEF RequestInv
    <3>2. CASE ~ok
      BY SMTT(30), <1>10, <3>2, FailModeSettles DEF ZeroBeforeMode
    <3> QED
      BY <3>1, <3>2
  <2> QED
    BY <1>0, <1>10, <2>1, Senders, SettlesMaps DEF SameServed
<1>11. CASE MotionTick
  BY SMTT(30), <1>0, <1>11, LoopQuiet, Senders, SettlesMaps DEF RequestInv, SameServed
<1>12. ASSUME NEW ok \in BOOLEAN, SendTick(ok) PROVE Allowed
  <2>1. Settles({}, "failed") /\ Latch /\ SameServed
        /\ worker.pc = "tick_send" /\ sdk'.velocity \in {worker.target, sdk.velocity}
    BY SMTT(30), <1>12, LoopQuiet, Senders DEF RequestInv, SameServed
  <2>2. CASE sdk'.velocity \in {0, sdk.velocity}
    BY SMTT(30), <1>0, <2>1, <2>2, SettlesMaps
  <2>3. CASE sdk'.velocity \notin {0, sdk.velocity}
    <3>1. ~estop_served
      BY <2>1, <2>3 DEF StillInv
    <3>2. promise' = promise /\ Accepted' = Accepted
      BY SMTT(30), <2>1, AcceptedHeld, GivenNone DEF Settles
    <3> QED
      BY SMTT(30), <1>0, <2>1, <2>3, <3>1, <3>2, MapMove DEF Allowed
  <2> QED
    BY SMTT(30), <2>2, <2>3
<1>13. CASE CommandStep
  BY SMTT(30), <1>2, <1>3, <1>4, <1>7, <1>8, <1>9, <1>10, <1>13 DEF CommandStep
<1>14. CASE PeriodicStep
  BY SMTT(30), <1>2, <1>4, <1>5, <1>6, <1>11, <1>12, <1>14 DEF PeriodicStep
<1> QED
  BY SMTT(30), <1>13, <1>14

\* Writing one answer is giving it.
LEMMA GivenExcept ==
  ASSUME TypeInv, NEW r \in Requests, NEW a
  PROVE  /\ [promise EXCEPT ![r] = a] = Given({r}, a)
         /\ [promise EXCEPT ![r] = a] = [Given({}, "failed") EXCEPT ![r] = a]
         /\ \A S : [Given(S, "failed") EXCEPT ![r] = "failed"] = Given(S \cup {r}, "failed")
<1>1. promise \in [Requests -> Answers]
  BY DEF TypeInv, TypeOK, Answers
<1>2. [promise EXCEPT ![r] = a] = Given({r}, a)
  BY Zenon, <1>1 DEF Given
<1>3. [promise EXCEPT ![r] = a] = [Given({}, "failed") EXCEPT ![r] = a]
  BY GivenNone
<1>4. \A S : [Given(S, "failed") EXCEPT ![r] = "failed"] = Given(S \cup {r}, "failed")
  BY Zenon DEF Given
<1> QED
  BY <1>2, <1>3, <1>4

\* A call that fails at once and leaves nothing behind.
LEMMA RefusedMaps ==
  ASSUME TypeInv, RequestInv, RequestInv', NEW r \in Requests, Calling(r),
         promise' = [promise EXCEPT ![r] = "failed"], UNCHANGED <<shared, worker>>,
         Latch, SameServed, SameMotion
  PROVE  Allowed
<1>1. Accepted' = Accepted \ {}
  BY NothingHandedOver, AcceptedHeld DEF RequestInv
<1>2. promise' = Given({} \cup {r}, "failed")
  BY Zenon, GivenExcept
<1> QED
  BY Zenon, <1>1, <1>2, MapRefuse DEF Allowed, SameSession

\* A call that leaves its command in the queue.
LEMMA QueuedMaps ==
  ASSUME TypeInv, RequestInv, RequestInv', NEW r \in Requests, Calling(r),
         promise' = [promise EXCEPT ![r] = "waiting"], Held' = Held \cup {r},
         shared.connected, SameSession, Latch, SameServed, SameMotion
  PROVE  Allowed
<1>1. Accepted' = (Accepted \ {}) \cup {r}
  BY AcceptedHeld
<1>2. promise' = [Given({}, "failed") EXCEPT ![r] = "waiting"]
  BY Zenon, GivenExcept
<1> QED
  BY Zenon, <1>1, <1>2, MapAccept DEF Allowed

\* Calls, callbacks, the clock and stop() are steps of the contract, or none.
LEMMA CallersMap ==
  ASSUME TypeInv, RequestInv, RequestInv',
         \/ CallerStep \/ ClockTick \/ Stop
         \/ \E linked, authority \in BOOLEAN : HandleStatus(linked, authority)
  PROVE  Allowed
<1>0. /\ shared \in SharedStates /\ controller \in ControllerStates
      /\ controller.estop_latched \in BOOLEAN
      /\ SameLatch(controller, controller)
  BY DEF TypeInv, TypeOK, SameLatch, ControllerStates
<1>1. ASSUME NEW r \in EstopRequests, LatchEstop(r) PROVE Allowed
  <2>1. r \in Requests /\ promise[r] = "none"
    BY <1>1, RequestSets DEF LatchEstop, RequestInv, Awaited
  <2>2. promise' = Given({r}, "waiting")
    BY Zenon, <1>1, <2>1, GivenExcept DEF LatchEstop
  <2>3. Accepted' = Accepted
    BY <1>1, NothingHandedOver, AcceptedHeld DEF LatchEstop, RequestInv
  <2>4. controller'.estop_latched = (controller.estop_latched \/ r \in EstopRequests)
    <3>1. trigger_estop(controller) \in ControllerStates
      BY <1>0, EstopKeeps DEF TypeInv
    <3>2. controller'.estop_latched = TRUE
      BY Zenon, <1>0, <1>1, <3>1, OnlyEstopLatches DEF LatchEstop, ControllerStates
    <3> QED
      BY Zenon, <3>2
  <2> QED
    BY Zenon, <1>1, <2>1, <2>2, <2>3, <2>4, MapAsk
    DEF LatchEstop, historyVars, SameSession, SameServed, SameMotion, Allowed
<1>2. ASSUME NEW r \in EstopRequests, MarkEstop(r) PROVE Allowed
  <2> DEFINE S == {shared.estop_promise} \cap Requests
  <2>1. /\ S \subseteq Held \cap EstopRequests /\ r \notin Held /\ promise[r] = "waiting"
        /\ promise' = [Given(S, "failed") EXCEPT ![r] = IF Disconnected THEN "failed" ELSE "waiting"]
        /\ Held' = IF Disconnected THEN Held \ S ELSE (Held \ S) \cup {r}
    BY Zenon, <1>2, MarkEffect
  <2>2. r \in Requests
    BY RequestSets
  <2>3. SameSession /\ Latch /\ SameServed /\ SameMotion
    BY SMTT(30), <1>0, <1>2 DEF MarkEstop, SharedStates, historyVars, SameSession, Latch,
       SameServed, SameMotion
  <2> HIDE DEF S
  <2>4. Calling(r) /\ S \subseteq Accepted \cap EstopRequests
    BY <2>1, AcceptedHeld DEF Calling
  <2>5. CASE Disconnected
    <3>1. promise' = Given(S \cup {r}, "failed")
      BY ZenonT(40), <2>1, <2>2, <2>5, GivenExcept
    <3>2. Accepted' = Accepted \ S
      BY <2>1, <2>5, AcceptedHeld
    <3> QED
      BY SMTT(30), <2>2, <2>3, <2>4, <3>1, <3>2, MapRefuse DEF Allowed
  <2>6. CASE ~Disconnected
    <3>1. promise' = [Given(S, "failed") EXCEPT ![r] = "waiting"]
      BY <2>1, <2>6
    <3>2. Accepted' = (Accepted \ S) \cup {r}
      BY <2>1, <2>6, AcceptedHeld
    <3>3. shared.connected
      BY <2>6 DEF Disconnected
    <3> QED
      BY SMTT(30), <2>2, <2>3, <2>4, <3>1, <3>2, <3>3, MapAccept DEF Allowed
  <2> QED
    BY <2>5, <2>6
<1>3. ASSUME NEW r \in AuthorityRequests, RequestAuthority(r) PROVE Allowed
  <2>1. /\ r \in Requests /\ promise[r] = "none" /\ r \notin EstopRequests /\ r \notin Held
    BY <1>3, RequestSets, RuntimeAssumption DEF RequestAuthority, RequestInv, Awaited
  <2>2. Calling(r) /\ SameSession /\ Latch /\ SameServed /\ SameMotion
    BY <1>0, <1>3, <2>1 DEF RequestAuthority, SharedStates, historyVars, SameSession,
       Latch, SameServed, SameMotion, Calling
  <2>3. CASE ~Disconnected /\ HasRoom
    <3> DEFINE command == [req |-> r, mode |-> NoMode]
    <3>1. command \in Commands /\ command.req = r
      BY DEF Commands
    <3>2. /\ shared' = [shared EXCEPT !.command_queue = Append(@, command)]
          /\ UNCHANGED worker
          /\ caller' = [caller EXCEPT ![r] = "returned"]
          /\ promise' = [promise EXCEPT ![r] = "waiting"]
      BY <1>3, <2>3 DEF RequestAuthority
    <3> HIDE DEF command
    <3>3. Held' = Held \cup {r}
      BY Zenon, <2>1, <3>1, <3>2, PushKeeps
    <3> QED
      BY Zenon, <2>1, <2>2, <2>3, <3>2, <3>3, QueuedMaps DEF Disconnected
  <2>4. CASE ~(~Disconnected /\ HasRoom)
    BY SMTT(30), <1>3, <2>1, <2>2, <2>4, RefusedMaps DEF RequestAuthority
  <2> QED
    BY <2>3, <2>4
<1>4. ASSUME NEW r \in ModeRequests, NEW name, CheckMode(r, name) PROVE Allowed
  <2>1. r \in Requests /\ promise[r] = "none" /\ r \notin EstopRequests
    BY <1>4, RequestSets, RuntimeAssumption DEF CheckMode, RequestInv, Awaited
  <2>2. /\ Calling(r) /\ Latch /\ SameServed /\ SameMotion
        /\ UNCHANGED <<shared, worker, controller>>
    BY SMTT(30), <1>0, <1>4, <2>1 DEF CheckMode, historyVars, Latch, SameServed, SameMotion,
       Calling
  <2>3. CASE Disconnected
    BY SMTT(30), <1>4, <2>1, <2>2, <2>3, RefusedMaps DEF CheckMode
  <2>4. CASE ~Disconnected
    <3>1. promise' = Given({r}, "waiting")
      BY Zenon, <1>4, <2>1, <2>4, GivenExcept DEF CheckMode
    <3>2. Accepted' = Accepted
      BY <2>2, NothingHandedOver, AcceptedHeld DEF RequestInv
    <3>3. controller'.estop_latched = (controller.estop_latched \/ r \in EstopRequests)
      BY <1>0, <2>1, <2>2
    <3> QED
      BY SMTT(30), <2>1, <2>2, <3>1, <3>2, <3>3, MapAsk DEF SameSession, Allowed
  <2> QED
    BY <2>3, <2>4
<1>5. ASSUME NEW r \in ModeRequests, AcceptMode(r) PROVE Allowed
  <2>1. /\ r \in Requests /\ r \notin Held /\ promise[r] = "waiting"
        /\ set_promise(promise, r, "failed") = [promise EXCEPT ![r] = "failed"]
    BY SMTT(30), <1>5, RunningAwaited DEF AcceptMode
  <2>2. Latch
    BY ZenonT(40), <1>0, <1>5, OnlyEstopLatches DEF AcceptMode, Latch
  <2>3. SameServed /\ SameMotion /\ UNCHANGED <<shared, worker>>
    BY Zenon, <1>5 DEF AcceptMode, historyVars, SameServed, SameMotion
  <2>4. CASE mode_accepted(controller, wanted[r])
    <3>1. promise' = promise
      BY <1>5, <2>4 DEF AcceptMode
    <3>2. Accepted' = Accepted
      BY SMTT(30), <2>3, NothingHandedOver, AcceptedHeld DEF RequestInv
    <3> QED
      BY SMTT(30), <2>2, <2>3, <3>1, <3>2, MapStutter DEF SameSession, Allowed
  <2>5. CASE ~mode_accepted(controller, wanted[r])
    <3>1. promise' = [promise EXCEPT ![r] = "failed"]
      BY <1>5, <2>1, <2>5 DEF AcceptMode
    <3>2. Calling(r)
      BY SMTT(30), <2>1, AcceptedHeld DEF Calling
    <3> QED
      BY Zenon, <2>1, <2>2, <2>3, <3>1, <3>2, RefusedMaps
  <2> QED
    BY SMTT(30), <2>4, <2>5
<1>6. ASSUME NEW r \in ModeRequests, EnqueueMode(r) PROVE Allowed
  <2>1. /\ r \in Requests /\ r \notin Held /\ promise[r] = "waiting"
        /\ promise = [promise EXCEPT ![r] = "waiting"]
        /\ set_promise(promise, r, "failed") = [promise EXCEPT ![r] = "failed"]
    BY <1>6, RunningAwaited DEF EnqueueMode
  <2>2. Latch
    BY Zenon, <1>0, <1>6, OnlyEstopLatches DEF EnqueueMode, Latch
  <2>3. SameServed /\ SameMotion /\ UNCHANGED worker /\ SameSession
    BY Zenon, <1>0, <1>6 DEF EnqueueMode, historyVars, SameServed, SameMotion, SameSession,
       SharedStates
  <2>4. Calling(r)
    BY <2>1, AcceptedHeld DEF Calling
  <2>5. CASE ~Disconnected /\ HasRoom
    <3> DEFINE command == [req |-> r, mode |-> wanted[r]]
    <3>1. command \in Commands /\ command.req = r
      BY <1>6 DEF Commands, EnqueueMode, TypeInv, ModesAreVendorModes
    <3>2. /\ shared' = [shared EXCEPT !.command_queue = Append(@, command)]
          /\ caller' = [caller EXCEPT ![r] = "returned"]
          /\ promise' = [promise EXCEPT ![r] = "waiting"]
      BY <1>6, <2>1, <2>5 DEF EnqueueMode
    <3> HIDE DEF command
    <3>3. Held' = Held \cup {r}
      BY Zenon, <2>1, <2>3, <3>1, <3>2, PushKeeps
    <3> QED
      BY Zenon, <2>1, <2>2, <2>3, <2>4, <2>5, <3>2, <3>3, QueuedMaps DEF Disconnected
  <2>6. CASE ~(~Disconnected /\ HasRoom)
    BY Zenon, <1>6, <2>1, <2>2, <2>3, <2>4, <2>6, RefusedMaps DEF EnqueueMode
  <2> QED
    BY <2>5, <2>6
<1>7. ASSUME NEW r \in Requests, Collect(r) PROVE Allowed
  <2>1. promise' = Given({r}, "none")
    BY ZenonT(40), <1>7, GivenExcept DEF Collect
  <2>2. Accepted' = Accepted
    BY <1>7, NothingHandedOver, AcceptedHeld DEF Collect, RequestInv
  <2> QED
    BY Zenon, <1>0, <1>7, <2>1, <2>2, MapCollect
    DEF Collect, historyVars, SameSession, Latch, SameServed, SameMotion, Allowed
<1>8. ASSUME \/ \E finite \in BOOLEAN, v \in VelocityInputs : SubmitVelocity(finite, v)
             \/ \E linked, authority \in BOOLEAN : HandleStatus(linked, authority)
             \/ ReleaseEstop \/ ClockTick \/ Stop
      PROVE  Allowed
  <2>1. promise' = promise /\ Accepted' = Accepted /\ SameSession /\ SameMotion
    BY <1>8, Bystanders DEF Accepted, SameSession, SameMotion
  <2>2. ASSUME Latch, SameServed PROVE Allowed
    BY SMTT(30), <2>1, <2>2, MapStutter DEF Allowed
  <2>3. ASSUME NEW finite, NEW v, SubmitVelocity(finite, v) PROVE Allowed
    BY ZenonT(40), <1>0, <2>2, <2>3, OnlyEstopLatches DEF SubmitVelocity, historyVars, Latch,
       SameServed
  <2>4. ASSUME NEW linked, NEW authority, HandleStatus(linked, authority) PROVE Allowed
    BY Zenon, <1>0, <2>2, <2>4, UpdateLatches DEF HandleStatus, Latch, SameServed
  <2>5. CASE ReleaseEstop
    BY Zenon, <1>0, <2>1, <2>5, OnlyEstopLatches, MapRelease DEF ReleaseEstop, Allowed
  <2>6. CASE ClockTick
    BY ZenonT(40), <1>0, <2>2, <2>6, OnlyEstopLatches DEF ClockTick, historyVars, Latch,
       SameServed
  <2>7. CASE Stop
    BY <1>0, <2>2, <2>7 DEF Stop, historyVars, Latch, SameServed
  <2> QED
    BY SMTT(30), <1>8, <2>3, <2>4, <2>5, <2>6, <2>7
<1> QED
  BY SMTT(30), <1>1, <1>2, <1>3, <1>4, <1>5, <1>6, <1>7, <1>8 DEF CallerStep

\* The runtime, with any number of callers and any configuration, implements the
\* contract: requests are accepted only in a session and answered once, the end of
\* a session leaves none behind, and after a stop was reported done the robot is
\* told nothing but to stand still until the latch is released (trigger_estop,
\* request_authority, request_mode, worker_main, run_connected_loop).
THEOREM RefinesContract == Spec => ImplementsContract
<1>1. Init => Contract!Init
  <2> SUFFICES ASSUME Init PROVE Contract!Init
    OBVIOUS
  <2>1. {r \in Requests : caller[r] = "returned" /\ promise[r] = "waiting"} = {}
    BY Zenon DEF Init
  <2> QED
    BY ZenonT(40), <2>1 DEF Init, Contract!Init, InitialController
<1>2. TypeInv /\ SessionInv /\ RequestInv /\ RequestInv' /\ StillInv /\ [Next]_vars
        => [Contract!Next]_(Contract!vars)
  <2> SUFFICES ASSUME TypeInv, SessionInv, RequestInv, RequestInv', StillInv, [Next]_vars
               PROVE  Allowed
    BY DEF Allowed
  <2>1. CASE UNCHANGED vars
    BY <2>1 DEF vars, Allowed, Contract!vars
  <2> QED
    BY <2>1, ConnectMaps, ServingMaps, CallersMap DEF Next, WorkerStep
<1> QED
  BY <1>1, <1>2, InitType, StepType, InitSession, StepSession, InitRequests,
     StepRequests, InitStill, StepStill, PTL DEF Spec, ImplementsContract, Contract!Spec

\* A stop that was reported done holds the robot still for as long as it is latched,
\* and no request is left with a session that is over, however many callers there
\* are: both follow from the contract, which the runtime implements (trigger_estop,
\* request_authority, request_mode, worker_main).
THEOREM RuntimeHoldsStops ==
  Spec => [](Contract!HeldIsStill /\ Contract!NobodyLeftWaiting)
<1>1. ContractInv => Contract!HeldIsStill /\ Contract!NobodyLeftWaiting
  BY DEF ContractInv
<1>2. QED
  BY <1>1, RefinesContract, ContractInvariance, PTL DEF ImplementsContract

\* The runtime never takes an answer back: once a future holds a result it keeps it
\* until its caller has read it (set_promise: "the first answer wins").
THEOREM AnswersAreFinal == Spec => Contract!AnswerIsFinal
  BY RefinesContract, ContractAnswers, PTL DEF ImplementsContract
=============================================================================
