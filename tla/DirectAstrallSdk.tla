--------------------------- MODULE DirectAstrallSdk ---------------------------
(***************************************************************************)
(* The lifecycle of the SDK adapter (src/direct_astrall_sdk.cpp): init, the *)
(* vendor calls and subscriptions, deliveries from vendor threads or from  *)
(* inside a vendor call, and the teardown that waits the deliveries out,   *)
(* whether it is run by deinit() or deferred by a callback.                *)
(*                                                                         *)
(* A step is one critical section of gate_mutex, or one vendor call; the   *)
(* lifecycle and teardown mutexes are held across steps.  Everything a     *)
(* generation leaves behind (callbacks, caches) is named by its number, 0  *)
(* meaning none, so that leftovers can be told from the current ones.      *)
(***************************************************************************)
EXTENDS Naturals, FiniteSets

CONSTANTS
  Apps,         \* threads outside any callback that call the adapter
  Deliveries,   \* vendor callbacks that may be running at once
  Topics,       \* subscribed topics besides "status"
  Nobody,       \* no thread
  MaxInits      \* bound on the generations a behaviour may start

ASSUME SdkAssumption ==
  /\ Nobody \notin Apps
  /\ IsFiniteSet(Deliveries)
  /\ Topics \subseteq {"imu", "sport", "lidar"}
  /\ MaxInits \in Nat

VARIABLES
  gate,       \* what gate_mutex guards
  callback,   \* the generation whose project callback is stored, by topic
  cache,      \* the generation that filled the telemetry cache, by topic
  lifecycle,  \* holder of lifecycle_mutex
  teardown,   \* holder of teardown_mutex
  app,        \* where each application thread is
  delivery,   \* what each delivery is doing
  vendor,     \* external: the vendor library is initialized
  gen,        \* generations started so far
  drained     \* history: the last generation a completed deinit() covered

vars == <<gate, callback, cache, lifecycle, teardown, app, delivery, vendor,
          gen, drained>>

AllTopics   == Topics \cup {"status"}
CachedTopics == {"status", "sport"}
Generations == 0..MaxInits
States      == {"Uninitialized", "Initializing", "Initialized", "ShuttingDown"}

\* Idle, or inside a vendor call or a teardown; a subscription remembers its
\* topic and the callback it displaced.
Idle == [pc |-> "idle", topic |-> "status", previous |-> 0, need_wait |-> FALSE]
NotRunning == [running |-> FALSE, on |-> Nobody, callback |-> 0]

Init ==
  /\ gate = [state |-> "Uninitialized", in_flight |-> 0,
             deferred_teardown |-> FALSE]
  /\ callback = [t \in AllTopics |-> 0]
  /\ cache = [t \in AllTopics |-> 0]
  /\ lifecycle = Nobody
  /\ teardown = Nobody
  /\ app = [a \in Apps |-> Idle]
  /\ delivery = [d \in Deliveries |-> NotRunning]
  /\ vendor = FALSE
  /\ gen = 0
  /\ drained = 0

At(a, pc) == app[a].pc = pc

\* No synchronous callback is left on a's stack: its vendor call may return.
StackClear(a) == \A d \in Deliveries : delivery[d].on # a

-----------------------------------------------------------------------------
(* Deliveries *)

\* Fault: only a delivery with a project callback is counted.
CountedIfCalled(t) == IF callback[t] = 0 THEN 0 ELSE 1

\* Every delivery the gate admits is counted, callback or not.
Counted(t) == 1

\* deliver_status, deliver_imu, deliver_sport, deliver_lidar_discard up to the
\* project callback, on a vendor thread (Nobody) or inside a's vendor call.
Deliver(d, t, on) ==
  /\ ~delivery[d].running
  /\ on \in Apps => At(on, "init") \/ At(on, "call") \/ At(on, "subscribe")
  /\ on \in Apps => StackClear(on)
  /\ gate.state \in {"Initializing", "Initialized"}
  /\ gate' = [gate EXCEPT !.in_flight = @ + Counted(t)]
  /\ cache' = IF t \in CachedTopics THEN [cache EXCEPT ![t] = gen] ELSE cache
  /\ delivery' = [delivery EXCEPT ![d] =
                    [running |-> TRUE, on |-> on, callback |-> callback[t]]]
  /\ UNCHANGED <<callback, lifecycle, teardown, app, vendor, gen, drained>>

\* deinit() from a project callback only leaves the request behind. The other
\* entry points refuse a re-entrant call and change nothing.
CallbackDeinit(d) ==
  /\ delivery[d].running
  /\ delivery[d].callback # 0
  /\ gate' = [gate EXCEPT !.deferred_teardown = TRUE]
  /\ UNCHANGED <<callback, cache, lifecycle, teardown, app, delivery, vendor,
                 gen, drained>>

\* InFlightGuard
FinishDelivery(d) ==
  /\ delivery[d].running
  /\ gate' = [gate EXCEPT !.in_flight = @ - 1]
  /\ delivery' = [delivery EXCEPT ![d] = NotRunning]
  /\ UNCHANGED <<callback, cache, lifecycle, teardown, app, vendor, gen, drained>>

-----------------------------------------------------------------------------
(* Vendor calls *)

\* Fault: the sport cache of the previous generation is kept.
CachesKeptBy(previous) == [t \in AllTopics |-> IF t = "status" THEN 0 ELSE previous[t]]

\* A new generation starts with empty caches.
CachesAtInit(previous) == [t \in AllTopics |-> 0]

\* init() up to the vendor call; refused, with no effect, in any other state.
InitEnter(a) ==
  /\ At(a, "idle")
  /\ lifecycle = Nobody
  /\ gate.state = "Uninitialized"
  /\ gen < MaxInits
  /\ gen' = gen + 1
  /\ gate' = [gate EXCEPT !.state = "Initializing"]
  /\ callback' = [callback EXCEPT !["status"] = gen + 1]
  /\ cache' = CachesAtInit(cache)
  /\ lifecycle' = a
  /\ app' = [app EXCEPT ![a].pc = "init"]
  /\ UNCHANGED <<teardown, delivery, vendor, drained>>

\* finish_with_deferred_teardown: a request left by a callback is claimed by the
\* vendor call that returns next, which goes on to tear down.
Claim(a) ==
  /\ gate.deferred_teardown
  /\ gate' = [gate EXCEPT !.deferred_teardown = FALSE]
  /\ app' = [app EXCEPT ![a] = [Idle EXCEPT !.pc = "ensure"]]
  /\ UNCHANGED <<callback, cache>>

\* The vendor call returns and no request is pending: unlock and return.
Return(a) ==
  /\ ~gate.deferred_teardown
  /\ app' = [app EXCEPT ![a] = Idle]

InitReturn(a, ok) ==
  /\ At(a, "init")
  /\ StackClear(a)
  /\ vendor' = ok
  /\ lifecycle' = Nobody
  /\ \/ Claim(a)
     \/ /\ Return(a)
        /\ ok
        /\ gate' = [gate EXCEPT !.state = "Initialized"]
        /\ UNCHANGED <<callback, cache>>
     \/ /\ Return(a)
        /\ ~ok
        /\ gate' = [gate EXCEPT !.state = "Uninitialized"]
        /\ callback' = [callback EXCEPT !["status"] = 0]
        /\ cache' = [cache EXCEPT !["status"] = 0]
  /\ UNCHANGED <<teardown, delivery, gen, drained>>

\* heartbeat, request_authority, move, set_mode and snapshot alike: refused
\* unless initialized, and under lifecycle_mutex from the check to the return.
CallEnter(a) ==
  /\ At(a, "idle")
  /\ lifecycle = Nobody
  /\ gate.state = "Initialized"
  /\ lifecycle' = a
  /\ app' = [app EXCEPT ![a].pc = "call"]
  /\ UNCHANGED <<gate, callback, cache, teardown, delivery, vendor, gen, drained>>

CallReturn(a) ==
  /\ At(a, "call")
  /\ StackClear(a)
  /\ lifecycle' = Nobody
  /\ Claim(a) \/ (Return(a) /\ UNCHANGED <<gate, callback, cache>>)
  /\ UNCHANGED <<teardown, delivery, vendor, gen, drained>>

\* subscribe_imu, subscribe_sport, subscribe_lidar: the callback is installed
\* before the vendor call and put back when it fails.
SubscribeEnter(a, t) ==
  /\ At(a, "idle")
  /\ lifecycle = Nobody
  /\ gate.state = "Initialized"
  /\ lifecycle' = a
  /\ callback' = [callback EXCEPT ![t] = gen]
  /\ app' = [app EXCEPT ![a] = [Idle EXCEPT !.pc = "subscribe", !.topic = t,
                                            !.previous = callback[t]]]
  /\ UNCHANGED <<gate, cache, teardown, delivery, vendor, gen, drained>>

SubscribeReturn(a, ok) ==
  /\ At(a, "subscribe")
  /\ StackClear(a)
  /\ lifecycle' = Nobody
  /\ \/ Claim(a)
     \/ /\ Return(a)
        /\ callback' = IF ok THEN callback
                       ELSE [callback EXCEPT ![app[a].topic] = app[a].previous]
        /\ UNCHANGED <<gate, cache>>
  /\ UNCHANGED <<teardown, delivery, vendor, gen, drained>>

-----------------------------------------------------------------------------
(* Teardown: ensure_uninitialized and teardown_impl *)

\* deinit() on a thread outside any callback.
DeinitEnter(a) ==
  /\ At(a, "idle")
  /\ app' = [app EXCEPT ![a].pc = "ensure"]
  /\ UNCHANGED <<gate, callback, cache, lifecycle, teardown, delivery, vendor,
                 gen, drained>>

LockTeardown(a) ==
  /\ At(a, "ensure")
  /\ teardown = Nobody
  /\ teardown' = a
  /\ app' = [app EXCEPT ![a].pc = "loop"]
  /\ UNCHANGED <<gate, callback, cache, lifecycle, delivery, vendor, gen, drained>>

\* Fault: a callback still running after a failed init is forgotten.
QuietButForCallbacks ==
  gate.state = "Uninitialized" /\ ~gate.deferred_teardown

\* No generation, no request, no callback running.
Quiet ==
  /\ gate.state = "Uninitialized"
  /\ ~gate.deferred_teardown
  /\ gate.in_flight = 0

LoopCheck(a) ==
  /\ At(a, "loop")
  /\ IF Quiet
     THEN /\ teardown' = Nobody
          /\ app' = [app EXCEPT ![a] = Idle]
          /\ drained' = gen
          /\ UNCHANGED gate
     ELSE /\ gate' = [gate EXCEPT !.deferred_teardown = FALSE]
          /\ app' = [app EXCEPT ![a].pc = "close"]
          /\ UNCHANGED <<teardown, drained>>
  /\ UNCHANGED <<callback, cache, lifecycle, delivery, vendor, gen>>

\* Fault: an init still in progress is not undone in the vendor library.
DeinitIfInitialized == gate.state = "Initialized"

\* vendor.deinit is due once for a generation that reached the vendor.
VendorDeinitDue == gate.state \in {"Initializing", "Initialized"}

\* Close the gate and forget the generation; a drain after a failed init closes
\* it too, and an idle adapter is left as it is. The lifecycle mutex stays held
\* only for the vendor's own teardown.
TeardownClose(a) ==
  LET active == gate.state # "Uninitialized"
      waits  == active \/ gate.in_flight > 0
  IN  /\ At(a, "close")
      /\ lifecycle = Nobody
      /\ gate' = [gate EXCEPT !.deferred_teardown = FALSE,
                              !.state = IF waits THEN "ShuttingDown" ELSE @]
      /\ callback' = IF active THEN [t \in AllTopics |-> 0] ELSE callback
      /\ cache' = IF active THEN [cache EXCEPT !["status"] = 0] ELSE cache
      /\ lifecycle' = IF VendorDeinitDue THEN a ELSE Nobody
      /\ app' = [app EXCEPT ![a].pc = IF VendorDeinitDue THEN "vendor_deinit"
                                      ELSE "publish",
                            ![a].need_wait = waits]
      /\ UNCHANGED <<teardown, delivery, vendor, gen, drained>>

TeardownVendor(a) ==
  /\ At(a, "vendor_deinit")
  /\ vendor' = FALSE
  /\ lifecycle' = Nobody
  /\ app' = [app EXCEPT ![a].pc = "publish"]
  /\ UNCHANGED <<gate, callback, cache, teardown, delivery, gen, drained>>

\* Fault: the terminal state is not published after a wait.
TeardownPublishSkipped(a) ==
  /\ At(a, "publish")
  /\ app[a].need_wait => gate.in_flight = 0
  /\ app' = [app EXCEPT ![a].pc = "loop", ![a].need_wait = FALSE]
  /\ UNCHANGED <<gate, callback, cache, lifecycle, teardown, delivery, vendor,
                 gen, drained>>

\* The wait for running callbacks, if one is due, and the publication.
TeardownPublish(a) ==
  /\ At(a, "publish")
  /\ app[a].need_wait => gate.in_flight = 0
  /\ gate' = [gate EXCEPT !.state = "Uninitialized"]
  /\ app' = [app EXCEPT ![a].pc = "loop", ![a].need_wait = FALSE]
  /\ UNCHANGED <<callback, cache, lifecycle, teardown, delivery, vendor, gen,
                 drained>>

-----------------------------------------------------------------------------
AppReturns(a) ==
  \/ \E ok \in BOOLEAN : InitReturn(a, ok) \/ SubscribeReturn(a, ok)
  \/ CallReturn(a)

TeardownStep(a) ==
  LockTeardown(a) \/ LoopCheck(a) \/ TeardownClose(a) \/ TeardownVendor(a)
    \/ TeardownPublish(a)

Next ==
  \/ \E a \in Apps :
       \/ InitEnter(a) \/ CallEnter(a) \/ DeinitEnter(a)
       \/ \E t \in Topics : SubscribeEnter(a, t)
       \/ AppReturns(a)
       \/ TeardownStep(a)
  \/ \E d \in Deliveries :
       \/ \E t \in AllTopics, on \in Apps \cup {Nobody} : Deliver(d, t, on)
       \/ CallbackDeinit(d)
       \/ FinishDelivery(d)

Spec == Init /\ [][Next]_vars

\* Vendor calls return within their timeout however many callbacks they make,
\* project callbacks return, and a thread that may go on does.
Fairness ==
  /\ \A a \in Apps : SF_vars(AppReturns(a)) /\ WF_vars(TeardownStep(a))
  /\ \A d \in Deliveries : WF_vars(FinishDelivery(d))

LiveSpec == Spec /\ Fairness

-----------------------------------------------------------------------------
(* Properties *)

AppStates ==
  [pc : {"idle", "init", "call", "subscribe", "ensure", "loop", "close",
         "vendor_deinit", "publish"},
   topic : AllTopics, previous : Generations, need_wait : BOOLEAN]

\* The adapter's members keep their types, and in_flight is the number of
\* deliveries inside the gate.
TypeOK ==
  /\ gate \in [state : States, in_flight : Nat, deferred_teardown : BOOLEAN]
  /\ gate.in_flight = Cardinality({d \in Deliveries : delivery[d].running})
  /\ callback \in [AllTopics -> Generations]
  /\ cache \in [AllTopics -> Generations]
  /\ lifecycle \in Apps \cup {Nobody}
  /\ teardown \in Apps \cup {Nobody}
  /\ app \in [Apps -> AppStates]
  /\ delivery \in [Deliveries -> [running : BOOLEAN, on : Apps \cup {Nobody},
                                  callback : Generations]]
  /\ vendor \in BOOLEAN
  /\ gen \in Generations
  /\ drained \in 0..gen

\* Once deinit() has returned, no project callback of a generation it covered
\* runs again, not even one that was running when an init failed
\* (DirectAstrallSdk::deinit, ensure_uninitialized).
NoCallbackAfterDeinit ==
  \A d \in Deliveries :
    delivery[d].running /\ delivery[d].callback # 0 =>
      delivery[d].callback > drained

\* What an initialized adapter caches and calls belongs to the current
\* generation: no telemetry and no callback is inherited (init, teardown_impl,
\* the rollback of the subscriptions).
NothingInherited ==
  gate.state = "Initialized" =>
    \A t \in AllTopics : callback[t] \in {0, gen} /\ cache[t] \in {0, gen}

\* The adapter and the vendor library stay in step through failed inits and
\* through teardowns that a callback asked for, even while init() was still in
\* its vendor call: an initialized adapter has an initialized library behind it,
\* and a library that is still initialized behind a closed gate is one that the
\* teardown is about to shut down (teardown_impl's run_vendor_deinit, init's
\* failure path, finish_with_deferred_teardown).
VendorInStep ==
  /\ gate.state = "Initialized" => vendor
  /\ vendor /\ gate.state \in {"Uninitialized", "ShuttingDown"} =>
       \E a \in Apps : At(a, "vendor_deinit")

\* No publication of Uninitialized overwrites "a generation initialized in
\* between" (direct_astrall_sdk.cpp:312-317, 738-743). It takes a second calling
\* thread to break this, and then it is broken: see README.md, "Further
\* disagreements".
NoStaleOverwrite == gate.state = "Uninitialized" => ~vendor

\* Every teardown, called or deferred, ends, and every vendor call in whose tail
\* it runs returns (teardown_impl's wait, ensure_uninitialized's loop).
TeardownEnds ==
  \A a \in Apps : app[a].pc # "idle" ~> app[a].pc = "idle"
=============================================================================
