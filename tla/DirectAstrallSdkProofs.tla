------------------------ MODULE DirectAstrallSdkProofs ------------------------
(* The SDK adapter for any number of deliveries, topics and generations.  Types *)
(* and the in_flight count hold for any number of calling threads; the three    *)
(* properties about generations hold for the one thread the runtime calls from. *)
EXTENDS DirectAstrallSdk, FiniteSetTheorems, TLAPS

GateStates == [state : States, in_flight : Nat, deferred_teardown : BOOLEAN]
DeliveryStates ==
  [running : BOOLEAN, on : Apps \cup {Nobody}, callback : Generations]

\* The deliveries inside the gate.
Running == {d \in Deliveries : delivery[d].running}

\* TypeOK without the count.
Types ==
  /\ gate \in GateStates
  /\ callback \in [AllTopics -> Generations]
  /\ cache \in [AllTopics -> Generations]
  /\ lifecycle \in Apps \cup {Nobody}
  /\ teardown \in Apps \cup {Nobody}
  /\ app \in [Apps -> AppStates]
  /\ delivery \in [Deliveries -> DeliveryStates]
  /\ vendor \in BOOLEAN
  /\ gen \in Generations
  /\ drained \in 0..gen

\* TypeOK is those types and the count of the deliveries inside the gate.
LEMMA TypeParts == TypeOK <=> Types /\ gate.in_flight = Cardinality(Running)
  BY DEF TypeOK, Types, Running, GateStates, DeliveryStates

-----------------------------------------------------------------------------
(* The count of deliveries inside the gate *)

\* There is a natural number of deliveries inside the gate, and none when it is 0.
LEMMA RunningCount ==
  /\ IsFiniteSet(Running)
  /\ Cardinality(Running) \in Nat
  /\ Cardinality(Running) = 0 <=> Running = {}
<1>1. IsFiniteSet(Running)
  BY SdkAssumption, FS_Subset DEF Running
<1>2. QED
  BY <1>1, FS_CardinalityType, FS_EmptySet

\* A delivery that is admitted adds one to the number inside (deliver_status and
\* its siblings).
LEMMA DeliveryEnters ==
  ASSUME NEW d \in Deliveries, ~delivery[d].running, delivery'[d].running,
         \A e \in Deliveries \ {d} : delivery'[e] = delivery[e]
  PROVE  Cardinality(Running') = Cardinality(Running) + 1
<1>1. Running' = Running \cup {d} /\ d \notin Running
  BY DEF Running
<1>2. QED
  BY Zenon, <1>1, RunningCount, FS_AddElement

\* One that is over takes one off (InFlightGuard).
LEMMA DeliveryLeaves ==
  ASSUME NEW d \in Deliveries, delivery[d].running, ~delivery'[d].running,
         \A e \in Deliveries \ {d} : delivery'[e] = delivery[e]
  PROVE  /\ Cardinality(Running') = Cardinality(Running) - 1
         /\ Cardinality(Running) > 0
<1>1. Running' = Running \ {d} /\ d \in Running
  BY DEF Running
<1>2. Cardinality(Running) # 0
  BY <1>1, RunningCount
<1>3. Cardinality(Running \ {d}) = Cardinality(Running) - 1
  BY Zenon, <1>1, RunningCount, FS_RemoveElement
<1>4. QED
  BY <1>1, <1>2, <1>3, RunningCount

-----------------------------------------------------------------------------
(* Types *)

\* An admitted delivery keeps types and count (deliver_status and its siblings).
LEMMA DeliverTyped ==
  ASSUME TypeOK, NEW d \in Deliveries, NEW t \in AllTopics,
         NEW on \in Apps \cup {Nobody}, Deliver(d, t, on)
  PROVE  TypeOK'
<1> USE DEF Deliver, Counted
<1>1. Types /\ gate.in_flight = Cardinality(Running)
  BY TypeParts
<1>2. delivery'[d].running /\ \A e \in Deliveries \ {d} : delivery'[e] = delivery[e]
  BY <1>1 DEF Types
<1>3. Cardinality(Running') = Cardinality(Running) + 1
  BY <1>2, DeliveryEnters
<1>4. gate'.in_flight = gate.in_flight + 1
  BY <1>1 DEF Types, GateStates
<1>5. gate' \in GateStates
  BY <1>1 DEF Types, GateStates
<1>6. cache' \in [AllTopics -> Generations]
  BY <1>1 DEF Types
<1>7. delivery' \in [Deliveries -> DeliveryStates]
  BY <1>1 DEF Types, DeliveryStates
<1>8. Types'
  BY <1>1, <1>5, <1>6, <1>7 DEF Types
<1>9. QED
  BY <1>1, <1>3, <1>4, <1>8
  DEF TypeOK, Types, Running, GateStates, DeliveryStates

\* So does the end of one (InFlightGuard).
LEMMA FinishTyped ==
  ASSUME TypeOK, NEW d \in Deliveries, FinishDelivery(d)
  PROVE  TypeOK'
<1> USE DEF FinishDelivery, NotRunning
<1>1. Types /\ gate.in_flight = Cardinality(Running)
  BY TypeParts
<1>2. ~delivery'[d].running /\ \A e \in Deliveries \ {d} : delivery'[e] = delivery[e]
  BY <1>1 DEF Types
<1>3. /\ Cardinality(Running') = Cardinality(Running) - 1
      /\ Cardinality(Running) > 0
  BY <1>2, DeliveryLeaves
<1>4. gate'.in_flight = gate.in_flight - 1
  BY <1>1 DEF Types, GateStates
<1>5. gate' \in GateStates
  BY <1>1, <1>3 DEF Types, GateStates
<1>6. delivery' \in [Deliveries -> DeliveryStates]
  BY <1>1, SdkAssumption DEF Types, DeliveryStates, Generations
<1>7. Types'
  BY <1>1, <1>5, <1>6 DEF Types
<1>8. QED
  BY <1>1, <1>3, <1>4, <1>7
  DEF TypeOK, Types, Running, GateStates, DeliveryStates

\* A step that leaves the deliveries alone: the gate's record and the app's keep
\* their types.
LEMMA OtherTyped ==
  ASSUME TypeOK, UNCHANGED delivery, gate'.in_flight = gate.in_flight,
         gate' \in GateStates,
         app' \in [Apps -> AppStates],
         callback' \in [AllTopics -> Generations],
         cache' \in [AllTopics -> Generations],
         lifecycle' \in Apps \cup {Nobody},
         teardown' \in Apps \cup {Nobody},
         vendor' \in BOOLEAN,
         gen' \in Generations,
         drained' \in 0..gen'
  PROVE  TypeOK'
<1>1. Types /\ gate.in_flight = Cardinality(Running)
  BY TypeParts
<1>2. Types' /\ Running' = Running
  BY <1>1 DEF Types, Running
<1>3. QED
  BY <1>1, <1>2 DEF TypeOK, Types, Running, GateStates, DeliveryStates

\* "No generation" is typed as one.
LEMMA ZeroIsGeneration == 0 \in Generations
  BY SMTT(30), SdkAssumption DEF Generations

\* The thread's record keeps its type at every place it goes to.
LEMMA AppTyped ==
  ASSUME Types, NEW a \in Apps
  PROVE  /\ \A pc \in {"init", "call", "ensure", "loop", "close", "publish"} :
              [app EXCEPT ![a].pc = pc] \in [Apps -> AppStates]
         /\ \A t \in AllTopics, g \in Generations :
              [app EXCEPT ![a] = [Idle EXCEPT !.pc = "subscribe", !.topic = t,
                                              !.previous = g]]
                \in [Apps -> AppStates]
         /\ \A pc \in {"vendor_deinit", "publish", "loop"}, w \in BOOLEAN :
              [app EXCEPT ![a].pc = pc, ![a].need_wait = w] \in [Apps -> AppStates]
<1>1. Idle \in AppStates
  BY SdkAssumption DEF Idle, AppStates, AllTopics, Generations
<1>2. app[a] \in AppStates
  BY DEF Types
<1>4. \A pc \in {"init", "call", "ensure", "loop", "close", "publish"} :
        [app[a] EXCEPT !.pc = pc] \in AppStates
  BY <1>2 DEF AppStates
<1>5. \A t \in AllTopics, g \in Generations :
        [Idle EXCEPT !.pc = "subscribe", !.topic = t, !.previous = g] \in AppStates
  BY Zenon, <1>1 DEF AppStates
<1>6. \A pc \in {"vendor_deinit", "publish", "loop"}, w \in BOOLEAN :
        [app[a] EXCEPT !.pc = pc, !.need_wait = w] \in AppStates
  BY Zenon, <1>2 DEF AppStates
<1>7. QED
  BY Zenon, <1>4, <1>5, <1>6 DEF Types

\* A call that returns, or goes on to tear down, leaves nothing behind.
LEMMA ReturnTyped ==
  ASSUME Types, NEW a \in Apps,
         \/ app' = [app EXCEPT ![a] = Idle]
         \/ app' = [app EXCEPT ![a] = [Idle EXCEPT !.pc = "ensure"]]
  PROVE  app' \in [Apps -> AppStates]
<1>1. Idle \in AppStates
  BY SdkAssumption DEF Idle, AppStates, AllTopics, Generations
<1>2. [Idle EXCEPT !.pc = "ensure"] \in AppStates
  BY <1>1 DEF AppStates
<1>3. QED
  BY <1>1, <1>2 DEF Types

\* init(), the other vendor calls and deinit() keep the types.
LEMMA VendorCallTyped ==
  ASSUME TypeOK, NEW a \in Apps,
         \/ InitEnter(a) \/ CallEnter(a) \/ DeinitEnter(a)
         \/ \E t \in Topics : SubscribeEnter(a, t)
         \/ AppReturns(a)
  PROVE  TypeOK'
<1>0. Types
  BY SMTT(30), TypeParts
<1>1. CASE InitEnter(a)
  <2>1. gate' \in GateStates /\ gate'.in_flight = gate.in_flight
    BY <1>0, SdkAssumption, <1>1 DEF InitEnter, Types, GateStates, States
  <2>2. gen' \in Generations /\ gen < gen' /\ drained \in 0..gen'
    BY <1>0, SdkAssumption, <1>1 DEF InitEnter, Types, Generations
  <2>3. callback' \in [AllTopics -> Generations] /\ cache' \in [AllTopics -> Generations]
    BY Zenon, <1>0, ZeroIsGeneration, <1>1, <2>2 DEF InitEnter, Types, CachesAtInit
  <2>4. QED
    BY Zenon, <1>0, OtherTyped, AppTyped, <1>1, <2>1, <2>2, <2>3 DEF InitEnter, Types
<1>2. CASE CallEnter(a)
  BY ZenonT(40), <1>0, OtherTyped, AppTyped, <1>2 DEF CallEnter, Types
<1>8. CASE DeinitEnter(a)
  BY ZenonT(40), <1>0, OtherTyped, AppTyped, <1>8 DEF DeinitEnter, Types
<1>3. ASSUME NEW t \in Topics, SubscribeEnter(a, t) PROVE TypeOK'
  BY Zenon, <1>0, OtherTyped, AppTyped, <1>3 DEF SubscribeEnter, Types, AllTopics
<1>4. ASSUME NEW ok \in BOOLEAN, InitReturn(a, ok) PROVE TypeOK'
  <2>1. gate' \in GateStates /\ gate'.in_flight = gate.in_flight
    BY Zenon, <1>0, SdkAssumption, <1>4 DEF InitReturn, Types, GateStates, States, Claim, Return
  <2>2. callback' \in [AllTopics -> Generations] /\ cache' \in [AllTopics -> Generations]
    BY <1>0, SdkAssumption, <1>4 DEF InitReturn, Types, Claim, Return, Generations
  <2>3. app' \in [Apps -> AppStates]
    <3>1. \/ app' = [app EXCEPT ![a] = Idle]
          \/ app' = [app EXCEPT ![a] = [Idle EXCEPT !.pc = "ensure"]]
      BY <1>4 DEF InitReturn, Claim, Return
    <3>2. QED
      BY <1>0, <3>1, ReturnTyped
  <2>4. QED
    BY <1>0, OtherTyped, <1>4, <2>1, <2>2, <2>3 DEF InitReturn, Types
<1>5. ASSUME NEW ok \in BOOLEAN, SubscribeReturn(a, ok) PROVE TypeOK'
  <2>1. gate' \in GateStates /\ gate'.in_flight = gate.in_flight
    BY Zenon, <1>0, SdkAssumption, <1>5 DEF SubscribeReturn, Types, GateStates, Claim, Return
  <2>2. callback' \in [AllTopics -> Generations] /\ cache' = cache
    BY <1>0, SdkAssumption, <1>5 DEF SubscribeReturn, Types, Claim, AppStates
  <2>3. app' \in [Apps -> AppStates]
    <3>1. \/ app' = [app EXCEPT ![a] = Idle]
          \/ app' = [app EXCEPT ![a] = [Idle EXCEPT !.pc = "ensure"]]
      BY <1>5 DEF SubscribeReturn, Claim, Return
    <3>2. QED
      BY <1>0, <3>1, ReturnTyped
  <2>4. QED
    BY <1>0, OtherTyped, <1>5, <2>1, <2>2, <2>3 DEF SubscribeReturn, Types
<1>6. CASE CallReturn(a)
  <2>1. gate' \in GateStates /\ gate'.in_flight = gate.in_flight
    BY Zenon, <1>0, SdkAssumption, <1>6 DEF CallReturn, Types, GateStates, Claim, Return
  <2>2. callback' = callback /\ cache' = cache
    BY <1>6 DEF CallReturn, Claim
  <2>3. app' \in [Apps -> AppStates]
    <3>1. \/ app' = [app EXCEPT ![a] = Idle]
          \/ app' = [app EXCEPT ![a] = [Idle EXCEPT !.pc = "ensure"]]
      BY <1>6 DEF CallReturn, Claim, Return
    <3>2. QED
      BY <1>0, <3>1, ReturnTyped
  <2>4. QED
    BY <1>0, OtherTyped, <1>6, <2>1, <2>2, <2>3 DEF CallReturn, Types
<1>7. QED
  BY <1>1, <1>2, <1>3, <1>4, <1>5, <1>6, <1>8 DEF AppReturns

\* The teardown keeps them.
LEMMA TeardownTyped ==
  ASSUME TypeOK, NEW a \in Apps, TeardownStep(a)
  PROVE  TypeOK'
<1>0. Types
  BY TypeParts
<1>1. CASE LockTeardown(a)
  BY Zenon, <1>0, OtherTyped, AppTyped, <1>1 DEF LockTeardown, Types
<1>2. CASE LoopCheck(a)
  <2>1. gate' \in GateStates /\ gate'.in_flight = gate.in_flight
    BY Zenon, <1>0, SdkAssumption, <1>2 DEF LoopCheck, Types, GateStates
  <2>2. app' \in [Apps -> AppStates]
    <3>1. \/ app' = [app EXCEPT ![a] = Idle]
          \/ app' = [app EXCEPT ![a].pc = "close"]
      BY <1>2 DEF LoopCheck
    <3>2. [app EXCEPT ![a].pc = "close"] \in [Apps -> AppStates]
      BY Zenon, <1>0, AppTyped
    <3>3. QED
      BY <1>0, <3>1, <3>2, ReturnTyped
  <2>3. drained' \in 0..gen'
    BY <1>0, SdkAssumption, <1>2 DEF LoopCheck, Types, Generations
  <2>4. QED
    BY <1>0, OtherTyped, <1>2, <2>1, <2>2, <2>3 DEF LoopCheck, Types
<1>3. CASE TeardownClose(a)
  <2>1. gate' \in GateStates /\ gate'.in_flight = gate.in_flight
    BY Zenon, <1>0, SdkAssumption, <1>3 DEF TeardownClose, Types, GateStates, States
  <2>2. app' \in [Apps -> AppStates]
    BY Zenon, <1>0, AppTyped, <1>3 DEF TeardownClose
  <2>3. callback' \in [AllTopics -> Generations] /\ cache' \in [AllTopics -> Generations]
    BY Zenon, <1>0, ZeroIsGeneration, <1>3 DEF TeardownClose, Types
  <2>4. QED
    BY <1>0, OtherTyped, <1>3, <2>1, <2>2, <2>3 DEF TeardownClose, Types
<1>4. CASE TeardownVendor(a)
  BY ZenonT(40), <1>0, OtherTyped, AppTyped, <1>4 DEF TeardownVendor, Types
<1>5. CASE TeardownPublish(a)
  <2>1. gate' \in GateStates /\ gate'.in_flight = gate.in_flight
    BY <1>0, SdkAssumption, <1>5 DEF TeardownPublish, Types, GateStates, States
  <2>2. QED
    BY Zenon, <1>0, OtherTyped, AppTyped, <1>5, <2>1 DEF TeardownPublish, Types
<1>6. QED
  BY <1>1, <1>2, <1>3, <1>4, <1>5 DEF TeardownStep

\* Types and count are right at first ...
LEMMA InitTyped == Init => TypeOK
<1> SUFFICES ASSUME Init PROVE TypeOK
  OBVIOUS
<1>1. Running = {}
  BY DEF Init, NotRunning, Running
<1>2. gate \in GateStates /\ gate.in_flight = 0
  BY DEF Init, GateStates, States
<1>3. app \in [Apps -> AppStates]
  BY SdkAssumption DEF Init, AppStates, Idle, AllTopics, Generations
<1>4. delivery \in [Deliveries -> DeliveryStates]
  BY SdkAssumption DEF Init, DeliveryStates, NotRunning, Generations
<1>5. Types
  <2>1. gen \in Generations /\ drained = gen /\ gen \in 0..gen
    BY ZeroIsGeneration DEF Init
  <2>2. callback \in [AllTopics -> Generations] /\ cache \in [AllTopics -> Generations]
    BY ZeroIsGeneration DEF Init
  <2>3. QED
    BY Zenon, <1>2, <1>3, <1>4, <2>1, <2>2 DEF Init, Types
<1>6. QED
  BY <1>1, <1>2, <1>5, FS_EmptySet, TypeParts

\* ... and after every step.
LEMMA NextTyped == TypeOK /\ [Next]_vars => TypeOK'
<1> SUFFICES ASSUME TypeOK, [Next]_vars PROVE TypeOK'
  OBVIOUS
<1>1. ASSUME NEW d \in Deliveries, CallbackDeinit(d) PROVE TypeOK'
  <2>1. Types
    BY TypeParts
  <2>2. gate' \in GateStates /\ gate'.in_flight = gate.in_flight
    BY Zenon, <1>1, <2>1 DEF CallbackDeinit, Types, GateStates
  <2>3. QED
    BY <1>1, <2>1, <2>2, OtherTyped DEF CallbackDeinit, Types
<1>2. CASE UNCHANGED vars
  BY <1>2 DEF vars, TypeOK
<1>3. QED
  BY <1>1, <1>2, DeliverTyped, FinishTyped, VendorCallTyped, TeardownTyped DEF Next

\* Whatever the threads, in_flight is the number of deliveries inside the gate and
\* every member keeps its type (deliver_*, InFlightGuard).
THEOREM TypeCorrect == Spec => []TypeOK
  BY InitTyped, NextTyped, PTL DEF Spec

-----------------------------------------------------------------------------
(* Generations, when one thread calls the adapter *)

\* The runtime calls the adapter from its worker only.
Single == \A a, b \in Apps : a = b

\* What state the adapter is in, by where the thread is.
Places ==
  \A a \in Apps :
    /\ At(a, "init") => gate.state = "Initializing"
    /\ At(a, "call") \/ At(a, "subscribe") => gate.state = "Initialized"
    /\ At(a, "vendor_deinit") \/ At(a, "publish") =>
         gate.state \in {"ShuttingDown", "Uninitialized"}
    /\ gate.state = "ShuttingDown" => At(a, "vendor_deinit") \/ At(a, "publish")
    /\ At(a, "subscribe") => app[a].previous \in {0, gen}

\* Deliveries are admitted.
Open == gate.state \in {"Initializing", "Initialized"}

\* The gate is open only for a generation no deinit() has covered, and then holds
\* nothing older; behind a closed gate no callback is stored.
Current ==
  /\ \A t \in AllTopics : callback[t] \in {0, gen}
  /\ ~Open => \A t \in AllTopics : callback[t] = 0
  /\ gate.state = "Initializing" => \A t \in Topics : callback[t] = 0
  /\ Open => \A t \in AllTopics : cache[t] \in {0, gen}
  /\ Open => drained < gen

\* The inductive invariant about generations.
GenInv == Places /\ Current /\ VendorInStep /\ NoCallbackAfterDeinit

\* The invariant holds of a new adapter.
LEMMA InitGen == Init => GenInv
  BY DEF Init, GenInv, Places, Current, Open, VendorInStep, NoCallbackAfterDeinit,
         At, Idle, NotRunning

\* An admitted delivery runs a callback and fills a cache of the open generation.
LEMMA DeliverGen ==
  ASSUME Types, GenInv, NEW d \in Deliveries, NEW t \in AllTopics,
         NEW on \in Apps \cup {Nobody}, Deliver(d, t, on)
  PROVE  GenInv'
<1>1. /\ gate'.state = gate.state /\ Open
      /\ UNCHANGED <<callback, app, vendor, gen, drained>>
  BY DEF Deliver, Types, GateStates, Open
<1>2. Places' /\ VendorInStep'
  BY <1>1 DEF GenInv, Places, VendorInStep, At
<1>3. Current'
  BY <1>1 DEF GenInv, Current, Deliver, Types, Open
<1>4. callback[t] # 0 => callback[t] > drained
  BY <1>1 DEF GenInv, Current
<1>5. NoCallbackAfterDeinit'
  BY <1>1, <1>4 DEF GenInv, NoCallbackAfterDeinit, Deliver, Types
<1>6. QED
  BY <1>2, <1>3, <1>5 DEF GenInv

\* A callback that calls deinit() only leaves its request, and one that ends only
\* leaves the gate.
LEMMA CallbackGen ==
  ASSUME Types, GenInv, NEW d \in Deliveries, CallbackDeinit(d) \/ FinishDelivery(d)
  PROVE  GenInv'
<1>1. /\ gate'.state = gate.state
      /\ UNCHANGED <<callback, cache, app, vendor, gen, drained>>
  BY DEF CallbackDeinit, FinishDelivery, Types, GateStates
<1>2. Places' /\ VendorInStep' /\ Current'
  BY <1>1 DEF GenInv, Places, VendorInStep, At, Current, Open
<1>3. NoCallbackAfterDeinit'
  BY <1>1 DEF GenInv, NoCallbackAfterDeinit, CallbackDeinit, FinishDelivery, NotRunning, Types
<1>4. QED
  BY <1>2, <1>3 DEF GenInv

\* The calls of the thread: init, subscriptions with their rollback, vendor calls
\* and deinit's first section.
LEMMA CallGen ==
  ASSUME Single, Types, GenInv, NEW a \in Apps,
         \/ InitEnter(a) \/ CallEnter(a) \/ DeinitEnter(a)
         \/ \E t \in Topics : SubscribeEnter(a, t)
         \/ AppReturns(a)
  PROVE  GenInv'
<1>0. \A b \in Apps : b = a
  BY DEF Single
<1>1. CASE InitEnter(a)
  <2>1. /\ app'[a].pc = "init" /\ gate.state = "Uninitialized"
        /\ gate'.state = "Initializing" /\ gen' = gen + 1
        /\ UNCHANGED <<delivery, vendor, drained>>
    BY <1>1 DEF InitEnter, Types, GateStates, AppStates
  <2>2. Places' /\ VendorInStep'
    BY <1>0, <2>1 DEF GenInv, Places, VendorInStep, At
  <2>3. Current'
    BY <1>1, <2>1, SdkAssumption
    DEF GenInv, Current, Open, InitEnter, CachesAtInit, Types, Generations, AllTopics
  <2>4. NoCallbackAfterDeinit'
    BY <2>1 DEF GenInv, NoCallbackAfterDeinit
  <2>5. QED
    BY <2>2, <2>3, <2>4 DEF GenInv
<1>2. CASE CallEnter(a) \/ DeinitEnter(a)
  <2>1. /\ \/ app'[a].pc = "call" /\ gate.state = "Initialized"
           \/ app'[a].pc = "ensure" /\ At(a, "idle")
        /\ UNCHANGED <<gate, callback, cache, delivery, vendor, gen, drained>>
    BY <1>2 DEF CallEnter, DeinitEnter, Types, AppStates
  <2>2. Places' /\ VendorInStep'
    BY <1>0, <2>1 DEF GenInv, Places, VendorInStep, At
  <2>3. Current' /\ NoCallbackAfterDeinit'
    BY <2>1 DEF GenInv, Current, Open, NoCallbackAfterDeinit
  <2>4. QED
    BY <2>2, <2>3 DEF GenInv
<1>3. ASSUME NEW t \in Topics, SubscribeEnter(a, t) PROVE GenInv'
  <2>1. /\ app'[a].pc = "subscribe" /\ app'[a].previous = callback[t]
        /\ gate.state = "Initialized"
        /\ UNCHANGED <<gate, cache, delivery, vendor, gen, drained>>
    BY Zenon, <1>3 DEF SubscribeEnter, Types, AppStates, Idle
  <2>2. Places' /\ VendorInStep'
    BY SMTT(30), <1>0, <2>1 DEF GenInv, Places, VendorInStep, At, Current, AllTopics
  <2>3. Current' /\ NoCallbackAfterDeinit'
    BY Zenon, <1>3, <2>1 DEF GenInv, Current, Open, NoCallbackAfterDeinit, SubscribeEnter, Types
  <2>4. QED
    BY SMTT(30), <2>2, <2>3 DEF GenInv
<1>4. ASSUME NEW ok \in BOOLEAN, InitReturn(a, ok) PROVE GenInv'
  <2>1. /\ app'[a].pc \in {"idle", "ensure"} /\ gate.state = "Initializing"
        /\ gate'.state \in {"Initializing", "Initialized", "Uninitialized"}
        /\ gate'.state = "Uninitialized" => ~vendor'
        /\ gate'.state = "Initialized" => vendor'
        /\ UNCHANGED <<delivery, gen, drained>>
    BY <1>4 DEF InitReturn, Claim, Return, Types, GateStates, AppStates, Idle, GenInv, Places
  <2>2. Places' /\ VendorInStep'
    BY <1>0, <2>1 DEF GenInv, Places, VendorInStep, At
  <2>3. Current' /\ NoCallbackAfterDeinit'
    BY <1>4, <2>1 DEF GenInv, Current, Open, NoCallbackAfterDeinit, InitReturn, Claim, Return,
                      Types, GateStates, AllTopics
  <2>4. QED
    BY <2>2, <2>3 DEF GenInv
<1>5. ASSUME NEW ok \in BOOLEAN, SubscribeReturn(a, ok) \/ CallReturn(a) PROVE GenInv'
  <2>1. /\ app'[a].pc \in {"idle", "ensure"} /\ gate.state = "Initialized"
        /\ gate'.state = gate.state
        /\ UNCHANGED <<delivery, cache, vendor, gen, drained>>
    BY <1>5 DEF SubscribeReturn, CallReturn, Claim, Return, Types, GateStates, AppStates,
                Idle, GenInv, Places
  <2>2. Places' /\ VendorInStep'
    BY <1>0, <2>1 DEF GenInv, Places, VendorInStep, At
  <2>3. Current' /\ NoCallbackAfterDeinit'
    BY <1>5, <2>1 DEF GenInv, Places, Current, Open, NoCallbackAfterDeinit, SubscribeReturn,
                      CallReturn, Claim, Return, Types, At
  <2>4. QED
    BY <2>2, <2>3 DEF GenInv
<1>6. QED
  BY Zenon, <1>1, <1>2, <1>3, <1>4, <1>5 DEF AppReturns

\* The steps of teardown_impl.
LEMMA TeardownGen ==
  ASSUME Single, TypeOK, GenInv, NEW a \in Apps, TeardownStep(a)
  PROVE  GenInv'
<1>0. Types /\ \A b \in Apps : b = a
  BY TypeParts DEF Single
<1>1. CASE LockTeardown(a)
  <2>1. /\ app'[a].pc = "loop" /\ At(a, "ensure")
        /\ UNCHANGED <<gate, callback, cache, delivery, vendor, gen, drained>>
    BY <1>0, <1>1 DEF LockTeardown, Types, AppStates
  <2>2. Places' /\ VendorInStep'
    BY <1>0, <2>1 DEF GenInv, Places, VendorInStep, At
  <2>3. Current' /\ NoCallbackAfterDeinit'
    BY <2>1 DEF GenInv, Current, Open, NoCallbackAfterDeinit
  <2>4. QED
    BY <2>2, <2>3 DEF GenInv
<1>2. CASE LoopCheck(a)
  <2>1. /\ app'[a].pc \in {"idle", "close"} /\ At(a, "loop")
        /\ gate'.state = gate.state
        /\ UNCHANGED <<callback, cache, delivery, vendor, gen>>
    BY <1>0, <1>2 DEF LoopCheck, Types, AppStates, GateStates, Idle
  <2>2. Places' /\ VendorInStep'
    BY <1>0, <2>1 DEF GenInv, Places, VendorInStep, At
  <2>3. Current'
    BY <1>2, <2>1 DEF GenInv, Current, Open, LoopCheck, Quiet
  <2>4. CASE Quiet
    <3>1. \A d \in Deliveries : ~delivery[d].running
      BY <2>4, TypeParts, RunningCount DEF Quiet, Running
    <3>2. NoCallbackAfterDeinit'
      BY <2>1, <3>1 DEF NoCallbackAfterDeinit
    <3>3. QED
      BY <2>2, <2>3, <3>2 DEF GenInv
  <2>5. CASE ~Quiet
    <3>1. NoCallbackAfterDeinit'
      BY <1>2, <2>1, <2>5 DEF GenInv, NoCallbackAfterDeinit, LoopCheck
    <3>2. QED
      BY <2>2, <2>3, <3>1 DEF GenInv
  <2>6. QED
    BY <2>4, <2>5
<1>3. CASE TeardownClose(a)
  <2>1. /\ At(a, "close")
        /\ app'[a].pc = IF VendorDeinitDue THEN "vendor_deinit" ELSE "publish"
        /\ gate'.state \in {"ShuttingDown", "Uninitialized"}
        /\ gate.state # "ShuttingDown"
        /\ UNCHANGED <<delivery, vendor, gen, drained>>
    BY <1>0, <1>3 DEF TeardownClose, Types, AppStates, GateStates, States, GenInv, Places, At
  <2>2. Places' /\ VendorInStep'
    BY <1>0, <2>1 DEF GenInv, Places, VendorInStep, At, VendorDeinitDue, Types,
                      GateStates, States
  <2>3. Current' /\ NoCallbackAfterDeinit'
    BY <1>0, <1>3, <2>1 DEF GenInv, Current, Open, NoCallbackAfterDeinit, TeardownClose, Types,
                            GateStates, States
  <2>4. QED
    BY <2>2, <2>3 DEF GenInv
<1>4. CASE TeardownVendor(a)
  <2>1. /\ app'[a].pc = "publish" /\ At(a, "vendor_deinit") /\ ~vendor'
        /\ UNCHANGED <<gate, callback, cache, delivery, gen, drained>>
    BY <1>0, <1>4 DEF TeardownVendor, Types, AppStates
  <2>2. Places' /\ VendorInStep'
    BY <1>0, <2>1 DEF GenInv, Places, VendorInStep, At
  <2>3. Current' /\ NoCallbackAfterDeinit'
    BY <2>1 DEF GenInv, Current, Open, NoCallbackAfterDeinit
  <2>4. QED
    BY <2>2, <2>3 DEF GenInv
<1>5. CASE TeardownPublish(a)
  <2>1. /\ app'[a].pc = "loop" /\ At(a, "publish")
        /\ gate'.state = "Uninitialized"
        /\ UNCHANGED <<callback, cache, delivery, vendor, gen, drained>>
    BY <1>0, <1>5 DEF TeardownPublish, Types, AppStates, GateStates
  <2>2. Places' /\ VendorInStep'
    BY <1>0, <2>1 DEF GenInv, Places, VendorInStep, At
  <2>3. Current' /\ NoCallbackAfterDeinit'
    BY <1>0, <2>1 DEF GenInv, Current, Open, Places, NoCallbackAfterDeinit
  <2>4. QED
    BY <2>2, <2>3 DEF GenInv
<1>6. QED
  BY <1>1, <1>2, <1>3, <1>4, <1>5 DEF TeardownStep

\* Every step keeps the invariant ...
LEMMA NextGen == ASSUME Single, TypeOK, GenInv, [Next]_vars PROVE GenInv'
<1>1. Types
  BY TypeParts
<1>2. CASE UNCHANGED vars
  BY <1>2 DEF vars, GenInv, Places, Current, Open, VendorInStep,
              NoCallbackAfterDeinit, At
<1>3. QED
  BY <1>1, <1>2, DeliverGen, CallbackGen, CallGen, TeardownGen DEF Next

\* ... which so holds of one thread's adapter in every state.
LEMMA Generational == ASSUME Single PROVE Spec => []GenInv
<1>1. TypeOK /\ GenInv /\ [Next]_vars => GenInv'
  BY NextGen
<1>2. QED
  BY <1>1, InitGen, TypeCorrect, PTL DEF Spec

\* With one calling thread no project callback of a generation that a returned
\* deinit() covered runs again (DirectAstrallSdk::deinit, ensure_uninitialized).
THEOREM CallbacksEnd == ASSUME Single PROVE Spec => []NoCallbackAfterDeinit
<1>1. GenInv => NoCallbackAfterDeinit
  BY DEF GenInv
<1>2. QED
  BY <1>1, Generational, PTL

\* With one calling thread an initialized adapter holds callbacks and telemetry of
\* its own generation only (init, teardown_impl, the rollback of a subscription).
THEOREM FreshGeneration == ASSUME Single PROVE Spec => []NothingInherited
<1>1. GenInv => NothingInherited
  BY DEF GenInv, Current, Open, NothingInherited
<1>2. QED
  BY <1>1, Generational, PTL

\* With one calling thread, as the runtime has, the vendor library is initialized
\* whenever the adapter says so, and is shut down by the teardown in progress
\* whenever the gate is closed in front of it: also for a generation whose init()
\* failed or was cut short by a teardown requested in its own callback.
THEOREM VendorFollows == ASSUME Single PROVE Spec => []VendorInStep
<1>1. GenInv => VendorInStep
  BY DEF GenInv
<1>2. QED
  BY <1>1, Generational, PTL
=============================================================================
