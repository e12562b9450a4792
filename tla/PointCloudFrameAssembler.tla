----------------------- MODULE PointCloudFrameAssembler -----------------------
(***************************************************************************)
(* Reassembly of point-cloud frames from UDP packets (src/lidar_stream.cpp) *)
(* on the receive thread: each iteration of loop_point_cloud feeds at most *)
(* one packet to add_packet and then expires old frames.  The network      *)
(* loses, duplicates, reorders and delays packets, so any packet may       *)
(* arrive in any iteration.                                                *)
(*                                                                         *)
(* The slot array is a function from the timestamps being assembled; a     *)
(* point is its offset within the frame and a variant standing for its     *)
(* coordinates and colour.  The packet counters, which are only logged, are *)
(* left out.                                                               *)
(***************************************************************************)
EXTENDS Integers, Sequences, FiniteSets, FiniteSetsExt

CONSTANTS
  PacketInputs,      \* the parsed packets that may arrive
  MaxParallel,       \* max_parallel_frames
  MaxPoints,         \* max_points_per_frame
  MaxPackets,        \* max_packets_per_frame
  Timeout,           \* frame_timeout, in ticks
  MaxOpened          \* bound on the frames a behaviour may start

ASSUME AssemblerAssumption ==
  /\ \A p \in PacketInputs :
       p.total \in Nat /\ p.index \in Nat /\ p.size \in Nat \ {0}
  /\ MaxParallel \in Nat
  /\ MaxPoints \in Nat
  /\ MaxPackets \in Nat \ {0}
  /\ Timeout \in Nat \ {0}
  /\ MaxOpened \in Nat

VARIABLES
  slots,     \* the active slots, by timestamp
  stats,     \* the frame counters
  emitted,   \* the frame the last iteration handed to on_frame, or none
  opened     \* history: slots activated so far

vars == <<slots, stats, emitted, opened>>

NoFrame == [timestamp |-> 0, points |-> <<>>]
Reasons == {"published", "timeout", "conflict", "capacity"}

Init ==
  /\ slots = <<>>
  /\ stats = [r \in Reasons |-> 0]
  /\ emitted = NoFrame
  /\ opened = 0

-----------------------------------------------------------------------------
(* Operators on the assembler's state s = [slots, stats, emitted, opened] *)

Points(p) == [k \in 1..p.size |-> [offset |-> p.index + k - 1, variant |-> p.variant]]

\* The constructor's correction of a zero capacity.
Capacity == IF MaxParallel = 0 THEN 1 ELSE MaxParallel

\* Fault: the drop is not counted.
finalize_uncounted(s, ts, reason) ==
  [s EXCEPT !.slots = [t \in DOMAIN s.slots \ {ts} |-> s.slots[t]]]

\* finalize_slot, and the counter its caller or it bumps.
finalize_slot(s, ts, reason) ==
  [s EXCEPT !.slots = [t \in DOMAIN s.slots \ {ts} |-> s.slots[t]],
            !.stats[reason] = @ + 1]

\* The active frames none of which was activated before another.
Oldest(s) ==
  {t \in DOMAIN s.slots : \A u \in DOMAIN s.slots : s.slots[u].age <= s.slots[t].age}

NewSlot == [total |-> 0, packets |-> <<>>, sum_points |-> 0, age |-> 0]

\* slot_for_timestamp(ts, true): the active slot, or a fresh one, for which the
\* frame "victim" makes room when every slot is taken.
open_slot(s, ts, victim) ==
  LET full == Cardinality(DOMAIN s.slots) >= Capacity
      room == IF full THEN finalize_slot(s, victim, "capacity") ELSE s
  IN  IF ts \in DOMAIN s.slots THEN s
      ELSE [room EXCEPT
              !.slots = [t \in DOMAIN room.slots \cup {ts} |->
                           IF t = ts THEN NewSlot ELSE room.slots[t]],
              !.opened = @ + 1]

\* The packet's range lies outside the frame it declares.
OutOfFrame(p) == p.index >= p.total \/ p.index + p.size > p.total

\* Fault: the declared totals are not compared.
ContradictsContent(slot, p) ==
  p.index \in DOMAIN slot.packets /\ slot.packets[p.index] # Points(p)

\* Another total, or other points at an offset already held.
Contradicts(slot, p) ==
  \/ DOMAIN slot.packets # {} /\ slot.total # p.total
  \/ p.index \in DOMAIN slot.packets /\ slot.packets[p.index] # Points(p)

\* Fault: only the packet that follows is looked at.
OverlapsNext(slot, p) ==
  \E i \in DOMAIN slot.packets : i >= p.index /\ p.index + p.size > i

\* The range reaches into the packet that follows, or the one before reaches
\* into it.
Overlaps(slot, p) ==
  \E i \in DOMAIN slot.packets :
    \/ i >= p.index /\ p.index + p.size > i
    \/ i < p.index /\ i + Len(slot.packets[i]) > p.index

\* More points than the frame declares or the cap allows.
OverBudget(slot, p) ==
  LET sum == slot.sum_points + p.size
  IN  sum > p.total \/ sum > MaxPoints

\* What the ordered scan expects when it comes to offset i: where the packet
\* next before it ends.
Expected(packets, i) ==
  LET before == {j \in DOMAIN packets : j < i}
  IN  IF before = {} THEN 0 ELSE Max(before) + Len(packets[Max(before)])

\* The sum check and the ordered scan: every packet starts where it is expected,
\* and the last ends at the declared total.
Complete(slot) ==
  /\ slot.sum_points = slot.total
  /\ \A i \in DOMAIN slot.packets : i = Expected(slot.packets, i)
  /\ Expected(slot.packets, slot.total) = slot.total

\* The points held, each by its packet's offset and its place in the packet ...
Held(packets) ==
  UNION {{<<i, k>> : k \in DOMAIN packets[i]} : i \in DOMAIN packets}

\* ... and its place when packet after packet is appended in offset order.
Place(packets, h) ==
  Cardinality({g \in Held(packets) : g[1] < h[1] \/ (g[1] = h[1] /\ g[2] <= h[2])})

\* The frame handed out: the packets' points, appended in offset order.
Assembled(packets) ==
  [n \in 1..Cardinality(Held(packets)) |->
     LET h == CHOOSE h \in Held(packets) : Place(packets, h) = n
     IN  packets[h[1]][h[2]]]

\* The slot with the packet in it; the first packet gives the frame's total
\* (lidar_stream.cpp:447-449).
WithPacket(slot, p) ==
  [slot EXCEPT !.total = IF DOMAIN slot.packets = {} THEN p.total ELSE @,
               !.packets = [i \in DOMAIN @ \cup {p.index} |->
                              IF i = p.index THEN Points(p) ELSE @[i]],
               !.sum_points = @ + p.size]

\* The packet is stored and, if that completes the frame, the frame published; a
\* frame of another size than declared would be dropped.
store(s, p) ==
  LET ts    == p.timestamp
      slot  == WithPacket(s.slots[ts], p)
      frame == Assembled(slot.packets)
  IN  IF ~Complete(slot) THEN [s EXCEPT !.slots[ts] = slot]
      ELSE IF Len(frame) # slot.total THEN finalize_slot(s, ts, "conflict")
      ELSE [finalize_slot(s, ts, "published") EXCEPT
              !.emitted = [timestamp |-> ts, points |-> frame]]

add_packet(s, p, victim) ==
  LET ts   == p.timestamp
      held == open_slot(s, ts, victim)
      slot == held.slots[ts]
      drop(t) == finalize_slot(t, ts, "conflict")
  IN  IF p.total = 0 \/ p.total > MaxPoints THEN s
      ELSE IF OutOfFrame(p) THEN IF ts \in DOMAIN s.slots THEN drop(s) ELSE s
      ELSE IF Contradicts(slot, p) THEN drop(held)
      ELSE IF \/ p.index \in DOMAIN slot.packets
              \/ Cardinality(DOMAIN slot.packets) >= MaxPackets
           THEN held
      ELSE IF Overlaps(slot, p) \/ OverBudget(slot, p) THEN drop(held)
      ELSE store(held, p)

\* Fault: a frame is given one tick more.
ExpiredLate(s) == {t \in DOMAIN s.slots : s.slots[t].age > Timeout}

Expired(s) == {t \in DOMAIN s.slots : s.slots[t].age >= Timeout}

expire(s) ==
  [s EXCEPT !.slots = [t \in DOMAIN s.slots \ Expired(s) |-> s.slots[t]],
            !.stats["timeout"] = @ + Cardinality(Expired(s))]

-----------------------------------------------------------------------------
Assembler == [slots |-> slots, stats |-> stats, emitted |-> NoFrame,
              opened |-> opened]

Becomes(s) ==
  /\ slots' = s.slots
  /\ stats' = s.stats
  /\ emitted' = s.emitted
  /\ opened' = s.opened

\* An iteration of loop_point_cloud with a packet ...
Receive(p) ==
  /\ opened < MaxOpened
  /\ \E victim \in IF DOMAIN slots = {} THEN {p.timestamp} ELSE Oldest(Assembler) :
       Becomes(expire(add_packet(Assembler, p, victim)))

\* ... and one in which the receive timed out or the datagram did not parse.
NoPacket == Becomes(expire(Assembler))

\* Time passes.  An age beyond the timeout is not told apart from it.
Tick ==
  /\ \E t \in DOMAIN slots : slots[t].age < Timeout
  /\ slots' = [t \in DOMAIN slots |->
                 [slots[t] EXCEPT !.age = IF @ < Timeout THEN @ + 1 ELSE @]]
  /\ emitted' = NoFrame
  /\ UNCHANGED <<stats, opened>>

Next == (\E p \in PacketInputs : Receive(p)) \/ NoPacket \/ Tick

Spec == Init /\ [][Next]_vars

\* The receive thread keeps iterating and time keeps passing.
Fairness == WF_vars(NoPacket) /\ WF_vars(Tick)

LiveSpec == Spec /\ Fairness

-----------------------------------------------------------------------------
(* Properties *)

\* A frame handed to on_frame holds, in offset order, one point for every offset
\* from 0 to its declared total, each from a packet of this frame that declared
\* this total, whatever was lost, repeated, reordered or inconsistent on the way
\* (add_packet's checks, completion check and emission).
FramesAreExact ==
  emitted # NoFrame =>
    /\ emitted.points # <<>>
    /\ \A k \in DOMAIN emitted.points : \E p \in PacketInputs :
         /\ p.timestamp = emitted.timestamp
         /\ p.total = Len(emitted.points)
         /\ k - 1 \in p.index..(p.index + p.size - 1)
         /\ emitted.points[k] = [offset |-> k - 1, variant |-> p.variant]

\* The offsets of the packet that starts at i.
Span(packets, i) == i..(i + Len(packets[i]) - 1)
Covered(packets) == UNION {Span(packets, i) : i \in DOMAIN packets}

\* A slot waiting for packets holds disjoint, in-range packets of one frame, is
\* within the packet and point bounds, and misses some offset: a complete frame is
\* never held back.  There are never more slots than parallel frames (add_packet's
\* checks, in their order, slot_for_timestamp).
SlotsAreConsistent ==
  /\ Cardinality(DOMAIN slots) <= Capacity
  /\ \A t \in DOMAIN slots :
       LET packets == slots[t].packets
           frame   == 0..(slots[t].total - 1)
       IN  /\ DOMAIN packets # {}
           /\ slots[t].total <= MaxPoints
           /\ Cardinality(DOMAIN packets) <= MaxPackets
           /\ \A i, j \in DOMAIN packets :
                i # j => Span(packets, i) \cap Span(packets, j) = {}
           /\ Covered(packets) \subseteq frame
           /\ Covered(packets) # frame

\* Every frame that was ever started is still in assembly or counted exactly
\* once, as published or under the reason it was dropped for (finalize_slot and
\* its callers' counters).
FramesAreAccounted ==
  opened = Cardinality(DOMAIN slots) + stats["published"] + stats["timeout"]
             + stats["conflict"] + stats["capacity"]

\* No frame is held for ever: with packets or without, an incomplete frame is
\* published or dropped (expire in loop_point_cloud).
SlotsAreReleased ==
  \A t \in {p.timestamp : p \in PacketInputs} :
    t \in DOMAIN slots ~> t \notin DOMAIN slots

\* "a packet whose index exceeds this cap (...; the 0-based analogue is index >=
\* cap) is rejected outright" (lidar_stream.hpp:148-151).
IndexBelowCap ==
  \A t \in DOMAIN slots : \A i \in DOMAIN slots[t].packets : i < MaxPackets
=============================================================================
