--------------------- MODULE PointCloudFrameAssemblerProofs ---------------------
(***************************************************************************)
(* Proofs about the frame assembler: for any packets in any order, only    *)
(* exact frames are handed out, the slots stay consistent and every frame  *)
(* is accounted for.  The packets of a slot tile a part of the frame; when *)
(* their number of points reaches the total they tile all of it, and only  *)
(* then do the ordered scan and the concatenation succeed.                 *)
(***************************************************************************)
EXTENDS PointCloudFrameAssembler, FiniteSetTheorems, FunctionTheorems, TLAPS

-----------------------------------------------------------------------------
(* Least and greatest numbers *)

\* A set of natural numbers has a least element.
LEMMA LeastNatural ==
  ASSUME NEW S, S \subseteq Nat, S # {}
  PROVE  \E m \in S : \A k \in S : m <= k
<1> DEFINE R == OpToRel(<, Nat)
<1>1. IsWellFoundedOn(R, Nat)
  BY Zenon, NatLessThanWellFounded
<1>2. \A x, y \in Nat : y < x => <<y, x>> \in R
  BY DEF OpToRel
<1> HIDE DEF R
<1>3. PICK x \in S : \A y \in S : ~(<<y, x>> \in R)
  BY <1>1, WFMin, Zenon
<1>4. \A k \in S : ~(k < x)
  BY <1>2, <1>3, Zenon
<1>5. \A k \in S : x <= k
  BY <1>4
<1>6. QED
  BY <1>5

\* Max picks the greatest element of a bounded set.
LEMMA MaxIsGreatest ==
  ASSUME NEW S, NEW n \in Nat, S \subseteq 0..n, S # {}
  PROVE  Max(S) \in S /\ \A k \in S : k <= Max(S)
<1> DEFINE T == {n - k : k \in S}
<1>1. T \subseteq Nat /\ T # {}
  <2>1. \A k \in S : n - k \in Nat
    OBVIOUS
  <2>2. QED
    BY <2>1, Zenon
<1>2. PICK m \in T : \A k \in T : m <= k
  <2> HIDE DEF T
  <2>1. QED
    BY <1>1, LeastNatural, Zenon
<1>3. PICK x \in S : m = n - x
  BY <1>2
<1>4. \A k \in S : n - x <= n - k
  BY <1>2, <1>3
<1>5. \A k \in S : x >= k
  BY <1>4
<1>6. Max(S) \in S /\ \A k \in S : Max(S) >= k
  BY <1>5, Zenon DEF Max
<1>7. QED
  BY <1>6

\* n consecutive offsets are n.
LEMMA IntervalCount ==
  ASSUME NEW a \in Nat, NEW n \in Nat
  PROVE  /\ IsFiniteSet(a..(a + n - 1))
         /\ Cardinality(a..(a + n - 1)) = n
<1> DEFINE b == a + n - 1
<1>1. b \in Int /\ (a > b => n = 0) /\ (~(a > b) => b - a + 1 = n)
  OBVIOUS
<1> HIDE DEF b
<1>2. IsFiniteSet(a..b) /\ Cardinality(a..b) = IF a > b THEN 0 ELSE b - a + 1
  BY <1>1, FS_Interval
<1>3. IsFiniteSet(a..b) /\ Cardinality(a..b) = n
  BY <1>1, <1>2
<1>4. QED
  BY <1>3 DEF b

\* A frame of n points has n offsets.
LEMMA FrameCount ==
  ASSUME NEW n \in Nat
  PROVE  IsFiniteSet(0..(n - 1)) /\ Cardinality(0..(n - 1)) = n
<1>1. 0 + n - 1 = n - 1
  OBVIOUS
<1>2. IsFiniteSet(0..(0 + n - 1)) /\ Cardinality(0..(0 + n - 1)) = n
  BY IntervalCount
<1>3. QED
  BY <1>1, <1>2

-----------------------------------------------------------------------------
(* Packets that tile a frame *)

\* The packets lie, one after the other, within a frame of n points.
Tiles(packets, n) ==
  /\ n \in Nat
  /\ \A i \in DOMAIN packets :
       /\ i \in Nat
       /\ Len(packets[i]) \in Nat \ {0}
       /\ DOMAIN packets[i] = 1..Len(packets[i])
       /\ i + Len(packets[i]) <= n
  /\ \A i, j \in DOMAIN packets : i < j => i + Len(packets[i]) <= j

\* What they cover is part of the frame, and no two of them share an offset.
LEMMA TilesAreDisjoint ==
  ASSUME NEW packets, NEW n, Tiles(packets, n)
  PROVE  /\ Covered(packets) \subseteq 0..(n - 1)
         /\ \A i, j \in DOMAIN packets :
              i # j => Span(packets, i) \cap Span(packets, j) = {}
<1>1. \A i \in DOMAIN packets : Span(packets, i) \subseteq 0..(n - 1)
  BY DEF Tiles, Span
<1>2. \A i, j \in DOMAIN packets :
        i # j => Span(packets, i) \cap Span(packets, j) = {}
  <2> SUFFICES ASSUME NEW i \in DOMAIN packets, NEW j \in DOMAIN packets, i # j,
                      NEW o \in Span(packets, i), o \in Span(packets, j)
               PROVE  FALSE
    OBVIOUS
  <2>1. /\ i \in Nat /\ j \in Nat /\ o \in Int
        /\ i <= o /\ o < i + Len(packets[i]) /\ j <= o /\ o < j + Len(packets[j])
        /\ Len(packets[i]) \in Nat /\ Len(packets[j]) \in Nat
        /\ i < j => i + Len(packets[i]) <= j
        /\ j < i => j + Len(packets[j]) <= i
    BY DEF Tiles, Span
  <2>2. QED
    BY <2>1
<1>3. QED
  BY <1>1, <1>2 DEF Covered

\* An offset of a fully covered frame lies in some packet.
LEMMA OffsetHasPacket ==
  ASSUME NEW packets, NEW n, Tiles(packets, n), Covered(packets) = 0..(n - 1),
         NEW o \in 0..(n - 1)
  PROVE  \E i \in DOMAIN packets :
           i \in Nat /\ i <= o /\ o < i + Len(packets[i])
<1>1. PICK i \in DOMAIN packets : o \in Span(packets, i)
  BY DEF Covered
<1>2. i \in Nat /\ Len(packets[i]) \in Nat
  BY DEF Tiles
<1>3. QED
  BY <1>1, <1>2 DEF Span

\* The ordered scan finds every packet of a fully covered frame, and the end of
\* the frame, where it expects them.
LEMMA ScanSucceeds ==
  ASSUME NEW packets, NEW n, Tiles(packets, n), Covered(packets) = 0..(n - 1),
         NEW i \in DOMAIN packets \cup {n}
  PROVE  Expected(packets, i) = i
<1> DEFINE before == {j \in DOMAIN packets : j < i}
<1>1. n \in Nat /\ i \in 0..n
  BY DEF Tiles
<1>2. CASE before = {}
  <2>1. SUFFICES ASSUME i > 0 PROVE FALSE
    BY <1>1, <1>2 DEF Expected
  <2>2. 0 \in 0..(n - 1)
    BY <1>1, <2>1
  <2>3. PICK k \in DOMAIN packets : k \in Nat /\ k <= 0
    BY <2>2, OffsetHasPacket
  <2>4. QED
    BY <1>2, <2>1, <2>3
<1>3. CASE before # {}
  <2>1. before \subseteq 0..n
    BY DEF Tiles
  <2>2. Max(before) \in before /\ \A k \in before : k <= Max(before)
    <3> HIDE DEF before
    <3>1. QED
      BY Zenon, <1>1, <1>3, <2>1, MaxIsGreatest
  <2>3. PICK j \in DOMAIN packets : j = Max(before)
    BY Zenon, <2>2
  <2>4. j \in Nat /\ j < i /\ \A k \in DOMAIN packets : k < i => k <= j
    BY <2>2, <2>3 DEF Tiles
  <2>5. /\ Len(packets[j]) \in Nat \ {0}
        /\ j + Len(packets[j]) <= i
    BY <1>1, <2>4 DEF Tiles
  <2>6. Expected(packets, i) = j + Len(packets[j])
    BY <1>3, <2>3 DEF Expected
  <2>7. SUFFICES ASSUME j + Len(packets[j]) < i PROVE FALSE
    BY <1>1, <2>4, <2>5, <2>6
  <2>8. j + Len(packets[j]) \in 0..(n - 1)
    BY <1>1, <2>4, <2>5, <2>7
  <2>9. PICK k \in DOMAIN packets :
          /\ k \in Nat /\ k <= j + Len(packets[j])
          /\ j + Len(packets[j]) < k + Len(packets[k])
    BY <2>8, OffsetHasPacket
  <2>10. k <= j
    BY <1>1, <2>4, <2>5, <2>7, <2>9
  <2>11. k # j
    BY <2>4, <2>5, <2>9
  <2>12. k + Len(packets[k]) <= j /\ Len(packets[k]) \in Nat
    BY <2>4, <2>9, <2>10, <2>11 DEF Tiles
  <2>13. QED
    BY <2>4, <2>5, <2>9, <2>12
<1>4. QED
  BY <1>2, <1>3

\* A point held is given by its packet and its place in it, and its offset by
\* their sum.
LEMMA HeldPoint ==
  ASSUME NEW packets, NEW n, Tiles(packets, n), NEW g \in Held(packets)
  PROVE  /\ g = <<g[1], g[2]>>
         /\ g[1] \in DOMAIN packets /\ g[1] \in Nat
         /\ Len(packets[g[1]]) \in Nat
         /\ g[2] \in 1..Len(packets[g[1]])
         /\ g[1] + g[2] \in 1..n
<1>1. PICK i \in DOMAIN packets : \E k \in DOMAIN packets[i] : g = <<i, k>>
  BY DEF Held
<1>2. PICK k \in DOMAIN packets[i] : g = <<i, k>>
  BY <1>1
<1>3. /\ i \in Nat /\ Len(packets[i]) \in Nat /\ n \in Nat
      /\ k \in 1..Len(packets[i]) /\ i + Len(packets[i]) <= n
  BY DEF Tiles
<1>4. QED
  BY <1>2, <1>3

\* No two points have the same offset.
LEMMA OffsetsDiffer ==
  ASSUME NEW packets, NEW n, Tiles(packets, n),
         NEW g \in Held(packets), NEW h \in Held(packets),
         g[1] + g[2] = h[1] + h[2]
  PROVE  g = h
<1> DEFINE i == g[1]  j == h[1]  k == g[2]  l == h[2]
<1>1. /\ g = <<i, k>> /\ h = <<j, l>>
      /\ i \in Nat /\ j \in Nat /\ Len(packets[i]) \in Nat /\ Len(packets[j]) \in Nat
      /\ k \in 1..Len(packets[i]) /\ l \in 1..Len(packets[j])
      /\ i \in DOMAIN packets /\ j \in DOMAIN packets
  BY HeldPoint
<1>2. /\ i < j => i + Len(packets[i]) <= j
      /\ j < i => j + Len(packets[j]) <= i
  BY <1>1 DEF Tiles
<1>3. i + k = j + l
  OBVIOUS
<1> HIDE DEF i, j, k, l
<1>4. i = j /\ k = l
  BY <1>1, <1>2, <1>3
<1>5. QED
  BY <1>1, <1>4

\* In a fully covered frame every offset is that of a point held.
LEMMA OffsetIsHeld ==
  ASSUME NEW packets, NEW n, Tiles(packets, n), Covered(packets) = 0..(n - 1),
         NEW m \in 1..n
  PROVE  \E g \in Held(packets) : g[1] + g[2] = m
<1>1. n \in Nat /\ m - 1 \in 0..(n - 1)
  BY DEF Tiles
<1>2. PICK i \in DOMAIN packets :
        i \in Nat /\ i <= m - 1 /\ m - 1 < i + Len(packets[i])
  BY Zenon, <1>1, OffsetHasPacket
<1>3. Len(packets[i]) \in Nat /\ DOMAIN packets[i] = 1..Len(packets[i])
  BY DEF Tiles
<1>4. m - i \in DOMAIN packets[i] /\ i + (m - i) = m
  BY <1>1, <1>2, <1>3
<1>5. <<i, m - i>> \in Held(packets)
  BY <1>4 DEF Held
<1>6. <<i, m - i>>[1] + <<i, m - i>>[2] = m
  BY <1>4
<1>7. QED
  BY <1>5, <1>6

\* In a fully covered frame there are m points up to offset m.
LEMMA PointsUpTo ==
  ASSUME NEW packets, NEW n, Tiles(packets, n), Covered(packets) = 0..(n - 1),
         NEW m \in 0..n
  PROVE  Cardinality({g \in Held(packets) : g[1] + g[2] <= m}) = m
<1> DEFINE Q == {g \in Held(packets) : g[1] + g[2] <= m}
           f == [g \in Q |-> g[1] + g[2]]
<1>0. n \in Nat /\ m \in Nat
  BY DEF Tiles
<1>1. \A g \in Q : g[1] + g[2] \in 1..m
  <2> SUFFICES ASSUME NEW g \in Q PROVE g[1] + g[2] \in 1..m
    OBVIOUS
  <2>1. g[1] + g[2] \in 1..n /\ g[1] + g[2] <= m
    BY HeldPoint
  <2>2. QED
    BY <1>0, <2>1
<1>2. f \in [Q -> 1..m]
  BY <1>1
<1>3. \A g, h \in Q : f[g] = f[h] => g = h
  BY OffsetsDiffer
<1>4. \A o \in 1..m : \E g \in Q : f[g] = o
  <2> SUFFICES ASSUME NEW o \in 1..m PROVE \E g \in Q : f[g] = o
    OBVIOUS
  <2>1. o \in 1..n /\ o <= m
    BY <1>0
  <2>2. PICK g \in Held(packets) : g[1] + g[2] = o
    BY <2>1, OffsetIsHeld
  <2>3. g \in Q
    BY <2>1, <2>2
  <2>4. QED
    BY <2>2, <2>3
<1> HIDE DEF Q, f
<1>5. f \in Bijection(Q, 1..m)
  BY SMTT(30), <1>2, <1>3, <1>4, Fun_IsBij
<1>6. ExistsBijection(Q, 1..m)
  BY <1>5 DEF ExistsBijection
<1>7. ExistsBijection(1..m, Q)
  BY <1>6, Fun_ExistsBijSymmetric
<1>8. Cardinality(Q) = m
  BY <1>0, <1>7, FS_CountingElements
<1>9. QED
  BY <1>8 DEF Q

\* Appended packet by packet, a point of a fully covered frame comes at its offset.
LEMMA PlaceIsOffset ==
  ASSUME NEW packets, NEW n, Tiles(packets, n), Covered(packets) = 0..(n - 1),
         NEW h \in Held(packets)
  PROVE  Place(packets, h) = h[1] + h[2]
<1> DEFINE i == h[1]  k == h[2]
<1>1. /\ i \in DOMAIN packets /\ i \in Nat /\ Len(packets[i]) \in Nat
      /\ k \in 1..Len(packets[i]) /\ i + k \in 1..n /\ n \in Nat
  BY HeldPoint DEF Tiles
<1>2. ASSUME NEW g \in Held(packets)
      PROVE  (g[1] < i \/ (g[1] = i /\ g[2] <= k)) <=> g[1] + g[2] <= i + k
  <2> DEFINE j == g[1]  l == g[2]
  <2>1. /\ j \in DOMAIN packets /\ j \in Nat /\ Len(packets[j]) \in Nat
        /\ l \in 1..Len(packets[j])
    BY HeldPoint
  <2>2. /\ i < j => i + Len(packets[i]) <= j
        /\ j < i => j + Len(packets[j]) <= i
    BY <1>1, <2>1 DEF Tiles
  <2> HIDE DEF i, j, k, l
  <2>3. (j < i \/ (j = i /\ l <= k)) <=> j + l <= i + k
    BY <1>1, <2>1, <2>2
  <2>4. QED
    BY <2>3 DEF j, l
<1>3. {g \in Held(packets) : g[1] < h[1] \/ (g[1] = h[1] /\ g[2] <= h[2])}
        = {g \in Held(packets) : g[1] + g[2] <= i + k}
  BY <1>2
<1>4. i + k \in 0..n
  BY <1>1
<1>5. QED
  BY <1>3, <1>4, PointsUpTo DEF Place

\* The concatenation of a fully covered frame has its length, and the m-th point
\* is the one at offset m - 1.
LEMMA AssembledExactly ==
  ASSUME NEW packets, NEW n, Tiles(packets, n), Covered(packets) = 0..(n - 1)
  PROVE  /\ DOMAIN Assembled(packets) = 1..n
         /\ \A m \in 1..n : \E i \in DOMAIN packets : \E k \in DOMAIN packets[i] :
              i + k = m /\ Assembled(packets)[m] = packets[i][k]
<1>0. n \in Nat
  BY DEF Tiles
<1>1. Cardinality(Held(packets)) = n
  <2>1. Held(packets) = {g \in Held(packets) : g[1] + g[2] <= n}
    <3>1. \A g \in Held(packets) : g[1] + g[2] <= n
      BY HeldPoint
    <3>2. QED
      BY <3>1
  <2>2. n \in 0..n
    BY <1>0
  <2>3. QED
    BY <2>1, <2>2, PointsUpTo
<1>2. DOMAIN Assembled(packets) = 1..n
  BY <1>1 DEF Assembled
<1>3. ASSUME NEW m \in 1..n
      PROVE  \E i \in DOMAIN packets : \E k \in DOMAIN packets[i] :
               i + k = m /\ Assembled(packets)[m] = packets[i][k]
  <2> DEFINE h == CHOOSE h \in Held(packets) : Place(packets, h) = m
  <2>1. \E g \in Held(packets) : Place(packets, g) = m
    <3>1. PICK g \in Held(packets) : g[1] + g[2] = m
      BY OffsetIsHeld
    <3>2. QED
      BY <3>1, PlaceIsOffset
  <2>2. h \in Held(packets) /\ Place(packets, h) = m
    BY <2>1
  <2>3. Assembled(packets)[m] = packets[h[1]][h[2]]
    BY <1>1 DEF Assembled
  <2> HIDE DEF h
  <2>4. h[1] + h[2] = m
    BY <2>2, PlaceIsOffset
  <2>5. h[1] \in DOMAIN packets /\ h[2] \in DOMAIN packets[h[1]]
    BY <2>2, HeldPoint DEF Tiles
  <2>6. QED
    BY <2>3, <2>4, <2>5
<1>4. QED
  BY <1>2, <1>3

-----------------------------------------------------------------------------
(* Slots *)

SlotFields == {"total", "packets", "sum_points", "age"}

\* Every packet of the slot arrived for its timestamp and declared its total.
Sourced(t, slot) ==
  \A i \in DOMAIN slot.packets : \E p \in PacketInputs :
    /\ p.timestamp = t
    /\ p.total = slot.total
    /\ p.index = i
    /\ slot.packets[i] = Points(p)

\* What a slot's packets are, whether they cover the frame or not.
Filled(t, slot) ==
  /\ DOMAIN slot = SlotFields
  /\ Tiles(slot.packets, slot.total)
  /\ Sourced(t, slot)
  /\ slot.total <= MaxPoints
  /\ IsFiniteSet(DOMAIN slot.packets)
  /\ Cardinality(DOMAIN slot.packets) <= MaxPackets
  /\ slot.sum_points = Cardinality(Covered(slot.packets))

FullyCovered(slot) == Covered(slot.packets) = 0..(slot.total - 1)

\* A slot waiting for packets has some and misses some.
Waiting(t, slot) ==
  Filled(t, slot) /\ DOMAIN slot.packets # {} /\ ~FullyCovered(slot)

\* A packet's points are a sequence of its size.
LEMMA PointsLength ==
  ASSUME NEW p \in PacketInputs
  PROVE  /\ p.total \in Nat /\ p.index \in Nat /\ p.size \in Nat \ {0}
         /\ Len(Points(p)) = p.size
         /\ DOMAIN Points(p) = 1..p.size
         /\ \A k \in 1..p.size :
              Points(p)[k] = [offset |-> p.index + k - 1, variant |-> p.variant]
BY AssemblerAssumption DEF Points

\* A slot just activated is empty.
LEMMA NewSlotFilled ==
  ASSUME NEW t
  PROVE  Filled(t, NewSlot) /\ DOMAIN NewSlot.packets = {}
<1>1. /\ NewSlot.total = 0 /\ NewSlot.sum_points = 0
      /\ NewSlot.packets = <<>> /\ DOMAIN NewSlot.packets = {}
      /\ DOMAIN NewSlot = SlotFields
  BY DEF NewSlot, SlotFields
<1>2. Covered(NewSlot.packets) = {}
  BY <1>1 DEF Covered
<1>3. Tiles(NewSlot.packets, NewSlot.total) /\ Sourced(t, NewSlot)
  BY <1>1 DEF Tiles, Sourced
<1>4. 0 <= MaxPoints /\ 0 <= MaxPackets
  BY AssemblerAssumption
<1>5. IsFiniteSet({}) /\ Cardinality({}) = 0
  BY FS_EmptySet
<1> HIDE DEF NewSlot
<1>6. QED
  BY Zenon, <1>1, <1>2, <1>3, <1>4, <1>5 DEF Filled

\* The offsets two slots' worth of packets cover when one packet is added.
LEMMA CoveredWithPacket ==
  ASSUME NEW packets, NEW i, i \notin DOMAIN packets, NEW points, NEW more,
         more = [j \in DOMAIN packets \cup {i} |->
                   IF j = i THEN points ELSE packets[j]]
  PROVE  Covered(more) = Covered(packets) \cup (i..(i + Len(points) - 1))
<1>1. DOMAIN more = DOMAIN packets \cup {i} /\ more[i] = points
  OBVIOUS
<1>2. \A j \in DOMAIN packets : more[j] = packets[j]
  OBVIOUS
<1>3. Span(more, i) = i..(i + Len(points) - 1)
  BY <1>1 DEF Span
<1>4. \A j \in DOMAIN packets : Span(more, j) = Span(packets, j)
  BY <1>2 DEF Span
<1>5. Covered(more) = UNION {Span(more, j) : j \in DOMAIN packets \cup {i}}
  BY <1>1 DEF Covered
<1>6. ASSUME NEW o
      PROVE  o \in Covered(more)
               <=> o \in Covered(packets) \/ o \in Span(more, i)
  <2>1. o \in Covered(more)
          <=> \E j \in DOMAIN packets \cup {i} : o \in Span(more, j)
    BY <1>5, Zenon
  <2>2. o \in Covered(packets) <=> \E j \in DOMAIN packets : o \in Span(packets, j)
    BY Zenon DEF Covered
  <2>3. QED
    BY <1>4, <2>1, <2>2
<1>7. QED
  BY Zenon, <1>3, <1>6

\* A packet that passes add_packet's checks leaves the slot well-formed, and
\* Complete tells exactly whether the frame is then covered.
LEMMA StoredPacket ==
  ASSUME NEW p \in PacketInputs, NEW slot, Filled(p.timestamp, slot),
         p.total <= MaxPoints, ~OutOfFrame(p), ~Contradicts(slot, p),
         p.index \notin DOMAIN slot.packets,
         ~(Cardinality(DOMAIN slot.packets) >= MaxPackets),
         ~Overlaps(slot, p)
  PROVE  /\ Filled(p.timestamp, WithPacket(slot, p))
         /\ WithPacket(slot, p).total = p.total
         /\ DOMAIN WithPacket(slot, p).packets # {}
         /\ Complete(WithPacket(slot, p)) <=> FullyCovered(WithPacket(slot, p))
<1> DEFINE new  == WithPacket(slot, p)
           more == [j \in DOMAIN slot.packets \cup {p.index} |->
                      IF j = p.index THEN Points(p) ELSE slot.packets[j]]
<1>1. /\ new.total = IF DOMAIN slot.packets = {} THEN p.total ELSE slot.total
      /\ new.packets = more
      /\ new.sum_points = slot.sum_points + p.size
      /\ DOMAIN new = SlotFields
  <2>1. DOMAIN slot = {"total", "packets", "sum_points", "age"}
    BY DEF Filled, SlotFields
  <2>2. new.total = IF DOMAIN slot.packets = {} THEN p.total ELSE slot.total
    BY <2>1 DEF WithPacket
  <2>3. new.packets = more
    BY <2>1 DEF WithPacket
  <2>4. new.sum_points = slot.sum_points + p.size
    BY <2>1 DEF WithPacket
  <2>5. DOMAIN new = SlotFields
    BY <2>1 DEF WithPacket, SlotFields
  <2>6. QED
    BY <2>2, <2>3, <2>4, <2>5
<1>2. new.total = p.total
  BY <1>1 DEF Contradicts
<1>3. DOMAIN slot.packets # {} => slot.total = p.total
  BY DEF Contradicts
<1>4. /\ DOMAIN more = DOMAIN slot.packets \cup {p.index}
      /\ more[p.index] = Points(p)
      /\ \A j \in DOMAIN slot.packets : more[j] = slot.packets[j]
  OBVIOUS
<1> HIDE DEF new, more
<1>5. /\ p.total \in Nat /\ p.index \in Nat /\ p.size \in Nat \ {0}
      /\ Len(Points(p)) = p.size /\ DOMAIN Points(p) = 1..p.size
      /\ p.index + p.size <= p.total
  BY PointsLength DEF OutOfFrame
<1>6. Tiles(more, p.total)
  <2>1. ASSUME NEW j \in DOMAIN slot.packets
        PROVE  /\ j \in Nat /\ Len(slot.packets[j]) \in Nat \ {0}
               /\ DOMAIN slot.packets[j] = 1..Len(slot.packets[j])
               /\ j + Len(slot.packets[j]) <= p.total
    BY <1>3 DEF Filled, Tiles
  <2>2. ASSUME NEW j \in DOMAIN more
        PROVE  /\ j \in Nat /\ Len(more[j]) \in Nat \ {0}
               /\ DOMAIN more[j] = 1..Len(more[j])
               /\ j + Len(more[j]) <= p.total
    BY <1>4, <1>5, <2>1
  <2>3. ASSUME NEW j \in DOMAIN slot.packets
        PROVE  /\ j < p.index => j + Len(slot.packets[j]) <= p.index
               /\ p.index < j => p.index + p.size <= j
    BY <1>5, <2>1 DEF Overlaps
  <2>4. \A j, k \in DOMAIN slot.packets : j < k => j + Len(slot.packets[j]) <= k
    BY DEF Filled, Tiles
  <2>5. ASSUME NEW j \in DOMAIN more, NEW k \in DOMAIN more, j < k
        PROVE  j + Len(more[j]) <= k
    <3>1. CASE j = p.index /\ k = p.index
      BY <1>5, <2>5, <3>1
    <3>2. CASE j = p.index /\ k # p.index
      BY <1>4, <1>5, <2>3, <2>5, <3>2
    <3>3. CASE j # p.index /\ k = p.index
      BY <1>4, <2>3, <2>5, <3>3
    <3>4. CASE j # p.index /\ k # p.index
      BY <1>4, <2>4, <2>5, <3>4
    <3>5. QED
      BY <3>1, <3>2, <3>3, <3>4
  <2>6. QED
    BY <1>5, <2>2, <2>5 DEF Tiles
<1>7. Sourced(p.timestamp, new)
  <2> SUFFICES ASSUME NEW i \in DOMAIN more
               PROVE  \E q \in PacketInputs :
                        /\ q.timestamp = p.timestamp /\ q.total = p.total
                        /\ q.index = i /\ more[i] = Points(q)
    BY <1>1, <1>2 DEF Sourced
  <2>1. CASE i = p.index
    BY <1>4, <2>1
  <2>2. CASE i # p.index
    <3>1. i \in DOMAIN slot.packets /\ more[i] = slot.packets[i]
      BY <1>4, <2>2
    <3>2. QED
      BY <1>3, <3>1 DEF Filled, Sourced
  <2>3. QED
    BY <2>1, <2>2
<1>8. /\ IsFiniteSet(DOMAIN more)
      /\ Cardinality(DOMAIN more) <= MaxPackets
  <2>1. /\ IsFiniteSet(DOMAIN slot.packets)
        /\ Cardinality(DOMAIN slot.packets) \in Nat
    BY FS_CardinalityType DEF Filled
  <2>2. /\ IsFiniteSet(DOMAIN slot.packets \cup {p.index})
        /\ Cardinality(DOMAIN slot.packets \cup {p.index})
             = Cardinality(DOMAIN slot.packets) + 1
    BY <2>1, FS_AddElement
  <2>3. QED
    BY <1>4, <2>1, <2>2, AssemblerAssumption
<1>9. new.sum_points = Cardinality(Covered(more))
  <2> DEFINE here == p.index..(p.index + p.size - 1)
  <2>1. Covered(more) = Covered(slot.packets) \cup here
    <3>1. Covered(more) = Covered(slot.packets)
                            \cup (p.index..(p.index + Len(Points(p)) - 1))
      BY CoveredWithPacket DEF more
    <3>2. QED
      BY <1>5, <3>1
  <2>2. IsFiniteSet(here) /\ Cardinality(here) = p.size
    BY Zenon, <1>5, IntervalCount
  <2>3. IsFiniteSet(Covered(slot.packets))
    <3>1. slot.total - 1 \in Int /\ Covered(slot.packets) \in SUBSET (0..(slot.total - 1))
      BY TilesAreDisjoint DEF Filled, Tiles
    <3>2. IsFiniteSet(0..(slot.total - 1))
      BY <3>1, FS_Interval
    <3>3. QED
      BY <3>1, <3>2, FS_Subset
  <2>4. Covered(slot.packets) \cap here = {}
    <3> SUFFICES ASSUME NEW j \in DOMAIN slot.packets,
                        NEW o \in Span(slot.packets, j), o \in here
                 PROVE  FALSE
      BY DEF Covered
    <3>1. j \in Nat /\ Len(slot.packets[j]) \in Nat
      BY DEF Filled, Tiles
    <3>2. /\ j < p.index => j + Len(slot.packets[j]) <= p.index
          /\ p.index <= j => p.index + p.size <= j
      BY <1>5, <3>1 DEF Overlaps
    <3>3. QED
      BY <1>5, <3>1, <3>2 DEF Span
  <2>5. Cardinality(Covered(slot.packets) \cup here)
          = Cardinality(Covered(slot.packets)) + p.size
    <3> HIDE DEF here
    <3>1. Cardinality({}) = 0
      BY FS_EmptySet
    <3>2. /\ Cardinality(Covered(slot.packets)) \in Nat
          /\ Cardinality(here) \in Nat
      BY <2>2, <2>3, FS_CardinalityType
    <3>3. QED
      <4>1. Cardinality(Covered(slot.packets) \cup here)
              = Cardinality(Covered(slot.packets)) + Cardinality(here)
                  - Cardinality(Covered(slot.packets) \cap here)
        BY <2>2, <2>3, FS_Union
      <4>2. Cardinality(Covered(slot.packets) \cap here) = 0
        BY <2>4, <3>1
      <4>3. QED
        BY <2>2, <3>2, <4>1, <4>2
  <2>6. QED
    BY <1>1, <2>1, <2>5 DEF Filled
<1>10. Filled(p.timestamp, new)
  BY <1>1, <1>2, <1>6, <1>7, <1>8, <1>9 DEF Filled
<1>11. Complete(new) <=> FullyCovered(new)
  <2>1. ASSUME FullyCovered(new) PROVE Complete(new)
    <3>1. Covered(more) = 0..(p.total - 1)
      BY <1>1, <1>2, <2>1 DEF FullyCovered
    <3>2. Cardinality(0..(p.total - 1)) = p.total
      BY <1>5, FrameCount
    <3>3. \A i \in DOMAIN more \cup {p.total} : Expected(more, i) = i
      BY <1>6, <3>1, ScanSucceeds
    <3>4. QED
      BY <1>1, <1>2, <1>9, <3>1, <3>2, <3>3 DEF Complete
  <2>2. ASSUME Complete(new) PROVE FullyCovered(new)
    <3>1. Cardinality(Covered(more)) = p.total
      BY <1>2, <1>9, <2>2 DEF Complete
    <3>2. /\ IsFiniteSet(0..(p.total - 1))
          /\ Cardinality(0..(p.total - 1)) = p.total
      BY <1>5, FrameCount
    <3>3. Covered(more) \in SUBSET (0..(p.total - 1))
      BY <1>6, TilesAreDisjoint
    <3>4. Covered(more) = 0..(p.total - 1)
      BY Zenon, <3>1, <3>2, <3>3, FS_Subset
    <3>5. QED
      BY <1>1, <1>2, <3>4 DEF FullyCovered
  <2>3. QED
    BY <2>1, <2>2
<1>12. DOMAIN new.packets # {}
  BY <1>1, <1>4
<1>13. QED
  BY <1>2, <1>10, <1>11, <1>12 DEF new

-----------------------------------------------------------------------------
(* The assembler's state *)

StateFields == {"slots", "stats", "emitted", "opened"}

\* Every frame started is in a slot or counted once.
Balance(s) ==
  s.opened = Cardinality(DOMAIN s.slots) + s.stats["published"] + s.stats["timeout"]
               + s.stats["conflict"] + s.stats["capacity"]

\* The types, the capacity and the balance of an assembler's state.
Bookkeeping(s) ==
  /\ DOMAIN s = StateFields
  /\ IsFiniteSet(DOMAIN s.slots)
  /\ Cardinality(DOMAIN s.slots) <= Capacity
  /\ s.stats \in [Reasons -> Nat]
  /\ Balance(s)

\* Between packets: every active slot waits for more.
Sound(s) ==
  /\ Bookkeeping(s)
  /\ \A t \in DOMAIN s.slots : Waiting(t, s.slots[t])

\* While add_packet works on the slot of ts, which may have just been activated.
Opening(s, ts) ==
  /\ Bookkeeping(s)
  /\ ts \in DOMAIN s.slots
  /\ \A t \in DOMAIN s.slots \ {ts} : Waiting(t, s.slots[t])
  /\ Filled(ts, s.slots[ts])
  /\ DOMAIN s.slots[ts].packets # {} => ~FullyCovered(s.slots[ts])

\* What FramesAreExact says of a frame.
ExactFrame(e) ==
  e # NoFrame =>
    /\ e.points # <<>>
    /\ \A k \in DOMAIN e.points : \E p \in PacketInputs :
         /\ p.timestamp = e.timestamp
         /\ p.total = Len(e.points)
         /\ k - 1 \in p.index..(p.index + p.size - 1)
         /\ e.points[k] = [offset |-> k - 1, variant |-> p.variant]

\* The slot of an active frame may be worked on.
LEMMA SoundOpens ==
  ASSUME NEW s, Sound(s), NEW ts \in DOMAIN s.slots
  PROVE  Opening(s, ts)
BY DEF Sound, Opening, Waiting

\* The fields after finalize_slot.
LEMMA FinalizeFields ==
  ASSUME NEW s, DOMAIN s = StateFields, NEW ts, NEW reason,
         NEW f, f = finalize_slot(s, ts, reason)
  PROVE  /\ DOMAIN f = StateFields
         /\ f.slots = [t \in DOMAIN s.slots \ {ts} |-> s.slots[t]]
         /\ f.stats = [s.stats EXCEPT ![reason] = @ + 1]
         /\ f.emitted = s.emitted
         /\ f.opened = s.opened
BY DEF finalize_slot, StateFields

\* Dropping or publishing the frame worked on leaves a sound state: one slot less
\* and one count more.
LEMMA FinalizeSound ==
  ASSUME NEW s, NEW ts, Opening(s, ts), NEW reason \in Reasons
  PROVE  /\ Sound(finalize_slot(s, ts, reason))
         /\ finalize_slot(s, ts, reason).emitted = s.emitted
         /\ Cardinality(DOMAIN finalize_slot(s, ts, reason).slots)
              = Cardinality(DOMAIN s.slots) - 1
         /\ DOMAIN finalize_slot(s, ts, reason).slots \subseteq DOMAIN s.slots
<1> DEFINE f == finalize_slot(s, ts, reason)
<1>1. /\ DOMAIN f = StateFields
      /\ f.slots = [t \in DOMAIN s.slots \ {ts} |-> s.slots[t]]
      /\ f.stats = [s.stats EXCEPT ![reason] = @ + 1]
      /\ f.emitted = s.emitted
      /\ f.opened = s.opened
  <2>1. DOMAIN s = StateFields
    BY DEF Opening, Bookkeeping
  <2>2. QED
    BY <2>1, FinalizeFields
<1> HIDE DEF f
<1>2. DOMAIN f.slots = DOMAIN s.slots \ {ts}
  BY <1>1
<1>3. /\ IsFiniteSet(DOMAIN f.slots)
      /\ Cardinality(DOMAIN f.slots) = Cardinality(DOMAIN s.slots) - 1
      /\ Cardinality(DOMAIN s.slots) \in Nat
  BY <1>2, FS_RemoveElement, FS_CardinalityType DEF Opening, Bookkeeping
<1>4. f.stats \in [Reasons -> Nat]
  BY <1>1 DEF Opening, Bookkeeping
<1>5. f.stats["published"] + f.stats["timeout"] + f.stats["conflict"]
        + f.stats["capacity"]
      = s.stats["published"] + s.stats["timeout"] + s.stats["conflict"]
          + s.stats["capacity"] + 1
  BY <1>1 DEF Opening, Bookkeeping, Reasons
<1>6. \A r \in Reasons : s.stats[r] \in Nat /\ f.stats[r] \in Nat
  BY <1>4 DEF Opening, Bookkeeping
<1>7. Balance(f)
  BY <1>1, <1>3, <1>5, <1>6 DEF Opening, Bookkeeping, Balance, Reasons
<1>8. Capacity \in Nat
  BY AssemblerAssumption DEF Capacity
<1>9. Bookkeeping(f)
  BY <1>1, <1>3, <1>4, <1>7, <1>8 DEF Opening, Bookkeeping
<1>10. \A t \in DOMAIN f.slots : Waiting(t, f.slots[t])
  BY <1>1, <1>2 DEF Opening
<1>11. QED
  BY Zenon, <1>1, <1>2, <1>3, <1>9, <1>10 DEF Sound, f

\* Activating a slot, with an eviction where all are taken.
LEMMA OpenOpens ==
  ASSUME NEW s, Sound(s), NEW ts, NEW victim,
         DOMAIN s.slots # {} => victim \in DOMAIN s.slots
  PROVE  /\ Opening(open_slot(s, ts, victim), ts)
         /\ open_slot(s, ts, victim).emitted = s.emitted
<1>1. CASE ts \in DOMAIN s.slots
  <2>1. open_slot(s, ts, victim) = s
    BY <1>1 DEF open_slot
  <2>2. QED
    BY <1>1, <2>1, SoundOpens
<1>2. CASE ts \notin DOMAIN s.slots
  <2> DEFINE full == Cardinality(DOMAIN s.slots) >= Capacity
             room == IF full THEN finalize_slot(s, victim, "capacity") ELSE s
             o    == open_slot(s, ts, victim)
  <2>1. o = [room EXCEPT !.slots = [t \in DOMAIN room.slots \cup {ts} |->
                                      IF t = ts THEN NewSlot ELSE room.slots[t]],
                         !.opened = @ + 1]
    BY <1>2 DEF open_slot
  <2>2. Capacity \in Nat \ {0} /\ Cardinality(DOMAIN s.slots) \in Nat
    BY AssemblerAssumption, FS_CardinalityType DEF Capacity, Sound, Bookkeeping
  <2>3. /\ Sound(room) /\ room.emitted = s.emitted
        /\ Cardinality(DOMAIN room.slots) < Capacity
        /\ DOMAIN room.slots \subseteq DOMAIN s.slots
    <3>1. CASE full
      <4>1. DOMAIN s.slots # {}
        BY <2>2, <3>1, FS_EmptySet
      <4>2. Opening(s, victim) /\ "capacity" \in Reasons
        BY <4>1, SoundOpens DEF Reasons
      <4>3. room = finalize_slot(s, victim, "capacity")
        BY <3>1
      <4>4. Cardinality(DOMAIN s.slots) <= Capacity
        BY DEF Sound, Bookkeeping
      <4>5. /\ Sound(room) /\ room.emitted = s.emitted
            /\ Cardinality(DOMAIN room.slots) = Cardinality(DOMAIN s.slots) - 1
            /\ DOMAIN room.slots \subseteq DOMAIN s.slots
        BY <4>2, <4>3, FinalizeSound
      <4>6. QED
        BY <2>2, <4>4, <4>5
    <3>2. CASE ~full
      BY <2>2, <3>2
    <3>3. QED
      BY <3>1, <3>2
  <2> HIDE DEF room, full, o
  <2>4. /\ DOMAIN o = StateFields
        /\ o.slots = [t \in DOMAIN room.slots \cup {ts} |->
                        IF t = ts THEN NewSlot ELSE room.slots[t]]
        /\ o.opened = room.opened + 1
        /\ o.stats = room.stats
        /\ o.emitted = room.emitted
    <3>1. DOMAIN room = {"slots", "stats", "emitted", "opened"}
      BY <2>3 DEF Sound, Bookkeeping, StateFields
    <3>2. QED
      BY <2>1, <3>1 DEF StateFields
  <2>5. DOMAIN o.slots = DOMAIN room.slots \cup {ts} /\ ts \notin DOMAIN room.slots
    BY <1>2, <2>3, <2>4
  <2>6. /\ IsFiniteSet(DOMAIN o.slots)
        /\ Cardinality(DOMAIN o.slots) = Cardinality(DOMAIN room.slots) + 1
        /\ Cardinality(DOMAIN room.slots) \in Nat
    BY <2>3, <2>5, FS_AddElement, FS_CardinalityType DEF Sound, Bookkeeping
  <2>7. Balance(o)
    <3>1. \A r \in Reasons : room.stats[r] \in Nat
      BY <2>3 DEF Sound, Bookkeeping
    <3>2. QED
      BY <2>3, <2>4, <2>6, <3>1 DEF Sound, Bookkeeping, Balance, Reasons
  <2>8. Bookkeeping(o)
    BY <2>2, <2>3, <2>4, <2>6, <2>7 DEF Sound, Bookkeeping
  <2>9. \A t \in DOMAIN o.slots \ {ts} : Waiting(t, o.slots[t])
    BY <2>3, <2>4, <2>5 DEF Sound
  <2>10. o.slots[ts] = NewSlot
    BY <2>4
  <2>11. QED
    BY <2>3, <2>4, <2>5, <2>8, <2>9, <2>10, NewSlotFilled DEF Opening, o
<1>3. QED
  BY <1>1, <1>2

\* The frame handed out when the packet completes it is exact.
LEMMA CompletedFrameIsExact ==
  ASSUME NEW ts, NEW slot, Filled(ts, slot), FullyCovered(slot), slot.total # 0
  PROVE  /\ Len(Assembled(slot.packets)) = slot.total
         /\ ExactFrame([timestamp |-> ts, points |-> Assembled(slot.packets)])
<1> DEFINE frame == Assembled(slot.packets)
           e     == [timestamp |-> ts, points |-> frame]
<1>1. /\ DOMAIN frame = 1..slot.total
      /\ \A m \in 1..slot.total :
           \E i \in DOMAIN slot.packets : \E k \in DOMAIN slot.packets[i] :
             i + k = m /\ frame[m] = slot.packets[i][k]
  BY AssembledExactly DEF Filled, FullyCovered
<1>2. slot.total \in Nat
  BY DEF Filled, Tiles
<1> HIDE DEF frame
<1>3. Len(frame) = slot.total
  BY <1>1, <1>2
<1>4. frame # <<>>
  BY <1>2, <1>3
<1>5. ASSUME NEW m \in DOMAIN frame
      PROVE  \E q \in PacketInputs :
               /\ q.timestamp = ts
               /\ q.total = Len(frame)
               /\ m - 1 \in q.index..(q.index + q.size - 1)
               /\ frame[m] = [offset |-> m - 1, variant |-> q.variant]
  <2>1. PICK i \in DOMAIN slot.packets : \E k \in DOMAIN slot.packets[i] :
               i + k = m /\ frame[m] = slot.packets[i][k]
    BY <1>1
  <2>2. PICK k \in DOMAIN slot.packets[i] : i + k = m /\ frame[m] = slot.packets[i][k]
    BY <2>1
  <2>3. PICK q \in PacketInputs : /\ q.timestamp = ts /\ q.total = slot.total
                                  /\ q.index = i /\ slot.packets[i] = Points(q)
    BY DEF Filled, Sourced
  <2>4. /\ q.index \in Nat /\ q.size \in Nat /\ k \in 1..q.size
        /\ Points(q)[k] = [offset |-> q.index + k - 1, variant |-> q.variant]
    BY Zenon, <2>3, PointsLength
  <2>5. /\ m - 1 = q.index + k - 1
        /\ m - 1 \in q.index..(q.index + q.size - 1)
    BY <2>2, <2>3, <2>4
  <2>6. QED
    BY Zenon, <1>3, <2>2, <2>3, <2>4, <2>5
<1>6. e.timestamp = ts /\ e.points = frame
  OBVIOUS
<1> HIDE DEF e
<1>7. ExactFrame(e)
  BY <1>4, <1>5, <1>6 DEF ExactFrame
<1>8. QED
  BY <1>3, <1>7 DEF e, frame

\* Storing a packet that passed the checks.
LEMMA StoreSound ==
  ASSUME NEW p \in PacketInputs, NEW s, Opening(s, p.timestamp),
         s.emitted = NoFrame,
         p.total # 0, p.total <= MaxPoints, ~OutOfFrame(p),
         ~Contradicts(s.slots[p.timestamp], p),
         p.index \notin DOMAIN s.slots[p.timestamp].packets,
         ~(Cardinality(DOMAIN s.slots[p.timestamp].packets) >= MaxPackets),
         ~Overlaps(s.slots[p.timestamp], p)
  PROVE  Sound(store(s, p)) /\ ExactFrame(store(s, p).emitted)
<1> DEFINE ts   == p.timestamp
           slot == WithPacket(s.slots[ts], p)
           frame == Assembled(slot.packets)
<1>1. /\ Filled(ts, slot) /\ slot.total = p.total /\ DOMAIN slot.packets # {}
      /\ Complete(slot) <=> FullyCovered(slot)
  BY StoredPacket DEF Opening
<1>2. DOMAIN s = {"slots", "stats", "emitted", "opened"}
  BY DEF Opening, Bookkeeping, StateFields
<1>3. CASE ~Complete(slot)
  <2> DEFINE r == [s EXCEPT !.slots[ts] = slot]
  <2>1. store(s, p) = r
    BY <1>3 DEF store
  <2>2. /\ DOMAIN r = StateFields
        /\ r.slots = [s.slots EXCEPT ![ts] = slot]
        /\ r.stats = s.stats /\ r.emitted = s.emitted /\ r.opened = s.opened
    BY <1>2 DEF StateFields
  <2> HIDE DEF r, slot
  <2>3. DOMAIN r.slots = DOMAIN s.slots
    BY <2>2
  <2>4. Bookkeeping(r)
    BY <2>2, <2>3 DEF Opening, Bookkeeping, Balance
  <2>5. \A t \in DOMAIN r.slots : Waiting(t, r.slots[t])
    <3> SUFFICES ASSUME NEW t \in DOMAIN s.slots PROVE Waiting(t, r.slots[t])
      BY <2>3
    <3>1. CASE t = ts
      <4>1. r.slots[t] = slot
        BY <2>2, <3>1
      <4>2. QED
        BY <1>1, <1>3, <3>1, <4>1 DEF Waiting
    <3>2. CASE t # ts
      <4>1. r.slots[t] = s.slots[t]
        BY <2>2, <3>2
      <4>2. QED
        BY <3>2, <4>1 DEF Opening
    <3>3. QED
      BY <3>1, <3>2
  <2>6. ExactFrame(r.emitted)
    BY <2>2 DEF ExactFrame
  <2>7. QED
    BY <2>1, <2>4, <2>5, <2>6 DEF Sound
<1>4. CASE Complete(slot)
  <2> DEFINE f == finalize_slot(s, ts, "published")
             e == [timestamp |-> ts, points |-> frame]
             r == [f EXCEPT !.emitted = e]
  <2>1. Len(frame) = slot.total /\ ExactFrame(e)
    BY <1>1, <1>4, CompletedFrameIsExact
  <2>2. store(s, p) = r
    BY <1>4, <2>1 DEF store
  <2>3. Sound(f)
    BY FinalizeSound DEF Reasons
  <2> HIDE DEF f, e, slot, frame
  <2>4. DOMAIN f = {"slots", "stats", "emitted", "opened"}
    BY <2>3 DEF Sound, Bookkeeping, StateFields
  <2>5. /\ DOMAIN r = StateFields
        /\ r.slots = f.slots /\ r.stats = f.stats /\ r.opened = f.opened
        /\ r.emitted = e
    BY <2>4 DEF StateFields
  <2> HIDE DEF r
  <2>6. Sound(r)
    BY <2>3, <2>5 DEF Sound, Bookkeeping, Balance
  <2>7. QED
    BY SMTT(30), <2>1, <2>2, <2>5, <2>6
<1>5. QED
  BY <1>3, <1>4

\* Whatever packet arrives, add_packet leaves a sound state, and the frame it hands
\* out, if any, is exact.
LEMMA AddSound ==
  ASSUME NEW s, Sound(s), s.emitted = NoFrame, NEW p \in PacketInputs, NEW victim,
         DOMAIN s.slots # {} => victim \in DOMAIN s.slots
  PROVE  /\ Sound(add_packet(s, p, victim))
         /\ ExactFrame(add_packet(s, p, victim).emitted)
<1> DEFINE ts   == p.timestamp
           held == open_slot(s, ts, victim)
           slot == held.slots[ts]
           a    == add_packet(s, p, victim)
<1>1. Opening(held, ts) /\ held.emitted = NoFrame
  BY OpenOpens
<1>2. ASSUME NEW x, Opening(x, ts), x.emitted = NoFrame, a = finalize_slot(x, ts, "conflict")
      PROVE  Sound(a) /\ ExactFrame(a.emitted)
  <2>1. "conflict" \in Reasons
    BY DEF Reasons
  <2>2. QED
    BY <1>2, <2>1, FinalizeSound DEF ExactFrame
<1>3. CASE a = s
  BY <1>3 DEF ExactFrame
<1>4. p.total \in Nat /\ MaxPoints \in Nat
  BY PointsLength, AssemblerAssumption
<1>5. CASE p.total = 0 \/ p.total > MaxPoints
  <2>1. a = s
    BY <1>5 DEF add_packet
  <2>2. QED
    BY <1>3, <2>1
<1>6. CASE ~(p.total = 0 \/ p.total > MaxPoints) /\ OutOfFrame(p)
  <2>1. CASE ts \in DOMAIN s.slots
    <3>1. a = finalize_slot(s, ts, "conflict")
      BY <1>6, <2>1 DEF add_packet
    <3>2. Opening(s, ts)
      BY <2>1, SoundOpens
    <3>3. QED
      BY <1>2, <3>1, <3>2
  <2>2. CASE ts \notin DOMAIN s.slots
    <3>1. a = s
      BY SMTT(30), <1>6, <2>2 DEF add_packet
    <3>2. QED
      BY <1>3, <3>1
  <2>3. QED
    BY <2>1, <2>2
<1>7. CASE ~(p.total = 0 \/ p.total > MaxPoints) /\ ~OutOfFrame(p)
  <2>1. CASE Contradicts(slot, p)
    <3>1. a = finalize_slot(held, ts, "conflict")
      BY <1>7, <2>1 DEF add_packet
    <3>2. QED
      BY <1>1, <1>2, <3>1
  <2>2. CASE /\ ~Contradicts(slot, p)
             /\ \/ p.index \in DOMAIN slot.packets
                \/ Cardinality(DOMAIN slot.packets) >= MaxPackets
    <3>1. a = held
      BY <1>7, <2>2 DEF add_packet
    <3>2. DOMAIN slot.packets # {}
      BY <2>2, FS_EmptySet, AssemblerAssumption
    <3> HIDE DEF a, held
    <3>3. Waiting(ts, held.slots[ts])
      BY <1>1, <3>2 DEF Opening, Waiting
    <3>4. Sound(held)
      BY SMTT(30), <1>1, <3>3 DEF Opening, Sound
    <3>5. QED
      BY <1>1, <3>1, <3>4 DEF ExactFrame, a
  <2>3. CASE /\ ~Contradicts(slot, p)
             /\ p.index \notin DOMAIN slot.packets
             /\ ~(Cardinality(DOMAIN slot.packets) >= MaxPackets)
             /\ Overlaps(slot, p) \/ OverBudget(slot, p)
    <3>1. a = finalize_slot(held, ts, "conflict")
      BY <1>7, <2>3 DEF add_packet
    <3>2. QED
      BY <1>1, <1>2, <3>1
  <2>4. CASE /\ ~Contradicts(slot, p)
             /\ p.index \notin DOMAIN slot.packets
             /\ ~(Cardinality(DOMAIN slot.packets) >= MaxPackets)
             /\ ~(Overlaps(slot, p) \/ OverBudget(slot, p))
    <3>1. a = store(held, p)
      BY <1>7, <2>4 DEF add_packet
    <3>2. p.total <= MaxPoints
      BY <1>4, <1>7
    <3> HIDE DEF a, held
    <3>3. QED
      BY SMTT(30), <1>1, <1>7, <2>4, <3>1, <3>2, StoreSound DEF a
  <2>5. QED
    BY <2>1, <2>2, <2>3, <2>4
<1>8. QED
  BY <1>5, <1>6, <1>7

\* expire drops and counts the frames that timed out.
LEMMA ExpireSound ==
  ASSUME NEW s, Sound(s)
  PROVE  Sound(expire(s)) /\ expire(s).emitted = s.emitted
<1> DEFINE x == expire(s)
<1>1. DOMAIN s = {"slots", "stats", "emitted", "opened"}
  BY DEF Sound, Bookkeeping, StateFields
<1>2. /\ DOMAIN x = StateFields
      /\ x.slots = [t \in DOMAIN s.slots \ Expired(s) |-> s.slots[t]]
      /\ x.stats = [s.stats EXCEPT !["timeout"] = @ + Cardinality(Expired(s))]
      /\ x.emitted = s.emitted /\ x.opened = s.opened
  BY <1>1 DEF expire, StateFields
<1> HIDE DEF x
<1>3. Expired(s) \in SUBSET DOMAIN s.slots /\ IsFiniteSet(DOMAIN s.slots)
  BY DEF Expired, Sound, Bookkeeping
<1>4. DOMAIN x.slots = DOMAIN s.slots \ Expired(s)
  BY <1>2
<1>5. /\ IsFiniteSet(Expired(s))
      /\ Cardinality(Expired(s)) \in Nat
      /\ Cardinality(DOMAIN s.slots) \in Nat
      /\ IsFiniteSet(DOMAIN x.slots)
      /\ Cardinality(DOMAIN x.slots) \in Nat
      /\ Cardinality(DOMAIN x.slots)
           = Cardinality(DOMAIN s.slots) - Cardinality(Expired(s))
  <2>1. IsFiniteSet(Expired(s))
    BY <1>3, FS_Subset
  <2>2. DOMAIN s.slots \cap Expired(s) = Expired(s)
    BY <1>3
  <2>3. /\ IsFiniteSet(DOMAIN s.slots \ Expired(s))
        /\ Cardinality(DOMAIN s.slots \ Expired(s))
             = Cardinality(DOMAIN s.slots) - Cardinality(DOMAIN s.slots \cap Expired(s))
    BY Zenon, <1>3, FS_Difference
  <2>4. QED
    BY Zenon, <1>3, <1>4, <2>1, <2>2, <2>3, FS_CardinalityType
<1>6. s.stats \in [Reasons -> Nat]
  BY DEF Sound, Bookkeeping
<1>7. x.stats \in [Reasons -> Nat]
  BY <1>2, <1>5, <1>6 DEF Reasons
<1>8. Balance(x)
  <2>1. /\ x.stats["timeout"] = s.stats["timeout"] + Cardinality(Expired(s))
        /\ x.stats["published"] = s.stats["published"]
        /\ x.stats["conflict"] = s.stats["conflict"]
        /\ x.stats["capacity"] = s.stats["capacity"]
    BY <1>2, <1>6 DEF Reasons
  <2>2. \A r \in Reasons : s.stats[r] \in Nat
    BY <1>6
  <2>3. QED
    BY <1>2, <1>5, <2>1, <2>2 DEF Sound, Bookkeeping, Balance, Reasons
<1>9. Capacity \in Nat
  BY AssemblerAssumption DEF Capacity
<1>10. Bookkeeping(x)
  BY <1>2, <1>5, <1>7, <1>8, <1>9 DEF Sound, Bookkeeping
<1>11. \A t \in DOMAIN x.slots : Waiting(t, x.slots[t])
  BY <1>2, <1>4 DEF Sound
<1>12. QED
  BY <1>2, <1>10, <1>11 DEF Sound, x

-----------------------------------------------------------------------------
(* The receive loop *)

\* The inductive invariant.
AssemblerInv == Sound(Assembler) /\ FramesAreExact

\* The state an iteration ends in is the assembler's.
LEMMA BecomesKeeps ==
  ASSUME NEW s, Sound(s), ExactFrame(s.emitted), Becomes(s)
  PROVE  AssemblerInv'
<1>1. slots' = s.slots /\ stats' = s.stats /\ emitted' = s.emitted /\ opened' = s.opened
  BY DEF Becomes
<1>2. /\ DOMAIN Assembler' = StateFields
      /\ Assembler'.slots = s.slots /\ Assembler'.stats = s.stats
      /\ Assembler'.opened = s.opened
  BY <1>1 DEF Assembler, StateFields
<1>3. Sound(Assembler')
  BY <1>2 DEF Sound, Bookkeeping, Balance
<1>4. FramesAreExact'
  BY <1>1 DEF FramesAreExact, ExactFrame
<1>5. QED
  BY <1>3, <1>4 DEF AssemblerInv

\* A slot waits whatever its age.
LEMMA AgeDoesNotMatter ==
  ASSUME NEW t, NEW slot, Waiting(t, slot), NEW older, DOMAIN older = SlotFields,
         older.total = slot.total, older.packets = slot.packets,
         older.sum_points = slot.sum_points
  PROVE  Waiting(t, older)
BY DEF Waiting, Filled, Sourced, FullyCovered

\* The assembler starts with every slot free.
LEMMA AssemblerStarts == Init => AssemblerInv
<1> SUFFICES ASSUME Init PROVE AssemblerInv
  OBVIOUS
<1>1. /\ DOMAIN Assembler = StateFields
      /\ Assembler.slots = slots /\ Assembler.stats = stats
      /\ Assembler.opened = opened
  BY DEF Assembler, StateFields
<1>2. DOMAIN slots = {} /\ opened = 0 /\ stats = [r \in Reasons |-> 0]
  BY DEF Init
<1>3. IsFiniteSet({}) /\ Cardinality({}) = 0
  BY FS_EmptySet
<1>4. 0 <= Capacity
  BY AssemblerAssumption DEF Capacity
<1>5. Bookkeeping(Assembler)
  BY <1>1, <1>2, <1>3, <1>4 DEF Bookkeeping, Balance, Reasons
<1>6. FramesAreExact
  BY DEF Init, FramesAreExact
<1>7. QED
  BY <1>1, <1>2, <1>5, <1>6 DEF AssemblerInv, Sound

\* Every iteration of loop_point_cloud and the passing of time keep the invariant.
LEMMA AssemblerKeeps == AssemblerInv /\ [Next]_vars => AssemblerInv'
<1> SUFFICES ASSUME AssemblerInv, [Next]_vars PROVE AssemblerInv'
  OBVIOUS
<1>1. /\ Assembler.slots = slots /\ Assembler.stats = stats
      /\ Assembler.opened = opened /\ Assembler.emitted = NoFrame
      /\ DOMAIN Assembler = StateFields
  BY DEF Assembler, StateFields
<1>2. Sound(Assembler)
  BY DEF AssemblerInv
<1>3. ASSUME NEW p \in PacketInputs, Receive(p) PROVE AssemblerInv'
  <2>1. PICK victim \in IF DOMAIN slots = {} THEN {p.timestamp} ELSE Oldest(Assembler) :
          Becomes(expire(add_packet(Assembler, p, victim)))
    BY <1>3 DEF Receive
  <2>2. DOMAIN Assembler.slots # {} => victim \in DOMAIN Assembler.slots
    BY <1>1, <2>1 DEF Oldest
  <2>3. /\ Sound(add_packet(Assembler, p, victim))
        /\ ExactFrame(add_packet(Assembler, p, victim).emitted)
    BY <1>1, <1>2, <2>2, AddSound
  <2>4. QED
    BY <2>1, <2>3, ExpireSound, BecomesKeeps
<1>4. CASE NoPacket
  <2>1. Sound(expire(Assembler)) /\ expire(Assembler).emitted = NoFrame
    BY <1>1, <1>2, ExpireSound
  <2>2. QED
    BY <1>4, <2>1, BecomesKeeps DEF NoPacket, ExactFrame
<1>5. CASE Tick
  <2>1. /\ slots' = [t \in DOMAIN slots |->
                       [slots[t] EXCEPT !.age = IF @ < Timeout THEN @ + 1 ELSE @]]
        /\ emitted' = NoFrame /\ stats' = stats /\ opened' = opened
    BY <1>5 DEF Tick
  <2>2. DOMAIN slots' = DOMAIN slots
    BY <2>1
  <2>3. \A t \in DOMAIN slots' : Waiting(t, slots'[t])
    <3> SUFFICES ASSUME NEW t \in DOMAIN slots PROVE Waiting(t, slots'[t])
      BY <2>2
    <3>1. Waiting(t, slots[t])
      BY <1>1, <1>2 DEF Sound
    <3>2. DOMAIN slots[t] = {"total", "packets", "sum_points", "age"}
      BY <3>1 DEF Waiting, Filled, SlotFields
    <3>3. /\ DOMAIN slots'[t] = SlotFields
          /\ slots'[t].total = slots[t].total
          /\ slots'[t].packets = slots[t].packets
          /\ slots'[t].sum_points = slots[t].sum_points
      BY <2>1, <3>2 DEF SlotFields
    <3>4. QED
      BY <3>1, <3>3, AgeDoesNotMatter
  <2>4. /\ DOMAIN Assembler' = StateFields
        /\ Assembler'.slots = slots' /\ Assembler'.stats = stats
        /\ Assembler'.opened = opened
    BY <2>1 DEF Assembler, StateFields
  <2>5. Bookkeeping(Assembler')
    BY Zenon, <1>1, <1>2, <2>2, <2>4 DEF Sound, Bookkeeping, Balance
  <2>6. FramesAreExact'
    BY <2>1 DEF FramesAreExact, NoFrame
  <2>7. QED
    BY <2>3, <2>4, <2>5, <2>6 DEF AssemblerInv, Sound
<1>6. CASE UNCHANGED vars
  <2>1. Assembler' = Assembler /\ emitted' = emitted
    BY <1>6 DEF vars, Assembler
  <2>2. QED
    BY <2>1 DEF AssemblerInv, FramesAreExact
<1>7. QED
  BY <1>3, <1>4, <1>5, <1>6 DEF Next

\* What the invariant says in the words of the properties.
LEMMA InvImplies ==
  AssemblerInv => FramesAreExact /\ SlotsAreConsistent /\ FramesAreAccounted
<1> SUFFICES ASSUME AssemblerInv
             PROVE  FramesAreExact /\ SlotsAreConsistent /\ FramesAreAccounted
  OBVIOUS
<1>1. /\ Assembler.slots = slots /\ Assembler.stats = stats
      /\ Assembler.opened = opened
  BY DEF Assembler
<1>2. /\ Cardinality(DOMAIN slots) <= Capacity
      /\ FramesAreAccounted
      /\ \A t \in DOMAIN slots : Waiting(t, slots[t])
  BY <1>1 DEF AssemblerInv, Sound, Bookkeeping, Balance, FramesAreAccounted
<1>3. ASSUME NEW t \in DOMAIN slots
      PROVE  /\ DOMAIN slots[t].packets # {}
             /\ slots[t].total <= MaxPoints
             /\ Cardinality(DOMAIN slots[t].packets) <= MaxPackets
             /\ \A i, j \in DOMAIN slots[t].packets :
                  i # j => Span(slots[t].packets, i) \cap Span(slots[t].packets, j) = {}
             /\ Covered(slots[t].packets) \subseteq 0..(slots[t].total - 1)
             /\ Covered(slots[t].packets) # 0..(slots[t].total - 1)
  <2>1. Waiting(t, slots[t])
    BY <1>2
  <2>2. QED
    BY <2>1, TilesAreDisjoint DEF Waiting, Filled, FullyCovered
<1>4. SlotsAreConsistent
  BY Zenon, <1>2, <1>3 DEF SlotsAreConsistent
<1>5. QED
  BY <1>2, <1>4 DEF AssemblerInv

\* Every frame handed to on_frame is exact, for any packets, in any order and
\* number, with any loss or repetition, and any capacities (add_packet).
THEOREM OnlyExactFrames == Spec => []FramesAreExact
BY AssemblerStarts, AssemblerKeeps, InvImplies, PTL DEF Spec

\* The slots hold disjoint packets of one frame each, within all bounds, and a
\* complete frame is never held back (add_packet, slot_for_timestamp).
THEOREM ConsistentSlots == Spec => []SlotsAreConsistent
BY AssemblerStarts, AssemblerKeeps, InvImplies, PTL DEF Spec

\* Every frame started is in a slot or counted exactly once, under any mixture of
\* publications, conflicts, evictions and timeouts (finalize_slot, expire).
THEOREM AccountedFrames == Spec => []FramesAreAccounted
BY AssemblerStarts, AssemblerKeeps, InvImplies, PTL DEF Spec
=============================================================================
