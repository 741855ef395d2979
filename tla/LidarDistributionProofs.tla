---------------------- MODULE LidarDistributionProofs ----------------------
(***************************************************************************)
(* Proofs about the two ways to a poll thread.  The packet ring, for every *)
(* capacity, every set of packets and every index width: the threads never *)
(* share a slot, and the ring implements the bounded queue of whole        *)
(* packets.  The distribution of packets, for every number of lidars,      *)
(* queue size and number of packets: types, at most one token per          *)
(* semaphore, and no lost wakeup.                                          *)
(***************************************************************************)
EXTENDS LidarDataQueue, LidarDistribution, TLAPS

-----------------------------------------------------------------------------
(* Arithmetic of free-running indices *)

\* Division leaves a remainder in 0..m-1.
LEMMA DivisionWithRemainder ==
    ASSUME NEW m \in Nat \ {0}, NEW x \in Int
    PROVE  /\ x % m \in 0..(m - 1)
           /\ \E q \in Int : x = q * m + (x % m)
<1>1. x \div m \in Int /\ x % m \in 0..(m - 1)
  OBVIOUS
<1>2. x = (x \div m) * m + (x % m)
  OBVIOUS
<1>3. QED
  BY <1>1, <1>2

\* A number determines its remainder.
LEMMA RemainderIsUnique ==
    ASSUME NEW m \in Nat \ {0}, NEW q \in Int, NEW r \in 0..(m - 1)
    PROVE  (q * m + r) % m = r
  OBVIOUS

\* Two numbers less than c apart, but not equal, have different remainders.
LEMMA RemaindersDiffer ==
    ASSUME NEW c \in Nat \ {0}, NEW x \in Int, NEW y \in Int,
           x < y, y - x < c
    PROVE  x % c # y % c
<1>1. x = (x \div c) * c + (x % c) /\ y = (y \div c) * c + (y % c)
  OBVIOUS
<1>2. SUFFICES ASSUME x % c = y % c PROVE FALSE
  OBVIOUS
<1> DEFINE j == (y \div c) - (x \div c)
<1>3. j \in Int /\ y - x = j * c
  BY <1>1, <1>2
<1>4. CASE j <= 0
  <2>1. j * c <= 0
    BY <1>3, <1>4
  <2>2. QED
    BY <1>3, <2>1
<1>5. CASE j >= 1
  <2>1. j * c >= c
    BY <1>3, <1>5
  <2>2. QED
    BY <1>3, <2>1
<1>6. QED
  BY <1>3, <1>4, <1>5

\* A multiple of the capacity does not move the slot of an index.
LEMMA RemainderOfShift ==
    ASSUME NEW c \in Nat \ {0}, NEW k \in Int, NEW x \in Int
    PROVE  (x + k * c) % c = x % c
<1>1. PICK q \in Int : x = q * c + (x % c)
  BY DivisionWithRemainder
<1>2. x % c \in 0..(c - 1)
  OBVIOUS
<1>3. x + k * c = (q + k) * c + (x % c)
  BY <1>1
<1>4. ((q + k) * c + (x % c)) % c = x % c
  BY <1>2, RemainderIsUnique
<1>5. QED
  BY <1>3, <1>4

-----------------------------------------------------------------------------
(* The inductive invariant *)

\* Indices taken modulo IndexModulus still tell how full the ring is.
LEMMA UsedSizeSteps ==
    ASSUME NEW m \in Nat \ {0}, NEW r \in 0..(m - 1), NEW w \in 0..(m - 1)
    PROVE  /\ (w - r) % m \in 0..(m - 1)
           /\ (w - r) % m < m - 1 =>
                (((w + 1) % m) - r) % m = ((w - r) % m) + 1
           /\ (w - r) % m > 0 =>
                (w - ((r + 1) % m)) % m = ((w - r) % m) - 1
           /\ (w + 1) % m \in 0..(m - 1)
  OBVIOUS

\* The used size is zero exactly when the indices are equal (QueueIsEmpty).
LEMMA EmptyMeansEqual ==
    ASSUME NEW m \in Nat \ {0}, NEW r \in 0..(m - 1), NEW w \in 0..(m - 1)
    PROVE  (w - r) % m = 0 <=> r = w
  OBVIOUS

\* A thread inside QueuePushAny has seen room and a thread inside QueuePop has
\* seen a packet; the other thread can only make more of either.
RingInv ==
    /\ QueueUsedSize <= Capacity
    /\ prod \in {"header", "points", "advance"} => QueueUsedSize < Capacity
    /\ cons # "idle" => QueueUsedSize > 0

\* The constants as the proofs use them
LEMMA Constants ==
    /\ Capacity \in Nat \ {0}
    /\ IndexModulus \in Nat \ {0}
    /\ Capacity < IndexModulus
<1>1. PICK k \in 2..IndexModulus : IndexModulus = k * Capacity
  BY CapacityAssumption
<1>2. Capacity \in Nat \ {0} /\ k \in Nat /\ k >= 2
  BY CapacityAssumption
<1>3. k * Capacity > Capacity
  BY <1>2
<1>4. QED
  BY <1>1, <1>2, <1>3

\* The capacity, a power of two, divides 2^32.
LEMMA CapacityDividesModulus ==
    \E k \in Nat \ {0} : IndexModulus = k * Capacity
  BY CapacityAssumption

\* Wrapping an index does not move its slot.
LEMMA WrappingKeepsSlot ==
    ASSUME NEW x \in Int
    PROVE  (x + IndexModulus) % Capacity = x % Capacity
<1>1. PICK k \in Nat \ {0} : IndexModulus = k * Capacity
  BY CapacityDividesModulus
<1>2. (x + k * Capacity) % Capacity = x % Capacity
  <2>1. k \in Int
    OBVIOUS
  <2>2. QED
    BY <2>1, Constants, RemainderOfShift
<1>3. QED
  BY <1>1, <1>2

\* The indices and slots stay in range (ldq.cpp masks every index before use).
THEOREM RingTypeCorrect == RingSpec => []RingTypeOK
<1> USE Constants DEF RingTypeOK, Slot, Index, AnyContent, Packet, Whole,
                      ProdPoint, ConsPoint
<1>1. RingInit => RingTypeOK
  BY DEF RingInit
<1>2. RingTypeOK /\ [RingNext]_ringVars => RingTypeOK'
  <2> SUFFICES ASSUME RingTypeOK, [RingNext]_ringVars PROVE RingTypeOK'
    OBVIOUS
  <2>1. SlotOf(wr_idx) \in Slot /\ SlotOf(rd_idx) \in Slot
    BY DEF SlotOf
  <2>2. ASSUME NEW c \in Content, PushBegin(c) PROVE RingTypeOK'
    BY <2>2 DEF PushBegin, consVars
  <2>3. CASE CheckFull
    BY <2>3 DEF CheckFull, consVars
  <2>4. CASE PushHeader
    BY <2>1, <2>4 DEF PushHeader, consVars
  <2>5. CASE PushPoints
    BY <2>1, <2>5 DEF PushPoints, consVars
  <2>6. CASE PushAdvance
    BY <2>6, UsedSizeSteps DEF PushAdvance, consVars
  <2>7. CASE PopBegin
    BY <2>7 DEF PopBegin, prodVars
  <2>8. CASE PopHeader
    BY <2>1, <2>8 DEF PopHeader, prodVars
  <2>9. CASE PopPoints
    BY <2>1, <2>9 DEF PopPoints, prodVars
  <2>10. CASE QueuePopUpdate
    BY <2>10, UsedSizeSteps DEF QueuePopUpdate, prodVars
  <2>11. CASE UNCHANGED ringVars
    BY <2>11 DEF ringVars
  <2>12. QED
    BY <2>2, <2>3, <2>4, <2>5, <2>6, <2>7, <2>8, <2>9, <2>10, <2>11
       DEF RingNext, PushLidarData, QueuePop
<1>3. QED
  BY <1>1, <1>2, PTL DEF RingSpec

\* The fill level stays between what the two threads have checked.
THEOREM RingInvariant == RingSpec => []RingInv
<1> USE Constants DEF RingInv, QueueUsedSize, Index
<1>1. RingInit => RingInv
  BY DEF RingInit
<1>2. RingTypeOK /\ RingInv /\ [RingNext]_ringVars => RingInv'
  <2> SUFFICES ASSUME RingTypeOK, RingInv, [RingNext]_ringVars PROVE RingInv'
    OBVIOUS
  <2>1. rd_idx \in 0..(IndexModulus - 1) /\ wr_idx \in 0..(IndexModulus - 1)
    BY DEF RingTypeOK
  <2>2. QueueUsedSize \in 0..(IndexModulus - 1)
    BY <2>1, UsedSizeSteps
  <2>3. ASSUME NEW c \in Content, PushBegin(c) PROVE RingInv'
    BY <2>3 DEF PushBegin, consVars
  <2>4. CASE CheckFull
    BY <2>2, <2>4 DEF CheckFull, consVars, QueueIsFull
  <2>5. CASE PushHeader
    BY <2>5 DEF PushHeader, consVars
  <2>6. CASE PushPoints
    BY <2>6 DEF PushPoints, consVars
  <2>7. CASE PushAdvance
    <3>1. QueueUsedSize < IndexModulus - 1
      BY <2>2, <2>7 DEF PushAdvance
    <3>2. QueueUsedSize' = QueueUsedSize + 1
      BY <2>1, <3>1, <2>7, UsedSizeSteps DEF PushAdvance, consVars
    <3>3. QED
      BY <2>2, <3>2, <2>7 DEF PushAdvance, consVars
  <2>8. CASE PopBegin
    <3>1. rd_idx # wr_idx
      BY <2>8 DEF PopBegin, QueueIsEmpty
    <3>2. QueueUsedSize # 0
      BY <2>1, <3>1, EmptyMeansEqual
    <3>3. QED
      BY <2>2, <3>2, <2>8 DEF PopBegin, prodVars
  <2>9. CASE PopHeader
    BY <2>9 DEF PopHeader, prodVars
  <2>10. CASE PopPoints
    BY <2>10 DEF PopPoints, prodVars
  <2>11. CASE QueuePopUpdate
    <3>1. QueueUsedSize > 0
      BY <2>11 DEF QueuePopUpdate
    <3>2. QueueUsedSize' = QueueUsedSize - 1
      BY <2>1, <3>1, <2>11, UsedSizeSteps DEF QueuePopUpdate, prodVars
    <3>3. QED
      BY <2>2, <3>2, <2>11 DEF QueuePopUpdate, prodVars
  <2>12. CASE UNCHANGED ringVars
    BY <2>12 DEF ringVars
  <2>13. QED
    BY <2>3, <2>4, <2>5, <2>6, <2>7, <2>8, <2>9, <2>10, <2>11, <2>12
       DEF RingNext, PushLidarData, QueuePop
<1>3. QED
  BY <1>1, <1>2, RingTypeCorrect, PTL DEF RingSpec

-----------------------------------------------------------------------------
(* The threads use different slots *)

\* Counting the used slots from rd_idx leads to the slot of wr_idx.
LEMMA UsedSizeReachesWriter ==
    ASSUME RingTypeOK
    PROVE  (rd_idx + QueueUsedSize) % Capacity = wr_idx % Capacity
<1>1. rd_idx \in 0..(IndexModulus - 1) /\ wr_idx \in 0..(IndexModulus - 1)
  BY DEF RingTypeOK, Index
<1>2. \/ rd_idx + QueueUsedSize = wr_idx
      \/ rd_idx + QueueUsedSize = wr_idx + IndexModulus
  BY <1>1, Constants DEF QueueUsedSize
<1>3. (wr_idx + IndexModulus) % Capacity = wr_idx % Capacity
  BY <1>1, WrappingKeepsSlot
<1>4. QED
  BY <1>2, <1>3

\* The i-th packet behind rd_idx lies in another slot than wr_idx as long as
\* it is in the ring and the ring is not full.
LEMMA SlotsDiffer ==
    ASSUME RingTypeOK, QueueUsedSize < Capacity, NEW i \in 0..(QueueUsedSize - 1)
    PROVE  SlotOf(wr_idx) # SlotOf(rd_idx + i)
<1>1. rd_idx \in 0..(IndexModulus - 1) /\ wr_idx \in 0..(IndexModulus - 1)
  BY DEF RingTypeOK, Index
<1>2. QueueUsedSize \in Nat
  BY <1>1, Constants, UsedSizeSteps DEF QueueUsedSize
<1>3. (rd_idx + i) % Capacity # (rd_idx + QueueUsedSize) % Capacity
  <2>1. rd_idx + i \in Int /\ rd_idx + QueueUsedSize \in Int
    BY <1>1, <1>2
  <2>2. /\ rd_idx + i < rd_idx + QueueUsedSize
        /\ (rd_idx + QueueUsedSize) - (rd_idx + i) < Capacity
    BY <1>1, <1>2, Constants
  <2>3. QED
    BY <2>1, <2>2, Constants, RemaindersDiffer
<1>4. (rd_idx + QueueUsedSize) % Capacity = wr_idx % Capacity
  BY UsedSizeReachesWriter
<1>5. QED
  BY <1>3, <1>4 DEF SlotOf

\* QueuePushAny and QueuePop never work on the same slot, without a lock.
THEOREM SlotsAreNeverShared == RingSpec => []NoSlotShared
<1>1. RingTypeOK /\ RingInv => NoSlotShared
  <2> SUFFICES ASSUME RingTypeOK, RingInv,
                      prod \in {"header", "points", "advance"}, cons # "idle"
               PROVE  SlotOf(wr_idx) # SlotOf(rd_idx)
    BY DEF NoSlotShared
  <2>1. QueueUsedSize < Capacity /\ QueueUsedSize > 0
    BY DEF RingInv
  <2>2. rd_idx \in Int /\ QueueUsedSize \in Int
    BY Constants DEF RingTypeOK, Index, QueueUsedSize
  <2>3. SlotOf(wr_idx) # SlotOf(rd_idx + 0)
    BY <2>1, <2>2, SlotsDiffer
  <2>4. QED
    BY <2>2, <2>3
<1>2. QED
  BY <1>1, RingTypeCorrect, RingInvariant, PTL
-----------------------------------------------------------------------------
(* The ring implements the bounded queue *)

\* What is half written is what is pushed, what is half read is what the slot
\* holds: neither side loses its place because the other one moves on.
PacketInv ==
    /\ prod # "idle" => pushing \in Content
    /\ prod \in {"points", "advance"} => storage[SlotOf(wr_idx)].header = pushing
    /\ prod = "advance" => storage[SlotOf(wr_idx)].points = pushing
    /\ cons \in {"points", "advance"} =>
          popping.header = storage[SlotOf(rd_idx)].header
    /\ cons = "advance" => popping.points = storage[SlotOf(rd_idx)].points

\* Neither thread of the ring ever works on a slot that changes under it.
THEOREM PacketInvariant == RingSpec => []PacketInv
<1> USE DEF PacketInv
<1>1. RingInit => PacketInv
  BY DEF RingInit
<1>2. RingTypeOK /\ NoSlotShared /\ PacketInv /\ [RingNext]_ringVars => PacketInv'
  <2> SUFFICES ASSUME RingTypeOK, NoSlotShared, PacketInv, [RingNext]_ringVars
               PROVE  PacketInv'
    OBVIOUS
  <2>1. SlotOf(wr_idx) \in Slot /\ SlotOf(rd_idx) \in Slot
    BY Constants DEF SlotOf, RingTypeOK, Index, Slot
  <2>2. storage \in [Slot -> [header : AnyContent, points : AnyContent]]
    BY DEF RingTypeOK, Packet
  <2>3. popping \in [header : AnyContent, points : AnyContent]
    BY DEF RingTypeOK, Packet
  <2>4. ASSUME NEW c \in Content, PushBegin(c) PROVE PacketInv'
    BY <2>4 DEF PushBegin, consVars, SlotOf
  <2>5. CASE CheckFull
    BY <2>5 DEF CheckFull, consVars, SlotOf
  <2>6. CASE PushHeader
    <3>1. cons # "idle" => SlotOf(wr_idx) # SlotOf(rd_idx)
      BY <2>6 DEF PushHeader, NoSlotShared
    <3>2. SlotOf(wr_idx)' = SlotOf(wr_idx) /\ SlotOf(rd_idx)' = SlotOf(rd_idx)
      BY <2>6 DEF PushHeader, consVars, SlotOf
    <3>3. QED
      BY <2>1, <2>2, <3>1, <3>2, <2>6 DEF PushHeader, consVars
  <2>7. CASE PushPoints
    <3>1. cons # "idle" => SlotOf(wr_idx) # SlotOf(rd_idx)
      BY <2>7 DEF PushPoints, NoSlotShared
    <3>2. SlotOf(wr_idx)' = SlotOf(wr_idx) /\ SlotOf(rd_idx)' = SlotOf(rd_idx)
      BY <2>7 DEF PushPoints, consVars, SlotOf
    <3>3. QED
      BY <2>1, <2>2, <3>1, <3>2, <2>7 DEF PushPoints, consVars
  <2>8. CASE PushAdvance
    BY <2>8 DEF PushAdvance, consVars, SlotOf
  <2>9. CASE PopBegin
    BY <2>9 DEF PopBegin, prodVars, SlotOf
  <2>10. CASE PopHeader
    BY <2>3, <2>10 DEF PopHeader, prodVars, SlotOf
  <2>11. CASE PopPoints
    BY <2>3, <2>11 DEF PopPoints, prodVars, SlotOf
  <2>12. CASE QueuePopUpdate
    BY <2>12 DEF QueuePopUpdate, prodVars, SlotOf
  <2>13. CASE UNCHANGED ringVars
    BY <2>13 DEF ringVars, SlotOf
  <2>14. QED
    BY <2>4, <2>5, <2>6, <2>7, <2>8, <2>9, <2>10, <2>11, <2>12, <2>13
       DEF RingNext, PushLidarData, QueuePop
<1>3. QED
  BY <1>1, <1>2, RingTypeCorrect, SlotsAreNeverShared, PTL DEF RingSpec

\* The contents as a sequence
LEMMA ContentsType ==
    ASSUME RingTypeOK
    PROVE  /\ QueueUsedSize \in Nat
           /\ Contents \in Seq(Packet)
           /\ Len(Contents) = QueueUsedSize
           /\ \A i \in 1..QueueUsedSize :
                 Contents[i] = storage[SlotOf(rd_idx + i - 1)]
<1>1. QueueUsedSize \in Nat
  BY Constants DEF RingTypeOK, Index, QueueUsedSize
<1>2. \A i \in 1..QueueUsedSize : storage[SlotOf(rd_idx + i - 1)] \in Packet
  BY <1>1, Constants DEF RingTypeOK, Index, Slot, SlotOf
<1>3. QED
  BY <1>1, <1>2 DEF Contents

\* Filling the free slot behind the contents does not change them.
LEMMA FillingKeepsContents ==
    ASSUME RingTypeOK, QueueUsedSize < Capacity, rd_idx' = rd_idx, wr_idx' = wr_idx,
           NEW p, storage' = [storage EXCEPT ![SlotOf(wr_idx)] = p]
    PROVE  Contents' = Contents
<1>1. QueueUsedSize' = QueueUsedSize /\ QueueUsedSize \in Nat
  BY ContentsType DEF QueueUsedSize
<1>2. ASSUME NEW i \in 1..QueueUsedSize
      PROVE  storage'[SlotOf(rd_idx + i - 1)] = storage[SlotOf(rd_idx + i - 1)]
  <2>1. i - 1 \in 0..(QueueUsedSize - 1) /\ rd_idx + i - 1 = rd_idx + (i - 1)
    BY <1>1 DEF RingTypeOK, Index
  <2>2. SlotOf(wr_idx) # SlotOf(rd_idx + i - 1)
    BY <2>1, SlotsDiffer
  <2>3. SlotOf(rd_idx + i - 1) \in Slot
    BY <1>1, Constants DEF RingTypeOK, Index, Slot, SlotOf
  <2>4. QED
    BY <2>2, <2>3 DEF RingTypeOK
<1>3. QED
  BY <1>1, <1>2 DEF Contents, SlotOf

\* Advancing wr_idx appends the packet in the slot it pointed to.
LEMMA AdvancingAppends ==
    ASSUME RingTypeOK, QueueUsedSize < Capacity,
           rd_idx' = rd_idx, wr_idx' = (wr_idx + 1) % IndexModulus,
           storage' = storage
    PROVE  Contents' = Append(Contents, storage[SlotOf(wr_idx)])
<1> DEFINE n == QueueUsedSize
<1>1. rd_idx \in 0..(IndexModulus - 1) /\ wr_idx \in 0..(IndexModulus - 1)
  BY DEF RingTypeOK, Index
<1>2. n \in Nat /\ n < IndexModulus - 1
  BY <1>1, Constants, ContentsType
<1>3. QueueUsedSize' = n + 1
  BY <1>1, <1>2, Constants, UsedSizeSteps DEF QueueUsedSize
<1>4. SlotOf(rd_idx + (n + 1) - 1) = SlotOf(wr_idx)
  <2>1. (rd_idx + n) % Capacity = wr_idx % Capacity
    BY UsedSizeReachesWriter
  <2>2. rd_idx + (n + 1) - 1 = rd_idx + n
    BY <1>1, <1>2
  <2>3. QED
    BY <2>1, <2>2 DEF SlotOf
<1>5. Contents' = [i \in 1..(n + 1) |-> storage[SlotOf(rd_idx + i - 1)]]
  BY <1>3 DEF Contents, SlotOf
<1>6. Contents' \in Seq(Packet) /\ Len(Contents') = n + 1
  <2>1. \A i \in 1..(n + 1) : storage[SlotOf(rd_idx + i - 1)] \in Packet
    BY <1>1, <1>2, Constants DEF RingTypeOK, Slot, SlotOf
  <2>2. QED
    BY <1>2, <1>5, <2>1
<1>7. /\ Contents \in Seq(Packet) /\ Len(Contents) = n
      /\ storage[SlotOf(wr_idx)] \in Packet
  BY <1>1, ContentsType, Constants DEF RingTypeOK, Slot, SlotOf
<1>8. \A i \in 1..(n + 1) :
        Contents'[i] = Append(Contents, storage[SlotOf(wr_idx)])[i]
  BY <1>2, <1>4, <1>5, <1>7, ContentsType
<1>9. QED
  BY <1>2, <1>6, <1>7, <1>8

\* Advancing rd_idx removes the packet it pointed to, the oldest one.
LEMMA AdvancingRemoves ==
    ASSUME RingTypeOK, QueueUsedSize > 0,
           rd_idx' = (rd_idx + 1) % IndexModulus, wr_idx' = wr_idx,
           storage' = storage
    PROVE  /\ Contents # <<>>
           /\ Head(Contents) = storage[SlotOf(rd_idx)]
           /\ Contents' = Tail(Contents)
<1> DEFINE n == QueueUsedSize
<1>1. rd_idx \in 0..(IndexModulus - 1) /\ wr_idx \in 0..(IndexModulus - 1)
  BY DEF RingTypeOK, Index
<1>2. n \in Nat /\ n > 0
  BY ContentsType
<1>3. QueueUsedSize' = n - 1
  BY <1>1, <1>2, Constants, UsedSizeSteps DEF QueueUsedSize
<1>4. ASSUME NEW i \in 1..(n - 1)
      PROVE  SlotOf(rd_idx' + i - 1) = SlotOf(rd_idx + (i + 1) - 1)
  <2>1. rd_idx' = rd_idx + 1 \/ rd_idx' + IndexModulus = rd_idx + 1
    BY <1>1, Constants
  <2>2. rd_idx' + i - 1 \in Int
    BY <1>1, Constants
  <2>3. ((rd_idx' + i - 1) + IndexModulus) % Capacity = (rd_idx' + i - 1) % Capacity
    BY <2>2, WrappingKeepsSlot
  <2>4. \/ rd_idx + (i + 1) - 1 = rd_idx' + i - 1
        \/ rd_idx + (i + 1) - 1 = (rd_idx' + i - 1) + IndexModulus
    BY <1>1, <2>1, <2>2, Constants
  <2>5. QED
    BY <2>3, <2>4 DEF SlotOf
<1>5. Contents' = [i \in 1..(n - 1) |-> storage[SlotOf(rd_idx' + i - 1)]]
  BY <1>3 DEF Contents, SlotOf
<1>6. /\ Contents \in Seq(Packet) /\ Len(Contents) = n
      /\ \A i \in 1..n : Contents[i] = storage[SlotOf(rd_idx + i - 1)]
  BY ContentsType
<1>7. Contents # <<>> /\ Head(Contents) = storage[SlotOf(rd_idx)]
  <2>1. Contents # <<>> /\ Head(Contents) = Contents[1]
    BY <1>2, <1>6
  <2>2. rd_idx + 1 - 1 = rd_idx
    BY <1>1
  <2>3. QED
    BY <1>2, <1>6, <2>1, <2>2
<1>8. /\ Tail(Contents) \in Seq(Packet) /\ Len(Tail(Contents)) = n - 1
      /\ \A i \in 1..(n - 1) : Tail(Contents)[i] = Contents[i + 1]
  BY <1>2, <1>6, <1>7
<1>9. Contents' \in Seq(Packet) /\ Len(Contents') = n - 1
  <2>1. \A i \in 1..(n - 1) : storage[SlotOf(rd_idx' + i - 1)] \in Packet
    <3>1. rd_idx' \in 0..(IndexModulus - 1)
      BY <1>1, Constants
    <3>2. QED
      BY <1>2, <3>1, Constants DEF RingTypeOK, Slot, SlotOf
  <2>2. QED
    BY <1>2, <1>5, <2>1
<1>10. \A i \in 1..(n - 1) : Contents'[i] = Tail(Contents)[i]
  BY <1>2, <1>4, <1>5, <1>6, <1>8
<1>11. QED
  BY <1>2, <1>7, <1>8, <1>9, <1>10

\* The unlocked ring refines the bounded queue: what QueuePop returns are the
\* packets QueuePushAny accepted, whole, in order and once each.
THEOREM QueueRefinesFifo == RingSpec => QueueImplementsFifo
<1>1. RingInit => Fifo!FifoInit
  <2> SUFFICES ASSUME RingInit PROVE Fifo!FifoInit
    OBVIOUS
  <2>1. QueueUsedSize = 0
    BY Constants DEF RingInit, QueueUsedSize
  <2>2. Contents = <<>>
    BY <2>1 DEF Contents
  <2>3. QED
    BY <2>2 DEF Fifo!FifoInit, RingInit
<1>2. RingTypeOK /\ RingInv /\ PacketInv /\ [RingNext]_ringVars => [Fifo!FifoNext]_(Fifo!fifoVars)
  <2> SUFFICES ASSUME RingTypeOK, RingInv, PacketInv, [RingNext]_ringVars
               PROVE  Fifo!FifoNext \/ UNCHANGED Fifo!fifoVars
    OBVIOUS
  <2>1. ASSUME UNCHANGED <<storage, rd_idx, wr_idx, popped>>
        PROVE  UNCHANGED Fifo!fifoVars
    BY <2>1 DEF Fifo!fifoVars, Contents, QueueUsedSize, SlotOf
  <2>2. SlotOf(wr_idx) \in Slot /\ SlotOf(rd_idx) \in Slot
    BY Constants DEF SlotOf, RingTypeOK, Index, Slot
  <2>3. ASSUME NEW c \in Content, PushBegin(c) PROVE UNCHANGED Fifo!fifoVars
    BY <2>1, <2>3 DEF PushBegin, consVars
  <2>4. CASE CheckFull
    BY <2>1, <2>4 DEF CheckFull, consVars
  <2>5. CASE PushHeader
    <3>1. QueueUsedSize < Capacity
      BY <2>5 DEF PushHeader, RingInv
    <3>2. PICK p : storage' = [storage EXCEPT ![SlotOf(wr_idx)] = p]
      BY <2>5 DEF PushHeader
    <3>3. Contents' = Contents
      BY <3>1, <3>2, <2>5, FillingKeepsContents DEF PushHeader, consVars
    <3>4. QED
      BY <3>3, <2>5 DEF PushHeader, consVars, Fifo!fifoVars
  <2>6. CASE PushPoints
    <3>1. QueueUsedSize < Capacity
      BY <2>6 DEF PushPoints, RingInv
    <3>2. PICK p : storage' = [storage EXCEPT ![SlotOf(wr_idx)] = p]
      BY <2>6 DEF PushPoints
    <3>3. Contents' = Contents
      BY <3>1, <3>2, <2>6, FillingKeepsContents DEF PushPoints, consVars
    <3>4. QED
      BY <3>3, <2>6 DEF PushPoints, consVars, Fifo!fifoVars
  <2>7. CASE PushAdvance
    <3>1. QueueUsedSize < Capacity
      BY <2>7 DEF PushAdvance, RingInv
    <3>2. pushing \in Content /\ storage[SlotOf(wr_idx)] = Whole(pushing)
      BY <2>2, <2>7 DEF PushAdvance, PacketInv, RingTypeOK, Packet, Whole
    <3>3. Contents' = Append(Contents, Whole(pushing))
      BY <3>1, <3>2, <2>7, AdvancingAppends DEF PushAdvance, consVars
    <3>4. Len(Contents) < Capacity
      BY <3>1, ContentsType
    <3>5. Fifo!Put(Whole(pushing))
      BY <3>3, <3>4, <2>7 DEF Fifo!Put, PushAdvance, consVars
    <3>6. QED
      BY <3>2, <3>5 DEF Fifo!FifoNext
  <2>8. CASE PopBegin
    BY <2>1, <2>8 DEF PopBegin, prodVars
  <2>9. CASE PopHeader
    BY <2>1, <2>9 DEF PopHeader, prodVars
  <2>10. CASE PopPoints
    BY <2>1, <2>10 DEF PopPoints, prodVars
  <2>11. CASE QueuePopUpdate
    <3>1. QueueUsedSize > 0
      BY <2>11 DEF QueuePopUpdate, RingInv
    <3>2. popping = storage[SlotOf(rd_idx)]
      BY <2>2, <2>11 DEF QueuePopUpdate, PacketInv, RingTypeOK, Packet
    <3>3. /\ Contents # <<>>
          /\ Head(Contents) = storage[SlotOf(rd_idx)]
          /\ Contents' = Tail(Contents)
      BY <3>1, <2>11, AdvancingRemoves DEF QueuePopUpdate, prodVars
    <3>4. Fifo!Take
      BY <3>2, <3>3, <2>11 DEF Fifo!Take, QueuePopUpdate
    <3>5. QED
      BY <3>4 DEF Fifo!FifoNext
  <2>12. CASE UNCHANGED ringVars
    BY <2>1, <2>12 DEF ringVars
  <2>13. QED
    BY <2>3, <2>4, <2>5, <2>6, <2>7, <2>8, <2>9, <2>10, <2>11, <2>12
       DEF RingNext, PushLidarData, QueuePop
<1>3. QED
  BY <1>1, <1>2, RingTypeCorrect, RingInvariant, PacketInvariant, PTL
     DEF RingSpec, QueueImplementsFifo, Fifo!FifoSpec
-----------------------------------------------------------------------------
(* The distribution of packets *)


\* A thread that handles a lidar handles an existing one; the IMU poll thread
\* pops only what it has seen in the list.
ThreadInv ==
    /\ \A s \in Stream : feedAt[s] # "idle" => feedLidar[s] \in Lidar
    /\ \A s \in Stream : pollAt[s] \in {"poll", "drain"} => pollLidar[s] \in Lidar
    /\ pollAt["imu"] = "drain" => queue["imu"][pollLidar["imu"]] > 0

\* The two streams
LEMMA Streams == "pcd" \in Stream /\ "imu" \in Stream
  BY DEF Stream

\* The loop over the lidars stays in its range.
LEMMA LidarIndices ==
    /\ 1 \in LidarIndex
    /\ \A l \in Lidar : l \in LidarIndex /\ l + 1 \in LidarIndex
  BY CountAssumption DEF Lidar, LidarIndex

\* What is left of a round when its lidar has been dealt with, and at its end.
LEMMA LidarOrder ==
    /\ \A l \in LidarIndex, m \in Lidar : l <= m => m = l \/ l + 1 <= m
    /\ \A l \in LidarIndex \ Lidar, m \in Lidar : ~(l <= m)
    /\ \A l \in Lidar : l <= l
  BY CountAssumption DEF Lidar, LidarIndex

\* Setting the number of queued packets of one lidar leaves the other queues alone.
LEMMA QueueUpdate ==
    ASSUME NEW q \in [Stream -> [Lidar -> Nat]],
           NEW s \in Stream, NEW l \in Lidar, NEW n \in Nat
    PROVE  LET r == [q EXCEPT ![s][l] = n]
           IN  /\ r \in [Stream -> [Lidar -> Nat]]
               /\ \A t \in Stream, m \in Lidar :
                    r[t][m] = IF t = s /\ m = l THEN n ELSE q[t][m]
  OBVIOUS

\* A thread only ever handles a lidar that exists, whatever the other threads do.
THEOREM ThreadInvariant == Spec => [](TypeOK /\ ThreadInv)
<1> USE Streams, LidarIndices
       DEF TypeOK, ThreadInv, FeedPoint, PollPoint, MainPoint,
           feedVars, pollVars, mainVars
<1>1. Init => (TypeOK /\ ThreadInv)
  <2>1. Init => ThreadInv
    BY DEF Init
  <2> SUFFICES ASSUME Init PROVE TypeOK
    BY <2>1
  <2>2. format \in {"PointCloud2", "Custom", "PclPxyzi"} /\ due \in [Stream -> Nat]
    BY CountAssumption DEF Init, Setting
  <2>3. queue \in [Stream -> [Lidar -> Nat]]
    BY DEF Init
  <2>4. sem \in [Stream -> Nat]
    BY DEF Init
  <2>5. sampling \subseteq Lidar /\ skipped \subseteq Lidar
    BY DEF Init
  <2>6. feedAt \in [Stream -> FeedPoint] /\ feedLidar \in [Stream -> LidarIndex]
    BY DEF Init
  <2>7. pollAt \in [Stream -> PollPoint] /\ pollLidar \in [Stream -> LidarIndex]
    BY DEF Init
  <2>8. exit \in BOOLEAN /\ main \in MainPoint
    BY DEF Init
  <2>9. QED
    BY <2>2, <2>3, <2>4, <2>5, <2>6, <2>7, <2>8
<1>2. TypeOK /\ ThreadInv /\ [Next]_vars => (TypeOK /\ ThreadInv)'
  <2> SUFFICES ASSUME TypeOK, ThreadInv, [Next]_vars PROVE (TypeOK /\ ThreadInv)'
    OBVIOUS
  <2>1. ASSUME NEW s \in Stream, NEW l \in Lidar, Arrive(s, l) PROVE (TypeOK /\ ThreadInv)'
    BY <2>1 DEF Arrive
  <2>2. ASSUME NEW s \in Stream, StoreLidarData(s) PROVE (TypeOK /\ ThreadInv)'
    <3>1. feedLidar[s] \in Lidar /\ queue[s][feedLidar[s]] + 1 \in Nat
      BY <2>2 DEF StoreLidarData
    <3>2. queue' \in [Stream -> [Lidar -> Nat]]
      BY <3>1, <2>2 DEF StoreLidarData
    <3>3. \A t \in Stream, l \in Lidar : queue'[t][l] >= queue[t][l]
      <4> DEFINE stored == [queue EXCEPT ![s][feedLidar[s]] = @ + 1]
      <4>1. \A t \in Stream, l \in Lidar :
               queue[t][l] \in Nat /\ (stored[t][l] = queue[t][l] \/ stored[t][l] = queue[t][l] + 1)
        BY <3>1
      <4>2. queue' = queue \/ queue' = stored
        BY <2>2 DEF StoreLidarData
      <4>3. \A t \in Stream, l \in Lidar :
               stored[t][l] >= queue[t][l] /\ queue[t][l] >= queue[t][l]
        BY <4>1
      <4> HIDE DEF stored
      <4>4. QED
        BY <4>2, <4>3
    <3>4. TypeOK'
      BY <3>2, <2>2 DEF StoreLidarData, FeedGoes
    <3>5. ThreadInv'
      BY <3>2, <3>3, <2>2 DEF StoreLidarData, FeedGoes
    <3>6. QED
      BY <3>4, <3>5
  <2>3. ASSUME NEW s \in Stream, TestNonempty(s) PROVE (TypeOK /\ ThreadInv)'
    BY <2>3 DEF TestNonempty, FeedGoes
  <2>4. ASSUME NEW s \in Stream, GetCount(s) PROVE (TypeOK /\ ThreadInv)'
    BY <2>4 DEF GetCount, FeedGoes
  <2>5. ASSUME NEW s \in Stream, Signal(s) PROVE (TypeOK /\ ThreadInv)'
    BY <2>5 DEF Signal, FeedGoes
  <2>6. ASSUME NEW l \in Lidar, ConfigComplete(l) PROVE (TypeOK /\ ThreadInv)'
    BY <2>6 DEF ConfigComplete
  <2>7. ASSUME NEW s \in Stream, CheckExit(s) PROVE (TypeOK /\ ThreadInv)'
    BY <2>7 DEF CheckExit, PollGoes
  <2>8. ASSUME NEW s \in Stream, Wait(s) PROVE (TypeOK /\ ThreadInv)'
    BY <2>8 DEF Wait, ScanFrom
  <2>9. ASSUME NEW s \in Stream, Scan(s) PROVE (TypeOK /\ ThreadInv)'
    <3>1. CASE pollLidar[s] \notin Lidar
      BY <3>1, <2>9 DEF Scan, PollGoes
    <3>2. CASE pollLidar[s] \in Lidar \cap sampling
      <4>1. skipped' \subseteq Lidar
        BY <3>2, <2>9 DEF Scan
      <4>2. QED
        BY <3>2, <4>1, <2>9 DEF Scan, PollGoes
    <3>3. CASE pollLidar[s] \in Lidar \ sampling
      <4>1. skipped' \subseteq Lidar
        BY <3>3, <2>9 DEF Scan
      <4>2. pollLidar[s] + 1 \in LidarIndex
        BY <3>3
      <4>3. pollLidar' \in [Stream -> LidarIndex] /\ pollAt' \in [Stream -> PollPoint]
        BY <4>2, <3>3, <2>9 DEF Scan, ScanFrom
      <4>4. TypeOK'
        BY <4>1, <4>3, <3>3, <2>9 DEF Scan
      <4>5. ThreadInv'
        BY <3>3, <2>9 DEF Scan, ScanFrom
      <4>6. QED
        BY <4>4, <4>5
    <3>4. QED
      BY <3>1, <3>2, <3>3, <2>9 DEF Scan
  <2>10. ASSUME NEW s \in Stream, Poll(s) PROVE (TypeOK /\ ThreadInv)'
    <3>1. pollLidar[s] + 1 \in LidarIndex
      BY <2>10 DEF Poll
    <3>2. QED
      BY <3>1, <2>10 DEF Poll, PollGoes, ScanFrom
  <2>11. CASE DrainPointCloud
    <3>1. pollLidar["pcd"] \in Lidar
      BY <2>11 DEF DrainPointCloud
    <3>2. CASE format # "PclPxyzi" /\ queue["pcd"][pollLidar["pcd"]] > 0
      <4>1. queue["pcd"][pollLidar["pcd"]] - 1 \in Nat
        BY <3>1, <3>2
      <4>2. queue' = [queue EXCEPT !["pcd"][pollLidar["pcd"]] =
                                     queue["pcd"][pollLidar["pcd"]] - 1]
        BY <3>2, <2>11 DEF DrainPointCloud
      <4>3. /\ queue' \in [Stream -> [Lidar -> Nat]]
            /\ \A m \in Lidar : queue'["imu"][m] = queue["imu"][m]
        BY <4>1, <4>2, <3>1, QueueUpdate
      <4>4. QED
        BY <4>3, <3>2, <2>11 DEF DrainPointCloud
    <3>3. CASE ~(format # "PclPxyzi" /\ queue["pcd"][pollLidar["pcd"]] > 0)
      BY <3>3, <2>11 DEF DrainPointCloud, PollGoes
    <3>4. QED
      BY <3>2, <3>3
  <2>12. CASE DrainImu
    <3>1. queue["imu"][pollLidar["imu"]] - 1 \in Nat
      BY <2>12 DEF DrainImu
    <3>2. queue' \in [Stream -> [Lidar -> Nat]]
      BY <3>1, <2>12 DEF DrainImu
    <3>3. QED
      BY <3>2, <2>12 DEF DrainImu, PollGoes
  <2>13. ASSUME NEW s \in Stream, TestFuture(s) PROVE (TypeOK /\ ThreadInv)'
    BY <2>13 DEF TestFuture, PollGoes
  <2>14. CASE RequestExit
    <3>1. due' \in [Stream -> Nat]
      BY CountAssumption, <2>14 DEF RequestExit
    <3>2. QED
      BY <3>1, <2>14 DEF RequestExit
  <2>15. CASE SetExitSignal
    BY <2>15 DEF SetExitSignal
  <2>16. CASE Join
    BY <2>16 DEF Join
  <2>17. CASE UNCHANGED vars
    BY <2>17 DEF vars
  <2>18. QED
    BY <2>1, <2>2, <2>3, <2>4, <2>5, <2>6, <2>7, <2>8, <2>9, <2>10, <2>11,
       <2>12, <2>13, <2>14, <2>15, <2>16, <2>17
       DEF Next, Feed, PollThread
<1>3. QED
  BY <1>1, <1>2, PTL DEF Spec

\* The feeder signals only a semaphore it has read as zero, and no one else signals it.
TokenInv ==
    \A s \in Stream : sem[s] <= 1 /\ (feedAt[s] = "signal" => sem[s] = 0)

\* The unlocked test of the semaphore in StoreLidarData never finds it zero twice.
THEOREM TokenInvariant == Spec => []TokenInv
<1> USE Streams DEF TokenInv, TypeOK, feedVars, pollVars, mainVars
<1>1. Init => TokenInv
  BY DEF Init
<1>2. TypeOK /\ TokenInv /\ [Next]_vars => TokenInv'
  <2> SUFFICES ASSUME TypeOK, TokenInv, [Next]_vars PROVE TokenInv'
    OBVIOUS
  <2>1. ASSUME NEW s \in Stream, NEW l \in Lidar, Arrive(s, l) PROVE TokenInv'
    BY <2>1 DEF Arrive
  <2>2. ASSUME NEW s \in Stream, StoreLidarData(s) PROVE TokenInv'
    BY <2>2 DEF StoreLidarData, FeedGoes, NoRoom
  <2>3. ASSUME NEW s \in Stream, TestNonempty(s) PROVE TokenInv'
    BY <2>3 DEF TestNonempty, FeedGoes
  <2>4. ASSUME NEW s \in Stream, GetCount(s) PROVE TokenInv'
    BY <2>4 DEF GetCount, FeedGoes
  <2>5. ASSUME NEW s \in Stream, Signal(s) PROVE TokenInv'
    BY <2>5 DEF Signal, FeedGoes
  <2>6. ASSUME NEW l \in Lidar, ConfigComplete(l) PROVE TokenInv'
    BY <2>6 DEF ConfigComplete
  <2>7. ASSUME NEW s \in Stream, CheckExit(s) PROVE TokenInv'
    BY <2>7 DEF CheckExit, PollGoes
  <2>8. ASSUME NEW s \in Stream, Wait(s) PROVE TokenInv'
    BY <2>8 DEF Wait, ScanFrom
  <2>9. ASSUME NEW s \in Stream, Scan(s) PROVE TokenInv'
    BY <2>9 DEF Scan, PollGoes, ScanFrom
  <2>10. ASSUME NEW s \in Stream, Poll(s) PROVE TokenInv'
    BY <2>10 DEF Poll, PollGoes, ScanFrom
  <2>11. CASE DrainPointCloud
    BY <2>11 DEF DrainPointCloud, PollGoes
  <2>12. CASE DrainImu
    BY <2>12 DEF DrainImu, PollGoes
  <2>13. ASSUME NEW s \in Stream, TestFuture(s) PROVE TokenInv'
    BY <2>13 DEF TestFuture, PollGoes
  <2>14. CASE RequestExit
    BY <2>14 DEF RequestExit
  <2>15. CASE SetExitSignal
    BY <2>15 DEF SetExitSignal
  <2>16. CASE Join
    BY <2>16 DEF Join
  <2>17. CASE UNCHANGED vars
    BY <2>17 DEF vars
  <2>18. QED
    BY <2>1, <2>2, <2>3, <2>4, <2>5, <2>6, <2>7, <2>8, <2>9, <2>10, <2>11,
       <2>12, <2>13, <2>14, <2>15, <2>16, <2>17
       DEF Next, Feed, PollThread
<1>3. QED
  BY <1>1, <1>2, ThreadInvariant, PTL DEF Spec

\* A semaphore never holds two tokens: no round of a poll thread is run for nothing.
THEOREM AtMostOneToken == Spec => []OneToken
<1>1. TokenInv => OneToken
  BY DEF TokenInv, OneToken
<1>2. QED
  BY <1>1, TokenInvariant, PTL

\* StoragePointData marks the lidar as sampling before it stores the packet, so
\* the point cloud thread passes over no lidar that has packets queued.
SamplingInv ==
    /\ \A l \in Lidar : queue["pcd"][l] > 0 => l \in sampling
    /\ feedAt["pcd"] # "idle" => feedLidar["pcd"] \in sampling

\* Packets wait only for lidars that the point cloud thread visits.
THEOREM SamplingInvariant == Spec => []SamplingInv
<1> USE Streams DEF SamplingInv, ThreadInv, TypeOK, feedVars, pollVars, mainVars
<1>1. Init => SamplingInv
  BY DEF Init
<1>2. TypeOK /\ ThreadInv /\ SamplingInv /\ [Next]_vars => SamplingInv'
  <2> SUFFICES ASSUME TypeOK, ThreadInv, SamplingInv, [Next]_vars PROVE SamplingInv'
    OBVIOUS
  <2>1. ASSUME NEW s \in Stream, NEW l \in Lidar, Arrive(s, l) PROVE SamplingInv'
    BY <2>1 DEF Arrive
  <2>2. ASSUME NEW s \in Stream, StoreLidarData(s) PROVE SamplingInv'
    <3>1. feedLidar[s] \in Lidar /\ queue[s][feedLidar[s]] + 1 \in Nat
      BY <2>2 DEF StoreLidarData
    <3>2. CASE NoRoom(s, feedLidar[s])
      BY <3>2, <2>2 DEF StoreLidarData, FeedGoes
    <3>3. CASE ~NoRoom(s, feedLidar[s])
      <4>1. queue' = [queue EXCEPT ![s][feedLidar[s]] =
                                     queue[s][feedLidar[s]] + 1]
        BY <3>3, <2>2 DEF StoreLidarData
      <4>2. \A m \in Lidar : queue'["pcd"][m] =
              IF s = "pcd" /\ m = feedLidar[s]
              THEN queue[s][feedLidar[s]] + 1 ELSE queue["pcd"][m]
        BY <3>1, <4>1, QueueUpdate
      <4>3. QED
        BY <3>3, <4>2, <2>2 DEF StoreLidarData, FeedGoes
    <3>4. QED
      BY <3>2, <3>3
  <2>3. ASSUME NEW s \in Stream, TestNonempty(s) PROVE SamplingInv'
    BY <2>3 DEF TestNonempty, FeedGoes
  <2>4. ASSUME NEW s \in Stream, GetCount(s) PROVE SamplingInv'
    BY <2>4 DEF GetCount, FeedGoes
  <2>5. ASSUME NEW s \in Stream, Signal(s) PROVE SamplingInv'
    BY <2>5 DEF Signal, FeedGoes
  <2>6. ASSUME NEW l \in Lidar, ConfigComplete(l) PROVE SamplingInv'
    BY <2>6 DEF ConfigComplete
  <2>7. ASSUME NEW s \in Stream, CheckExit(s) PROVE SamplingInv'
    BY <2>7 DEF CheckExit, PollGoes
  <2>8. ASSUME NEW s \in Stream, Wait(s) PROVE SamplingInv'
    BY <2>8 DEF Wait, ScanFrom
  <2>9. ASSUME NEW s \in Stream, Scan(s) PROVE SamplingInv'
    BY <2>9 DEF Scan, PollGoes, ScanFrom
  <2>10. ASSUME NEW s \in Stream, Poll(s) PROVE SamplingInv'
    BY <2>10 DEF Poll, PollGoes, ScanFrom
  <2>11. CASE DrainPointCloud
    <3>1. pollLidar["pcd"] \in Lidar
      BY <2>11 DEF DrainPointCloud
    <3>2. \A m \in Lidar : queue'["pcd"][m] > 0 => queue["pcd"][m] > 0
      <4>1. CASE UNCHANGED queue
        BY <4>1
      <4>2. CASE /\ queue["pcd"][pollLidar["pcd"]] > 0
                 /\ queue' = [queue EXCEPT !["pcd"][pollLidar["pcd"]] =
                                            queue["pcd"][pollLidar["pcd"]] - 1]
        <5>1. queue["pcd"][pollLidar["pcd"]] - 1 \in Nat
          BY <4>2, <3>1
        <5>2. QED
          BY <3>1, <4>2, <5>1, QueueUpdate
      <4>3. QED
        BY <4>1, <4>2, <2>11 DEF DrainPointCloud
    <3>3. QED
      BY <3>2, <2>11 DEF DrainPointCloud
  <2>12. CASE DrainImu
    <3>1. \A m \in Lidar : queue'["pcd"][m] = queue["pcd"][m]
      BY <2>12 DEF DrainImu
    <3>2. QED
      BY <3>1, <2>12 DEF DrainImu
  <2>13. ASSUME NEW s \in Stream, TestFuture(s) PROVE SamplingInv'
    BY <2>13 DEF TestFuture, PollGoes
  <2>14. CASE RequestExit
    BY <2>14 DEF RequestExit
  <2>15. CASE SetExitSignal
    BY <2>15 DEF SetExitSignal
  <2>16. CASE Join
    BY <2>16 DEF Join
  <2>17. CASE UNCHANGED vars
    BY <2>17 DEF vars
  <2>18. QED
    BY <2>1, <2>2, <2>3, <2>4, <2>5, <2>6, <2>7, <2>8, <2>9, <2>10, <2>11,
       <2>12, <2>13, <2>14, <2>15, <2>16, <2>17
       DEF Next, Feed, PollThread
<1>3. QED
  BY <1>1, <1>2, ThreadInvariant, PTL DEF Spec

\* What covers a stored packet, as in NoLostWakeup
Covered(s, l) ==
    \/ sem[s] > 0
    \/ WillVisit(s, l)
    \/ WillSignal(s, l)
    \/ s = "imu" /\ l \in skipped

WakeupInv == ~exit => \A s \in Stream, l \in Lidar : queue[s][l] > 0 => Covered(s, l)

\* Every stored packet stays covered until it is published.
THEOREM WakeupInvariant == Spec => []WakeupInv
<1> USE Streams DEF WakeupInv, Covered, WillVisit, WillSignal, SamplingInv,
                   ThreadInv, TypeOK, feedVars, pollVars, mainVars
<1>1. Init => WakeupInv
  BY DEF Init
<1>2. TypeOK /\ ThreadInv /\ SamplingInv /\ WakeupInv /\ [Next]_vars => WakeupInv'
  <2> SUFFICES ASSUME TypeOK, ThreadInv, SamplingInv, WakeupInv, [Next]_vars PROVE WakeupInv'
    OBVIOUS
  <2>1. ASSUME NEW s \in Stream, NEW l \in Lidar, Arrive(s, l) PROVE WakeupInv'
    BY <2>1 DEF Arrive
  <2>2. ASSUME NEW s \in Stream, StoreLidarData(s) PROVE WakeupInv'
    <3>1. feedLidar[s] \in Lidar /\ queue[s][feedLidar[s]] + 1 \in Nat
      BY <2>2 DEF StoreLidarData
    <3>2. \A t \in Stream, m \in Lidar :
            queue'[t][m] > 0 => queue[t][m] > 0 \/ (t = s /\ m = feedLidar[s])
      <4>1. CASE UNCHANGED queue
        BY <4>1
      <4>2. CASE queue' = [queue EXCEPT ![s][feedLidar[s]] =
                                           queue[s][feedLidar[s]] + 1]
        BY <3>1, <4>2, QueueUpdate
      <4>3. QED
        BY <4>1, <4>2, <2>2 DEF StoreLidarData
    <3>3. QED
      BY <3>2, <2>2 DEF StoreLidarData, FeedGoes
  <2>3. ASSUME NEW s \in Stream, TestNonempty(s) PROVE WakeupInv'
    BY <2>3 DEF TestNonempty, FeedGoes
  <2>4. ASSUME NEW s \in Stream, GetCount(s) PROVE WakeupInv'
    BY <2>4 DEF GetCount, FeedGoes
  <2>5. ASSUME NEW s \in Stream, Signal(s) PROVE WakeupInv'
    BY <2>5 DEF Signal, FeedGoes
  <2>6. ASSUME NEW l \in Lidar, ConfigComplete(l) PROVE WakeupInv'
    BY <2>6 DEF ConfigComplete
  <2>7. ASSUME NEW s \in Stream, CheckExit(s) PROVE WakeupInv'
    BY <2>7 DEF CheckExit, PollGoes
  <2>8. ASSUME NEW s \in Stream, Wait(s) PROVE WakeupInv'
    <3>1. \A m \in Lidar : 1 <= m
      BY CountAssumption DEF Lidar
    <3>2. QED
      BY <3>1, <2>8 DEF Wait, ScanFrom
  <2>9. ASSUME NEW s \in Stream, Scan(s) PROVE WakeupInv'
    <3>1. pollLidar[s] \in LidarIndex
      OBVIOUS
    <3>2. CASE pollLidar[s] \notin Lidar
      <4>1. \A m \in Lidar : ~(pollLidar[s] <= m)
        BY <3>1, <3>2, LidarOrder
      <4>2. QED
        BY <4>1, <3>2, <2>9 DEF Scan, PollGoes
    <3>3. CASE pollLidar[s] \in Lidar \cap sampling
      BY <3>3, <2>9, LidarOrder DEF Scan, PollGoes
    <3>4. CASE pollLidar[s] \in Lidar \ sampling
      <4>1. \A m \in Lidar : pollLidar[s] <= m => m = pollLidar[s] \/ pollLidar[s] + 1 <= m
        BY <3>1, LidarOrder
      <4>2. s = "pcd" => queue["pcd"][pollLidar[s]] = 0
        BY <3>4
      <4>3. s = "pcd" \/ s = "imu"
        BY DEF Stream
      <4>4. QED
        BY <4>1, <4>2, <4>3, <3>4, <2>9 DEF Scan, ScanFrom
    <3>5. QED
      BY <3>2, <3>3, <3>4, <2>9 DEF Scan
  <2>10. ASSUME NEW s \in Stream, Poll(s) PROVE WakeupInv'
    <3>1. \A m \in Lidar : pollLidar[s] <= m => m = pollLidar[s] \/ pollLidar[s] + 1 <= m
      BY LidarOrder
    <3>2. CASE ~exit /\ queue[s][pollLidar[s]] > 0
      BY <3>2, <2>10 DEF Poll, PollGoes
    <3>3. CASE exit
      BY <3>3, <2>10 DEF Poll, ScanFrom
    <3>4. CASE ~exit /\ ~(queue[s][pollLidar[s]] > 0)
      <4> SUFFICES ASSUME NEW t \in Stream, NEW m \in Lidar, queue'[t][m] > 0
                   PROVE  Covered(t, m)'
        BY <2>10 DEF Poll
      <4>1. Covered(t, m) /\ UNCHANGED <<queue, sem, skipped, feedAt, feedLidar>>
        BY <3>4, <2>10 DEF Poll
      <4>2. CASE t # s
        BY <4>1, <4>2, <3>4, <2>10 DEF Poll, ScanFrom
      <4>3. CASE t = s
        <5>1. m # pollLidar[s]
          BY <3>4, <4>1, <4>3
        <5>2. WillVisit(s, m) => WillVisit(s, m)'
          BY <5>1, <3>1, <3>4, <2>10 DEF Poll, ScanFrom
        <5>3. QED
          BY <4>1, <4>3, <5>2
      <4>4. QED
        BY <4>2, <4>3
    <3>5. QED
      BY <3>2, <3>3, <3>4
  <2>11. CASE DrainPointCloud
    <3>1. pollLidar["pcd"] \in Lidar
      BY <2>11 DEF DrainPointCloud
    <3>2. \A t \in Stream, m \in Lidar : queue'[t][m] > 0 => queue[t][m] > 0
      <4>1. CASE UNCHANGED queue
        BY <4>1
      <4>2. CASE /\ queue["pcd"][pollLidar["pcd"]] > 0
                 /\ queue' = [queue EXCEPT !["pcd"][pollLidar["pcd"]] =
                                            queue["pcd"][pollLidar["pcd"]] - 1]
        <5>1. queue["pcd"][pollLidar["pcd"]] - 1 \in Nat
          BY <4>2, <3>1
        <5>2. QED
          BY <3>1, <4>2, <5>1, QueueUpdate
      <4>3. QED
        BY <4>1, <4>2, <2>11 DEF DrainPointCloud
    <3>3. QED
      BY <3>2, <2>11 DEF DrainPointCloud, PollGoes
  <2>12. CASE DrainImu
    <3>1. queue["imu"][pollLidar["imu"]] - 1 \in Nat
      BY <2>12 DEF DrainImu
    <3>2. \A t \in Stream, m \in Lidar : queue'[t][m] > 0 => queue[t][m] > 0
      BY <3>1, <2>12, QueueUpdate DEF DrainImu
    <3>3. QED
      BY <3>2, <2>12 DEF DrainImu, PollGoes
  <2>13. ASSUME NEW s \in Stream, TestFuture(s) PROVE WakeupInv'
    BY <2>13 DEF TestFuture, PollGoes
  <2>14. CASE RequestExit
    BY <2>14 DEF RequestExit
  <2>15. CASE SetExitSignal
    BY <2>15 DEF SetExitSignal
  <2>16. CASE Join
    BY <2>16 DEF Join
  <2>17. CASE UNCHANGED vars
    BY <2>17 DEF vars
  <2>18. QED
    BY <2>1, <2>2, <2>3, <2>4, <2>5, <2>6, <2>7, <2>8, <2>9, <2>10, <2>11,
       <2>12, <2>13, <2>14, <2>15, <2>16, <2>17
       DEF Next, Feed, PollThread
<1>3. QED
  BY <1>1, <1>2, ThreadInvariant, SamplingInvariant, PTL DEF Spec

\* No wakeup is lost: a packet never waits while its poll thread sleeps untold.
THEOREM WakeupsAreNotLost == Spec => []NoLostWakeup
<1>1. WakeupInv => NoLostWakeup
  BY DEF WakeupInv, Covered, NoLostWakeup
<1>2. QED
  BY <1>1, WakeupInvariant, PTL

=============================================================================
