-------------------------- MODULE PubHandlerProofs --------------------------
(***************************************************************************)
(* Proofs about PubHandler, for every set of lidars, clock, interval and   *)
(* load: no point is lost, doubled or overtaken on its way into the        *)
(* frames, and neither way of cutting frames exceeds the publish frequency.*)
(***************************************************************************)
EXTENDS PubHandler, SequenceTheorems, FiniteSetTheorems, TLAPS

-----------------------------------------------------------------------------
(* The inductive invariant *)

\* A packet carries one point or none.
SmallPacket == {p \in Packet : Len(p.content) <= 1}
Time == {NotYet} \cup 0..(MaxTime + ClockLead)

\* The types of all variables with those of the history; no frame is under way
\* between two packets.
ShapeInv ==
    /\ load \in Loads
    /\ now \in 1..MaxTime /\ received \in [Lidar -> Nat] /\ isSync \in BOOLEAN
    /\ rawPackets \in Seq(SmallPacket)
    /\ worker \in {"loop", "locked", "waiting", "process", "done"}
    /\ current \in SmallPacket \cup {NoPacket}
    /\ worker = "process" => current \in SmallPacket
    /\ handlers \subseteq Lidar
    /\ cloud \in [Lidar -> Seq(Point)] /\ points \in [Lidar -> Seq(Point)]
    /\ frame = {}
    /\ lastPub \in {NotYet} \cup 1..MaxTime
    /\ observer \in BOOLEAN /\ quit \in BOOLEAN
    /\ uninit \in {"no", "removed", "joining", "done"}
    /\ delivered \in [Lidar -> Seq(Nat)]
    /\ hostFrames \in Nat /\ hostStart \in {NotYet} \cup 1..MaxTime
    /\ syncEnds \in [Lidar -> Time \X Time]

\* The next host's frame is due an interval after the last one was due.
RateInv ==
    /\ hostStart = NotYet <=> lastPub = NotYet
    /\ hostStart = NotYet => hostFrames = 0
    /\ hostStart # NotYet => lastPub = hostStart + hostFrames * Interval /\ lastPub <= now

\* The packets of a queue that bring a point of lidar l.
Bringing(l, queue) == {i \in 1..Len(queue) : queue[i].lidar = l /\ queue[i].content # <<>>}
Brought(queue, i) == queue[i].content[1]

\* What PointsConserved says of one lidar: the numbers handed on, the points in
\* the cloud and the queue's points are 1..count, in order.
Kept(l, numbers, held, queue, count) ==
    LET kept == Len(numbers) + Len(held) IN
    /\ \A i \in 1..Len(numbers) : numbers[i] = i
    /\ \A i \in 1..Len(held) : held[i].n = Len(numbers) + i
    /\ kept <= count
    /\ \A i \in Bringing(l, queue) : Brought(queue, i).n \in (kept + 1)..count
    /\ \A n \in (kept + 1)..count : \E i \in Bringing(l, queue) : Brought(queue, i).n = n
    /\ \A i, j \in Bringing(l, queue) : i < j => Brought(queue, i).n < Brought(queue, j).n

\* The times of a lidar's points grow from the end of its last frame to its cloud,
\* from the cloud to the queue, and are not ahead of the lidar's clock.
Timely(l, end, held, queue, clock) ==
    /\ end <= clock
    /\ \A i \in 1..Len(held) : end <= held[i].time /\ held[i].time <= clock
    /\ \A i, j \in 1..Len(held) : i < j => held[i].time <= held[j].time
    /\ \A i \in Bringing(l, queue) :
          /\ end <= Brought(queue, i).time /\ Brought(queue, i).time <= clock
          /\ \A j \in 1..Len(held) : held[j].time <= Brought(queue, i).time
          /\ \A j \in Bringing(l, queue) :
                i < j => Brought(queue, i).time <= Brought(queue, j).time

\* Synchronized frames end on multiples of the interval, and never two on one.
Spaced(ends) ==
    /\ ends[2] # NotYet => ends[2] % Interval = 0
    /\ ends[1] # NotYet => ends[2] # NotYet /\ ends[2] - ends[1] >= Interval

ConservedInv == \A l \in Lidar : Kept(l, delivered[l], cloud[l], Raw, received[l])
TimelyInv == \A l \in Lidar : Timely(l, syncEnds[l][2], cloud[l], Raw, Timestamp(l))
SpacedInv == \A l \in Lidar : Spaced(syncEnds[l])

PubInv == ShapeInv /\ RateInv /\ ConservedInv /\ TimelyInv /\ SpacedInv

-----------------------------------------------------------------------------
(* Queues of packets *)

\* An empty sequence has no elements.
LEMMA NoElements ==
    ASSUME NEW S, NEW s \in Seq(S)
    PROVE  /\ Len(s) \in Nat
           /\ s = <<>> <=> Len(s) = 0
  BY EmptySeq, LenProperties

\* A short sequence is empty or has one element.
LEMMA ShortSequence ==
    ASSUME NEW S, NEW s \in Seq(S), Len(s) <= 1, s # <<>>
    PROVE  Len(s) = 1
<1>1. PICK n \in Nat : n = Len(s) /\ n # 0 /\ n <= 1
  BY NoElements
<1>2. n = 1
  BY <1>1
<1>3. QED
  BY <1>1, <1>2

\* A packet that brings something brings one point.
LEMMA OnePoint ==
    ASSUME NEW p \in SmallPacket
    PROVE  /\ p.lidar \in Lidar /\ p.content \in Seq(Point)
           /\ p.content = <<>> \/ (Len(p.content) = 1 /\ p.content[1] \in Point)
<1>1. p.lidar \in Lidar /\ p.content \in Seq(Point) /\ Len(p.content) <= 1
  BY DEF SmallPacket, Packet
<1>2. CASE p.content = <<>>
  BY <1>1, <1>2
<1>3. CASE p.content # <<>>
  <2>1. Len(p.content) = 1
    BY <1>1, <1>3, ShortSequence
  <2>2. p.content[1] \in Point
    BY <1>1, <2>1, ElementOfSeq
  <2>3. QED
    BY <1>1, <2>1, <2>2
<1>4. QED
  BY <1>2, <1>3

\* What a queue brings are numbered points.
LEMMA BroughtPoint ==
    ASSUME NEW queue \in Seq(SmallPacket), NEW l, NEW i \in Bringing(l, queue)
    PROVE  /\ i \in 1..Len(queue) /\ Brought(queue, i) \in Point
           /\ queue[i].content = <<Brought(queue, i)>>
<1>1. i \in 1..Len(queue) /\ queue[i].content # <<>>
  BY DEF Bringing
<1>2. queue[i] \in SmallPacket
  BY <1>1, ElementOfSeq
<1>3. queue[i].content \in Seq(Point) /\ Len(queue[i].content) = 1 /\ queue[i].content[1] \in Point
  BY <1>1, <1>2, OnePoint
<1>4. <<queue[i].content[1]>> \in Seq(Point) /\ Len(<<queue[i].content[1]>>) = 1
  BY <1>3
<1>5. queue[i].content = <<queue[i].content[1]>>
  BY <1>3, <1>4, SeqEqual
<1>6. QED
  BY <1>1, <1>3, <1>5 DEF Brought

\* A packet put at the end of a queue brings the last point.
LEMMA BringingAppend ==
    ASSUME NEW queue \in Seq(SmallPacket), NEW p \in SmallPacket, NEW l
    PROVE  /\ Len(queue) \in Nat
           /\ \A i \in Bringing(l, queue) : /\ i \in Bringing(l, Append(queue, p))
                                            /\ Brought(Append(queue, p), i) = Brought(queue, i)
           /\ \A i \in Bringing(l, Append(queue, p)) :
                 i \in Bringing(l, queue)
                 \/ (i = Len(queue) + 1 /\ p.lidar = l /\ p.content # <<>>)
           /\ (p.lidar = l /\ p.content # <<>>) =>
                 Len(queue) + 1 \in Bringing(l, Append(queue, p))
           /\ Brought(Append(queue, p), Len(queue) + 1) = p.content[1]
<1>1. /\ Len(Append(queue, p)) = Len(queue) + 1
      /\ \A i \in 1..Len(queue) : Append(queue, p)[i] = queue[i]
      /\ Append(queue, p)[Len(queue) + 1] = p
      /\ Len(queue) \in Nat
  BY AppendProperties, LenProperties
<1>2. QED
  BY <1>1 DEF Bringing, Brought

\* Without its first packet a queue brings what the others bring.
LEMMA BringingTail ==
    ASSUME NEW queue \in Seq(SmallPacket), queue # <<>>, NEW l
    PROVE  /\ \A i \in Bringing(l, Tail(queue)) :
                 /\ i \in Nat \ {0} /\ i + 1 \in Bringing(l, queue)
                 /\ Brought(Tail(queue), i) = Brought(queue, i + 1)
           /\ \A i \in Bringing(l, queue) :
                 \/ i = 1 /\ queue[1].lidar = l /\ queue[1].content # <<>>
                 \/ /\ i > 1 /\ i - 1 \in Bringing(l, Tail(queue))
                    /\ Brought(Tail(queue), i - 1) = Brought(queue, i)
           /\ (queue[1].lidar = l /\ queue[1].content # <<>>) => 1 \in Bringing(l, queue)
<1>1. /\ Len(Tail(queue)) = Len(queue) - 1 /\ Len(queue) \in Nat \ {0}
      /\ \A i \in 1..(Len(queue) - 1) : Tail(queue)[i] = queue[i + 1]
  BY HeadTailProperties, EmptySeq
<1>2. \A i \in Bringing(l, Tail(queue)) :
                 /\ i \in Nat \ {0} /\ i + 1 \in Bringing(l, queue)
                 /\ Brought(Tail(queue), i) = Brought(queue, i + 1)
  BY <1>1 DEF Bringing, Brought
<1>3. ASSUME NEW i \in Bringing(l, queue), i # 1
      PROVE  /\ i > 1 /\ i - 1 \in Bringing(l, Tail(queue))
             /\ Brought(Tail(queue), i - 1) = Brought(queue, i)
  <2>1. i \in 1..Len(queue) /\ queue[i].lidar = l /\ queue[i].content # <<>>
    BY DEF Bringing
  <2>2. i - 1 \in 1..(Len(queue) - 1) /\ (i - 1) + 1 = i
    BY <2>1, <1>1, <1>3
  <2>3. Tail(queue)[i - 1] = queue[i]
    BY <2>2, <1>1
  <2>4. QED
    BY <2>1, <2>2, <2>3, <1>1 DEF Bringing, Brought
<1>4. \A i \in Bringing(l, queue) : i = 1 => queue[1].lidar = l /\ queue[1].content # <<>>
  BY DEF Bringing
<1>5. (queue[1].lidar = l /\ queue[1].content # <<>>) => 1 \in Bringing(l, queue)
  BY <1>1 DEF Bringing
<1>6. QED
  BY <1>2, <1>3, <1>4, <1>5
-----------------------------------------------------------------------------
(* What a packet, the handler and a frame do to the points of a lidar *)

\* A packet of another lidar, or one that brings nothing, changes nothing.
LEMMA KeptOtherPacket ==
    ASSUME NEW l, NEW numbers \in Seq(Nat), NEW held \in Seq(Point), NEW count \in Nat,
           NEW queue \in Seq(SmallPacket), NEW p \in SmallPacket,
           p.lidar # l \/ p.content = <<>>, Kept(l, numbers, held, queue, count)
    PROVE  Kept(l, numbers, held, Append(queue, p), count)
<1>1. /\ \A i \in Bringing(l, Append(queue, p)) :
            i \in Bringing(l, queue) /\ Brought(Append(queue, p), i) = Brought(queue, i)
      /\ \A i \in Bringing(l, queue) :
            /\ i \in Bringing(l, Append(queue, p))
            /\ Brought(Append(queue, p), i) = Brought(queue, i)
  BY BringingAppend
<1>2. QED
  BY <1>1 DEF Kept

\* The next point of the lidar is numbered after those received.
LEMMA KeptNextPoint ==
    ASSUME NEW l, NEW numbers \in Seq(Nat), NEW held \in Seq(Point), NEW count \in Nat,
           NEW queue \in Seq(SmallPacket), NEW p \in SmallPacket,
           p.lidar = l, p.content # <<>>, p.content[1].n = count + 1,
           Kept(l, numbers, held, queue, count)
    PROVE  Kept(l, numbers, held, Append(queue, p), count + 1)
<1> DEFINE longer == Append(queue, p)
           last == Len(queue) + 1
           kept == Len(numbers) + Len(held)
<1>1. /\ last \in Bringing(l, longer) /\ Brought(longer, last).n = count + 1
      /\ \A i \in Bringing(l, longer) : i \in Bringing(l, queue) \/ i = last
      /\ \A i \in Bringing(l, queue) :
            /\ i \in Bringing(l, longer) /\ Brought(longer, i) = Brought(queue, i)
            /\ i \in Nat /\ i < last
  <2>1. Len(queue) \in Nat
    BY LenProperties
  <2>2. QED
    BY <2>1, BringingAppend, BroughtPoint
<1>2. kept \in Nat
  BY LenProperties
<1>3. \A i \in Bringing(l, queue) : Brought(queue, i).n \in (kept + 1)..count
  BY DEF Kept
<1>4. kept <= count + 1 /\ (\A i \in Bringing(l, longer) : Brought(longer, i).n \in (kept + 1)..(count + 1))
  <2>1. kept <= count
    BY DEF Kept
  <2>2. QED
    BY <2>1, <1>1, <1>2, <1>3
<1>5. ASSUME NEW n \in (kept + 1)..(count + 1)
      PROVE  \E i \in Bringing(l, longer) : Brought(longer, i).n = n
  <2>1. CASE n = count + 1
    BY <2>1, <1>1
  <2>2. CASE n # count + 1
    <3>1. n \in (kept + 1)..count
      BY <2>2, <1>2
    <3>2. PICK i \in Bringing(l, queue) : Brought(queue, i).n = n
      BY <3>1 DEF Kept
    <3>3. QED
      BY <3>2, <1>1
  <2>3. QED
    BY <2>1, <2>2
<1>6. ASSUME NEW i \in Bringing(l, longer), NEW j \in Bringing(l, longer), i < j
      PROVE  Brought(longer, i).n < Brought(longer, j).n
  <2>1. last \in Nat
    BY LenProperties
  <2>2. i \in Bringing(l, queue)
    BY <1>1, <1>6, <2>1
  <2>3. Brought(longer, i).n \in (kept + 1)..count
    BY <2>2, <1>1, <1>3
  <2>4. CASE j = last
    BY <2>3, <2>4, <1>1, <1>2
  <2>5. CASE j \in Bringing(l, queue)
    <3>1. Brought(queue, i).n < Brought(queue, j).n
      BY <2>2, <2>5, <1>6 DEF Kept
    <3>2. QED
      BY <3>1, <2>2, <2>5, <1>1
  <2>6. QED
    BY <2>4, <2>5, <1>1
<1>7. /\ \A i \in 1..Len(numbers) : numbers[i] = i
      /\ \A i \in 1..Len(held) : held[i].n = Len(numbers) + i
  BY DEF Kept
<1>8. QED
  BY <1>4, <1>5, <1>6, <1>7 DEF Kept

\* The handler's points after a packet.
Holding(l, held, p) == IF p.lidar = l THEN held \o p.content ELSE held

\* A packet without a point leaves the handler's points alone.
LEMMA HoldingNothing ==
    ASSUME NEW l, NEW held \in Seq(Point), NEW p \in SmallPacket, p.lidar # l \/ p.content = <<>>
    PROVE  Holding(l, held, p) = held
  BY ConcatEmptySeq DEF Holding

\* A packet with a point puts it behind the handler's points.
LEMMA HoldingOneMore ==
    ASSUME NEW l, NEW held \in Seq(Point), NEW p \in SmallPacket, p.lidar = l, p.content # <<>>
    PROVE  /\ p.content[1] \in Point /\ Len(held) \in Nat
           /\ Holding(l, held, p) \in Seq(Point)
           /\ Len(Holding(l, held, p)) = Len(held) + 1
           /\ \A i \in 1..Len(held) : Holding(l, held, p)[i] = held[i]
           /\ Holding(l, held, p)[Len(held) + 1] = p.content[1]
<1>1. p.content \in Seq(Point) /\ Len(p.content) = 1 /\ p.content[1] \in Point
  BY OnePoint
<1>2. Len(held) \in Nat
  BY LenProperties
<1>3. /\ held \o p.content \in Seq(Point) /\ Len(held \o p.content) = Len(held) + 1
      /\ \A i \in 1..(Len(held) + 1) : (held \o p.content)[i] =
            IF i <= Len(held) THEN held[i] ELSE p.content[i - Len(held)]
  <2>1. /\ held \o p.content \in Seq(Point) /\ Len(held \o p.content) = Len(held) + Len(p.content)
        /\ \A i \in 1..(Len(held) + Len(p.content)) : (held \o p.content)[i] =
              IF i <= Len(held) THEN held[i] ELSE p.content[i - Len(held)]
    BY <1>1, ConcatProperties
  <2>2. QED
    BY <1>1, <2>1
<1>4. Len(held) + 1 \in 1..(Len(held) + 1) /\ (Len(held) + 1) - Len(held) = 1
      /\ ~ (Len(held) + 1 <= Len(held))
  BY <1>2
<1>5. QED
  BY <1>1, <1>2, <1>3, <1>4 DEF Holding

\* RawDataProcess moves the first packet's point from the queue to the handler.
LEMMA KeptProcessed ==
    ASSUME NEW l, NEW numbers \in Seq(Nat), NEW held \in Seq(Point), NEW count \in Nat,
           NEW queue \in Seq(SmallPacket), queue # <<>>,
           Kept(l, numbers, held, queue, count)
    PROVE  Kept(l, numbers, Holding(l, held, queue[1]), Tail(queue), count)
<1> DEFINE rest == Tail(queue)
           kept == Len(numbers) + Len(held)
<1>1. /\ queue[1] \in SmallPacket
      /\ Len(queue) \in Nat \ {0}
  BY EmptySeq, ElementOfSeq
<1>2. Len(numbers) \in Nat /\ Len(held) \in Nat
  BY LenProperties
<1>3. /\ \A i \in Bringing(l, rest) :
            /\ i \in Nat \ {0} /\ i + 1 \in Bringing(l, queue)
            /\ Brought(rest, i) = Brought(queue, i + 1)
      /\ \A i \in Bringing(l, queue) :
            \/ i = 1 /\ queue[1].lidar = l /\ queue[1].content # <<>>
            \/ /\ i > 1 /\ i - 1 \in Bringing(l, rest)
               /\ Brought(rest, i - 1) = Brought(queue, i)
      /\ (queue[1].lidar = l /\ queue[1].content # <<>>) => 1 \in Bringing(l, queue)
  BY BringingTail
<1>4. \A i, j \in Bringing(l, rest) : i < j => Brought(rest, i).n < Brought(rest, j).n
  <2>1. SUFFICES ASSUME NEW i \in Bringing(l, rest), NEW j \in Bringing(l, rest), i < j
                 PROVE  Brought(rest, i).n < Brought(rest, j).n
    OBVIOUS
  <2>2. i + 1 \in Bringing(l, queue) /\ j + 1 \in Bringing(l, queue) /\ i + 1 < j + 1
    BY <1>3, <2>1
  <2>3. Brought(queue, i + 1).n < Brought(queue, j + 1).n
    BY <2>2 DEF Kept
  <2>4. QED
    BY <2>3, <1>3
<1>5. CASE queue[1].lidar # l \/ queue[1].content = <<>>
  <2>1. Holding(l, held, queue[1]) = held
    BY <1>1, <1>5, HoldingNothing
  <2>2. \A i \in Bringing(l, rest) : Brought(rest, i).n \in (kept + 1)..count
    BY <1>3 DEF Kept
  <2>3. \A n \in (kept + 1)..count : \E i \in Bringing(l, rest) : Brought(rest, i).n = n
    BY <1>3, <1>5 DEF Kept
  <2>4. QED
    BY <2>1, <2>2, <2>3, <1>4 DEF Kept
<1>6. CASE queue[1].lidar = l /\ queue[1].content # <<>>
  <2> DEFINE more == Holding(l, held, queue[1])
  <2>1. /\ Len(more) = Len(held) + 1
        /\ \A i \in 1..Len(held) : more[i] = held[i]
        /\ more[Len(held) + 1] = Brought(queue, 1)
    <3>1. /\ Len(more) = Len(held) + 1
          /\ \A i \in 1..Len(held) : more[i] = held[i]
          /\ more[Len(held) + 1] = queue[1].content[1]
      BY <1>1, <1>6, HoldingOneMore
    <3>2. QED
      BY <3>1 DEF Brought
  <2>2. 1 \in Bringing(l, queue) /\ Brought(queue, 1).n \in (kept + 1)..count
    BY <1>3, <1>6 DEF Kept
  <2>3. \A i \in Bringing(l, queue) : i # 1 => Brought(queue, 1).n < Brought(queue, i).n
    BY <1>3, <2>2 DEF Kept
  <2>4. Brought(queue, 1).n = kept + 1
    <3>1. PICK i \in Bringing(l, queue) : Brought(queue, i).n = kept + 1
      BY <2>2, <1>2 DEF Kept
    <3>2. CASE i = 1
      BY <3>1, <3>2
    <3>3. CASE i # 1
      BY <3>1, <3>3, <2>2, <2>3, <1>2
    <3>4. QED
      BY <3>2, <3>3
  <2>5. /\ Len(numbers) + Len(more) = kept + 1 /\ kept + 1 <= count
        /\ \A i \in 1..Len(more) : more[i].n = Len(numbers) + i
    <3>1. Len(numbers) + Len(more) = kept + 1 /\ kept + 1 <= count
      BY <1>2, <2>1, <2>2, <2>4
    <3>2. \A i \in 1..Len(more) : i \in 1..Len(held) \/ i = Len(held) + 1
      BY <1>2, <2>1
    <3>3. \A i \in 1..Len(held) : held[i].n = Len(numbers) + i
      BY DEF Kept
    <3>4. more[Len(held) + 1].n = Len(numbers) + (Len(held) + 1)
      BY <2>1, <2>4, <1>2
    <3>5. QED
      BY <3>1, <3>2, <3>3, <3>4, <2>1
  <2>6. \A i \in Bringing(l, rest) : Brought(rest, i).n \in ((kept + 1) + 1)..count
    <3>1. \A i \in Bringing(l, rest) : /\ Brought(rest, i).n \in (kept + 1)..count
                                       /\ kept + 1 < Brought(rest, i).n
      BY <1>3, <2>3, <2>4 DEF Kept
    <3>2. QED
      BY <3>1, <1>2
  <2>7. \A n \in ((kept + 1) + 1)..count : \E i \in Bringing(l, rest) : Brought(rest, i).n = n
    <3>1. SUFFICES ASSUME NEW n \in ((kept + 1) + 1)..count
                   PROVE  \E i \in Bringing(l, rest) : Brought(rest, i).n = n
      OBVIOUS
    <3>2. n \in (kept + 1)..count /\ n # kept + 1
      BY <1>2
    <3>3. PICK i \in Bringing(l, queue) : Brought(queue, i).n = n
      BY <3>2 DEF Kept
    <3>4. i # 1
      BY <3>2, <3>3, <2>4
    <3>5. QED
      BY <3>3, <3>4, <1>3
  <2>8. \A i \in 1..Len(numbers) : numbers[i] = i
    BY DEF Kept
  <2>9. QED
    BY <2>5, <2>6, <2>7, <2>8, <1>4 DEF Kept
<1>7. QED
  BY <1>5, <1>6

\* The numbers of the points of a cloud, as PublishPointCloud hands them on.
Numbers(held) == [i \in 1..Len(held) |-> held[i].n]

\* They are as many as the points.
LEMMA NumbersOf ==
    ASSUME NEW held \in Seq(Point)
    PROVE  /\ Numbers(held) \in Seq(Nat) /\ Len(Numbers(held)) = Len(held)
           /\ \A i \in 1..Len(held) : Numbers(held)[i] = held[i].n
<1>1. Len(held) \in Nat
  BY LenProperties
<1>2. ASSUME NEW i \in 1..Len(held) PROVE held[i].n \in Nat
  <2>1. held[i] \in Point
    BY ElementOfSeq
  <2>2. QED
    BY <2>1 DEF Point
<1>3. QED
  BY <1>1, <1>2 DEF Numbers

\* A frame moves the points of the handler to the subscribers.
LEMMA KeptCut ==
    ASSUME NEW l, NEW numbers \in Seq(Nat), NEW held \in Seq(Point), NEW count \in Nat,
           NEW queue \in Seq(SmallPacket), Kept(l, numbers, held, queue, count)
    PROVE  Kept(l, numbers \o Numbers(held), <<>>, queue, count)
<1> DEFINE longer == numbers \o Numbers(held)
<1>1. Len(numbers) \in Nat /\ Len(held) \in Nat
  BY LenProperties
<1>2. /\ Len(longer) = Len(numbers) + Len(held)
      /\ \A i \in 1..(Len(numbers) + Len(held)) : longer[i] =
            IF i <= Len(numbers) THEN numbers[i] ELSE Numbers(held)[i - Len(numbers)]
  <2>1. Numbers(held) \in Seq(Nat) /\ Len(Numbers(held)) = Len(held)
    BY NumbersOf
  <2>2. /\ Len(longer) = Len(numbers) + Len(Numbers(held))
        /\ \A i \in 1..(Len(numbers) + Len(Numbers(held))) : longer[i] =
              IF i <= Len(numbers) THEN numbers[i] ELSE Numbers(held)[i - Len(numbers)]
    BY <2>1, ConcatProperties
  <2>3. QED
    BY <2>1, <2>2
<1>3. Len(longer) + Len(<<>>) = Len(numbers) + Len(held) /\ 1..Len(<<>>) = {}
  BY <1>1, <1>2, EmptySeq
<1>4. ASSUME NEW i \in 1..Len(longer)
      PROVE  longer[i] = i
  <2>1. CASE i <= Len(numbers)
    <3>1. i \in 1..Len(numbers)
      BY <2>1, <1>1, <1>2
    <3>2. QED
      BY <3>1, <2>1, <1>2 DEF Kept
  <2>2. CASE ~ (i <= Len(numbers))
    <3>1. i - Len(numbers) \in 1..Len(held) /\ Len(numbers) + (i - Len(numbers)) = i
      BY <2>2, <1>1, <1>2
    <3>2. longer[i] = Numbers(held)[i - Len(numbers)]
      BY <2>2, <1>2
    <3>3. Numbers(held)[i - Len(numbers)] = held[i - Len(numbers)].n
      BY <3>1, NumbersOf
    <3>4. held[i - Len(numbers)].n = i
      BY <3>1 DEF Kept
    <3>5. QED
      BY <3>2, <3>3, <3>4
  <2>3. QED
    BY <2>1, <2>2
<1>5. QED
  BY <1>3, <1>4 DEF Kept
-----------------------------------------------------------------------------
(* What they do to the times *)

\* The time of a point is a number.
LEMMA PointTime ==
    ASSUME NEW p \in Point
    PROVE  p.time \in Int
  BY PubHandlerAssumption DEF Point

\* The points of a handler and of a queue have times.
LEMMA Times ==
    ASSUME NEW l, NEW held \in Seq(Point), NEW queue \in Seq(SmallPacket)
    PROVE  /\ \A i \in 1..Len(held) : held[i].time \in Int
           /\ \A i \in Bringing(l, queue) : Brought(queue, i).time \in Int
<1>1. \A i \in 1..Len(held) : held[i] \in Point
  BY ElementOfSeq
<1>2. \A i \in Bringing(l, queue) : Brought(queue, i) \in Point
  BY BroughtPoint
<1>3. QED
  BY <1>1, <1>2, PointTime

\* A clock that goes on stays ahead.
LEMMA TimelyLater ==
    ASSUME NEW l, NEW end \in Int, NEW held \in Seq(Point), NEW queue \in Seq(SmallPacket),
           NEW clock \in Int, NEW later \in Int, clock <= later,
           Timely(l, end, held, queue, clock)
    PROVE  Timely(l, end, held, queue, later)
<1>1. /\ \A i \in 1..Len(held) : held[i].time \in Int
      /\ \A i \in Bringing(l, queue) : Brought(queue, i).time \in Int
  BY Times
<1>2. \A i \in 1..Len(held) : held[i].time <= later
  BY <1>1 DEF Timely
<1>3. \A i \in Bringing(l, queue) : Brought(queue, i).time <= later
  BY <1>1 DEF Timely
<1>4. end <= later
  BY DEF Timely
<1>5. QED
  BY <1>2, <1>3, <1>4 DEF Timely

\* A packet of another lidar, or one that brings nothing, changes nothing.
LEMMA TimelyOtherPacket ==
    ASSUME NEW l, NEW end, NEW held, NEW clock,
           NEW queue \in Seq(SmallPacket), NEW p \in SmallPacket,
           p.lidar # l \/ p.content = <<>>, Timely(l, end, held, queue, clock)
    PROVE  Timely(l, end, held, Append(queue, p), clock)
<1>1. /\ \A i \in Bringing(l, Append(queue, p)) :
            i \in Bringing(l, queue) /\ Brought(Append(queue, p), i) = Brought(queue, i)
  BY BringingAppend
<1>2. QED
  BY <1>1 DEF Timely

\* The next point of the lidar is stamped by its clock.
LEMMA TimelyNextPoint ==
    ASSUME NEW l, NEW end \in Int, NEW held \in Seq(Point), NEW clock \in Int,
           NEW queue \in Seq(SmallPacket), NEW p \in SmallPacket,
           p.lidar = l, p.content # <<>>, p.content[1].time = clock,
           Timely(l, end, held, queue, clock)
    PROVE  Timely(l, end, held, Append(queue, p), clock)
<1> DEFINE longer == Append(queue, p)
           last == Len(queue) + 1
<1>1. /\ last \in Nat /\ Brought(longer, last).time = clock
      /\ \A i \in Bringing(l, longer) :
            \/ i = last
            \/ i \in Bringing(l, queue) /\ Brought(longer, i) = Brought(queue, i) /\ i < last
  <2>1. Len(queue) \in Nat
    BY LenProperties
  <2>2. QED
    BY <2>1, BringingAppend, BroughtPoint
<1>2. ASSUME NEW i \in Bringing(l, longer)
      PROVE  /\ end <= Brought(longer, i).time /\ Brought(longer, i).time <= clock
             /\ \A j \in 1..Len(held) : held[j].time <= Brought(longer, i).time
  <2>1. CASE i = last
    BY <2>1, <1>1 DEF Timely
  <2>2. CASE i \in Bringing(l, queue) /\ Brought(longer, i) = Brought(queue, i)
    BY <2>2 DEF Timely
  <2>3. QED
    BY <2>1, <2>2, <1>1
<1>3. ASSUME NEW i \in Bringing(l, longer), NEW j \in Bringing(l, longer), i < j
      PROVE  Brought(longer, i).time <= Brought(longer, j).time
  <2>1. CASE j = last
    BY <2>1, <1>1, <1>2
  <2>2. CASE j \in Bringing(l, queue) /\ Brought(longer, j) = Brought(queue, j) /\ j < last
    <3>1. j \in Nat
      BY <2>2, BroughtPoint
    <3>2. i # last
      BY <3>1, <2>2, <1>1, <1>3
    <3>3. i \in Bringing(l, queue) /\ Brought(longer, i) = Brought(queue, i)
      BY <3>2, <1>1
    <3>4. QED
      BY <2>2, <3>3, <1>3 DEF Timely
  <2>3. QED
    BY <2>1, <2>2, <1>1
<1>4. /\ end <= clock
      /\ \A i \in 1..Len(held) : end <= held[i].time /\ held[i].time <= clock
      /\ \A i, j \in 1..Len(held) : i < j => held[i].time <= held[j].time
  BY DEF Timely
<1>5. QED
  BY <1>2, <1>3, <1>4 DEF Timely

\* RawDataProcess moves the first packet's point from the queue to the handler.
LEMMA TimelyProcessed ==
    ASSUME NEW l, NEW end \in Int, NEW held \in Seq(Point), NEW clock \in Int,
           NEW queue \in Seq(SmallPacket), queue # <<>>,
           Timely(l, end, held, queue, clock)
    PROVE  Timely(l, end, Holding(l, held, queue[1]), Tail(queue), clock)
<1> DEFINE rest == Tail(queue)
<1>1. /\ queue[1] \in SmallPacket
      /\ Len(queue) \in Nat \ {0}
  BY EmptySeq, ElementOfSeq
<1>2. /\ \A i \in Bringing(l, rest) :
            /\ i \in Nat \ {0} /\ i + 1 \in Bringing(l, queue)
            /\ Brought(rest, i) = Brought(queue, i + 1)
      /\ (queue[1].lidar = l /\ queue[1].content # <<>>) => 1 \in Bringing(l, queue)
  BY BringingTail
<1>3. ASSUME NEW i \in Bringing(l, rest)
      PROVE  /\ end <= Brought(rest, i).time /\ Brought(rest, i).time <= clock
             /\ \A j \in 1..Len(held) : held[j].time <= Brought(rest, i).time
             /\ \A j \in Bringing(l, rest) : i < j => Brought(rest, i).time <= Brought(rest, j).time
             /\ \A j \in Bringing(l, queue) :
                   j < i + 1 => Brought(queue, j).time <= Brought(rest, i).time
  <2>1. i + 1 \in Bringing(l, queue) /\ Brought(rest, i) = Brought(queue, i + 1) /\ i \in Nat
    BY <1>2
  <2>2. /\ end <= Brought(queue, i + 1).time /\ Brought(queue, i + 1).time <= clock
        /\ \A j \in 1..Len(held) : held[j].time <= Brought(queue, i + 1).time
        /\ \A j \in Bringing(l, queue) :
              j < i + 1 => Brought(queue, j).time <= Brought(queue, i + 1).time
        /\ \A j \in Bringing(l, queue) :
              i + 1 < j => Brought(queue, i + 1).time <= Brought(queue, j).time
    BY <2>1 DEF Timely
  <2>3. ASSUME NEW j \in Bringing(l, rest), i < j
        PROVE  Brought(rest, i).time <= Brought(rest, j).time
    <3>1. /\ j + 1 \in Bringing(l, queue) /\ Brought(rest, j) = Brought(queue, j + 1)
          /\ i + 1 < j + 1
      BY <1>2, <2>1, <2>3
    <3>2. QED
      BY <3>1, <2>1, <2>2
  <2>4. QED
    BY <2>1, <2>2, <2>3
<1>4. /\ end <= clock
      /\ \A i \in 1..Len(held) : end <= held[i].time /\ held[i].time <= clock
      /\ \A i, j \in 1..Len(held) : i < j => held[i].time <= held[j].time
  BY DEF Timely
<1>5. CASE queue[1].lidar # l \/ queue[1].content = <<>>
  <2>1. Holding(l, held, queue[1]) = held
    BY <1>1, <1>5, HoldingNothing
  <2>2. QED
    BY <2>1, <1>3, <1>4 DEF Timely
<1>6. CASE queue[1].lidar = l /\ queue[1].content # <<>>
  <2> DEFINE more == Holding(l, held, queue[1])
  <2>1. /\ Len(more) = Len(held) + 1 /\ Len(held) \in Nat
        /\ \A i \in 1..Len(held) : more[i] = held[i]
        /\ more[Len(held) + 1] = Brought(queue, 1)
    <3>1. /\ Len(more) = Len(held) + 1 /\ Len(held) \in Nat
          /\ \A i \in 1..Len(held) : more[i] = held[i]
          /\ more[Len(held) + 1] = queue[1].content[1]
      BY <1>1, <1>6, HoldingOneMore
    <3>2. QED
      BY <3>1 DEF Brought
  <2>2. /\ 1 \in Bringing(l, queue)
        /\ end <= Brought(queue, 1).time /\ Brought(queue, 1).time <= clock
        /\ \A j \in 1..Len(held) : held[j].time <= Brought(queue, 1).time
    BY <1>2, <1>6 DEF Timely
  <2>3. \A i \in 1..Len(more) : i \in 1..Len(held) \/ i = Len(held) + 1
    BY <2>1
  <2>4. ASSUME NEW i \in 1..Len(more)
        PROVE  /\ end <= more[i].time /\ more[i].time <= clock
               /\ \A j \in Bringing(l, rest) : more[i].time <= Brought(rest, j).time
    <3>1. CASE i \in 1..Len(held)
      BY <3>1, <2>1, <1>3, <1>4
    <3>2. CASE i = Len(held) + 1
      <4>1. \A j \in Bringing(l, rest) : 1 < j + 1
        BY <1>2
      <4>2. QED
        BY <4>1, <3>2, <2>1, <2>2, <1>3
    <3>3. QED
      BY <3>1, <3>2, <2>3
  <2>5. ASSUME NEW i \in 1..Len(more), NEW j \in 1..Len(more), i < j
        PROVE  more[i].time <= more[j].time
    <3>1. i \in 1..Len(held)
      BY <2>1, <2>5
    <3>2. CASE j \in 1..Len(held)
      BY <3>1, <3>2, <2>1, <2>5, <1>4
    <3>3. CASE j = Len(held) + 1
      BY <3>1, <3>3, <2>1, <2>2
    <3>4. QED
      BY <3>2, <3>3, <2>3
  <2>6. QED
    BY <2>4, <2>5, <1>3, <1>4 DEF Timely
<1>7. QED
  BY <1>5, <1>6

\* A frame of the host leaves no point in the handler.
LEMMA TimelyHostCut ==
    ASSUME NEW l, NEW end, NEW held, NEW queue, NEW clock,
           Timely(l, end, held, queue, clock)
    PROVE  Timely(l, end, <<>>, queue, clock)
<1>1. 1..Len(<<>>) = {}
  BY EmptySeq
<1>2. QED
  BY <1>1 DEF Timely

\* A synchronized frame ends with the newest point of the handler.
LEMMA TimelySyncCut ==
    ASSUME NEW l, NEW end \in Int, NEW held \in Seq(Point), NEW queue \in Seq(SmallPacket),
           NEW clock \in Int, held # <<>>, Timely(l, end, held, queue, clock)
    PROVE  Timely(l, held[Len(held)].time, <<>>, queue, clock)
<1>1. 1..Len(<<>>) = {} /\ Len(held) \in 1..Len(held)
  <2>1. Len(held) \in Nat \ {0}
    BY EmptySeq
  <2>2. QED
    BY <2>1, EmptySeq
<1>2. QED
  BY <1>1 DEF Timely

\* Multiples of the interval are an interval apart when they are more than
\* nothing apart.
LEMMA MultiplesApart ==
    ASSUME NEW x \in Int, NEW y \in Int, x % Interval = 0, y % Interval = 0, x < y
    PROVE  y - x >= Interval
<1>1. Interval \in Nat \ {0}
  BY PubHandlerAssumption
<1>2. x = (x \div Interval) * Interval /\ y = (y \div Interval) * Interval
  BY <1>1
<1> DEFINE j == (y \div Interval) - (x \div Interval)
<1>3. j \in Int /\ y - x = j * Interval
  BY <1>1, <1>2
<1>4. j > 0
  <2>1. SUFFICES ASSUME j <= 0 PROVE FALSE
    BY <1>3
  <2>2. j * Interval <= 0
    BY <1>1, <1>3, <2>1
  <2>3. QED
    BY <1>3, <2>2
<1>5. j * Interval >= Interval
  BY <1>1, <1>3, <1>4
<1>6. QED
  BY <1>3, <1>5

\* CheckTimer cuts a synchronized frame only an interval after the last one: the
\* newest point lies on another multiple of the interval, as the oldest, which is
\* not before the end of the last frame, is an interval but a millisecond older.
LEMMA SpacedSyncCut ==
    ASSUME NEW l, NEW ends \in Time \X Time, NEW held \in Seq(Point),
           NEW queue \in Seq(SmallPacket), NEW clock \in Int,
           Spaced(ends), Timely(l, ends[2], held, queue, clock), SyncDue(held)
    PROVE  Spaced(<<ends[2], held[Len(held)].time>>)
<1> DEFINE last == held[Len(held)].time
           base == held[1].time
<1>1. Len(held) \in Nat \ {0}
  BY EmptySeq DEF SyncDue
<1>2. /\ held[1] \in Point /\ held[Len(held)] \in Point
      /\ base \in Int /\ last \in Int
  BY <1>1, ElementOfSeq, PointTime
<1>3. last # NotYet /\ last % Interval = 0
  BY <1>2, PubHandlerAssumption DEF SyncDue, OnBoundary, Point, NotYet
<1>4. base <= last
  <2>1. CASE Len(held) = 1
    BY <2>1, <1>2
  <2>2. CASE Len(held) # 1
    <3>1. 1 \in 1..Len(held) /\ Len(held) \in 1..Len(held) /\ 1 < Len(held)
      BY <2>2, <1>1
    <3>2. QED
      BY <3>1 DEF Timely
  <2>3. QED
    BY <2>1, <2>2
<1>5. last - base >= Interval - 1
  BY <1>2, <1>4, PubHandlerAssumption DEF SyncDue, TooShort
<1>6. ASSUME ends[2] # NotYet
      PROVE  last - ends[2] >= Interval
  <2>1. ends[2] \in Int /\ ends[2] % Interval = 0
    BY <1>6, PubHandlerAssumption DEF Spaced, Time
  <2>2. 1 \in 1..Len(held)
    BY <1>1
  <2>3. ends[2] <= base
    BY <2>2 DEF Timely
  <2>4. ends[2] < last
    BY <2>1, <2>3, <1>2, <1>5, PubHandlerAssumption
  <2>5. QED
    BY <2>1, <2>4, <1>2, <1>3, MultiplesApart
<1>7. QED
  BY <1>3, <1>6 DEF Spaced
-----------------------------------------------------------------------------
(* What the handler does with a packet *)

\* A frame without an entry of a lidar hands on none of its points.
LEMMA NotPublished ==
    ASSUME ShapeInv, NEW k \in Lidar, NEW entries, PublishPointCloud(entries),
           \A e \in entries : e.lidar # k
    PROVE  delivered'[k] = delivered[k]
<1>1. {e \in frame \cup entries : e.lidar = k} = {}
  BY DEF ShapeInv
<1>2. delivered'[k] = delivered[k] \o <<>>
  BY <1>1 DEF PublishPointCloud
<1>3. delivered[k] \in Seq(Nat)
  BY DEF ShapeInv
<1>4. QED
  BY <1>2, <1>3, ConcatEmptySeq

\* A frame with an entry of a lidar hands on the points of the entry.
LEMMA IsPublished ==
    ASSUME ShapeInv, NEW k \in Lidar, NEW entries, NEW clouds, PublishPointCloud(entries),
           Entry(k, clouds) \in entries,
           \A e \in entries : e.lidar = k => e = Entry(k, clouds)
    PROVE  delivered'[k] = delivered[k] \o Numbers(clouds[k])
<1> DEFINE mine == {e \in frame \cup entries : e.lidar = k}
<1>1. mine = {Entry(k, clouds)}
  BY DEF ShapeInv, Entry
<1>2. mine # {} /\ (CHOOSE e \in mine : TRUE) = Entry(k, clouds)
  BY <1>1
<1>3. (CHOOSE e \in mine : TRUE).content = clouds[k]
  <2>1. Entry(k, clouds).content = clouds[k]
    BY DEF Entry
  <2>2. QED
    BY <1>2, <2>1
<1>4. delivered'[k] = delivered[k] \o
             (IF mine = {} THEN <<>>
              ELSE LET content == (CHOOSE e \in mine : TRUE).content IN
                   [i \in 1..Len(content) |-> content[i].n])
  BY DEF PublishPointCloud
<1>5. QED
  BY <1>2, <1>3, <1>4 DEF Numbers

\* CheckTimer leaves the points of a lidar with the handler, or hands all of them on;
\* a synchronized frame notes its end.
Outcome(k, held) ==
    \/ cloud'[k] = held /\ delivered'[k] = delivered[k] /\ syncEnds'[k] = syncEnds[k]
    \/ /\ cloud'[k] = <<>> /\ delivered'[k] = delivered[k] \o Numbers(held)
       /\ \/ syncEnds'[k] = syncEnds[k]
          \/ SyncDue(held) /\ syncEnds'[k] = <<syncEnds[k][2], held[Len(held)].time>>

\* The outcome when the frames follow the time of the points of lidar l.
LEMMA SyncOutcome ==
    ASSUME ShapeInv, NEW k \in Lidar, NEW l \in Lidar, NEW clouds, SyncTimer(l, clouds)
    PROVE  Outcome(k, clouds[k])
<1>1. syncEnds \in [Lidar -> Time \X Time]
  BY DEF ShapeInv
<1>2. CASE SyncDue(clouds[l])
  <2>1. /\ TakePoints({l}, clouds) /\ PublishPointCloud({Entry(l, clouds)})
        /\ syncEnds' = [syncEnds EXCEPT
                           ![l] = <<@[2], clouds[l][Len(clouds[l])].time>>]
    BY <1>2 DEF SyncTimer
  <2>2. CASE k = l
    <3>1. cloud'[k] = <<>>
      BY <2>1, <2>2 DEF TakePoints
    <3>2. delivered'[k] = delivered[k] \o Numbers(clouds[k])
      BY <2>1, <2>2, IsPublished
    <3>3. syncEnds'[k] = <<syncEnds[k][2], clouds[k][Len(clouds[k])].time>>
      BY <2>1, <2>2, <1>1
    <3>4. QED
      BY <3>1, <3>2, <3>3, <1>2, <2>2 DEF Outcome
  <2>3. CASE k # l
    <3>1. cloud'[k] = clouds[k]
      BY <2>1, <2>3 DEF TakePoints
    <3>2. \A e \in {Entry(l, clouds)} : e.lidar # k
      BY <2>3 DEF Entry
    <3>3. delivered'[k] = delivered[k]
      BY <2>1, <3>2, NotPublished
    <3>4. syncEnds'[k] = syncEnds[k]
      BY <2>1, <2>3, <1>1
    <3>5. QED
      BY <3>1, <3>3, <3>4 DEF Outcome
  <2>4. QED
    BY <2>2, <2>3
<1>3. CASE ~ SyncDue(clouds[l])
  BY <1>3 DEF SyncTimer, NothingPublished, Outcome
<1>4. QED
  BY <1>2, <1>3

\* The outcome when the frames follow the host's clock.
LEMMA HostOutcome ==
    ASSUME ShapeInv, NEW k \in Lidar, NEW clouds, HostTimer(clouds)
    PROVE  Outcome(k, clouds[k])
<1>1. CASE NothingPublished(clouds) /\ UNCHANGED syncEnds
  BY <1>1 DEF NothingPublished, Outcome
<1> DEFINE filled == {j \in handlers' : clouds[j] # <<>>}
           entries == {Entry(j, clouds) : j \in filled}
<1>2. CASE TakePoints(handlers', clouds) /\ PublishPointCloud(entries) /\ UNCHANGED syncEnds
  <2>1. \A e \in entries : \E j \in filled : e = Entry(j, clouds) /\ e.lidar = j
    BY DEF Entry
  <2>2. CASE k \in filled
    <3>1. cloud'[k] = <<>>
      BY <1>2, <2>2 DEF TakePoints
    <3>2. \A e \in entries : e.lidar = k => e = Entry(k, clouds)
      BY <2>1
    <3>3. Entry(k, clouds) \in entries
      BY <2>2
    <3>4. delivered'[k] = delivered[k] \o Numbers(clouds[k])
      BY <1>2, <3>2, <3>3, IsPublished
    <3>5. QED
      BY <3>1, <3>4, <1>2 DEF Outcome
  <2>3. CASE k \notin filled
    <3>1. cloud'[k] = clouds[k]
      BY <1>2, <2>3 DEF TakePoints
    <3>2. \A e \in entries : e.lidar # k
      BY <2>1, <2>3
    <3>3. delivered'[k] = delivered[k]
      BY <1>2, <3>2, NotPublished
    <3>4. QED
      BY <3>1, <3>3, <1>2 DEF Outcome
  <2>4. QED
    BY <2>2, <2>3
<1>3. QED
  BY <1>1, <1>2 DEF HostTimer

\* The outcome of a packet.
LEMMA ProcessOutcome ==
    ASSUME ShapeInv, Process, NEW k \in Lidar
    PROVE  /\ current \in SmallPacket
           /\ Outcome(k, Holding(k, cloud[k], current))
<1> DEFINE l == current.lidar
           clouds == [cloud EXCEPT ![l] = @ \o current.content]
<1>1. current \in SmallPacket /\ l \in Lidar /\ cloud \in [Lidar -> Seq(Point)]
  BY OnePoint DEF ShapeInv, Process
<1>2. clouds[k] = Holding(k, cloud[k], current)
  BY <1>1 DEF Holding
<1>3. CASE SyncTimer(l, clouds)
  BY <1>1, <1>2, <1>3, SyncOutcome
<1>4. CASE HostTimer(clouds)
  BY <1>1, <1>2, <1>4, HostOutcome
<1>5. SyncTimer(l, clouds) \/ HostTimer(clouds)
  BY DEF Process
<1>6. QED
  BY <1>1, <1>3, <1>4, <1>5
-----------------------------------------------------------------------------
(* The packets on their way *)

\* The packets on their way as one queue.
LEMMA RawQueue ==
    ASSUME ShapeInv
    PROVE  /\ Raw \in Seq(SmallPacket)
           /\ worker # "process" => Raw = rawPackets
           /\ worker = "process" =>
                 Raw # <<>> /\ Raw[1] = current /\ Tail(Raw) = rawPackets
<1>1. rawPackets \in Seq(SmallPacket)
  BY DEF ShapeInv
<1>2. CASE worker # "process"
  <2>1. Raw = <<>> \o rawPackets
    BY <1>2 DEF Raw
  <2>2. Raw = rawPackets
    BY <2>1, <1>1, ConcatEmptySeq
  <2>3. QED
    BY <2>2, <1>1, <1>2
<1>3. CASE worker = "process"
  <2>1. Raw = <<current>> \o rawPackets /\ current \in SmallPacket
    BY <1>3 DEF Raw, ShapeInv
  <2>2. <<current>> \in Seq(SmallPacket) /\ Len(<<current>>) = 1 /\ <<current>>[1] = current
    BY <2>1
  <2>3. Len(rawPackets) \in Nat
    BY <1>1, LenProperties
  <2>4. /\ Raw \in Seq(SmallPacket) /\ Len(Raw) = 1 + Len(rawPackets)
        /\ \A i \in 1..(1 + Len(rawPackets)) : Raw[i] =
              IF i <= 1 THEN <<current>>[i] ELSE rawPackets[i - 1]
    BY <2>1, <2>2, <1>1, ConcatProperties
  <2>5. Raw # <<>> /\ Raw[1] = current
    <3>1. 1 \in 1..(1 + Len(rawPackets))
      BY <2>3
    <3>2. Raw[1] = current
      BY <3>1, <2>2, <2>4
    <3>3. Len(Raw) # 0
      BY <2>3, <2>4
    <3>4. QED
      BY <3>2, <3>3, EmptySeq
  <2>6. /\ Tail(Raw) \in Seq(SmallPacket) /\ Len(Tail(Raw)) = Len(rawPackets)
        /\ \A i \in 1..Len(Tail(Raw)) : Tail(Raw)[i] = Raw[i + 1]
    <3>1. /\ Tail(Raw) \in Seq(SmallPacket) /\ Len(Tail(Raw)) = Len(Raw) - 1
          /\ \A i \in 1..Len(Tail(Raw)) : Tail(Raw)[i] = Raw[i + 1]
      BY <2>4, <2>5, HeadTailProperties
    <3>2. QED
      BY <3>1, <2>3, <2>4
  <2>7. ASSUME NEW i \in 1..Len(rawPackets)
        PROVE  Tail(Raw)[i] = rawPackets[i]
    <3>1. i + 1 \in 1..(1 + Len(rawPackets)) /\ (i + 1) - 1 = i /\ ~ (i + 1 <= 1)
      BY <2>3
    <3>2. Raw[i + 1] = rawPackets[i]
      BY <3>1, <2>4
    <3>3. QED
      BY <3>2, <2>6
  <2>8. Tail(Raw) = rawPackets
    BY <2>6, <2>7, <1>1, SeqEqual
  <2>9. QED
    BY <2>4, <2>5, <2>8, <1>3
<1>4. QED
  BY <1>2, <1>3

\* Between two packets the packets on their way are those in the queue.
LEMMA RawPrimed ==
    ASSUME ShapeInv', worker' # "process"
    PROVE  Raw' = rawPackets'
<1>1. rawPackets' \in Seq(SmallPacket)
  BY DEF ShapeInv
<1>2. Raw' = <<>> \o rawPackets'
  BY DEF Raw
<1>3. QED
  BY <1>1, <1>2, ConcatEmptySeq

\* RawDataProcess takes a packet from the queue and has it still to process.
LEMMA TakeKeepsRaw ==
    ASSUME ShapeInv, worker # "process", Take
    PROVE  Raw' = Raw /\ current' \in SmallPacket /\ rawPackets' \in Seq(SmallPacket)
<1>1. /\ rawPackets \in Seq(SmallPacket) /\ rawPackets # <<>>
      /\ current' = Head(rawPackets) /\ rawPackets' = Tail(rawPackets)
      /\ worker' = "process"
  BY DEF ShapeInv, Take
<1>2. /\ Head(rawPackets) \in SmallPacket /\ Tail(rawPackets) \in Seq(SmallPacket)
      /\ Len(Tail(rawPackets)) = Len(rawPackets) - 1
      /\ \A i \in 1..Len(Tail(rawPackets)) : Tail(rawPackets)[i] = rawPackets[i + 1]
  BY <1>1, HeadTailProperties
<1>3. Raw' = <<Head(rawPackets)>> \o Tail(rawPackets)
  BY <1>1 DEF Raw
<1>4. Len(rawPackets) \in Nat \ {0} /\ rawPackets[1] = Head(rawPackets)
  BY <1>1, EmptySeq
<1> DEFINE one == <<Head(rawPackets)>>
<1>5. one \in Seq(SmallPacket) /\ Len(one) = 1 /\ one[1] = Head(rawPackets)
  BY <1>2
<1>6. /\ one \o Tail(rawPackets) \in Seq(SmallPacket)
      /\ Len(one \o Tail(rawPackets)) = Len(rawPackets)
      /\ \A i \in 1..Len(rawPackets) : (one \o Tail(rawPackets))[i] =
            IF i <= 1 THEN one[i] ELSE Tail(rawPackets)[i - 1]
  <2>1. /\ one \o Tail(rawPackets) \in Seq(SmallPacket)
        /\ Len(one \o Tail(rawPackets)) = Len(one) + Len(Tail(rawPackets))
        /\ \A i \in 1..(Len(one) + Len(Tail(rawPackets))) : (one \o Tail(rawPackets))[i] =
              IF i <= Len(one) THEN one[i] ELSE Tail(rawPackets)[i - Len(one)]
    BY <1>2, <1>5, ConcatProperties
  <2>2. Len(one) + Len(Tail(rawPackets)) = Len(rawPackets)
    BY <1>2, <1>4, <1>5
  <2>3. QED
    BY <2>1, <2>2, <1>5
<1>7. ASSUME NEW i \in 1..Len(rawPackets)
      PROVE  (one \o Tail(rawPackets))[i] = rawPackets[i]
  <2>1. CASE i = 1
    BY <2>1, <1>4, <1>5, <1>6
  <2>2. CASE i # 1
    <3>1. i - 1 \in 1..Len(Tail(rawPackets)) /\ (i - 1) + 1 = i /\ ~ (i <= 1)
      BY <2>2, <1>2, <1>4
    <3>2. QED
      BY <3>1, <1>2, <1>6
  <2>3. QED
    BY <2>1, <2>2
<1>8. one \o Tail(rawPackets) = rawPackets
  BY <1>1, <1>6, <1>7, SeqEqual
<1>9. Raw = rawPackets
  BY RawQueue
<1>10. QED
  BY <1>1, <1>2, <1>3, <1>8, <1>9

\* A packet that arrives is the last on its way.
LEMMA PushIsLast ==
    ASSUME ShapeInv, NEW p \in SmallPacket, PushPacket(p), UNCHANGED <<worker, current>>
    PROVE  Raw' = Append(Raw, p) /\ rawPackets' \in Seq(SmallPacket)
<1>1. rawPackets \in Seq(SmallPacket) /\ rawPackets' = Append(rawPackets, p)
  BY DEF ShapeInv, PushPacket
<1>2. rawPackets' \in Seq(SmallPacket) /\ rawPackets' = rawPackets \o <<p>>
  BY <1>1, AppendProperties, AppendIsConcat
<1>3. CASE worker # "process"
  <2>1. Raw' = <<>> \o rawPackets'
    BY <1>3 DEF Raw
  <2>2. Raw' = rawPackets' /\ Raw = rawPackets
    BY <2>1, <1>2, <1>3, ConcatEmptySeq, RawQueue
  <2>3. QED
    BY <2>2, <1>1, <1>2
<1>4. CASE worker = "process"
  <2>1. /\ Raw = <<current>> \o rawPackets /\ current \in SmallPacket
        /\ Raw' = <<current>> \o rawPackets'
    BY <1>4 DEF Raw, ShapeInv
  <2>2. <<current>> \in Seq(SmallPacket) /\ <<p>> \in Seq(SmallPacket)
    BY <2>1
  <2>3. Raw' = (<<current>> \o rawPackets) \o <<p>>
    BY <2>1, <2>2, <1>1, <1>2, ConcatAssociative
  <2>4. Raw \in Seq(SmallPacket)
    BY RawQueue
  <2>5. Append(Raw, p) = Raw \o <<p>>
    BY <2>4, AppendIsConcat
  <2>6. QED
    BY <2>1, <2>3, <2>5, <1>2
<1>5. QED
  BY <1>3, <1>4
-----------------------------------------------------------------------------
(* The steps that leave the points where they are *)

\* The steps but those of a packet that arrives and of Process.
Quiet == \/ Tick \/ LoopTop \/ LockedLook \/ Wake \/ RemoveObserver \/ RequestExit \/ Join
         \/ (\E l \in Lidar : OnImuData(l)) \/ UNCHANGED vars

\* They keep the packets on their way and what was made of the others.
LEMMA QuietFrame ==
    ASSUME ShapeInv, Quiet
    PROVE  /\ Raw' = Raw
           /\ rawPackets' \in Seq(SmallPacket) /\ current' \in SmallPacket \cup {NoPacket}
           /\ worker' = "process" => current' \in SmallPacket
           /\ worker' \in {"loop", "locked", "waiting", "process", "done"}
           /\ now' \in 1..MaxTime /\ now <= now'
           /\ UNCHANGED <<load, received, handlers, cloud, points, frame, lastPub, historyVars>>
           /\ isSync' \in BOOLEAN /\ observer' \in BOOLEAN /\ quit' \in BOOLEAN
           /\ uninit' \in {"no", "removed", "joining", "done"}
<1>1. CASE Tick
  <2>1. /\ now' = now + 1 /\ now < MaxTime
        /\ UNCHANGED <<load, received, isSync, rawPackets, workerVars, observer, quit,
                       uninit, historyVars>>
    BY <1>1 DEF Tick
  <2>2. now' \in 1..MaxTime /\ now <= now'
    BY <2>1, PubHandlerAssumption DEF ShapeInv
  <2>3. QED
    BY <2>1, <2>2 DEF ShapeInv, workerVars, Raw
<1>2. CASE LoopTop
  <2>1. /\ worker = "loop" /\ worker' \in {"done", "locked"}
        /\ UNCHANGED <<load, now, received, isSync, rawPackets, current, handlers,
                   cloud, points, frame, lastPub, observer, quit, uninit, historyVars>>
    BY <1>2 DEF LoopTop
  <2>2. now <= now'
    BY <2>1, PubHandlerAssumption DEF ShapeInv
  <2>3. QED
    BY <2>1, <2>2 DEF ShapeInv, Raw
<1>3. CASE LockedLook \/ Wake
  <2>1. /\ worker \in {"locked", "waiting"}
        /\ \/ Take
           \/ worker' \in {"waiting", "loop"} /\ UNCHANGED <<rawPackets, current>>
        /\ UNCHANGED <<load, now, received, isSync, handlers, cloud, points, frame, lastPub,
                   observer, quit, uninit, historyVars>>
    BY <1>3 DEF LockedLook, Wake
  <2>2. now <= now'
    BY <2>1, PubHandlerAssumption DEF ShapeInv
  <2>3. CASE Take
    <3>1. /\ Raw' = Raw /\ current' \in SmallPacket /\ rawPackets' \in Seq(SmallPacket)
          /\ worker' = "process"
      BY <2>1, <2>3, TakeKeepsRaw DEF Take
    <3>2. QED
      BY <3>1, <2>1, <2>2 DEF ShapeInv
  <2>4. CASE worker' \in {"waiting", "loop"} /\ UNCHANGED <<rawPackets, current>>
    BY <2>1, <2>2, <2>4 DEF ShapeInv, Raw
  <2>5. QED
    BY <2>1, <2>3, <2>4
<1>4. CASE RemoveObserver \/ RequestExit \/ Join
  <2>1. /\ uninit' \in {"removed", "joining", "done"}
        /\ observer' \in {observer, FALSE} /\ quit' \in {quit, TRUE}
        /\ UNCHANGED <<load, now, received, isSync, rawPackets, workerVars, historyVars>>
    BY <1>4 DEF RemoveObserver, RequestExit, Join
  <2>2. now <= now'
    BY <2>1, PubHandlerAssumption DEF ShapeInv
  <2>3. QED
    BY <2>1, <2>2 DEF ShapeInv, workerVars, Raw
<1>5. CASE \E l \in Lidar : OnImuData(l)
  <2>1. /\ isSync' \in BOOLEAN
        /\ UNCHANGED <<load, now, received, rawPackets, workerVars, observer, quit,
                   uninit, historyVars>>
    BY <1>5 DEF OnImuData
  <2>2. now <= now'
    BY <2>1, PubHandlerAssumption DEF ShapeInv
  <2>3. QED
    BY <2>1, <2>2 DEF ShapeInv, workerVars, Raw
<1>6. CASE UNCHANGED vars
  <2>1. now <= now'
    BY <1>6, PubHandlerAssumption DEF ShapeInv, vars
  <2>2. QED
    BY <1>6, <2>1 DEF ShapeInv, vars, workerVars, Raw
<1>7. QED
  BY <1>1, <1>2, <1>3, <1>4, <1>5, <1>6 DEF Quiet

\* A lidar's clock and the end of its last frame are numbers.
LEMMA Clocks ==
    ASSUME ShapeInv, NEW l \in Lidar
    PROVE  /\ Timestamp(l) \in 0..(MaxTime + ClockLead)
           /\ Timestamp(l) \in Int
           /\ syncEnds[l] \in Time \X Time /\ syncEnds[l][2] \in Int
<1>1. now \in 1..MaxTime
  BY DEF ShapeInv
<1>2. Timestamp(l) \in 0..(MaxTime + ClockLead)
  BY <1>1, PubHandlerAssumption DEF Timestamp
<1>3. syncEnds[l] \in Time \X Time
  BY DEF ShapeInv
<1>4. syncEnds[l][2] \in Time
  BY <1>3
<1>5. Time \subseteq Int
  BY PubHandlerAssumption DEF Time, NotYet
<1>6. Timestamp(l) \in Int
  BY <1>2, PubHandlerAssumption
<1>7. QED
  BY <1>2, <1>3, <1>4, <1>5, <1>6

\* The invariant survives them.
LEMMA QuietStep ==
    ASSUME PubInv, Quiet
    PROVE  PubInv'
<1>1. ShapeInv
  BY DEF PubInv
<1>2. /\ Raw' = Raw /\ now' \in 1..MaxTime /\ now <= now'
      /\ UNCHANGED <<received, cloud, lastPub, delivered, hostFrames, hostStart, syncEnds>>
  BY <1>1, QuietFrame DEF historyVars
<1>3. ShapeInv'
  BY <1>1, QuietFrame DEF ShapeInv, historyVars
<1>4. RateInv'
  <2>1. lastPub # NotYet => lastPub \in Int
    BY <1>1, PubHandlerAssumption DEF ShapeInv
  <2>2. now \in Int /\ now' \in Int /\ (hostStart = NotYet <=> lastPub = NotYet)
        /\ (hostStart # NotYet => lastPub = hostStart + hostFrames * Interval)
        /\ (hostStart # NotYet => lastPub <= now)
    BY <1>1, <1>2, PubHandlerAssumption DEF ShapeInv, PubInv, RateInv
  <2>3. hostStart # NotYet => lastPub <= now'
    BY <1>2, <2>1, <2>2
  <2>4. hostStart = NotYet => hostFrames = 0
    BY DEF PubInv, RateInv
  <2>5. QED
    BY <1>2, <2>2, <2>3, <2>4 DEF RateInv
<1>5. ConservedInv'
  BY <1>2 DEF PubInv, ConservedInv
<1>6. ASSUME NEW l \in Lidar
      PROVE  Timely(l, syncEnds[l][2], cloud[l], Raw, Timestamp(l)')
  <2>1. /\ syncEnds[l][2] \in Int /\ cloud[l] \in Seq(Point) /\ Raw \in Seq(SmallPacket)
        /\ Timestamp(l) \in Int
    <3>1. cloud[l] \in Seq(Point)
      BY <1>1 DEF ShapeInv
    <3>2. QED
      BY <3>1, <1>1, Clocks, RawQueue
  <2>2. Timestamp(l)' \in Int /\ Timestamp(l) <= Timestamp(l)'
    <3>1. now \in Int /\ now' \in Int /\ ClockLead \in Int
      BY <1>1, <1>2, PubHandlerAssumption DEF ShapeInv
    <3>2. PICK later \in Int : later = now' /\ now <= later
      BY <1>2, <3>1
    <3>3. now \in Int /\ ClockLead \in Int /\ now <= later
      BY <3>1, <3>2
    <3>4. Timestamp(l) = IF l \in Synced THEN now + ClockLead ELSE now
      BY DEF Timestamp
    <3>5. PICK stamp : stamp = Timestamp(l)'
      OBVIOUS
    <3>6. stamp = IF l \in Synced THEN later + ClockLead ELSE later
      BY <3>2, <3>5 DEF Timestamp
    <3>7. stamp \in Int /\ Timestamp(l) <= stamp
      BY <3>3, <3>4, <3>6
    <3>8. QED
      BY <3>5, <3>7
  <2>3. Timely(l, syncEnds[l][2], cloud[l], Raw, Timestamp(l))
    BY DEF PubInv, TimelyInv
  <2>4. QED
    BY <2>1, <2>2, <2>3, TimelyLater
<1>7. TimelyInv'
  BY <1>2, <1>6 DEF TimelyInv
<1>8. SpacedInv'
  BY <1>2 DEF PubInv, SpacedInv
<1>9. QED
  BY <1>3, <1>4, <1>5, <1>7, <1>8 DEF PubInv
-----------------------------------------------------------------------------
(* A packet arrives *)

\* A packet of a lidar with at most one point is a small packet.
LEMMA MakePacket ==
    ASSUME NEW k \in Lidar, NEW content \in Seq(Point), Len(content) <= 1
    PROVE  [lidar |-> k, content |-> content] \in SmallPacket
  BY DEF SmallPacket, Packet

\* What arrives, as one packet of lidar k that brings the next point or none.
LEMMA Arrival ==
    ASSUME ShapeInv, NEW k \in Lidar, OnPointCloud(k) \/ OnUnknownData(k)
    PROVE  \E p \in SmallPacket :
              /\ p.lidar = k /\ PushPacket(p)
              /\ \/ p.content = <<>> /\ received' = received
                 \/ /\ p.content # <<>>
                    /\ p.content[1].n = received[k] + 1 /\ p.content[1].time = Timestamp(k)
                    /\ received' = [received EXCEPT ![k] = @ + 1]
<1>1. CASE OnPointCloud(k)
  <2> DEFINE point == [n |-> received[k] + 1, time |-> Timestamp(k)]
             p == [lidar |-> k, content |-> <<point>>]
  <2>1. received[k] \in Nat /\ Timestamp(k) \in 0..(MaxTime + ClockLead)
    BY Clocks DEF ShapeInv
  <2>2. point \in Point
    BY <2>1 DEF Point
  <2>3. <<point>> \in Seq(Point) /\ Len(<<point>>) = 1 /\ <<point>>[1] = point /\ <<point>> # <<>>
    BY <2>2
  <2>4. p \in SmallPacket
    <3>1. Len(<<point>>) <= 1
      BY <2>3
    <3>2. QED
      BY <2>3, <3>1, MakePacket
  <2>5. PushPacket(p) /\ received' = [received EXCEPT ![k] = @ + 1]
    BY <1>1 DEF OnPointCloud
  <2>6. QED
    BY <2>3, <2>4, <2>5
<1>2. CASE OnUnknownData(k)
  <2> DEFINE p == [lidar |-> k, content |-> <<>>]
  <2>1. p \in SmallPacket
    BY EmptySeq DEF SmallPacket, Packet
  <2>2. PushPacket(p) /\ received' = received
    BY <1>2 DEF OnUnknownData
  <2>3. QED
    BY <2>1, <2>2
<1>3. QED
  BY <1>1, <1>2

\* What an arrival leaves alone.
LEMMA ArrivalFrame ==
    ASSUME NEW k \in Lidar, OnPointCloud(k) \/ OnUnknownData(k)
    PROVE  /\ isSync' \in BOOLEAN
           /\ UNCHANGED <<load, now, workerVars, observer, quit, uninit, historyVars>>
<1>1. isSync' \in BOOLEAN
  <2>1. CASE OnPointCloud(k)
    BY <2>1 DEF OnPointCloud
  <2>2. CASE OnUnknownData(k)
    BY <2>2 DEF OnUnknownData
  <2>3. QED
    BY <2>1, <2>2
<1>2. UNCHANGED <<load, now, workerVars, observer, quit, uninit, historyVars>>
  BY DEF OnPointCloud, OnUnknownData
<1>3. QED
  BY <1>1, <1>2

\* The invariant survives an arrival.
LEMMA ArrivalStep ==
    ASSUME PubInv, NEW k \in Lidar, OnPointCloud(k) \/ OnUnknownData(k)
    PROVE  PubInv'
<1>1. ShapeInv
  BY DEF PubInv
<1>2. PICK p \in SmallPacket :
              /\ p.lidar = k /\ PushPacket(p)
              /\ \/ p.content = <<>> /\ received' = received
                 \/ /\ p.content # <<>>
                    /\ p.content[1].n = received[k] + 1 /\ p.content[1].time = Timestamp(k)
                    /\ received' = [received EXCEPT ![k] = @ + 1]
  BY <1>1, Arrival
<1>3. /\ UNCHANGED <<load, now, worker, current, handlers, cloud, points, frame, lastPub,
                     observer, quit, uninit, delivered, hostFrames, hostStart, syncEnds>>
      /\ isSync' \in BOOLEAN
  BY ArrivalFrame DEF workerVars, historyVars
<1>4. Raw' = Append(Raw, p) /\ rawPackets' \in Seq(SmallPacket)
  BY <1>1, <1>2, <1>3, PushIsLast
<1>5. received' \in [Lidar -> Nat]
  <2>1. received' = received \/ received' = [received EXCEPT ![k] = @ + 1]
    BY <1>2
  <2>2. received \in [Lidar -> Nat]
    BY <1>1 DEF ShapeInv
  <2>3. QED
    BY <2>1, <2>2
<1>6. ShapeInv'
  BY <1>1, <1>3, <1>4, <1>5 DEF ShapeInv
<1>7. RateInv' /\ SpacedInv'
  BY <1>3 DEF PubInv, RateInv, SpacedInv
<1>8. /\ Raw \in Seq(SmallPacket)
      /\ \A l \in Lidar : /\ delivered[l] \in Seq(Nat) /\ cloud[l] \in Seq(Point)
                          /\ received[l] \in Nat
                          /\ Timestamp(l) \in Int /\ syncEnds[l][2] \in Int
  <2>1. \A l \in Lidar : /\ delivered[l] \in Seq(Nat) /\ cloud[l] \in Seq(Point)
                         /\ received[l] \in Nat
    BY <1>1 DEF ShapeInv
  <2>2. QED
    BY <2>1, <1>1, Clocks, RawQueue
<1>9. ASSUME NEW l \in Lidar
      PROVE  Kept(l, delivered[l], cloud[l], Append(Raw, p), received'[l])
  <2>1. Kept(l, delivered[l], cloud[l], Raw, received[l])
    BY DEF PubInv, ConservedInv
  <2>2. CASE p.lidar # l \/ p.content = <<>>
    <3>1. received'[l] = received[l]
      BY <1>1, <1>2, <2>2 DEF ShapeInv
    <3>2. Kept(l, delivered[l], cloud[l], Append(Raw, p), received[l])
      BY <1>8, <2>1, <2>2, KeptOtherPacket
    <3>3. QED
      BY <3>1, <3>2
  <2>3. CASE p.lidar = l /\ p.content # <<>>
    <3>1. received'[l] = received[l] + 1 /\ p.content[1].n = received[l] + 1
      BY <1>1, <1>2, <2>3 DEF ShapeInv
    <3>2. Kept(l, delivered[l], cloud[l], Append(Raw, p), received[l] + 1)
      BY <1>8, <2>1, <2>3, <3>1, KeptNextPoint
    <3>3. QED
      BY <3>1, <3>2
  <2>4. QED
    BY <2>2, <2>3
<1>10. ASSUME NEW l \in Lidar
       PROVE  Timely(l, syncEnds[l][2], cloud[l], Append(Raw, p), Timestamp(l))
  <2>1. Timely(l, syncEnds[l][2], cloud[l], Raw, Timestamp(l))
    BY DEF PubInv, TimelyInv
  <2>2. CASE p.lidar # l \/ p.content = <<>>
    BY <1>8, <2>1, <2>2, TimelyOtherPacket
  <2>3. CASE p.lidar = l /\ p.content # <<>>
    <3>1. p.content[1].time = Timestamp(l)
      BY <1>2, <2>3
    <3>2. QED
      BY <1>8, <2>1, <2>3, <3>1, TimelyNextPoint
  <2>4. QED
    BY <2>2, <2>3
<1>11. ConservedInv'
  BY <1>3, <1>4, <1>9 DEF ConservedInv
<1>12. TimelyInv'
  <2>1. ASSUME NEW l \in Lidar
        PROVE  Timestamp(l)' = Timestamp(l)
    BY <1>3 DEF Timestamp
  <2>2. QED
    BY <2>1, <1>3, <1>4, <1>10 DEF TimelyInv
<1>13. QED
  BY <1>6, <1>7, <1>11, <1>12 DEF PubInv
-----------------------------------------------------------------------------
(* RawDataProcess processes a packet *)

\* A packet's points extend the points of a handler.
LEMMA HoldingType ==
    ASSUME NEW k, NEW held \in Seq(Point), NEW p \in SmallPacket
    PROVE  Holding(k, held, p) \in Seq(Point)
  BY HoldingNothing, HoldingOneMore

\* The newest point of a frame has a time.
LEMMA FrameEnd ==
    ASSUME NEW held \in Seq(Point), SyncDue(held)
    PROVE  held # <<>> /\ held[Len(held)].time \in Time
<1>1. Len(held) \in Nat \ {0} /\ held # <<>>
  BY EmptySeq DEF SyncDue
<1>2. held[Len(held)] \in Point
  BY <1>1, ElementOfSeq
<1>3. QED
  BY <1>1, <1>2 DEF Point, Time

\* After a packet the points and the ends of frames still have their types.
LEMMA OutcomeType ==
    ASSUME ShapeInv, Process, NEW k \in Lidar
    PROVE  /\ cloud'[k] \in Seq(Point) /\ delivered'[k] \in Seq(Nat)
           /\ syncEnds'[k] \in Time \X Time
<1> DEFINE held == Holding(k, cloud[k], current)
<1>1. current \in SmallPacket /\ Outcome(k, held)
  BY ProcessOutcome
<1>2. cloud[k] \in Seq(Point) /\ delivered[k] \in Seq(Nat) /\ syncEnds[k] \in Time \X Time
  BY DEF ShapeInv
<1>3. held \in Seq(Point)
  BY <1>1, <1>2, HoldingType
<1>4. delivered[k] \o Numbers(held) \in Seq(Nat)
  BY <1>2, <1>3, NumbersOf, ConcatProperties
<1>5. SyncDue(held) => <<syncEnds[k][2], held[Len(held)].time>> \in Time \X Time
  BY <1>2, <1>3, FrameEnd
<1> HIDE DEF held
<1>6. cloud'[k] = held \/ cloud'[k] = <<>>
  BY <1>1 DEF Outcome
<1>7. delivered'[k] = delivered[k] \/ delivered'[k] = delivered[k] \o Numbers(held)
  BY <1>1 DEF Outcome
<1>8. \/ syncEnds'[k] = syncEnds[k]
      \/ SyncDue(held) /\ syncEnds'[k] = <<syncEnds[k][2], held[Len(held)].time>>
  BY <1>1 DEF Outcome
<1>9. QED
  BY <1>2, <1>3, <1>4, <1>5, <1>6, <1>7, <1>8, EmptySeq

\* A frame goes out lidar by lidar.
LEMMA PublishedDomain ==
    ASSUME NEW entries, PublishPointCloud(entries)
    PROVE  /\ delivered' = [l \in Lidar |-> delivered'[l]]
           /\ frame' = {}
<1> DEFINE After(l) == LET mine == {e \in frame \cup entries : e.lidar = l} IN
                       delivered[l] \o
                          (IF mine = {} THEN <<>>
                           ELSE LET content == (CHOOSE e \in mine : TRUE).content IN
                                [i \in 1..Len(content) |-> content[i].n])
<1>1. delivered' = [l \in Lidar |-> After(l)]
  BY DEF PublishPointCloud
<1>2. frame' = {}
  BY DEF PublishPointCloud, ResetFrame
<1> HIDE DEF After
<1>3. QED
  BY <1>1, <1>2

\* After a packet the points are still kept lidar by lidar, and frame_ is empty.
LEMMA ProcessDomains ==
    ASSUME ShapeInv, Process
    PROVE  /\ cloud' = [k \in Lidar |-> cloud'[k]]
           /\ points' \in [Lidar -> Seq(Point)]
           /\ delivered' = [k \in Lidar |-> delivered'[k]]
           /\ syncEnds' = [k \in Lidar |-> syncEnds'[k]]
           /\ frame' = {}
<1> DEFINE l == current.lidar
           clouds == [cloud EXCEPT ![l] = @ \o current.content]
<1>1. /\ cloud = [k \in Lidar |-> cloud[k]] /\ delivered = [k \in Lidar |-> delivered[k]]
      /\ syncEnds = [k \in Lidar |-> syncEnds[k]] /\ frame = {}
      /\ points \in [Lidar -> Seq(Point)] /\ cloud \in [Lidar -> Seq(Point)]
  BY DEF ShapeInv
<1>2. SyncTimer(l, clouds) \/ HostTimer(clouds)
  BY DEF Process
<1>3. clouds = [k \in Lidar |-> clouds[k]]
  BY <1>1
<1>4. ASSUME NEW k \in Lidar
      PROVE  clouds[k] \in Seq(Point)
  <2>1. current \in SmallPacket
    BY DEF ShapeInv, Process
  <2>2. clouds[k] = Holding(k, cloud[k], current)
    BY <1>1 DEF Holding
  <2>3. cloud[k] \in Seq(Point)
    BY <1>1
  <2>4. Holding(k, cloud[k], current) \in Seq(Point)
    BY <2>1, <2>3, HoldingType
  <2>5. QED
    BY <2>2, <2>4
<1> HIDE DEF l, clouds
<1>5. \/ NothingPublished(clouds)
      \/ \E taken, entries : TakePoints(taken, clouds) /\ PublishPointCloud(entries)
  BY <1>2 DEF SyncTimer, HostTimer
<1>6. syncEnds' = syncEnds \/ \E x : syncEnds' = [syncEnds EXCEPT ![l] = x]
  BY <1>2 DEF SyncTimer, HostTimer
<1>7. syncEnds' = [k \in Lidar |-> syncEnds'[k]]
  <2>1. CASE syncEnds' = syncEnds
    BY <2>1, <1>1
  <2>2. CASE \E x : syncEnds' = [syncEnds EXCEPT ![l] = x]
    BY <2>2, <1>1
  <2>3. QED
    BY <2>1, <2>2, <1>6
<1>8. CASE NothingPublished(clouds)
  BY <1>1, <1>3, <1>7, <1>8 DEF NothingPublished
<1>9. CASE \E taken, entries : TakePoints(taken, clouds) /\ PublishPointCloud(entries)
  <2>1. PICK taken, entries : TakePoints(taken, clouds) /\ PublishPointCloud(entries)
    BY <1>9
  <2>2. cloud' = [k \in Lidar |-> cloud'[k]]
    BY <2>1 DEF TakePoints
  <2>3. points' \in [Lidar -> Seq(Point)]
    <3>1. points' = [k \in Lidar |-> IF k \in taken THEN clouds[k] ELSE points[k]]
      BY <2>1 DEF TakePoints
    <3>2. QED
      BY <3>1, <1>1, <1>4
  <2>4. QED
    BY <2>1, <2>2, <2>3, <1>7, PublishedDomain
<1>10. QED
  BY <1>5, <1>8, <1>9

\* An interval later the count of host's frames is one more.
LEMMA NextFrame ==
    ASSUME NEW start \in Int, NEW frames \in Int
    PROVE  start + (frames + 1) * Interval = (start + frames * Interval) + Interval
  BY PubHandlerAssumption

\* CheckTimer keeps the rate of the frames of the host's clock.
LEMMA RateStep ==
    ASSUME ShapeInv, RateInv, Process
    PROVE  /\ RateInv'
           /\ lastPub' \in {NotYet} \cup 1..MaxTime
           /\ hostFrames' \in Nat /\ hostStart' \in {NotYet} \cup 1..MaxTime
<1> DEFINE l == current.lidar
           clouds == [cloud EXCEPT ![l] = @ \o current.content]
<1>1. now' = now /\ (SyncTimer(l, clouds) \/ HostTimer(clouds))
  BY DEF Process
<1>2. /\ now \in 1..MaxTime /\ lastPub \in {NotYet} \cup 1..MaxTime
      /\ hostFrames \in Nat /\ hostStart \in {NotYet} \cup 1..MaxTime
  BY DEF ShapeInv
<1> HIDE DEF l, clouds
<1>3. CASE UNCHANGED <<lastPub, hostFrames, hostStart>>
  BY <1>1, <1>2, <1>3 DEF RateInv
<1>4. CASE lastPub = NotYet /\ lastPub' = now /\ hostStart' = now /\ UNCHANGED hostFrames
  <2>1. hostFrames = 0
    BY <1>4 DEF RateInv
  <2>2. 0 * Interval = 0 /\ now \in Int /\ now # NotYet
    BY <1>2, PubHandlerAssumption DEF NotYet
  <2>3. hostFrames' = 0 /\ lastPub' = hostStart' + hostFrames' * Interval
    BY <1>4, <2>1, <2>2
  <2>4. lastPub' <= now' /\ hostStart' # NotYet /\ lastPub' # NotYet
    BY <1>1, <1>4, <2>2
  <2>5. QED
    BY <1>2, <1>4, <2>3, <2>4 DEF RateInv
<1>5. CASE /\ lastPub # NotYet /\ now - lastPub >= Interval
           /\ lastPub' = lastPub + Interval /\ hostFrames' = hostFrames + 1
           /\ UNCHANGED hostStart
  <2>1. /\ hostStart # NotYet /\ hostStart \in Int /\ lastPub \in Int /\ lastPub >= 1
        /\ lastPub = hostStart + hostFrames * Interval
    BY <1>2, <1>5, PubHandlerAssumption DEF RateInv, NotYet
  <2>2. /\ lastPub' = hostStart + (hostFrames + 1) * Interval
    BY <1>2, <1>5, <2>1, NextFrame
  <2>3. /\ lastPub + Interval \in Int /\ lastPub + Interval <= now /\ lastPub + Interval >= 1
    BY <1>2, <1>5, <2>1, PubHandlerAssumption
  <2>4. lastPub' \in 1..MaxTime /\ lastPub' <= now' /\ lastPub' # NotYet
    BY <1>1, <1>2, <1>5, <2>3, PubHandlerAssumption DEF NotYet
  <2>5. hostFrames' \in Nat
    BY <1>2, <1>5
  <2>6. QED
    BY <1>2, <1>5, <2>1, <2>2, <2>4, <2>5 DEF RateInv
<1>6. QED
  BY <1>1, <1>3, <1>4, <1>5 DEF SyncTimer, HostTimer, NextPublication

\* The invariant survives a packet.
LEMMA ProcessStep ==
    ASSUME PubInv, Process
    PROVE  PubInv'
<1>1. ShapeInv /\ RateInv
  BY DEF PubInv
<1>2. /\ worker = "process" /\ worker' = "loop" /\ current' = NoPacket
      /\ handlers' = handlers \cup {current.lidar}
      /\ UNCHANGED <<load, now, received, isSync, rawPackets, observer, quit, uninit>>
  BY DEF Process
<1>3. RateInv' /\ lastPub' \in {NotYet} \cup 1..MaxTime
      /\ hostFrames' \in Nat /\ hostStart' \in {NotYet} \cup 1..MaxTime
  BY <1>1, RateStep
<1>4. ShapeInv'
  <2>1. /\ cloud' \in [Lidar -> Seq(Point)] /\ points' \in [Lidar -> Seq(Point)]
        /\ delivered' \in [Lidar -> Seq(Nat)] /\ syncEnds' \in [Lidar -> Time \X Time]
        /\ frame' = {}
    BY <1>1, ProcessDomains, OutcomeType
  <2>2. handlers' \subseteq Lidar
    <3>1. current.lidar \in Lidar /\ handlers \subseteq Lidar
      BY <1>1, <1>2, OnePoint DEF ShapeInv
    <3>2. QED
      BY <3>1, <1>2
  <2>3. QED
    BY <1>1, <1>2, <1>3, <2>1, <2>2 DEF ShapeInv
<1>5. /\ Raw \in Seq(SmallPacket) /\ Raw # <<>> /\ Raw[1] = current
      /\ Raw' = Tail(Raw)
  <2>1. Raw' = rawPackets'
    BY <1>4, <1>2, RawPrimed
  <2>2. QED
    BY <2>1, <1>1, <1>2, RawQueue
<1>6. ASSUME NEW l \in Lidar
      PROVE  /\ Kept(l, delivered'[l], cloud'[l], Raw', received[l])
             /\ Timely(l, syncEnds'[l][2], cloud'[l], Raw', Timestamp(l))
             /\ Spaced(syncEnds'[l])
  <2> DEFINE held == Holding(l, cloud[l], current)
             rest == Tail(Raw)
  <2>1. current \in SmallPacket /\ Outcome(l, held)
    BY <1>1, ProcessOutcome
  <2>2. /\ delivered[l] \in Seq(Nat) /\ cloud[l] \in Seq(Point) /\ received[l] \in Nat
        /\ Timestamp(l) \in Int /\ syncEnds[l] \in Time \X Time /\ syncEnds[l][2] \in Int
    <3>1. delivered[l] \in Seq(Nat) /\ cloud[l] \in Seq(Point) /\ received[l] \in Nat
      BY <1>1 DEF ShapeInv
    <3>2. QED
      BY <3>1, <1>1, Clocks
  <2>3. held \in Seq(Point) /\ rest \in Seq(SmallPacket)
    BY <2>1, <2>2, <1>5, HoldingType, HeadTailProperties
  <2>4. Kept(l, delivered[l], held, rest, received[l])
    <3>1. Kept(l, delivered[l], cloud[l], Raw, received[l])
      BY DEF PubInv, ConservedInv
    <3>2. Kept(l, delivered[l], Holding(l, cloud[l], Raw[1]), Tail(Raw), received[l])
      BY <3>1, <2>2, <1>5, KeptProcessed
    <3>3. QED
      BY <3>2, <1>5
  <2>5. Timely(l, syncEnds[l][2], held, rest, Timestamp(l))
    <3>1. Timely(l, syncEnds[l][2], cloud[l], Raw, Timestamp(l))
      BY DEF PubInv, TimelyInv
    <3>2. Timely(l, syncEnds[l][2], Holding(l, cloud[l], Raw[1]), Tail(Raw), Timestamp(l))
      BY <3>1, <2>2, <1>5, TimelyProcessed
    <3>3. QED
      BY <3>2, <1>5
  <2>6. Spaced(syncEnds[l])
    BY DEF PubInv, SpacedInv
  <2> HIDE DEF held, rest
  <2>7. Kept(l, delivered[l] \o Numbers(held), <<>>, rest, received[l])
    BY <2>2, <2>3, <2>4, KeptCut
  <2>8. Raw' = rest
    BY <1>5 DEF rest
  <2>9. CASE cloud'[l] = held /\ delivered'[l] = delivered[l] /\ syncEnds'[l] = syncEnds[l]
    BY <2>4, <2>5, <2>6, <2>8, <2>9
  <2>10. CASE /\ cloud'[l] = <<>> /\ delivered'[l] = delivered[l] \o Numbers(held)
              /\ syncEnds'[l] = syncEnds[l]
    <3>1. Timely(l, syncEnds[l][2], <<>>, rest, Timestamp(l))
      BY <2>5, TimelyHostCut
    <3>2. QED
      BY <3>1, <2>6, <2>7, <2>8, <2>10
  <2>11. CASE /\ cloud'[l] = <<>> /\ delivered'[l] = delivered[l] \o Numbers(held)
              /\ SyncDue(held) /\ syncEnds'[l] = <<syncEnds[l][2], held[Len(held)].time>>
    <3>1. held # <<>>
      BY <2>3, <2>11, FrameEnd
    <3>2. Timely(l, held[Len(held)].time, <<>>, rest, Timestamp(l))
      BY <3>1, <2>2, <2>3, <2>5, TimelySyncCut
    <3>3. Spaced(<<syncEnds[l][2], held[Len(held)].time>>)
      BY <2>2, <2>3, <2>5, <2>6, <2>11, SpacedSyncCut
    <3>4. syncEnds'[l][2] = held[Len(held)].time
      BY <2>11
    <3>5. QED
      BY <3>2, <3>3, <3>4, <2>7, <2>8, <2>11
  <2>12. QED
    BY <2>1, <2>9, <2>10, <2>11 DEF Outcome
<1>7. ConservedInv'
  BY <1>2, <1>6 DEF ConservedInv
<1>8. TimelyInv'
  <2>1. ASSUME NEW l \in Lidar
        PROVE  Timestamp(l)' = Timestamp(l)
    BY <1>2 DEF Timestamp
  <2>2. QED
    BY <2>1, <1>6 DEF TimelyInv
<1>9. SpacedInv'
  BY <1>6 DEF SpacedInv
<1>10. QED
  BY <1>3, <1>4, <1>7, <1>8, <1>9 DEF PubInv

-----------------------------------------------------------------------------
(* The theorems *)

\* The invariant holds before the first packet.
LEMMA InitInv ==
    Init => PubInv
<1> SUFFICES ASSUME Init PROVE PubInv
  OBVIOUS
<1>1. 1 \in 1..MaxTime
  BY PubHandlerAssumption
<1>2. /\ <<>> \in Seq(Point) /\ <<>> \in Seq(Nat) /\ <<>> \in Seq(SmallPacket)
      /\ <<NotYet, NotYet>> \in Time \X Time
  BY EmptySeq DEF Time
<1>3. ShapeInv
  <2>1. /\ cloud \in [Lidar -> Seq(Point)] /\ points \in [Lidar -> Seq(Point)]
        /\ delivered \in [Lidar -> Seq(Nat)]
    BY <1>2 DEF Init, NoPoints
  <2>2. /\ received \in [Lidar -> Nat] /\ syncEnds \in [Lidar -> Time \X Time]
    BY <1>2 DEF Init
  <2>3. QED
    BY <1>1, <1>2, <2>1, <2>2 DEF Init, ShapeInv
<1>4. RateInv
  BY DEF Init, RateInv
<1>5. Raw = <<>> /\ Len(<<>>) = 0
  <2>1. Raw = rawPackets
    BY <1>3, RawQueue DEF Init
  <2>2. QED
    BY <2>1, EmptySeq DEF Init
<1>6. ASSUME NEW l \in Lidar
      PROVE  /\ Kept(l, delivered[l], cloud[l], Raw, received[l])
             /\ Timely(l, syncEnds[l][2], cloud[l], Raw, Timestamp(l))
             /\ Spaced(syncEnds[l])
  <2>1. /\ delivered[l] = <<>> /\ cloud[l] = <<>> /\ received[l] = 0
        /\ syncEnds[l] = <<NotYet, NotYet>>
    BY DEF Init, NoPoints
  <2>2. Bringing(l, <<>>) = {} /\ 1..Len(<<>>) = {} /\ (0 + 1)..0 = {}
    BY <1>5 DEF Bringing
  <2>3. Kept(l, <<>>, <<>>, <<>>, 0)
    BY <1>5, <2>2 DEF Kept
  <2>4. NotYet <= Timestamp(l)
    BY <1>3, Clocks, PubHandlerAssumption DEF NotYet
  <2>5. Timely(l, NotYet, <<>>, <<>>, Timestamp(l))
    BY <2>2, <2>4 DEF Timely
  <2>6. Spaced(<<NotYet, NotYet>>)
    BY DEF Spaced
  <2>7. QED
    BY <2>1, <2>3, <2>5, <2>6, <1>5
<1>7. QED
  BY <1>3, <1>4, <1>6 DEF PubInv, ConservedInv, TimelyInv, SpacedInv

\* Every reachable state satisfies the invariant.
THEOREM FramesInvariant == Spec => []PubInv
<1>1. PubInv /\ [Next]_vars => PubInv'
  <2> SUFFICES ASSUME PubInv, [Next]_vars PROVE PubInv'
    OBVIOUS
  <2>1. \/ Quiet \/ Process
        \/ \E l \in Lidar : OnPointCloud(l) \/ OnUnknownData(l)
    BY DEF Next, Worker, Quiet
  <2>2. QED
    BY <2>1, QuietStep, ProcessStep, ArrivalStep
<1>2. QED
  BY <1>1, InitInv, PTL DEF Spec

\* The variables of PubHandler keep their types, and a frame never holds more
\* entries than there are lidars.
THEOREM PubHandlerTypeCorrect == Spec => []TypeOK
<1>1. PubInv => TypeOK
  <2> SUFFICES ASSUME PubInv PROVE TypeOK
    OBVIOUS
  <2>1. ShapeInv
    BY DEF PubInv
  <2>2. rawPackets \in Seq(Packet) /\ current \in Packet \cup {NoPacket}
    <3>1. SmallPacket \subseteq Packet
      BY DEF SmallPacket
    <3>2. QED
      BY <3>1, <2>1, SeqMonotonic DEF ShapeInv
  <2>3. Cardinality(frame) < Cardinality(Lidar)
    <3>1. Cardinality(frame) = 0 /\ Cardinality(Lidar) \in Nat /\ Cardinality(Lidar) # 0
      BY <2>1, PubHandlerAssumption, FS_EmptySet, FS_CardinalityType DEF ShapeInv
    <3>2. QED
      BY <3>1
  <2>4. QED
    BY <2>1, <2>2, <2>3 DEF ShapeInv, TypeOK
<1>2. QED
  BY <1>1, FramesInvariant, PTL

\* No point is lost, doubled or overtaken between the SDK's callback and the frames
\* of StoragePointData, whichever kind of time the last packet carried.
THEOREM NoPointLost == Spec => []PointsConserved
<1>1. PubInv => PointsConserved
  <2> SUFFICES ASSUME PubInv, NEW l \in Lidar
               PROVE  LET kept == Len(delivered[l]) + Len(cloud[l]) IN
                      /\ \A i \in 1..Len(delivered[l]) : delivered[l][i] = i
                      /\ \A i \in 1..Len(cloud[l]) : cloud[l][i].n = Len(delivered[l]) + i
                      /\ {Waits(i).n : i \in Waiting(l)} = (kept + 1)..received[l]
                      /\ kept <= received[l]
                      /\ \A i, j \in Waiting(l) : i < j => Waits(i).n < Waits(j).n
    BY DEF PointsConserved
  <2>1. Waiting(l) = Bringing(l, Raw) /\ \A i : Waits(i) = Brought(Raw, i)
    BY DEF Waiting, Bringing, Waits, Brought
  <2>2. Kept(l, delivered[l], cloud[l], Raw, received[l])
    BY DEF PubInv, ConservedInv
  <2>3. QED
    BY <2>1, <2>2 DEF Kept
<1>2. QED
  BY <1>1, FramesInvariant, PTL

\* The frames cut by the host's clock take at least an interval each on the whole,
\* however late RawDataProcess looks at the clock.
THEOREM HostFramesKeepRate == Spec => []HostFrameRate
<1>1. PubInv => HostFrameRate
  <2> SUFFICES ASSUME PubInv, hostStart # NotYet
               PROVE  hostFrames * Interval <= now - hostStart
    BY DEF HostFrameRate
  <2>1. lastPub = hostStart + hostFrames * Interval /\ lastPub <= now
    BY DEF PubInv, RateInv
  <2>2. now \in Int /\ hostStart \in Int /\ hostFrames \in Int /\ Interval \in Int
    BY PubHandlerAssumption DEF PubInv, ShapeInv
  <2>3. PICK span \in Int : span = hostFrames * Interval
    BY <2>2
  <2>4. QED
    BY <2>1, <2>2, <2>3
<1>2. QED
  BY <1>1, FramesInvariant, PTL

\* Two synchronized frames of a lidar end an interval apart, even when the other
\* lidars' packets make the host's clock cut frames in between.
THEOREM SyncFramesKeepRate == Spec => []SyncFrameSpacing
<1>1. PubInv => SyncFrameSpacing
  BY DEF PubInv, SpacedInv, Spaced, SyncFrameSpacing
<1>2. QED
  BY <1>1, FramesInvariant, PTL
=============================================================================
