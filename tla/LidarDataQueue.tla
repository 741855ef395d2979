-------------------------- MODULE LidarDataQueue ---------------------------
(***************************************************************************)
(* The ring of StoragePackets between PubHandler's thread, which pushes    *)
(* (Lds::PushLidarData, QueuePushAny), and the point cloud poll thread,    *)
(* which pops (QueuePop).  No lock protects it: the two threads share      *)
(* rd_idx, wr_idx and the slots, and each program point at which the other *)
(* thread may interleave is a step of its own.  The indices run freely and *)
(* wrap at IndexModulus = 2^IndexBits; a slot is an index masked to  *)
(* the capacity.  A packet is written and read in two steps, its header    *)
(* (base_time, points_num) and its points, so a torn packet is visible.    *)
(* Stores are seen in program order (volatile indices on x86-64).          *)
(***************************************************************************)
EXTENDS Integers, Sequences, FiniteSetsExt

CONSTANTS Content,        \* what tells packets apart
          Blank,          \* the content of a slot or a variable not yet set
          RequestedSize,  \* CalculatePacketQueueSize(publish_freq)
          IndexBits       \* 32: the indices and sizes are uint32_t

-----------------------------------------------------------------------------
(* Sizing of the ring *)

IndexModulus == 2^IndexBits

\* The first power of two that is large enough, or else the largest one.
RoundupPowerOf2(size) ==
    LET fits == {i \in 0..(IndexBits - 1) : size <= 2^i}
    IN  IF fits = {} THEN 2^(IndexBits - 1) ELSE 2^Min(fits)

\* InitQueue rounds the requested size up; mask = Capacity - 1
Capacity == RoundupPowerOf2(RequestedSize)

ASSUME ContentAssumption == Blank \notin Content

\* A power of two below IndexModulus divides it at least twice.
ASSUME CapacityAssumption ==
    /\ Capacity \in Nat \ {0}
    /\ IndexModulus \in Nat
    /\ \E k \in 2..IndexModulus : IndexModulus = k * Capacity

-----------------------------------------------------------------------------
VARIABLES
    storage,    \* storage_packet: [header, points] per slot
    rd_idx,     \* written by the poll thread only
    wr_idx,     \* written by the pushing thread only
    prod,       \* where the pushing thread is
    pushing,    \* the packet it pushes (lidar_data)
    cons,       \* where the poll thread is
    popping,    \* the packet it has copied so far (storage_packet, a local)
    popped      \* the last packet QueuePop returned

ringVars == <<storage, rd_idx, wr_idx, prod, pushing, cons, popping, popped>>

Slot == 0..(Capacity - 1)
Index == 0..(IndexModulus - 1)
AnyContent == Content \cup {Blank}
Packet == [header : AnyContent, points : AnyContent]
Whole(c) == [header |-> c, points |-> c]

ProdPoint == {"idle", "check", "header", "points", "advance"}
ConsPoint == {"idle", "header", "points", "advance"}

SlotOf(i) == i % Capacity
QueueUsedSize == (wr_idx - rd_idx) % IndexModulus
QueueIsFullOneLate == QueueUsedSize > Capacity     \* mutant
QueueIsFull == QueueUsedSize > Capacity - 1
QueueIsEmpty == rd_idx = wr_idx

RingInit ==
    /\ storage = [s \in Slot |-> Whole(Blank)]
    /\ rd_idx = 0 /\ wr_idx = 0
    /\ prod = "idle" /\ pushing = Blank
    /\ cons = "idle" /\ popping = Whole(Blank) /\ popped = Whole(Blank)

-----------------------------------------------------------------------------
(* The pushing thread *)

prodVars == <<storage, wr_idx, prod, pushing>>
consVars == <<rd_idx, cons, popping, popped>>

PushBegin(c) ==
    /\ prod = "idle"
    /\ prod' = "check" /\ pushing' = c
    /\ UNCHANGED <<storage, wr_idx>> /\ UNCHANGED consVars

\* Mutant: a full queue overwrites.
CheckFullOverwrites ==
    /\ prod = "check" /\ prod' = "header"
    /\ UNCHANGED <<storage, wr_idx, pushing>> /\ UNCHANGED consVars

\* A full queue drops the new packet.
CheckFull ==
    /\ prod = "check"
    /\ prod' = IF QueueIsFull THEN "idle" ELSE "header"
    /\ UNCHANGED <<storage, wr_idx, pushing>> /\ UNCHANGED consVars

PushHeader ==
    /\ prod = "header"
    /\ storage' = [storage EXCEPT ![SlotOf(wr_idx)].header = pushing]
    /\ prod' = "points"
    /\ UNCHANGED <<wr_idx, pushing>> /\ UNCHANGED consVars

PushPoints ==
    /\ prod = "points"
    /\ storage' = [storage EXCEPT ![SlotOf(wr_idx)].points = pushing]
    /\ prod' = "advance"
    /\ UNCHANGED <<wr_idx, pushing>> /\ UNCHANGED consVars

PushAdvance ==
    /\ prod = "advance"
    /\ wr_idx' = (wr_idx + 1) % IndexModulus
    /\ prod' = "idle"
    /\ UNCHANGED <<storage, pushing>> /\ UNCHANGED consVars

-----------------------------------------------------------------------------
(* The poll thread *)

PopBegin ==
    /\ cons = "idle" /\ ~QueueIsEmpty
    /\ cons' = "header"
    /\ UNCHANGED <<rd_idx, popping, popped>> /\ UNCHANGED prodVars

PopHeader ==
    /\ cons = "header"
    /\ popping' = [popping EXCEPT !.header = storage[SlotOf(rd_idx)].header]
    /\ cons' = "points"
    /\ UNCHANGED <<rd_idx, popped>> /\ UNCHANGED prodVars

PopPoints ==
    /\ cons = "points"
    /\ popping' = [popping EXCEPT !.points = storage[SlotOf(rd_idx)].points]
    /\ cons' = "advance"
    /\ UNCHANGED <<rd_idx, popped>> /\ UNCHANGED prodVars

QueuePopUpdate ==
    /\ cons = "advance"
    /\ rd_idx' = (rd_idx + 1) % IndexModulus
    /\ popped' = popping
    /\ cons' = "idle"
    /\ UNCHANGED popping /\ UNCHANGED prodVars

-----------------------------------------------------------------------------
PushLidarData ==
    \/ \E c \in Content : PushBegin(c)
    \/ CheckFull \/ PushHeader \/ PushPoints \/ PushAdvance

QueuePop == PopBegin \/ PopHeader \/ PopPoints \/ QueuePopUpdate

RingNext == PushLidarData \/ QueuePop

RingSpec == RingInit /\ [][RingNext]_ringVars

-----------------------------------------------------------------------------
(* Properties *)

RingTypeOK ==
    /\ storage \in [Slot -> Packet]
    /\ rd_idx \in Index /\ wr_idx \in Index
    /\ prod \in ProdPoint /\ cons \in ConsPoint
    /\ pushing \in AnyContent
    /\ popping \in Packet /\ popped \in Packet

\* The unlocked ring never lets the two threads touch one slot at a time:
\* while QueuePushAny fills a slot, QueuePop copies from a different one,
\* also when the free-running indices have wrapped.
NoSlotShared ==
    (prod \in {"header", "points", "advance"} /\ cons # "idle")
        => SlotOf(wr_idx) # SlotOf(rd_idx)

\* The contents of the ring, oldest packet first
Contents == [i \in 1..QueueUsedSize |-> storage[SlotOf(rd_idx + i - 1)]]

\* The ring is a bounded queue of whole packets: QueuePop returns the packets
\* QueuePushAny accepted, each once, in order, and never a torn one.
Fifo == INSTANCE BoundedFifo
          WITH Packet <- {Whole(c) : c \in Content}, Capacity <- Capacity,
               NoPacket <- Whole(Blank), items <- Contents, taken <- popped
QueueImplementsFifo == Fifo!FifoSpec
=============================================================================
