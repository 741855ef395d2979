---------------------------- MODULE BoundedFifo ----------------------------
(***************************************************************************)
(* What the packet queue between the frame assembler and the publisher     *)
(* promises: a first-in first-out buffer of at most Capacity whole         *)
(* packets.  A packet is accepted only while there is room; what is taken  *)
(* is the oldest packet, unchanged, and it is taken once.                  *)
(***************************************************************************)
EXTENDS Naturals, Sequences

CONSTANTS Packet,     \* the whole packets that may be put
          Capacity,   \* how many packets fit
          NoPacket    \* nothing has been taken yet

VARIABLES items,      \* the packets in the queue, oldest first
          taken       \* the packet taken last

fifoVars == <<items, taken>>

FifoInit == items = <<>> /\ taken = NoPacket

Put(p) ==
    /\ Len(items) < Capacity
    /\ items' = Append(items, p)
    /\ UNCHANGED taken

Take ==
    /\ items # <<>>
    /\ taken' = Head(items)
    /\ items' = Tail(items)

FifoNext == Take \/ \E p \in Packet : Put(p)

FifoSpec == FifoInit /\ [][FifoNext]_fifoVars
=============================================================================
