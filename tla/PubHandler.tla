---------------------------- MODULE PubHandler -----------------------------
(***************************************************************************)
(* PubHandler of the Livox driver: the SDK's data thread queues the raw    *)
(* packets of all lidars, and the thread of RawDataProcess turns them into *)
(* points, one LidarPubHandler per lidar, and cuts the points into frames. *)
(* CheckTimer cuts in one of two ways.  While the last packet received,    *)
(* from whatever lidar, carried a synchronized time (is_timestamp_sync_),  *)
(* a lidar's points go out when its newest point lies on a multiple of the *)
(* publish interval; otherwise the points of all lidars go out when the    *)
(* host's clock has passed the interval.                                   *)
(*                                                                         *)
(* Times are in milliseconds.  A packet stands for one point, or for none  *)
(* if its data type is unknown; the n-th point of a lidar is numbered n.   *)
(* A synchronized lidar stamps its packets with a clock of its own, the    *)
(* packets of the others are stamped by the host when they arrive.  The    *)
(* frames go to Lds::StoragePointData, which LidarDistribution describes.  *)
(***************************************************************************)
EXTENDS Integers, Sequences, FiniteSets

CONSTANTS Lidar,
          Synced,       \* the lidars that send a synchronized time
          ClockLead,    \* by how much their clock leads the host's
          Interval,     \* publish_interval_, in milliseconds
          MaxTime,      \* bound: the host's clock
          Loads         \* bound: what each lidar may send, and whether the
                        \* destructor runs

ASSUME PubHandlerAssumption ==
    /\ IsFiniteSet(Lidar) /\ Lidar # {} /\ Synced \subseteq Lidar
    /\ ClockLead \in Nat
    /\ Interval \in Nat /\ Interval > 1  \* publish_freq is at most 100 Hz
    /\ MaxTime \in Nat \ {0}
    /\ Loads \subseteq [points : [Lidar -> Nat], stops : BOOLEAN]

VARIABLES
    load,       \* the load, which nothing changes
    now,        \* the host's clock
    received,   \* received[l]: points of l that arrived
    isSync,     \* is_timestamp_sync_
    rawPackets, \* raw_packet_queue_
    worker,     \* where RawDataProcess is,
    current,    \* and the packet it has taken
    handlers,   \* keys of lidar_process_handlers_
    cloud,      \* cloud[l]: points_clouds_ of the handler of l
    points,     \* points[l]: points_[l], what the last frame of l pointed to
    frame,      \* frame_: the entries below lidar_num
    lastPub,    \* last_pub_time_, NotYet before the first call
    observer,   \* whether the SDK delivers packets
    quit,       \* is_quit_
    uninit,     \* where Uninit is
    delivered,  \* history: numbers of the points of each lidar handed on,
    hostFrames, \* frames cut by the host's clock, and when its count began,
    hostStart,
    syncEnds    \* end of the last two synchronized frames of each lidar

historyVars == <<delivered, hostFrames, hostStart, syncEnds>>
workerVars == <<worker, current, handlers, cloud, points, frame, lastPub>>
vars == <<load, now, received, isSync, rawPackets, workerVars, observer, quit,
          uninit, historyVars>>

NotYet == -1
Point == [n : Nat \ {0}, time : 0..(MaxTime + ClockLead)]
Packet == [lidar : Lidar, content : Seq(Point)]
NoPacket == <<>>
NoPoints == [l \in Lidar |-> <<>>]

Init ==
    /\ load \in Loads
    /\ now = 1 /\ received = [l \in Lidar |-> 0] /\ isSync = FALSE
    /\ rawPackets = <<>>
    /\ worker = "loop" /\ current = NoPacket
    /\ handlers = {} /\ cloud = NoPoints /\ points = NoPoints
    /\ frame = {} /\ lastPub = NotYet
    /\ observer = TRUE /\ quit = FALSE /\ uninit = "no"
    /\ delivered = NoPoints
    /\ hostFrames = 0 /\ hostStart = NotYet
    /\ syncEnds = [l \in Lidar |-> <<NotYet, NotYet>>]

Tick ==
    /\ now < MaxTime /\ now' = now + 1
    /\ UNCHANGED <<load, received, isSync, rawPackets, workerVars, observer,
                   quit, uninit, historyVars>>

----------------------------------------------------------------------------
\* The SDK's data thread: OnLivoxLidarPointCloudCallback.

Timestamp(l) == IF l \in Synced THEN now + ClockLead ELSE now

PushPacket(packet) == rawPackets' = Append(rawPackets, packet)

OnPointCloud(l) ==
    /\ observer /\ received[l] < load.points[l]
    /\ isSync' = (l \in Synced)
    /\ received' = [received EXCEPT ![l] = @ + 1]
    /\ PushPacket([lidar |-> l,
                   content |-> <<[n |-> received[l] + 1, time |-> Timestamp(l)]>>])
    /\ UNCHANGED <<load, now, workerVars, observer, quit, uninit, historyVars>>

\* A data type the handler does not know; bounded to an empty queue.
OnUnknownData(l) ==
    /\ observer /\ rawPackets = <<>>
    /\ isSync' = (l \in Synced)
    /\ PushPacket([lidar |-> l, content |-> <<>>])
    /\ UNCHANGED <<load, now, received, workerVars, observer, quit, uninit, historyVars>>

\* An IMU sample only leaves its kind of time behind.
OnImuData(l) ==
    /\ observer
    /\ isSync' = (l \in Synced)
    /\ UNCHANGED <<load, now, received, rawPackets, workerVars, observer, quit,
                   uninit, historyVars>>

----------------------------------------------------------------------------
\* CheckTimer, after a packet of lidar l has made the clouds the given ones.

\* What a frame takes from a lidar; the base time is that of its first point.
Entry(l, clouds) ==
    [lidar |-> l, content |-> clouds[l]]

\* points_[l].clear() and the swap of GetLidarPointClouds.
TakePoints(taken, clouds) ==
    /\ cloud' = [l \in Lidar |-> IF l \in taken THEN <<>> ELSE clouds[l]]
    /\ points' = [l \in Lidar |-> IF l \in taken THEN clouds[l] ELSE points[l]]

\* Mutant: lidar_num is not reset after the frame went out.
KeepFrame(entries) == entries
ResetFrame(entries) == {}

\* PublishPointCloud: an empty frame is turned down by the callback.
PublishPointCloud(entries) ==
    /\ frame' = ResetFrame(frame \cup entries)
    /\ delivered' = [l \in Lidar |->
          LET mine == {e \in frame \cup entries : e.lidar = l} IN
          delivered[l] \o
             (IF mine = {} THEN <<>>
              ELSE LET content == (CHOOSE e \in mine : TRUE).content IN
                   [i \in 1..Len(content) |-> content[i].n])]

NothingPublished(clouds) ==
    cloud' = clouds /\ UNCHANGED <<points, frame, delivered>>

\* diff < publish_interval_tolerance_ in unsigned arithmetic: a point older
\* than the base gives a huge difference.
\* Mutant: the length of the frame is not tested.
NeverTooShort(base, recent) == FALSE
TooShort(base, recent) == recent >= base /\ recent - base < Interval - 1

OnBoundary(recent) == recent % Interval = 0 /\ recent # 0

SyncDue(content) ==
    /\ content # <<>>
    /\ OnBoundary(content[Len(content)].time)
    /\ ~ TooShort(content[1].time, content[Len(content)].time)

SyncTimer(l, clouds) ==
    /\ IF SyncDue(clouds[l])
       THEN /\ TakePoints({l}, clouds)
            /\ PublishPointCloud({Entry(l, clouds)})
            /\ syncEnds' = [syncEnds EXCEPT
                               ![l] = <<@[2], clouds[l][Len(clouds[l])].time>>]
       ELSE NothingPublished(clouds) /\ UNCHANGED syncEnds
    /\ UNCHANGED <<lastPub, hostFrames, hostStart>>

\* Mutant: last_pub_time_ stays when a frame is due.
NextPublicationSame == lastPub
NextPublication == lastPub + Interval

HostTimer(clouds) ==
    /\ \/ /\ lastPub = NotYet
          /\ lastPub' = now /\ hostStart' = now
          /\ NothingPublished(clouds) /\ UNCHANGED hostFrames
       \/ /\ lastPub # NotYet /\ now - lastPub < Interval
          /\ NothingPublished(clouds) /\ UNCHANGED <<lastPub, hostFrames, hostStart>>
       \/ /\ lastPub # NotYet /\ now - lastPub >= Interval
          /\ lastPub' = NextPublication
          /\ TakePoints(handlers', clouds)
          /\ PublishPointCloud({Entry(l, clouds) : l \in {k \in handlers' : clouds[k] # <<>>}})
          /\ hostFrames' = hostFrames + 1 /\ UNCHANGED hostStart
    /\ UNCHANGED syncEnds

----------------------------------------------------------------------------
\* RawDataProcess.

LoopTop ==
    /\ worker = "loop"
    /\ worker' = IF quit THEN "done" ELSE "locked"
    /\ UNCHANGED <<load, now, received, isSync, rawPackets, current, handlers,
                   cloud, points, frame, lastPub, observer, quit, uninit, historyVars>>

Take ==
    /\ rawPackets # <<>>
    /\ current' = Head(rawPackets) /\ rawPackets' = Tail(rawPackets)
    /\ worker' = "process"

LockedLook ==
    /\ worker = "locked"
    /\ \/ Take
       \/ /\ rawPackets = <<>> /\ worker' = "waiting"
          /\ UNCHANGED <<rawPackets, current>>
    /\ UNCHANGED <<load, now, received, isSync, handlers, cloud, points, frame, lastPub,
                   observer, quit, uninit, historyVars>>

\* wait_for returns when it was notified, and after 500 ms in any case.
Wake ==
    /\ worker = "waiting"
    /\ \/ Take
       \/ rawPackets = <<>> /\ worker' = "loop" /\ UNCHANGED <<rawPackets, current>>
   
    /\ UNCHANGED <<load, now, received, isSync, handlers, cloud, points, frame, lastPub,
                   observer, quit, uninit, historyVars>>

\* The handler of the packet's lidar is made when needed and gets the points;
\* then CheckTimer looks which kind of time was received last.
Process ==
    /\ worker = "process"
    /\ handlers' = handlers \cup {current.lidar}
    /\ LET l == current.lidar
           clouds == [cloud EXCEPT ![l] = @ \o current.content] IN
       IF isSync THEN SyncTimer(l, clouds) ELSE HostTimer(clouds)
    /\ worker' = "loop" /\ current' = NoPacket
    /\ UNCHANGED <<load, now, received, isSync, rawPackets, observer, quit, uninit>>

----------------------------------------------------------------------------
\* Uninit, from the destructor.

RemoveObserver ==
    /\ load.stops /\ uninit = "no" /\ uninit' = "removed" /\ observer' = FALSE
    /\ UNCHANGED <<load, now, received, isSync, rawPackets, workerVars, quit,
                   historyVars>>

RequestExit ==
    /\ uninit = "removed" /\ uninit' = "joining" /\ quit' = TRUE
    /\ UNCHANGED <<load, now, received, isSync, rawPackets, workerVars, observer,
                   historyVars>>

Join ==
    /\ uninit = "joining" /\ worker = "done" /\ uninit' = "done"
    /\ UNCHANGED <<load, now, received, isSync, rawPackets, workerVars, observer,
                   quit, historyVars>>

Worker == LoopTop \/ LockedLook \/ Wake \/ Process

Next ==
    \/ Tick \/ Worker \/ RemoveObserver \/ RequestExit \/ Join
    \/ \E l \in Lidar : OnPointCloud(l) \/ OnUnknownData(l) \/ OnImuData(l)

Spec == Init /\ [][Next]_vars

----------------------------------------------------------------------------
\* The types of all variables; a frame has room for one entry per lidar.
TypeOK ==
    /\ load \in Loads
    /\ now \in 1..MaxTime /\ received \in [Lidar -> Nat]
    /\ isSync \in BOOLEAN
    /\ rawPackets \in Seq(Packet)
    /\ worker \in {"loop", "locked", "waiting", "process", "done"}
    /\ current \in Packet \cup {NoPacket}
    /\ handlers \subseteq Lidar
    /\ cloud \in [Lidar -> Seq(Point)] /\ points \in [Lidar -> Seq(Point)]
    /\ \A e \in frame : e.lidar \in Lidar
    /\ Cardinality(frame) < Cardinality(Lidar)
    /\ lastPub \in {NotYet} \cup 1..MaxTime
    /\ observer \in BOOLEAN /\ quit \in BOOLEAN
    /\ uninit \in {"no", "removed", "joining", "done"}

\* The packets on their way, the one RawDataProcess has taken first, and those with a
\* point of lidar l.
Raw == (IF worker = "process" THEN <<current>> ELSE <<>>) \o rawPackets
Waiting(l) == {i \in 1..Len(Raw) : Raw[i].lidar = l /\ Raw[i].content # <<>>}
Waits(i) == Raw[i].content[1]

\* No point is lost, doubled or overtaken on its way from the SDK to the
\* frames, whichever kind of time cuts them: what was delivered, what waits in
\* the handler and what is still in the queue are the points received, in order.
PointsConserved ==
    \A l \in Lidar :
        LET kept == Len(delivered[l]) + Len(cloud[l]) IN
        /\ \A i \in 1..Len(delivered[l]) : delivered[l][i] = i
        /\ \A i \in 1..Len(cloud[l]) : cloud[l][i].n = Len(delivered[l]) + i
        /\ {Waits(i).n : i \in Waiting(l)} = (kept + 1)..received[l] /\ kept <= received[l]
        /\ \A i, j \in Waiting(l) : i < j => Waits(i).n < Waits(j).n

\* The frames cut by the host's clock never come faster than publish_freq on
\* the whole: n of them take at least n intervals.
HostFrameRate ==
    hostStart # NotYet => hostFrames * Interval <= now - hostStart

\* The synchronized frames of a lidar end at least an interval apart, even when
\* another lidar makes the frames follow the host's clock in between.
SyncFrameSpacing ==
    \A l \in Lidar : syncEnds[l][1] # NotYet =>
        syncEnds[l][2] - syncEnds[l][1] >= Interval

============================================================================
