------------------------- MODULE LidarDistribution -------------------------
(***************************************************************************)
(* Lds and Lddc of the Livox driver: how point cloud packets and IMU       *)
(* samples get from the threads that produce them to the two poll threads  *)
(* that publish them, and how the driver stops.                            *)
(*                                                                         *)
(* There are two streams, "pcd" and "imu".  Each has one feeding thread    *)
(* (PubHandler's RawDataProcess thread for "pcd", the SDK's data thread    *)
(* for "imu"), one queue per lidar, one semaphore and one poll thread.     *)
(* The feeder signals the semaphore only when it reads its count as zero,  *)
(* without holding its mutex.  A poll thread takes one token and then      *)
(* visits every lidar in turn.  The destructor of DriverNode asks for the  *)
(* exit and joins the poll threads; it does not signal the semaphores.     *)
(*                                                                         *)
(* The "pcd" queue is the ring of LidarDataQueue, which implements a       *)
(* BoundedFifo; here only the number of queued packets matters.  A frame   *)
(* of several lidars is stored lidar by lidar, like a frame per lidar.     *)
(***************************************************************************)
EXTENDS Integers

CONSTANTS LidarCount,      \* lidar_count_: the poll threads visit 1..LidarCount
          QueueSize,       \* capacity of the ring
          Settings,        \* the formats and loads to start with
          AfterExit        \* bound: packets a stream delivers after the exit request

Stream == {"pcd", "imu"}

\* transfer_format_, and how many packets each stream delivers before the exit
Setting == [format: {"PointCloud2", "Custom", "PclPxyzi"}, load: [Stream -> Nat]]

ASSUME CountAssumption ==
    /\ LidarCount \in Nat /\ QueueSize \in Nat \ {0}
    /\ Settings \subseteq Setting /\ AfterExit \in [Stream -> Nat]

VARIABLES
    queue,      \* queue[s][l]: what waits for the poll thread of stream s
    sem,        \* the count of pcd_semaphore_ and imu_semaphore_
    sampling,   \* the lidars whose connect_state is kConnectStateSampling
    feedAt,     \* where the feeding thread of each stream is,
    feedLidar,  \* and the lidar whose packet it stores
    pollAt,     \* where the poll thread of each stream is,
    pollLidar,  \* and the lidar it visits
    format,     \* transfer_format_, which nothing changes
    exit,       \* request_exit_
    main,       \* where ~DriverNode is
    due,        \* packets the lidars still deliver (environment)
    skipped     \* history: IMU queues passed over because not yet sampling,
                \* kept until the exit

feedVars == <<feedAt, feedLidar>>
pollVars == <<pollAt, pollLidar>>
mainVars == <<format, exit, main>>
vars == <<queue, sem, sampling, feedVars, pollVars, mainVars, due, skipped>>

Lidar == 1..LidarCount
LidarIndex == 1..(LidarCount + 1)     \* where a loop over the lidars may be
FeedPoint == {"idle", "push", "nonempty", "count", "signal"}
PollPoint == {"check", "wait", "scan", "poll", "drain", "future", "done"}
MainPoint == {"running", "signalling", "joinPcd", "joinImu", "stopped"}

Init ==
    /\ queue = [s \in Stream |-> [l \in Lidar |-> 0]]
    /\ sem = [s \in Stream |-> 0]
    /\ sampling = {}
    /\ feedAt = [s \in Stream |-> "idle"] /\ feedLidar = [s \in Stream |-> 1]
    /\ pollAt = [s \in Stream |-> "check"] /\ pollLidar = [s \in Stream |-> 1]
    /\ exit = FALSE /\ main = "running"
    /\ \E setting \in Settings : format = setting.format /\ due = setting.load
    /\ skipped = {}

-----------------------------------------------------------------------------
(* Feeding threads: StoragePointData with PushLidarData, StorageImuData *)

FeedGoes(s, at) ==
    feedAt' = [feedAt EXCEPT ![s] = at] /\ UNCHANGED feedLidar

\* A packet of lidar l arrives.  A point cloud marks its lidar as sampling.
Arrive(s, l) ==
    /\ feedAt[s] = "idle" /\ due[s] > 0
    /\ feedAt' = [feedAt EXCEPT ![s] = "push"]
    /\ feedLidar' = [feedLidar EXCEPT ![s] = l]
    /\ due' = [due EXCEPT ![s] = @ - 1]
    /\ sampling' = IF s = "pcd" THEN sampling \cup {l} ELSE sampling
    /\ UNCHANGED <<queue, sem, pollVars, mainVars, skipped>>

NoRoom(s, l) == s = "pcd" /\ queue[s][l] = QueueSize

\* A full ring drops the packet; the IMU list has no limit.
StoreLidarData(s) ==
    LET l == feedLidar[s] IN
    /\ feedAt[s] = "push"
    /\ IF NoRoom(s, l)
       THEN FeedGoes(s, "count") /\ UNCHANGED queue
       ELSE FeedGoes(s, "nonempty") /\ queue' = [queue EXCEPT ![s][l] = @ + 1]
    /\ UNCHANGED <<sem, sampling, pollVars, mainVars, due, skipped>>

\* The poll thread may already have taken the packet.
TestNonempty(s) ==
    /\ feedAt[s] = "nonempty"
    /\ FeedGoes(s, IF queue[s][feedLidar[s]] = 0 THEN "idle" ELSE "count")
    /\ UNCHANGED <<queue, sem, sampling, pollVars, mainVars, due, skipped>>

\* Mutant: signals without looking at the count.
GetCountIgnored(s) ==
    /\ feedAt[s] = "count"
    /\ FeedGoes(s, "signal")
    /\ UNCHANGED <<queue, sem, sampling, pollVars, mainVars, due, skipped>>

\* Mutant: signals only a poll thread that is already asleep.
GetCountOfWaiters(s) ==
    /\ feedAt[s] = "count"
    /\ FeedGoes(s, IF sem[s] <= 0 /\ pollAt[s] = "wait" THEN "signal" ELSE "idle")
    /\ UNCHANGED <<queue, sem, sampling, pollVars, mainVars, due, skipped>>

GetCount(s) ==
    /\ feedAt[s] = "count"
    /\ FeedGoes(s, IF sem[s] <= 0 THEN "signal" ELSE "idle")
    /\ UNCHANGED <<queue, sem, sampling, pollVars, mainVars, due, skipped>>

Signal(s) ==
    /\ feedAt[s] = "signal"
    /\ FeedGoes(s, "idle")
    /\ sem' = [sem EXCEPT ![s] = @ + 1]
    /\ UNCHANGED <<queue, sampling, pollVars, mainVars, due, skipped>>

Feed(s) ==
    \/ \E l \in Lidar : Arrive(s, l)
    \/ StoreLidarData(s) \/ TestNonempty(s) \/ GetCount(s) \/ Signal(s)

\* An SDK callback answers the last open configuration command of lidar l.
ConfigComplete(l) ==
    /\ l \notin sampling
    /\ sampling' = sampling \cup {l}
    /\ UNCHANGED <<queue, sem, feedVars, pollVars, mainVars, due, skipped>>

-----------------------------------------------------------------------------
(* Poll threads: DistributePointCloudData and DistributeImuData in a loop *)

PollGoes(s, at) ==
    pollAt' = [pollAt EXCEPT ![s] = at] /\ UNCHANGED pollLidar

ScanFrom(s, l) ==
    /\ pollAt' = [pollAt EXCEPT ![s] = "scan"]
    /\ pollLidar' = [pollLidar EXCEPT ![s] = l]

\* Mutant: waits for a token whether or not the exit is requested.
CheckExitNever(s) ==
    /\ pollAt[s] = "check"
    /\ PollGoes(s, "wait")
    /\ UNCHANGED <<queue, sem, sampling, feedVars, mainVars, due, skipped>>

CheckExit(s) ==
    /\ pollAt[s] = "check"
    /\ PollGoes(s, IF exit THEN "future" ELSE "wait")
    /\ UNCHANGED <<queue, sem, sampling, feedVars, mainVars, due, skipped>>

Wait(s) ==
    /\ pollAt[s] = "wait" /\ sem[s] > 0
    /\ sem' = [sem EXCEPT ![s] = @ - 1]
    /\ ScanFrom(s, 1)
    /\ UNCHANGED <<queue, sampling, feedVars, mainVars, due, skipped>>

\* Lidars that are not sampling are passed over, whatever they have queued.
Scan(s) ==
    LET l == pollLidar[s] IN
    /\ pollAt[s] = "scan"
    /\ \/ l \notin Lidar /\ PollGoes(s, "future") /\ UNCHANGED skipped
       \/ /\ l \in Lidar \cap sampling /\ PollGoes(s, "poll")
          /\ skipped' = IF s = "imu" THEN skipped \ {l} ELSE skipped
       \/ /\ l \in Lidar \ sampling /\ ScanFrom(s, l + 1)
          /\ skipped' = IF s = "imu" /\ ~exit THEN skipped \cup {l} ELSE skipped
    /\ UNCHANGED <<queue, sem, sampling, feedVars, mainVars, due>>

\* while (!lds_->IsRequestExit() && !empty)
Poll(s) ==
    LET l == pollLidar[s] IN
    /\ pollAt[s] = "poll"
    /\ IF ~exit /\ queue[s][l] > 0 THEN PollGoes(s, "drain") ELSE ScanFrom(s, l + 1)
    /\ UNCHANGED <<queue, sem, sampling, feedVars, mainVars, due, skipped>>

\* The point cloud loop pops until the ring is empty, the exit request
\* notwithstanding; in ROS 2 the PCL format publishes and pops nothing.
DrainPointCloud ==
    LET l == pollLidar["pcd"] IN
    /\ pollAt["pcd"] = "drain"
    /\ IF format # "PclPxyzi" /\ queue["pcd"][l] > 0
       THEN queue' = [queue EXCEPT !["pcd"][l] = @ - 1] /\ UNCHANGED pollVars
       ELSE PollGoes("pcd", "poll") /\ UNCHANGED queue
    /\ UNCHANGED <<sem, sampling, feedVars, mainVars, due, skipped>>

\* PublishImuData pops one sample.
DrainImu ==
    /\ pollAt["imu"] = "drain"
    /\ queue' = [queue EXCEPT !["imu"][pollLidar["imu"]] = @ - 1]
    /\ PollGoes("imu", "poll")
    /\ UNCHANGED <<sem, sampling, feedVars, mainVars, due, skipped>>

\* future_.wait_for(0) after each round
TestFuture(s) ==
    /\ pollAt[s] = "future"
    /\ PollGoes(s, IF main \in {"running", "signalling"} THEN "check" ELSE "done")
    /\ UNCHANGED <<queue, sem, sampling, feedVars, mainVars, due, skipped>>

PollThread(s) ==
    \/ CheckExit(s) \/ Wait(s) \/ Scan(s) \/ Poll(s) \/ TestFuture(s)
    \/ s = "pcd" /\ DrainPointCloud
    \/ s = "imu" /\ DrainImu

-----------------------------------------------------------------------------
(* ~DriverNode *)

RequestExit ==
    /\ main = "running"
    /\ exit' = TRUE /\ main' = "signalling"
    /\ due' = AfterExit /\ skipped' = {}
    /\ UNCHANGED <<queue, sem, sampling, feedVars, pollVars, format>>

SetExitSignal ==
    /\ main = "signalling"
    /\ main' = "joinPcd"
    /\ UNCHANGED <<queue, sem, sampling, feedVars, pollVars, format, exit, due, skipped>>

Join ==
    /\ \/ main = "joinPcd" /\ pollAt["pcd"] = "done" /\ main' = "joinImu"
       \/ main = "joinImu" /\ pollAt["imu"] = "done" /\ main' = "stopped"
    /\ UNCHANGED <<queue, sem, sampling, feedVars, pollVars, format, exit, due, skipped>>

Next ==
    \/ \E s \in Stream : Feed(s) \/ PollThread(s)
    \/ \E l \in Lidar : ConfigComplete(l)
    \/ RequestExit \/ SetExitSignal \/ Join

Spec == Init /\ [][Next]_vars

\* The lidars keep streaming and every thread runs; nobody has to stop the
\* driver, but a destructor that has started runs on.
FairSpec ==
    /\ Spec
    /\ \A s \in Stream : WF_vars(Feed(s)) /\ WF_vars(PollThread(s))
    /\ WF_vars(SetExitSignal) /\ WF_vars(Join)

-----------------------------------------------------------------------------
(* Properties *)

TypeOK ==
    /\ queue \in [Stream -> [Lidar -> Nat]]
    /\ sem \in [Stream -> Nat]
    /\ sampling \subseteq Lidar /\ skipped \subseteq Lidar
    /\ feedAt \in [Stream -> FeedPoint] /\ feedLidar \in [Stream -> LidarIndex]
    /\ pollAt \in [Stream -> PollPoint] /\ pollLidar \in [Stream -> LidarIndex]
    /\ format \in {"PointCloud2", "Custom", "PclPxyzi"} /\ exit \in BOOLEAN /\ main \in MainPoint
    /\ due \in [Stream -> Nat]

\* Reading the count before signalling keeps at most one token although the
\* mutex is not held: the poll thread never runs a round for nothing.
OneToken == \A s \in Stream : sem[s] <= 1

\* The poll thread of stream s will still come to lidar l in this round.
WillVisit(s, l) ==
    pollAt[s] \in {"scan", "poll", "drain"} /\ pollLidar[s] <= l

\* The feeder of stream s has stored a packet of lidar l and has yet to see
\* whether the poll thread needs a signal.
WillSignal(s, l) ==
    feedLidar[s] = l /\ feedAt[s] \in {"nonempty", "count", "signal"}

\* No wakeup is lost in the unlocked test of the semaphore: a stored packet is
\* covered by a token, by the round under way or by a signal still to come.
\* IMU samples may be left behind, but only by a round that passed over their
\* lidar before it was sampling.
NoLostWakeup ==
    ~exit => \A s \in Stream, l \in Lidar :
        queue[s][l] > 0 => \/ sem[s] > 0
                           \/ WillVisit(s, l)
                           \/ WillSignal(s, l)
                           \/ s = "imu" /\ l \in skipped

\* A stored point cloud packet is published unless the driver is stopped; the
\* PCL format keeps it for ever.
PacketsAreServed ==
    \A l \in Lidar : queue["pcd"][l] > 0 /\ format # "PclPxyzi"
                      ~> queue["pcd"][l] = 0 \/ exit

\* ~DriverNode returns as long as both streams deliver once more: without a
\* last packet the poll threads sleep in Wait and are never joined.
DriverStops == exit ~> main = "stopped"
=============================================================================
