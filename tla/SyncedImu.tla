----------------------------- MODULE SyncedImu -----------------------------
(***************************************************************************)
(* The united IMU topic of the RealSense wrapper.  The threads of the      *)
(* motion sensor's streams pass every sample to imu_callback_sync, which   *)
(* stores the newest acceleration and publishes one message for each       *)
(* sample of the gyroscope.  Two other threads use the publisher, which no *)
(* mutex guards: the monitoring thread resets and replaces it when         *)
(* profiles change, and the threads of the video sensors pause and resume  *)
(* it around every image.                                                  *)
(*                                                                         *)
(* Two parts of the classes are never used.  The sensor's callback passes  *)
(* no sync_method, so the acceleration is copied, whatever                 *)
(* unite_imu_method says, and never interpolated.  And nobody calls        *)
(* SyncedImuPublisher::Enable, so Pause returns at once, nothing is held   *)
(* back, and Resume finds nothing to publish.                              *)
(*                                                                         *)
(* Samples are numbered in the order in which they arrive; the number is   *)
(* also their time.  The mutex and the last acceleration are static, they  *)
(* outlive the streams.                                                    *)
(***************************************************************************)
EXTENDS Integers, Sequences

CONSTANTS VideoThread,  \* the threads that call frame_callback
          MaxEvents,    \* bound: samples
          MaxChanges    \* bound: changes of unite_imu_method, subscribers and profiles

ASSUME SyncedImuAssumption == MaxEvents \in Nat /\ MaxChanges \in Nat

Stream == {"accel", "gyro"}

VARIABLES
    unite,      \* _imu_sync_method, set by unite_imu_method
    streams,    \* _is_accel_enabled, _is_gyro_enabled
    publisher,  \* whether _synced_imu_publisher is set
    subscribed, \* whether the topic has a subscriber
    monitor,    \* the monitoring thread, as far as the motion sensor goes
    callback,   \* the callback of each stream, and its sample
    mutex,      \* who holds m_mutex
    accelData,  \* _accel_data of FillImuData_Copy, 0 while unset
    imuMsgs,    \* the message that imu_callback_sync has yet to publish
    video,      \* where each video thread is
    published,  \* history: the messages that went out
    lastAccel,  \* history: the newest acceleration with a subscriber,
    due,        \* and the messages that the gyroscope's samples called for
    crashed,    \* the process died of a bad access
    now, imuChanges

monitorVars == <<streams, publisher, monitor>>
historyVars == <<published, lastAccel, due>>
boundVars == <<now, imuChanges>>
imuVars == <<unite, subscribed, monitorVars, callback, mutex, accelData, imuMsgs, video, crashed,
             historyVars, boundVars>>

NoSample == [at |-> "idle", time |-> 0]

ImuInit ==
    /\ unite \in {"none", "copy", "linear"} /\ subscribed = FALSE
    /\ streams = {} /\ publisher = FALSE /\ monitor = "idle"
    /\ callback = [s \in Stream |-> NoSample] /\ mutex = "free"
    /\ accelData = 0 /\ imuMsgs = <<>>
    /\ video = [v \in VideoThread |-> "idle"] /\ crashed = FALSE
    /\ published = <<>> /\ lastAccel = 0 /\ due = <<>>
    /\ now = 0 /\ imuChanges = 0

Change ==
    /\ ~ crashed /\ imuChanges < MaxChanges
    /\ imuChanges' = imuChanges + 1 /\ now' = now

----------------------------------------------------------------------------
\* imu_callback_sync, on the thread of stream s.

\* The callback function: without uniting it only publishes the sample on its own topic.
SampleArrives(s) ==
    /\ ~ crashed /\ now < MaxEvents
    /\ monitor = "idle" /\ s \in streams /\ callback[s].at = "idle"
    /\ now' = now + 1
    /\ callback' = IF unite = "none" THEN callback
                   ELSE [callback EXCEPT ![s] = [at |-> "waiting", time |-> now + 1]]
    /\ UNCHANGED <<unite, subscribed, monitorVars, mutex, accelData, imuMsgs, video, crashed,
                   historyVars, imuChanges>>

TakeMutex(s) ==
    /\ ~ crashed /\ callback[s].at = "waiting"
    /\ mutex = "free" /\ mutex' = s
    /\ callback' = [callback EXCEPT ![s].at = "testing"]
    /\ UNCHANGED <<unite, subscribed, monitorVars, accelData, imuMsgs, video, crashed, historyVars,
                   boundVars>>

Leaving(s) == callback' = [callback EXCEPT ![s].at = "leaving"]

\* Mutant: only the first acceleration is stored.
StoreFirst(s) == accelData' = IF accelData = 0 THEN callback[s].time ELSE accelData
Store(s) == accelData' = callback[s].time

FillImuDataCopy(s) ==
    \/ s = "accel" /\ Store(s) /\ Leaving(s) /\ UNCHANGED imuMsgs
    \/ s = "gyro" /\ accelData = 0 /\ Leaving(s) /\ UNCHANGED <<accelData, imuMsgs>>
    \/ /\ s = "gyro" /\ accelData # 0
       /\ imuMsgs' = <<[gyro |-> callback[s].time, accel |-> accelData]>>
       /\ callback' = [callback EXCEPT ![s].at = "publishing"]
       /\ UNCHANGED accelData

Heard == publisher /\ subscribed

\* What the sample calls for: an acceleration is the newest one, a gyroscope's sample
\* is due with the newest one.
Recorded(s) ==
    /\ lastAccel' = IF s = "accel" THEN callback[s].time ELSE lastAccel
    /\ due' = IF s = "gyro" /\ lastAccel # 0
              THEN Append(due, [gyro |-> callback[s].time, accel |-> lastAccel]) ELSE due

UniteSample(s) ==
    /\ ~ crashed /\ callback[s].at = "testing" /\ Heard
    /\ FillImuDataCopy(s) /\ Recorded(s)
    /\ UNCHANGED <<unite, subscribed, monitorVars, mutex, video, crashed, published, boundVars>>

\* Nobody listens: the sample is neither united nor stored.
\* Mutant: an early return, without the unlock.
ReturnEarly(s) == callback' = [callback EXCEPT ![s] = NoSample]
Skip(s) == Leaving(s)

DropSample(s) ==
    /\ ~ crashed /\ callback[s].at = "testing" /\ ~ Heard
    /\ Skip(s)
    /\ UNCHANGED <<unite, subscribed, monitorVars, mutex, accelData, imuMsgs, video, crashed,
                   historyVars, boundVars>>

Publish ==
    /\ ~ crashed /\ callback["gyro"].at = "publishing"
    /\ published' = published \o imuMsgs /\ imuMsgs' = <<>>
    /\ callback' = [callback EXCEPT !["gyro"].at = "leaving"]
    /\ UNCHANGED <<unite, subscribed, monitorVars, mutex, accelData, video, crashed, lastAccel, due,
                   boundVars>>

Unlock(s) ==
    /\ ~ crashed /\ callback[s].at = "leaving"
    /\ mutex' = "free"
    /\ callback' = [callback EXCEPT ![s] = NoSample]
    /\ UNCHANGED <<unite, subscribed, monitorVars, accelData, imuMsgs, video, crashed, historyVars,
                   boundVars>>

----------------------------------------------------------------------------
\* The parameter, and other nodes.

SetUnite ==
    /\ Change
    /\ unite' \in {"none", "copy", "linear"} \ {unite}
    /\ UNCHANGED <<subscribed, monitorVars, callback, mutex, accelData, imuMsgs, video, crashed,
                   historyVars>>

Subscribe ==
    /\ Change
    /\ subscribed' = ~ subscribed
    /\ UNCHANGED <<unite, monitorVars, callback, mutex, accelData, imuMsgs, video, crashed,
                   historyVars>>

----------------------------------------------------------------------------
\* The monitoring thread: updateSensors.

\* A thread has tested the publisher, and is to use it or uses it.
InUse ==
    \/ \E s \in Stream : callback[s].at \in {"testing", "publishing"}
    \/ \E v \in VideoThread : video[v] \in {"pausing", "resuming"}

\* The publisher goes while it may be in use: what a thread then reads is undefined.
Dropped == crashed' \in {FALSE, publisher /\ InUse}

\* The library's stop waits for the callbacks of the sensor.
StopMotionSensor ==
    /\ Change /\ monitor = "idle" /\ \A s \in Stream : callback[s].at = "idle"
    /\ monitor' = "stopped"
    /\ UNCHANGED <<unite, subscribed, streams, publisher, callback, mutex, accelData, imuMsgs, video,
                   crashed, historyVars>>

StopPublishers ==
    /\ ~ crashed /\ monitor = "stopped"
    /\ streams' = {} /\ publisher' = FALSE /\ Dropped
    /\ monitor' = "closed"
    /\ UNCHANGED <<unite, subscribed, callback, mutex, accelData, imuMsgs, video, historyVars,
                   boundVars>>

\* startPublishers makes the publisher when both streams are there.
MakesPublisher(s) == s = Stream /\ unite # "none"

StartPublishers ==
    /\ ~ crashed /\ monitor = "closed"
    /\ \E s \in SUBSET Stream : streams' = s /\ publisher' = MakesPublisher(s)
    /\ monitor' = "idle"
    /\ UNCHANGED <<unite, subscribed, callback, mutex, accelData, imuMsgs, video, crashed,
                   historyVars, boundVars>>

\* The profiles of a video sensor have changed: startPublishers makes the publisher
\* again, while the motion sensor goes on.
UpdateVideoSensor ==
    /\ Change /\ monitor = "idle" /\ MakesPublisher(streams)
    /\ publisher' = TRUE /\ Dropped
    /\ UNCHANGED <<unite, subscribed, streams, monitor, callback, mutex, accelData, imuMsgs, video,
                   historyVars>>

----------------------------------------------------------------------------
\* frame_callback, on a video sensor's thread: it tests the publisher and calls it,
\* before the image is processed and after.

Moves(v, place) ==
    /\ video' = [video EXCEPT ![v] = place]
    /\ UNCHANGED <<unite, subscribed, monitorVars, callback, mutex, accelData, imuMsgs, historyVars,
                   boundVars>>

FrameArrives(v) ==
    /\ ~ crashed /\ video[v] = "idle"
    /\ Moves(v, IF publisher THEN "pausing" ELSE "processing") /\ UNCHANGED crashed

\* Pause, a call through a null pointer if the publisher is gone.
CallPause(v) ==
    /\ ~ crashed /\ video[v] = "pausing"
    /\ Moves(v, "processing") /\ crashed' = ~ publisher

FrameProcessed(v) ==
    /\ ~ crashed /\ video[v] = "processing"
    /\ Moves(v, IF publisher THEN "resuming" ELSE "idle") /\ UNCHANGED crashed

\* Resume
CallResume(v) ==
    /\ ~ crashed /\ video[v] = "resuming"
    /\ Moves(v, "idle") /\ crashed' = ~ publisher

SampleStep(s) ==
    TakeMutex(s) \/ UniteSample(s) \/ DropSample(s) \/ (s = "gyro" /\ Publish) \/ Unlock(s)
VideoStep(v) == CallPause(v) \/ FrameProcessed(v) \/ CallResume(v)

ImuNext ==
    \/ \E s \in Stream : SampleArrives(s) \/ SampleStep(s)
    \/ SetUnite \/ Subscribe
    \/ StopMotionSensor \/ StopPublishers \/ StartPublishers \/ UpdateVideoSensor
    \/ \E v \in VideoThread : FrameArrives(v) \/ VideoStep(v)

ImuSpec == ImuInit /\ [][ImuNext]_imuVars
\* The threads of the library run.
ImuFairSpec == ImuSpec /\ \A s \in Stream : WF_imuVars(SampleStep(s))

----------------------------------------------------------------------------
Message == [gyro : 1..MaxEvents, accel : 1..MaxEvents]
SampleCallback == [at : {"idle", "waiting", "testing", "publishing", "leaving"}, time : 0..MaxEvents]
\* The types of all variables.
ImuTypeOK ==
    /\ unite \in {"none", "copy", "linear"} /\ subscribed \in BOOLEAN
    /\ streams \subseteq Stream /\ publisher \in BOOLEAN
    /\ monitor \in {"idle", "stopped", "closed"}
    /\ callback \in [Stream -> SampleCallback] /\ mutex \in Stream \cup {"free"}
    /\ accelData \in 0..MaxEvents /\ imuMsgs \in Seq(Message)
    /\ video \in [VideoThread -> {"idle", "pausing", "processing", "resuming"}]
    /\ published \in Seq(Message) /\ lastAccel \in 0..MaxEvents /\ due \in Seq(Message)
    /\ crashed \in BOOLEAN /\ now \in 0..MaxEvents /\ imuChanges \in 0..MaxChanges

\* "It will be published at the rate of the gyro", "attached by the last accel message"
\* (README.md:476, 479): the topic gets one message for each sample of the gyroscope
\* that comes after an acceleration, with the newest one, and in the order of the samples;
\* however the two streams' threads meet, over changes of the option, the profiles and the
\* subscribers.  What comes while nobody listens does not count.  The same goes for linear
\* interpolation, whose "interpolated to gyro's timestamp" (README.md:480) the code
\* never does (imu_callback_sync, FillImuData_Copy).
OneMessagePerGyro ==
    /\ published \o imuMsgs = due
    /\ \A i, j \in 1..Len(due) :
          i < j => due[i].gyro < due[j].gyro /\ due[i].accel <= due[j].accel

\* Every sample's callback ends, on all of its ways out: m_mutex is locked and unlocked
\* by hand, and is one for all cameras of the process; a callback that kept it would stop the
\* streams, and the library could not stop the sensor (base_realsense_node.cpp:432, 472).
CallbacksEnd ==
    \A s \in Stream : callback[s].at # "idle" ~> (callback[s].at = "idle" \/ crashed)

============================================================================
