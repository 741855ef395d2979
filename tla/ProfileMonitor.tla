--------------------------- MODULE ProfileMonitor ---------------------------
(***************************************************************************)
(* How a camera node keeps its sensors, its publishers and its transforms  *)
(* in step with its parameters.  The executor's thread runs the parameter  *)
(* callbacks: they store a value and, for some parameters, raise a flag    *)
(* under _profile_changes_mutex.  The monitoring thread waits for a flag   *)
(* and, holding that mutex, stops every sensor whose profiles are not the  *)
(* wanted ones, then starts it with those; the thread that sets up the     *)
(* node does the same once, without the mutex.  A thread of its own        *)
(* publishes the transforms while tf_publish_rate is positive.  The        *)
(* destructor ends both threads and stops the sensors.  It and the         *)
(* callback of tf_publish_rate test and join the transforms' thread        *)
(* without a lock, which may end the process.                              *)
(*                                                                         *)
(* Abstracted: every stream's image, info and metadata publishers are one; *)
(* a stream's frame and optical frame are one transform.                   *)
(***************************************************************************)
EXTENDS StreamProfiles, Bags

CONSTANTS Settings  \* the settings to start with

Request == {"enable", "profile", "align", "rgbd", "unite", "rate"}

\* The device's sensors with their profiles, which of them are depth or colour
\* sensors, the streams switched off at launch, what is asked of the node and how
\* often (bound), whether users wait until the node is quiet, and what may go wrong.
Setting ==
    [sensors : Seq(Seq(Profile)), video : Seq(BOOLEAN), off : SUBSET Sip,
     requests : SUBSET Request, changes : Nat, patient : BOOLEAN,
     mayFail : SUBSET {"start", "stop"}, reset : BOOLEAN, destroy : BOOLEAN]

ASSUME ProfileMonitorAssumption ==
    \A setting \in Settings :
        /\ setting.sensors \in Seq(Seq(Profile) \ {<<>>})
        /\ setting.video \in [1..Len(setting.sensors) -> BOOLEAN]
        /\ setting.off \subseteq Sip /\ setting.requests \subseteq Request
        /\ setting.changes \in Nat
        /\ \A i, j \in 1..Len(setting.sensors) :  \* the maps of publishers go by stream
              i # j => Sips(setting.sensors[i]) \cap Sips(setting.sensors[j]) = {}

VARIABLES
    setup,        \* the setting, which nothing changes
    ask,          \* what the parameters ask of each sensor
    options,      \* align_depth.enable, enable_rgbd and unite_imu_method
    executor,     \* what a parameter callback has yet to do
    changed,      \* _is_profile_changed, _is_align_depth_changed
    monitor,      \* the monitoring thread; it holds the mutex while "holding"
    main,         \* the thread that sets up the node
    update,       \* the run of updateSensors, which _update_sensor_mutex guards
    active,       \* the profiles each sensor streams
    published,    \* streams that have publishers, and the synced IMU and RGBD ones
    seen,         \* _is_color_enabled, _is_depth_enabled, _is_accel_, _is_gyro_enabled
    tfs, sentTfs, \* _static_tf_msgs, and what was last sent of them
    rate, tfThread, \* _tf_publish_rate > 0; the thread _tf_t
    terminated,   \* the process was terminated, or died of a bad access
    running, destructor, \* _is_running; where the destructor is
    stale,        \* history: sensors with a new mode or format since their update
    faults,       \* history: starts and stops that failed, a reset, a rate set in the destructor
    changes       \* history: requests made

parameterVars == <<ask, options, executor, stale, changes>>
outputVars == <<published, seen, tfs, sentTfs>>
tfThreadVars == <<rate, tfThread, terminated>>
lifeVars == <<running, destructor>>
vars == <<setup, parameterVars, changed, monitor, main, update, active, outputVars,
          tfThreadVars, lifeVars, faults>>

Sensors == 1..Len(setup.sensors)
IsVideo(i) == setup.video[i]
Wanted(i) == WantedProfiles(setup.sensors[i], ask[i])
SipsOf(profiles) == Sips(profiles)
NoUpdate == [by |-> "none", at |-> "stop", i |-> 1, profiles |-> <<>>, restart |-> FALSE]

Init ==
    /\ setup \in Settings
    /\ ask = [i \in Sensors |->
                LET default == DefaultAsk(setup.sensors[i]) IN
                [default EXCEPT !.enabled = [sip \in DOMAIN @ |-> @[sip] /\ sip \notin setup.off]]]
    /\ options = [align |-> FALSE, rgbd |-> FALSE, unite |-> FALSE]
    /\ executor = "idle"
    /\ changed = [profile |-> setup.off # {}, align |-> FALSE]
    /\ monitor = "waiting" /\ main = "setup" /\ update = NoUpdate
    /\ active = [i \in Sensors |-> <<>>]
    /\ published = [streams |-> {}, aligned |-> {}, imu |-> FALSE, rgbd |-> FALSE]
    /\ seen = {} /\ tfs = EmptyBag /\ sentTfs = EmptyBag
    /\ rate = FALSE /\ tfThread = "none" /\ terminated = FALSE
    /\ running = TRUE /\ destructor = "none"
    /\ stale = {} /\ faults = {} /\ changes = 0

----------------------------------------------------------------------------
\* Parameter callbacks.

Quiet ==
    /\ executor = "idle" /\ changed = [profile |-> FALSE, align |-> FALSE]
    /\ monitor = "waiting" /\ main = "done" /\ update = NoUpdate /\ running

MayAsk(request) ==
    /\ request \in setup.requests /\ changes < setup.changes /\ executor = "idle"
    /\ setup.patient => Quiet
    /\ destructor \notin {"stopSensors", "done"}  \* clearParameters
    /\ changes' = changes + 1

\* enable_<stream>: the value is stored, then the flag is raised.
SetEnable(i, sip) ==
    /\ MayAsk("enable")
    /\ ask' = [ask EXCEPT ![i].enabled[sip] = ~ @]
    /\ executor' = "raiseProfile"
    /\ UNCHANGED <<setup, options, changed, monitor, main, update, active, outputVars,
                   tfThreadVars, lifeVars, stale, faults>>

\* A mode, format or rate takes effect when the stream is re-enabled.
SetProfile(i, newAsk) ==
    /\ MayAsk("profile")
    /\ ask' = [ask EXCEPT ![i] = newAsk]
    /\ stale' = stale \cup {i}
    /\ UNCHANGED <<setup, options, executor, changed, monitor, main, update, active,
                   outputVars, tfThreadVars, lifeVars, faults>>

SetOption(option) ==
    /\ MayAsk(option)
    /\ options' = [options EXCEPT ![option] = ~ @]
    /\ executor' = CASE option = "align" -> "raiseAlign" [] option = "rgbd" -> "raiseProfile"
                     [] OTHER -> "idle"
    /\ UNCHANGED <<setup, ask, changed, monitor, main, update, active, outputVars,
                   tfThreadVars, lifeVars, stale, faults>>

\* Mutant: the flag is raised without waiting for the mutex.
MutexIgnored == TRUE
MutexFree == monitor # "holding"

RaiseFlag ==
    /\ executor \in {"raiseProfile", "raiseAlign"} /\ MutexFree
    /\ changed' = IF executor = "raiseAlign" THEN [changed EXCEPT !.align = TRUE]
                                             ELSE [changed EXCEPT !.profile = TRUE]
    /\ executor' = "idle"
    /\ UNCHANGED <<setup, ask, options, stale, changes, monitor, main, update, active,
                   outputVars, tfThreadVars, lifeVars, faults>>

NoTfThread == "none"
Joinable == tfThread \in {"running", "returned"}
\* What becomes of a race for the thread's handle is undefined.
MayTerminate(race) == terminated' \in {FALSE, race}

\* tf_publish_rate: the thread is started, or tested, to be waited for.
SetRate(positive) ==
    /\ MayAsk("rate")
    /\ rate' = positive
    /\ tfThread' = IF positive /\ tfThread = "none" THEN "running" ELSE tfThread
    /\ executor' = IF ~ positive /\ Joinable THEN "joinTf" ELSE "idle"
    /\ faults' = IF running THEN faults ELSE faults \cup {"rate"}
    /\ UNCHANGED <<setup, ask, options, changed, monitor, main, update, active, outputVars,
                   terminated, lifeVars, stale>>

\* The thread is joined and its handle dropped, whatever the destructor does with it.
\* Of two threads that join it, one gets an error, which the parameter's callback catches.
JoinTfThread ==
    /\ executor = "joinTf" /\ tfThread # "running"
    /\ \/ /\ tfThread = "returned" /\ tfThread' = NoTfThread
          /\ MayTerminate(destructor \in {"testTf", "joinTf"})
       \/ /\ destructor = "joinTf" \/ tfThread = "joined"
          /\ UNCHANGED <<tfThread, terminated>>
    /\ executor' = "idle"
    /\ UNCHANGED <<setup, ask, options, changed, monitor, main, update, active, outputVars,
                   rate, lifeVars, stale, faults, changes>>

\* Mutant: the thread goes by its rate alone.
TfLoopsOnRate == rate
TfLoops == running /\ rate
PublishDynamicTransformsReturns ==
    /\ tfThread = "running" /\ ~ TfLoops
    /\ tfThread' = "returned"
    /\ UNCHANGED <<setup, parameterVars, changed, monitor, main, update, active, outputVars,
                   rate, terminated, lifeVars, faults>>

----------------------------------------------------------------------------
\* updateSensors: stopRequiredSensors, then startUpdatedSensors.

BeginUpdate(by) == update' = [NoUpdate EXCEPT !.by = by]

MonitorWakes ==
    /\ monitor = "waiting" /\ running /\ (changed.profile \/ changed.align)
    /\ monitor' = "holding"
    /\ UNCHANGED <<setup, parameterVars, changed, main, update, active, outputVars,
                   tfThreadVars, lifeVars, faults>>

UpdateBegins ==
    /\ update.by = "none"
    /\ \/ main = "setup" /\ main' = "updating" /\ BeginUpdate("main")
       \/ monitor = "holding" /\ BeginUpdate("monitor") /\ UNCHANGED main
    /\ UNCHANGED <<setup, parameterVars, changed, monitor, active, outputVars,
                   tfThreadVars, lifeVars, faults>>

AtSensor(phase) == update.by # "none" /\ update.at = phase /\ update.i \in Sensors
NextSensor(phase) == [update EXCEPT !.at = phase, !.i = @ + 1, !.profiles = <<>>, !.restart = FALSE]

\* getUpdatedProfiles, and whether the sensor's publishers are to be renewed.
IsProfileChanged(i) == ~ SameProfiles(active[i], Wanted(i))
NeedsRefresh(i) == IsProfileChanged(i) \/ (IsVideo(i) /\ changed.align)

\* Mutant: the sensor is not stopped.
StreamsOn(i) == active[i]
Stopped(i) == <<>>

\* A sensor that changes its profiles is stopped; one that only has its depth
\* aligned anew goes on.
StopSensor ==
    /\ AtSensor("stop")
    /\ LET i == update.i IN
       /\ update' = IF NeedsRefresh(i)
                    THEN [update EXCEPT !.at = "stopPublishers", !.profiles = active[i],
                                        !.restart = IsProfileChanged(i)]
                    ELSE NextSensor("stop")
       /\ active' = IF IsProfileChanged(i) THEN [active EXCEPT ![i] = Stopped(i)] ELSE active
       /\ stale' = stale \ {i}
    /\ UNCHANGED <<setup, ask, options, executor, changes, changed, monitor, main, outputVars,
                   tfThreadVars, lifeVars, faults>>

\* The device does not stop: the error is logged, and the update goes on.
StopFails ==
    /\ "stop" \in setup.mayFail
    /\ AtSensor("stop") /\ IsProfileChanged(update.i) /\ active[update.i] # <<>>
    /\ update' = [update EXCEPT !.at = "stopPublishers", !.profiles = active[update.i],
                                !.restart = TRUE]
    /\ stale' = stale \ {update.i}
    /\ faults' = faults \cup {"stop"}
    /\ UNCHANGED <<setup, ask, options, executor, changes, changed, monitor, main, active,
                   outputVars, tfThreadVars, lifeVars>>

\* Every sensor is stopped; some may fail to.
StopAll ==
    \E failing \in SUBSET Sensors :
        /\ failing = {} \/ "stop" \in setup.mayFail
        /\ active' = [i \in Sensors |-> IF i \in failing THEN active[i] ELSE <<>>]
Failed == {f \in {"stop"} : \E i \in Sensors : active'[i] # <<>>}

\* The transforms of a profile; only the first of a type has an aligned depth.
AlignedFrame(p) == p.stream \notin Motion \cup {"depth"} /\ p.index = 1
TfsOf(p) ==
    {<<"frame", SipOf(p)>>}
    \cup {t \in {<<"aligned", SipOf(p)>>} : AlignedFrame(p)}
    \cup {t \in {<<"imu", SipOf(p)>>} : options.unite /\ p.stream = "gyro"}
AllTfs(profiles) == SetToBag(UNION {TfsOf(profiles[n]) : n \in 1..Len(profiles)})

\* Mutant: the transforms of stopped streams stay.
EraseNoTfs(profiles) == tfs
EraseTfs(profiles) == tfs (-) AllTfs(profiles)
HasMotion(profiles) == \E n \in 1..Len(profiles) : profiles[n].stream \in Motion

StopPublishers ==
    /\ AtSensor("stopPublishers")
    /\ LET gone == SipsOf(update.profiles) IN
       published' = [published EXCEPT !.streams = @ \ gone, !.aligned = @ \ gone,
                                      !.imu = @ /\ ~ HasMotion(update.profiles)]
    /\ seen' = IF HasMotion(update.profiles) THEN seen \ Motion ELSE seen
    /\ tfs' = EraseTfs(update.profiles)
    /\ update' = NextSensor("stop")
    /\ UNCHANGED <<setup, parameterVars, changed, monitor, main, active, sentTfs,
                   tfThreadVars, lifeVars, faults>>

BeginStarting ==
    /\ update.by # "none" /\ update.at = "stop" /\ update.i \notin Sensors
    /\ update' = [update EXCEPT !.at = "start", !.i = 1]
    /\ UNCHANGED <<setup, parameterVars, changed, monitor, main, active, outputVars,
                   tfThreadVars, lifeVars, faults>>

\* startPublishers and calcAndAppendTransformMsgs, by what is wanted now.
StartPublishers ==
    /\ AtSensor("start")
    /\ LET i == update.i
           wanted == Wanted(i)
           new == SipsOf(wanted)
           seenNow == seen \cup ({s[1] : s \in new} \cap ({"color", "depth"} \cup Motion))
       IN IF NeedsRefresh(i) /\ wanted # <<>>
          THEN /\ published' =
                    [published EXCEPT
                       !.streams = @ \cup new,
                       !.aligned = @ \cup {s \in new : options.align /\ s # DEPTH /\ s[2] < 2
                                                       /\ s[1] \notin Motion},
                       !.imu = @ \/ (options.unite /\ Motion \subseteq seenNow)]
               /\ seen' = seenNow
               /\ tfs' = tfs (+) AllTfs(wanted)
               /\ update' = [update EXCEPT !.at = "startSensor", !.profiles = wanted,
                                           !.restart = IsProfileChanged(i)]
          ELSE update' = NextSensor("start") /\ UNCHANGED <<published, seen, tfs>>
    /\ UNCHANGED <<setup, parameterVars, changed, monitor, main, active, sentTfs,
                   tfThreadVars, lifeVars, faults>>

\* Mutant: the flags stay raised after an update.
FlagsKept == changed
FlagsCleared == [profile |-> FALSE, align |-> FALSE]

\* The monitor clears both flags, whatever became of the update.
EndUpdate ==
    /\ update' = NoUpdate
    /\ IF update.by = "monitor"
       THEN /\ changed' = FlagsCleared
            /\ monitor' = "waiting" /\ UNCHANGED main
       ELSE main' = "done" /\ UNCHANGED <<changed, monitor>>

\* RosSensor::start does nothing for a sensor that streams already.
StartSensor ==
    /\ AtSensor("startSensor")
    /\ active' = IF update.restart /\ active[update.i] = <<>>
                 THEN [active EXCEPT ![update.i] = update.profiles] ELSE active
    /\ update' = NextSensor("start")
    /\ UNCHANGED <<setup, parameterVars, changed, monitor, main, outputVars, tfThreadVars,
                   lifeVars, faults>>

\* The device throws: the sensors after this one are not started either.
StartFails ==
    /\ "start" \in setup.mayFail
    /\ AtSensor("startSensor") /\ update.restart /\ active[update.i] = <<>>
    /\ EndUpdate
    /\ faults' = faults \cup {"start"}
    /\ UNCHANGED <<setup, parameterVars, active, outputVars, tfThreadVars, lifeVars>>

\* publishStaticTransforms and startRGBDPublisherIfNeeded; frames are synchronized.
FinishUpdate ==
    /\ update.by # "none" /\ update.at = "start" /\ update.i \notin Sensors
    /\ sentTfs' = tfs
    /\ published' = [published EXCEPT !.rgbd = options.rgbd /\ options.align
                                               /\ {"color", "depth"} \subseteq seen]
    /\ EndUpdate
    /\ UNCHANGED <<setup, parameterVars, active, seen, tfs, tfThreadVars, lifeVars, faults>>

----------------------------------------------------------------------------
\* hw_reset, on the executor: all sensors are stopped, whatever an update does.
HandleHWReset ==
    /\ setup.reset /\ "reset" \notin faults /\ executor = "idle" /\ running /\ main = "done"
    /\ StopAll
    /\ faults' = faults \cup {"reset"} \cup Failed
    /\ UNCHANGED <<setup, parameterVars, changed, monitor, main, update, outputVars,
                   tfThreadVars, lifeVars>>

\* The destructor, once the node is set up.
Destroy ==
    /\ setup.destroy /\ destructor = "none" /\ main = "done"
    /\ running' = FALSE /\ destructor' = "testTf"
    /\ faults' = IF executor = "joinTf" THEN faults \cup {"rate"} ELSE faults
    /\ UNCHANGED <<setup, parameterVars, changed, monitor, main, update, active, outputVars,
                   tfThreadVars>>
DestroyTestsTf ==
    /\ destructor = "testTf"
    /\ destructor' = IF Joinable THEN "joinTf" ELSE "joinMonitor"
    /\ UNCHANGED <<setup, parameterVars, changed, monitor, main, update, active, outputVars,
                   tfThreadVars, running, faults>>
\* An error of join leaves the destructor.
DestroyJoinsTf ==
    /\ destructor = "joinTf" /\ tfThread # "running"
    /\ tfThread' = IF tfThread = "returned" THEN "joined" ELSE tfThread
    /\ MayTerminate(executor = "joinTf")
    /\ destructor' = "joinMonitor"
    /\ UNCHANGED <<setup, parameterVars, changed, monitor, main, update, active, outputVars,
                   rate, running, faults>>
MonitorExits ==
    /\ monitor = "waiting" /\ ~ running
    /\ monitor' = "exited"
    /\ UNCHANGED <<setup, parameterVars, changed, main, update, active, outputVars,
                   tfThreadVars, lifeVars, faults>>
\* clearParameters follows; the node's lock on its parameters lets a callback end first.
DestroyJoinsMonitor ==
    /\ destructor = "joinMonitor" /\ monitor = "exited" /\ executor = "idle"
    /\ destructor' = "stopSensors"
    /\ UNCHANGED <<setup, parameterVars, changed, monitor, main, update, active, outputVars,
                   tfThreadVars, running, faults>>
\* The members follow: a thread that is destroyed before it was joined ends the process.
DestroyStopsSensors ==
    /\ destructor = "stopSensors"
    /\ StopAll
    /\ faults' = faults \cup Failed
    /\ terminated' = Joinable
    /\ destructor' = "done"
    /\ UNCHANGED <<setup, parameterVars, changed, monitor, main, update, outputVars,
                   rate, tfThread, running>>

Updating == StopSensor \/ StopFails \/ StopPublishers \/ BeginStarting \/ StartPublishers
            \/ StartSensor \/ StartFails \/ FinishUpdate
Callback == RaiseFlag \/ JoinTfThread
Destructing == DestroyTestsTf \/ DestroyJoinsTf \/ DestroyJoinsMonitor \/ DestroyStopsSensors

NodeStep ==
    \/ \E i \in Sensors :
          \/ \E sip \in DOMAIN ask[i].enabled : SetEnable(i, sip)
          \/ \E newAsk \in AfterSomeProfile(setup.sensors[i], ask[i]) : SetProfile(i, newAsk)
    \/ \E option \in {"align", "rgbd", "unite"} : SetOption(option)
    \/ \E positive \in BOOLEAN : SetRate(positive)
    \/ HandleHWReset \/ Destroy
    \/ Callback \/ PublishDynamicTransformsReturns
    \/ MonitorWakes \/ MonitorExits \/ UpdateBegins \/ Updating \/ Destructing

Next == ~ terminated /\ NodeStep

Spec == Init /\ [][Next]_vars
\* Threads run and waits time out; nobody has to ask, reset or destroy.  Fairness
\* between the threads is not needed: what each does comes to an end.
Threads ==
    /\ ~ terminated
    /\ \/ Callback \/ PublishDynamicTransformsReturns \/ MonitorWakes \/ MonitorExits
       \/ UpdateBegins \/ Updating \/ Destructing
FairSpec == Spec /\ WF_vars(Threads)

----------------------------------------------------------------------------
\* The types of all variables.
TypeOK ==
    /\ setup \in Setting
    /\ \A i \in Sensors : AskTypeOK(setup.sensors[i], ask[i]) /\ active[i] \in Seq(Profile)
    /\ options \in [align : BOOLEAN, rgbd : BOOLEAN, unite : BOOLEAN]
    /\ rate \in BOOLEAN /\ tfThread \in {"none", "running", "returned", "joined"}
    /\ running \in BOOLEAN /\ terminated \in BOOLEAN
    /\ destructor \in {"none", "testTf", "joinTf", "joinMonitor", "stopSensors", "done"}
    /\ seen \subseteq {"color", "depth"} \cup Motion
    /\ executor \in {"idle", "raiseProfile", "raiseAlign", "joinTf"}
    /\ changed \in [profile : BOOLEAN, align : BOOLEAN]
    /\ monitor \in {"waiting", "holding", "exited"}
    /\ main \in {"setup", "updating", "done"}
    /\ published \in [streams : SUBSET Sip, aligned : SUBSET Sip, imu : BOOLEAN, rgbd : BOOLEAN]
    /\ IsABag(tfs) /\ IsABag(sentTfs)

\* Nothing is under way.  The node may be asked again and may be destroyed.
Settled == Quiet /\ faults = {}

\* However requests interleave with updates, a sensor streams in the end for each
\* stream that is on the first profile of the device with the mode and format
\* asked for, and nothing else, unless one of these was changed without
\* re-enabling the stream (update_sensor_func, stopRequiredSensors,
\* startUpdatedSensors, addWantedProfiles).
ActiveAsAsked ==
    Settled => \A i \in Sensors \ stale :
        LET all == setup.sensors[i]
            places == FittingPlaces(all, ask[i])
        IN /\ {active[i][n] : n \in 1..Len(active[i])} = {all[n] : n \in places}
           /\ Len(active[i]) = Cardinality(places)

\* A stream that the device delivers has its publisher, whatever is asked during
\* an update and whatever start fails: sensors stop before their publishers go and
\* start after they are there.  Only a sensor that goes on streaming while its
\* publishers are renewed for the alignment is without them until the update ends.
\* (Where the alignment may be switched: while nobody asks during an update and no
\* start fails; what was to be renewed after that stays without.  And as long as no
\* stop fails: RosSensor::stop does not tell, so the publishers go all the same.)
StreamsHavePublishers ==
    /\ "stop" \notin setup.mayFail
    /\ "align" \notin setup.requests \/ (setup.patient /\ setup.mayFail = {})
    => \A i \in Sensors :
          \/ SipsOf(active[i]) \subseteq published.streams
          \/ update.by # "none" /\ IsVideo(i) /\ changed.align

\* While nobody asks during an update, the node ends up with the publishers and
\* with one transform of each kind for exactly the streams that are on, and with
\* the RGBD publisher when all it needs is on ("publish the transforms of enabled
\* sensors alone", tfs.cpp:22).  A change of unite_imu_method is not followed.
SettledOutputs ==
    Settled /\ setup.patient /\ "unite" \notin setup.requests =>
        LET all == UNION {{active[i][n] : n \in 1..Len(active[i])} : i \in Sensors} IN
        /\ published.streams = {SipOf(p) : p \in all}
        /\ sentTfs = SetToBag(UNION {TfsOf(p) : p \in all})
        /\ options.rgbd /\ options.align /\ {DEPTH, COLOR} \subseteq published.streams
              => published.rgbd

\* A stream whose default the device names is opened by the parameters as they
\* are declared: depth, colour, infra 1 and the motion streams.  (The mode of
\* infra 2 is infra 1's; a stream without a default takes another stream's.)
\* This is what the code declares where no value is given at launch: README.md:446
\* has "false for orientation streams", and rs_launch.py gives false for them
\* and for the infrared streams.
DefaultsOpen ==
    Settled /\ changes = 0 =>
        \A i \in Sensors : \A n \in 1..Len(setup.sensors[i]) :
            LET p == setup.sensors[i][n] IN
            /\ p.default /\ SipOf(p) \notin setup.off
            /\ SipOf(p) \in {DEPTH, COLOR, INFRA1} \cup (Motion \X (0..2))
            => SipOf(p) \in SipsOf(active[i])

\* Every request is worked off and the updates come to an end: the node is quiet
\* again unless it is being destroyed (monitoringProfileChanges).
ChangesSettle == []<>(Quiet \/ ~ running)

\* The destructor returns, with no thread running and with every sensor stopped that
\* could be, also when it arrives during an update or a callback (~BaseRealSenseNode).
\* It ends the process only if the rate of the transforms is set while it runs or as it
\* begins: then its test and join meet those of the callback, or come too early for
\* a thread that the callback starts; it waits for ever in no case.
NodeStops ==
    ~ running ~>
        \/ /\ destructor = "done" /\ ~ terminated /\ ~ Joinable
           /\ "stop" \in faults \/ \A i \in Sensors : active[i] = <<>>
        \/ terminated /\ "rate" \in faults
=============================================================================
