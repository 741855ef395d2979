--------------------------- MODULE LidarRegistry ---------------------------
(***************************************************************************)
(* How the Livox driver names and configures its lidars.  CacheIndex gives *)
(* every lidar (a handle, the lidar's IP address) one slot of the table    *)
(* lidars_.  InitLivoxLidar fills the table from the configuration file;   *)
(* a lidar that is not in the file gets a slot when it first announces     *)
(* itself, and that slot keeps the zeros the table starts with.  Each      *)
(* announcement of a known lidar sends it the options of its slot, and     *)
(* set_bits remembers which of them the lidar has not accepted yet; when   *)
(* the last one is accepted the lidar counts as sampling.                  *)
(*                                                                         *)
(* The SDK announces lidars one at a time and answers commands from other  *)
(* threads, in any order: an answer that changes set_bits waits for        *)
(* config_mutex_, which an announcement holds while it sends the options.  *)
(* The SDK and the lidars are external: a command is answered by success,  *)
(* by a timeout or by a refusal.  Topics are those of multi_topic = 1.     *)
(***************************************************************************)
EXTENDS Integers, Sequences

CONSTANTS Handle,          \* the lidars
          NoHandle,        \* 0, the handle of a slot nobody configured
          MaxSourceLidar,  \* kMaxSourceLidar: size of the table (32 in comm.h)
          Settings         \* the settings to start with

\* The options of a lidar, in the order in which they are sent.
OptionOrder == <<"data_type", "scan_pattern", "blind_spot", "dual_emit">>
Option == {OptionOrder[i] : i \in 1..Len(OptionOrder)}
Command == Option \cup {"attitude", "work_mode", "imu"}

\* The parsed lidar_configs, how often each lidar announces itself (bound), and
\* whether the lidars refuse options.
Setting == [configs : Seq([handle : Handle, options : SUBSET Option]),
            changes : [Handle -> Nat], refusals : BOOLEAN]

ASSUME RegistryAssumption ==
    /\ NoHandle \notin Handle /\ MaxSourceLidar \in Nat
    /\ \A setting \in Settings : setting \in Setting

VARIABLES
    setup,      \* the setting, which nothing changes
    todo,       \* configurations InitLivoxLidar has not registered yet
    index,      \* map_index_: the slot of each lidar that has one
    used,       \* index_cache_: the slots that are taken
    device,     \* device[s]: handle and options of lidars_[s]
    setBits,    \* setBits[s]: set_bits, the options sent and not yet accepted
    sampling,   \* the slots whose connect_state is kConnectStateSampling
    topic,      \* topic[s]: the handle in the name of the slot's publishers
    changing,   \* the announcement that holds config_mutex_: lidar and place
    flight,     \* flight[<<h, c>>]: commands c to h that are not answered
    changes,    \* announcements so far (bound)
    accepted,   \* history: options each lidar has accepted,
    refused,    \* or refused,
    normal,     \* lidars that reached the normal work mode,
    streamed    \* and slots that stored a point cloud

tableVars == <<index, used>>
historyVars == <<accepted, refused, normal, streamed>>
vars == <<setup, todo, tableVars, device, setBits, sampling, topic, changing, flight,
          changes, historyVars>>

Slot == 0..(MaxSourceLidar - 1)
Target == (Handle \cup {NoHandle}) \X Command
NoChange == [handle |-> NoHandle, at |-> 0]
Device == [handle : Handle \cup {NoHandle}, options : SUBSET Option]

\* In the zeroed configuration no option is -1: each one counts as given.
ZeroDevice == [handle |-> NoHandle, options |-> Option]

Init ==
    /\ setup \in Settings /\ todo = setup.configs
    /\ index = <<>> /\ used = {}
    /\ device = [s \in Slot |-> ZeroDevice]
    /\ setBits = [s \in Slot |-> {}]
    /\ sampling = {}
    /\ topic = [s \in Slot |-> "none"]
    /\ changing = NoChange
    /\ flight = [t \in Target |-> 0]
    /\ changes = [h \in Handle |-> 0]
    /\ accepted = [h \in Handle |-> {}] /\ refused = [h \in Handle |-> {}]
    /\ normal = {} /\ streamed = {}

Registered == DOMAIN index

----------------------------------------------------------------------------
\* CacheIndex

NoFreeIndex(h) == h \notin Registered /\ Slot \subseteq used

GetFreeIndex(h, s) ==
    \/ h \in Registered /\ s = index[h] /\ UNCHANGED tableVars
    \/ /\ h \notin Registered
       /\ s \in Slot \ used /\ \A t \in Slot \ used : s <= t
       /\ index' = [k \in Registered \cup {h} |-> IF k = h THEN s ELSE index[k]]
       /\ used' = used \cup {s}

----------------------------------------------------------------------------
\* InitLivoxLidar: one configuration after the other, before the callback for
\* announcements is installed.  A full table only skips the configuration; a
\* handle that is listed again replaces its configuration.

\* Mutant: the configuration is stored and the handle of the slot is not.
RegisterUnnamed ==
    /\ todo # <<>> /\ todo' = Tail(todo)
    /\ LET config == Head(todo) IN
       \/ NoFreeIndex(config.handle) /\ UNCHANGED <<tableVars, device>>
       \/ \E s \in Slot :
             /\ GetFreeIndex(config.handle, s)
             /\ device' = [device EXCEPT ![s].options = config.options]
    /\ UNCHANGED <<setup, setBits, sampling, topic, changing, flight, changes,
                   historyVars>>

Register ==
    /\ todo # <<>> /\ todo' = Tail(todo)
    /\ LET config == Head(todo) IN
       \/ NoFreeIndex(config.handle) /\ UNCHANGED <<tableVars, device>>
       \/ \E s \in Slot :
             /\ GetFreeIndex(config.handle, s)
             /\ device' = [device EXCEPT ![s] = config]
    /\ UNCHANGED <<setup, setBits, sampling, topic, changing, flight, changes,
                   historyVars>>

----------------------------------------------------------------------------
\* LidarInfoChangeCallback

Locked == changing # NoChange     \* config_mutex_

Send(calls, targets) ==
    [t \in Target |-> IF t \in targets THEN calls[t] + 1 ELSE calls[t]]

\* Both kinds of announcement end with these two commands.
WakeUp(h) == {<<h, "work_mode">>, <<h, "imu">>}

Announce(h) ==
    /\ todo = <<>> /\ ~ Locked
    /\ changes[h] < setup.changes[h]
    /\ changes' = [changes EXCEPT ![h] = @ + 1]

\* A lidar without a slot gets one; the slot's handle is not set.
AnnounceNew(h) ==
    /\ Announce(h) /\ h \notin Registered
    /\ \/ NoFreeIndex(h) /\ UNCHANGED <<tableVars, flight>>
       \/ /\ \E s \in Slot : GetFreeIndex(h, s)
          /\ flight' = Send(flight, WakeUp(h))
    /\ UNCHANGED <<setup, todo, device, setBits, sampling, topic, changing, historyVars>>

AnnounceKnown(h) ==
    /\ Announce(h) /\ h \in Registered
    /\ changing' = [handle |-> h, at |-> 1]
    /\ UNCHANGED <<setup, todo, tableVars, device, setBits, sampling, topic, flight,
                   historyVars>>

\* Under config_mutex_: mark and send the next option, if it is given.
SendOption ==
    /\ Locked /\ changing.at <= Len(OptionOrder)
    /\ LET h == changing.handle
           s == index[h]
           o == OptionOrder[changing.at] IN
       \/ /\ o \in device[s].options
          /\ setBits' = [setBits EXCEPT ![s] = @ \cup {o}]
          /\ flight' = Send(flight, {<<h, o>>})
       \/ o \notin device[s].options /\ UNCHANGED <<setBits, flight>>
    /\ changing' = [changing EXCEPT !.at = @ + 1]
    /\ UNCHANGED <<setup, todo, tableVars, device, sampling, topic, changes, historyVars>>

\* The mutex is released; the attitude goes to the handle in the slot's
\* configuration, the other two commands to the lidar that announced itself.
FinishAnnouncement ==
    /\ Locked /\ changing.at > Len(OptionOrder)
    /\ LET h == changing.handle IN
       flight' = Send(flight, WakeUp(h)
                                \cup {<<device[index[h]].handle, "attitude">>})
    /\ changing' = NoChange
    /\ UNCHANGED <<setup, todo, tableVars, device, setBits, sampling, topic, changes,
                   historyVars>>

----------------------------------------------------------------------------
\* The callbacks for the answers.

Answered(t) == flight[t] > 0 /\ flight' = [flight EXCEPT ![t] = @ - 1]
\* Mutant: a command that timed out is given up.
ResentNot(t) == Answered(t)
Resent(t) == flight[t] > 0 /\ flight' = Send([flight EXCEPT ![t] = @ - 1], {t})

\* Mutant: the callback takes no lock.
CallbackUnlocked == TRUE
CallbackLock == ~ Locked

OptionSucceeds(h, o) ==
    /\ CallbackLock
    /\ Answered(<<h, o>>)
    /\ LET s == index[h]
           bits == setBits[s] \ {o} IN
       /\ setBits' = [setBits EXCEPT ![s] = bits]
       /\ sampling' = IF bits = {} THEN sampling \cup {s} ELSE sampling
    /\ accepted' = [accepted EXCEPT ![h] = @ \cup {o}]
    /\ UNCHANGED <<setup, todo, tableVars, device, topic, changing, changes, refused,
                   normal, streamed>>

OptionTimesOut(h, o) ==
    /\ Resent(<<h, o>>)
    /\ UNCHANGED <<setup, todo, tableVars, device, setBits, sampling, topic, changing,
                   changes, historyVars>>

\* A refusal is only reported: the bit stays set.
OptionRefused(h, o) ==
    /\ setup.refusals
    /\ Answered(<<h, o>>)
    /\ refused' = [refused EXCEPT ![h] = @ \cup {o}]
    /\ UNCHANGED <<setup, todo, tableVars, device, setBits, sampling, topic, changing,
                   changes, accepted, normal, streamed>>

\* SetAttitudeCallback: for a lidar without a slot it returns at once.
SetAttitude(h) ==
    /\ \/ Answered(<<h, "attitude">>)
       \/ h \in Registered /\ Resent(<<h, "attitude">>)
    /\ UNCHANGED <<setup, todo, tableVars, device, setBits, sampling, topic, changing,
                   changes, historyVars>>

\* WorkModeChangedCallback: everything but success is tried again.
WorkModeSucceeds(h) ==
    /\ Answered(<<h, "work_mode">>)
    /\ normal' = normal \cup {h}
    /\ UNCHANGED <<setup, todo, tableVars, device, setBits, sampling, topic, changing,
                   changes, accepted, refused, streamed>>

WorkModeFails(h) ==
    /\ Resent(<<h, "work_mode">>)
    /\ UNCHANGED <<setup, todo, tableVars, device, setBits, sampling, topic, changing,
                   changes, historyVars>>

\* EnableLivoxLidarImuDataCallback: a timeout is tried again only when the SDK
\* passes a response.
ImuEnabled(h) ==
    /\ \/ Answered(<<h, "imu">>)
       \/ h \in Registered /\ Resent(<<h, "imu">>)
    /\ UNCHANGED <<setup, todo, tableVars, device, setBits, sampling, topic, changing,
                   changes, historyVars>>

----------------------------------------------------------------------------
\* Lds and Lddc

\* A frame of a lidar without a slot is dropped.
StoragePointData(h) ==
    /\ todo = <<>> /\ h \in Registered
    /\ sampling' = sampling \cup {index[h]}
    /\ streamed' = streamed \cup {index[h]}
    /\ UNCHANGED <<setup, todo, tableVars, device, setBits, topic, changing, flight,
                   changes, accepted, refused, normal>>

\* The poll threads name the publisher of a slot once, with multi_topic = 1.
GetCurrentPublisher(s) ==
    /\ s \in sampling /\ topic[s] = "none"
    /\ topic' = [topic EXCEPT ![s] = device[s].handle]
    /\ UNCHANGED <<setup, todo, tableVars, device, setBits, sampling, changing, flight,
                   changes, historyVars>>

Next ==
    \/ Register \/ SendOption \/ FinishAnnouncement
    \/ \E h \in Handle :
          \/ AnnounceNew(h) \/ AnnounceKnown(h) \/ StoragePointData(h)
          \/ WorkModeSucceeds(h) \/ WorkModeFails(h) \/ ImuEnabled(h)
          \/ \E o \in Option :
                OptionSucceeds(h, o) \/ OptionTimesOut(h, o) \/ OptionRefused(h, o)
    \/ \E h \in Handle \cup {NoHandle} : SetAttitude(h)
    \/ \E s \in Slot : GetCurrentPublisher(s)

Spec == Init /\ [][Next]_vars

\* An announcement runs to its end, and a command that is repeated often
\* enough succeeds: the network loses answers, but not all of them.
FairSpec ==
    /\ Spec /\ WF_vars(SendOption) /\ WF_vars(FinishAnnouncement)
    /\ \A h \in Handle :
          /\ WF_vars(WorkModeSucceeds(h))
          /\ \A o \in Option : WF_vars(OptionSucceeds(h, o))

----------------------------------------------------------------------------
\* The places of a lidar in the configuration file; the last one counts.
Places(h) == {i \in 1..Len(setup.configs) : setup.configs[i].handle = h}
Listed(h) == Places(h) # {}
UserOptions(h) ==
    UNION {setup.configs[i].options : i \in {j \in Places(h) : \A k \in Places(h) : k <= j}}

\* The types of all variables.
TypeOK ==
    /\ setup \in Settings
    /\ Registered \subseteq Handle /\ index \in [Registered -> Slot]
    /\ used \subseteq Slot
    /\ device \in [Slot -> Device]
    /\ setBits \in [Slot -> SUBSET Option]
    /\ sampling \subseteq Slot /\ streamed \subseteq Slot
    /\ topic \in [Slot -> Handle \cup {NoHandle, "none"}]
    /\ changing \in [handle : Registered, at : 1..(Len(OptionOrder) + 1)]
                      \cup {NoChange}
    /\ flight \in [Target -> Nat]
    /\ changes \in [Handle -> Nat]
    /\ accepted \in [Handle -> SUBSET Option]
    /\ refused \in [Handle -> SUBSET Option]
    /\ normal \subseteq Handle

\* A bit of set_bits never stays behind: an option that is marked as not yet
\* accepted has a command on its way or was refused, however announcements,
\* answers and repetitions interleave.
PendingIsInFlight ==
    \A h \in Registered : \A o \in setBits[index[h]] :
        flight[<<h, o>>] > 0 \/ o \in refused[h]

\* A lidar that counts as sampling before it stored any point cloud has
\* accepted every option of its slot: the first answers must not find
\* set_bits empty while the announcement is still sending (the reason for
\* config_mutex_).
ConfiguredBeforeSampling ==
    \A h \in Registered :
        index[h] \in sampling \ streamed => device[index[h]].options \subseteq accepted[h]

\* A lidar of the configuration file publishes under its own name, and no
\* other lidar uses that name.
ListedTopics ==
    \A h \in Registered : Listed(h) =>
        \A s \in Slot : topic[s] # "none" => (topic[s] = h <=> s = index[h])

\* A listed lidar that has announced itself, and refused nothing, ends with
\* every option of the file accepted, none pending, and in the normal work mode.
Settled(h) ==
    /\ UserOptions(h) \subseteq accepted[h]
    /\ setBits[index[h]] = {}
    /\ h \in normal
ConfigSettles ==
    <>[](\A h \in Registered :
            Listed(h) /\ changes[h] > 0 /\ refused[h] = {} => Settled(h))
============================================================================
