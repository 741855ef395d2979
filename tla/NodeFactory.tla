---------------------------- MODULE NodeFactory ----------------------------
(***************************************************************************)
(* How the camera driver finds its device and keeps a node for it.  The    *)
(* query thread looks for the device until it has one and then has         *)
(* librealsense report every change; librealsense's thread runs            *)
(* changeDeviceCallback for those; the executor's thread runs the          *)
(* lifecycle transitions and the destructor.  All of them use _device and  *)
(* _realSenseNode, and no lock guards these.                               *)
(*                                                                         *)
(* A device is a serial number with the number of its connection: what     *)
(* was unplugged does not work any more.  Its port and its type only       *)
(* decide whether it suits.                                                *)
(***************************************************************************)
EXTENDS Integers, Sequences, FiniteSets

CONSTANTS
    Ids,        \* the devices that may be plugged in, by serial number
    Settings    \* the settings to start with

Thread == {"query", "event", "main"}
Handle == [id : Ids \cup {"none", "file"}, connection : Nat]
NoHandle == [id |-> "none", connection |-> 0]
BagFile == [id |-> "file", connection |-> 0]
NoNode == [device |-> NoHandle, up |-> FALSE]

\* The build; the bag file played, if any; serial_no, and the devices with the port and
\* type asked for; initial_reset; wait_for_device_timeout and reconnect_timeout; what
\* happens how often at most (bounds), and whether it waits for the threads to be idle.
Setting ==
    [lifecycle : BOOLEAN, file : {"no", "once", "loop"}, serial : Ids \cup {"any"},
     suitable : SUBSET Ids, initialReset : BOOLEAN, timeout : Nat, span : Nat,
     plugs : Nat, transitions : Nat, failures : Nat, mayThrow : BOOLEAN,
     calm : BOOLEAN, destroy : BOOLEAN]

ASSUME NodeFactoryAssumption ==
    /\ Ids \cap {"none", "any", "file"} = {}
    /\ \A setting \in Settings : setting \in Setting

VARIABLES
    setup,        \* the setting, which nothing changes
    attached,     \* the devices that are plugged in
    resetting,    \* devices that were told to reset
    connection,   \* connections made
    events,       \* changes librealsense has still to report
    callback,     \* whom it reports them to
    device,       \* _device
    list,         \* the devices a thread's getDevice looks at, then the one it took
    serial,       \* _serial_no
    initialReset, \* _initial_reset
    alive,        \* _is_alive
    node,         \* _realSenseNode
    pc,           \* where each thread is
    timeLeft,     \* until wait_for_device_timeout
    state, goal,  \* the state of the lifecycle, and where a transition leads
    playing, isPlaying, \* the status of the playback, and what the loop made of it
    process,      \* "runs", "exited" or "crashed"
    served, plugs, transitions, failures \* history

deviceVars == <<device, serial, initialReset, list>>
worldVars == <<attached, resetting, connection, plugs>>
lifeVars == <<alive, timeLeft, state, goal, transitions>>
bagVars == <<playing, isPlaying>>
vars == <<setup, worldVars, events, callback, deviceVars, node, pc, lifeVars, bagVars,
          process, served, failures>>

At(t, step) == process = "runs" /\ pc[t] = step
Goto(t, step) == pc' = [pc EXCEPT ![t] = step]
\* What a thread does after startDevice.
After(t) == IF t = "query" THEN "loop"
            ELSE IF t = "main" /\ setup.file = "loop" THEN "poll" ELSE "idle"

\* A calm setting: devices come and go while no thread is about to start one and, but
\* for a backend error, while no more than one thread looks for them; none after the
\* factory is gone.  Transitions are not asked for during a callback, nor activation
\* before the first reset.
EventThreadIdle == pc["event"] = "idle" /\ events = <<>>
CalmTransition == setup.calm => EventThreadIdle
CalmActivation == setup.calm /\ initialReset => pc["query"] \in {"none", "ended"}
CalmDevices ==
    setup.calm =>
        /\ EventThreadIdle /\ pc["main"] = "idle" /\ state # "destroyed"
        /\ \/ pc["query"] \in {"none", "ended"}
           \/ /\ pc["query"] \in {"loop", "query", "wait", "caught"} /\ device = NoHandle
              /\ callback = "changeDevice" => failures > 0
----------------------------------------------------------------------------
\* The devices.

Report(gone, new) ==
    events' = IF callback = "none" THEN events ELSE Append(events, [gone |-> gone, new |-> new])

Plugged(id) == {h \in attached : h.id = id}
DeviceLeaves(id) ==
    /\ Plugged(id) # {}
    /\ attached' = attached \ Plugged(id)
    /\ Report(Plugged(id), {})
    /\ UNCHANGED connection
DeviceComes(id) ==
    /\ connection' = connection + 1
    /\ LET new == [id |-> id, connection |-> connection'] IN
       /\ attached' = (attached \ Plugged(id)) \cup {new}
       /\ Report(Plugged(id), {new})

\* Somebody plugs a device in or out.
Plug(id) ==
    /\ process = "runs" /\ CalmDevices /\ plugs < setup.plugs /\ id \notin resetting
    /\ plugs' = plugs + 1
    /\ DeviceLeaves(id) \/ DeviceComes(id)
    /\ UNCHANGED <<setup, resetting, callback, deviceVars, node, pc, lifeVars, bagVars,
                   process, served, failures>>

\* A reset device is lost and comes back; one report may say both.
ResetDevice(id) ==
    /\ process = "runs" /\ CalmDevices /\ id \in resetting
    /\ \/ DeviceLeaves(id) /\ UNCHANGED resetting
       \/ DeviceComes(id) /\ resetting' = resetting \ {id}
    /\ UNCHANGED <<setup, plugs, callback, deviceVars, node, pc, lifeVars, bagVars,
                   process, served, failures>>
----------------------------------------------------------------------------
\* getDevice.

\* Mutant: any device with the right port and type will do.
SuitsByType(h) == h.id \in setup.suitable
Suits(h) == h.id \in setup.suitable /\ serial \in {"any", h.id}

\* The first of the list that suits, whatever its order; one that throws is skipped.
Found(devices) ==
    LET suiting == {h \in devices : Suits(h)} IN
    suiting \cup {h \in {NoHandle} : suiting = {} \/ setup.mayThrow}

\* What a thread does when its getDevice or startDevice has thrown: the query thread
\* catches it, librealsense's callback ends.
Caught(t) == Goto(t, IF t = "query" THEN "caught" ELSE "idle")

\* The test of _device, and the search; what is used already stays.
GetDevice(t) ==
    /\ At(t, "get")
    /\ \/ /\ device # NoHandle /\ Goto(t, "reset")
          /\ list' = [list EXCEPT ![t] = {}]
       \/ /\ device = NoHandle
          /\ \E h \in Found(list[t]) :
                /\ list' = [list EXCEPT ![t] = {h} \ {NoHandle}]
                /\ Goto(t, IF h = NoHandle THEN "reset" ELSE "assign")
       \/ /\ device = NoHandle /\ list[t] # {} /\ setup.mayThrow /\ Caught(t)
          /\ list' = [list EXCEPT ![t] = {}]
    /\ UNCHANGED <<setup, worldVars, events, callback, device, serial, initialReset, node, lifeVars,
                   bagVars, process, served, failures>>

\* Its serial number is the one looked for from now on.
AssignDevice(t) ==
    /\ At(t, "assign")
    /\ device' \in list[t] /\ serial' = device'.id
    /\ list' = [list EXCEPT ![t] = {}]
    /\ Goto(t, "reset")
    /\ UNCHANGED <<setup, worldVars, events, callback, initialReset, node, lifeVars, bagVars,
                   process, served, failures>>

\* A first reset leaves no device, unless it throws.
ResetFirst(t) ==
    /\ At(t, "reset")
    /\ initialReset' = (initialReset /\ device = NoHandle)
    /\ \/ /\ device = NoHandle \/ ~ initialReset \/ setup.mayThrow \/ device \notin attached
          /\ UNCHANGED <<device, resetting>>
       \/ /\ initialReset /\ device \in attached
          /\ device' = NoHandle /\ resetting' = resetting \cup {device.id}
    /\ Goto(t, "found")
    /\ UNCHANGED <<setup, attached, connection, plugs, events, callback, serial, list, node,
                   lifeVars, bagVars, process, served, failures>>
Search(t) == GetDevice(t) \/ AssignDevice(t) \/ ResetFirst(t)
----------------------------------------------------------------------------
\* startDevice.

\* The node must not go while another thread runs its publishTopics.
InUse(t) == node # NoNode /\ \E other \in Thread \ {t} : pc[other] = "publish"
NodeGoes(t) == process' = IF InUse(t) THEN "crashed" ELSE process

\* An exception ends the query thread's attempt and librealsense's callback; in a
\* transition it ends the life of the node, in the constructor the process.
Thrown(t) ==
    IF t # "main" THEN Caught(t) /\ UNCHANGED <<process, state>>
    ELSE IF state = "inactive"
    THEN Goto(t, "idle") /\ state' = "finalized" /\ UNCHANGED process
    ELSE process' = "exited" /\ UNCHANGED <<pc, state>>

CreateNode(t) ==
    /\ At(t, "create") /\ device # NoHandle
    /\ NodeGoes(t)
    /\ node' = [device |-> device, up |-> FALSE]
    /\ Goto(t, "publish")
    /\ UNCHANGED <<setup, worldVars, events, callback, deviceVars, lifeVars, bagVars,
                   served, failures>>
\* Without a device there is no name to ask for.
CreateThrows(t) ==
    /\ At(t, "create") /\ device = NoHandle
    /\ node' = NoNode
    /\ IF InUse(t) THEN process' = "crashed" /\ UNCHANGED <<pc, state>> ELSE Thrown(t)
    /\ UNCHANGED <<setup, worldVars, events, callback, deviceVars, alive, timeLeft, goal,
                   transitions, bagVars, served, failures>>

Succeeded(t) ==
    /\ Goto(t, After(t))
    /\ state' = IF t = "main" /\ setup.file # "loop" THEN goal ELSE state
PublishTopics(t) ==
    /\ At(t, "publish")
    /\ node' = [node EXCEPT !.up = TRUE]
    /\ served' = served \cup {node.device.id}
    /\ playing' = (setup.file # "no")
    /\ Succeeded(t)
    /\ UNCHANGED <<setup, worldVars, events, callback, deviceVars, alive, timeLeft, goal,
                   transitions, isPlaying, process, failures>>

\* rs2::backend_error: the device is reset and looked for anew.
PublishFails(t) ==
    /\ At(t, "publish") /\ failures < setup.failures /\ device \in attached
    /\ failures' = failures + 1
    /\ resetting' = resetting \cup {device.id}
    /\ device' = NoHandle
    /\ Succeeded(t)
    /\ UNCHANGED <<setup, attached, connection, plugs, events, callback, serial, initialReset,
                   list, node, alive, timeLeft, goal, transitions, bagVars, process, served>>
\* Any other exception, as that of resetting a device that is gone, leaves the device
\* and a node that is not up.
PublishThrows(t) ==
    /\ At(t, "publish")
    /\ setup.mayThrow \/ device \notin attached \cup {BagFile}
    /\ Thrown(t)
    /\ UNCHANGED <<setup, worldVars, events, callback, deviceVars, node, alive, timeLeft,
                   goal, transitions, bagVars, served, failures>>
StartDevice(t) ==
    CreateNode(t) \/ CreateThrows(t) \/ PublishTopics(t) \/ PublishFails(t) \/ PublishThrows(t)
----------------------------------------------------------------------------
\* The query thread.

\* Mutant: it goes on while it has no device.
LoopsWithoutDevice == device = NoHandle
Loops == alive /\ device = NoHandle
QueryLoops ==
    /\ At("query", "loop")
    /\ Goto("query", IF Loops THEN "query" ELSE "ended")
    /\ UNCHANGED <<setup, worldVars, events, callback, deviceVars, node, lifeVars, bagVars,
                   process, served, failures>>
QueryDevices ==
    /\ At("query", "query")
    /\ \/ list' = [list EXCEPT !["query"] = attached] /\ Goto("query", "get")
       \/ setup.mayThrow /\ Caught("query") /\ UNCHANGED list
    /\ UNCHANGED <<setup, worldVars, events, callback, device, serial, initialReset, node, lifeVars,
                   bagVars, process, served, failures>>

\* The callback is registered once there is a device.  The lifecycle node leaves it at
\* that: on_activate starts the device.
QueryFinds ==
    /\ At("query", "found")
    /\ \/ device = NoHandle /\ Goto("query", "wait") /\ UNCHANGED callback
       \/ /\ device # NoHandle /\ callback' = "changeDevice"
          /\ Goto("query", IF setup.lifecycle THEN "loop" ELSE "create")
       \/ device # NoHandle /\ setup.mayThrow /\ Caught("query") /\ UNCHANGED callback
    /\ UNCHANGED <<setup, worldVars, events, deviceVars, node, lifeVars, bagVars, process,
                   served, failures>>

\* The handler of exceptions: the next try follows at once, without a look at the time.
LoopsAgain ==
    /\ At("query", "caught")
    /\ Goto("query", "loop")
    /\ UNCHANGED <<setup, worldVars, events, callback, deviceVars, node, lifeVars, bagVars,
                   process, served, failures>>

\* Mutant: the time is taken from each try.
TimeLeftOfTry(left) == setup.timeout
\* reconnect_timeout, but no longer than is left; time passes also without a sleep.
TimeLeftAfter(left) ==
    left - (IF setup.span = 0 \/ left = 0 THEN 1 ELSE IF setup.span < left THEN setup.span ELSE left)
Sleep ==
    /\ At("query", "wait")
    /\ setup.timeout > 0 => timeLeft >= 0
    /\ timeLeft' = IF setup.timeout > 0 THEN TimeLeftAfter(timeLeft) ELSE timeLeft
    /\ Goto("query", "loop")
    /\ UNCHANGED <<setup, worldVars, events, callback, deviceVars, node, alive, state, goal,
                   transitions, bagVars, process, served, failures>>
GiveUp ==
    /\ At("query", "wait") /\ setup.timeout > 0 /\ timeLeft < 0
    /\ process' = "exited"
    /\ UNCHANGED <<setup, worldVars, events, callback, deviceVars, node, pc, lifeVars, bagVars,
                   served, failures>>
----------------------------------------------------------------------------
\* changeDeviceCallback.

\* What is reported after the factory is gone is reported to a dead object.
TakeEvent ==
    /\ At("event", "idle") /\ events # <<>>
    /\ IF callback = "changeDevice" /\ state = "destroyed"
       THEN process' = "crashed" /\ UNCHANGED <<events, pc>>
       ELSE IF callback = "changeDevice"
            THEN Goto("event", "removed") /\ UNCHANGED <<events, process>>
            ELSE events' = Tail(events) /\ UNCHANGED <<pc, process>>
    /\ UNCHANGED <<setup, worldVars, callback, deviceVars, node, lifeVars, bagVars, served, failures>>

\* Mutant: the node stays until another one replaces it.
KeepNode == node
NodeOfRemoved == NoNode
CheckRemoved ==
    /\ At("event", "removed")
    /\ IF device \in Head(events).gone
       THEN NodeGoes("event") /\ node' = NodeOfRemoved /\ Goto("event", "clear")
       ELSE Goto("event", "added") /\ UNCHANGED <<node, process>>
    /\ UNCHANGED <<setup, worldVars, events, callback, deviceVars, lifeVars, bagVars, served, failures>>
\* Mutant: the removed device is kept.
KeepDevice == device
DeviceAfterRemoval == NoHandle
ClearDevice ==
    /\ At("event", "clear")
    /\ device' = DeviceAfterRemoval
    /\ Goto("event", "added")
    /\ UNCHANGED <<setup, worldVars, events, callback, serial, initialReset, list, node, lifeVars,
                   bagVars, process, served, failures>>
CheckAdded ==
    /\ At("event", "added")
    /\ events' = Tail(events)
    /\ IF device = NoHandle /\ Head(events).new # {}
       THEN list' = [list EXCEPT !["event"] = Head(events).new] /\ Goto("event", "get")
       ELSE Goto("event", "idle") /\ UNCHANGED list
    /\ UNCHANGED <<setup, worldVars, callback, device, serial, initialReset, node, lifeVars, bagVars,
                   process, served, failures>>
CallbackFinds ==
    /\ At("event", "found")
    /\ Goto("event", IF device = NoHandle THEN "idle" ELSE "create")
    /\ UNCHANGED <<setup, worldVars, events, callback, deviceVars, node, lifeVars, bagVars,
                   process, served, failures>>
----------------------------------------------------------------------------
\* The lifecycle, the constructor of the ordinary node, and the destructor.

\* init(): the file, or a query thread.
Initialized(at) ==
    /\ alive' = TRUE /\ timeLeft' = setup.timeout /\ goal' = at
    /\ served' = {}
    /\ IF setup.file = "no"
       THEN /\ serial' = setup.serial /\ initialReset' = setup.initialReset
            /\ pc' = [pc EXCEPT !["query"] = "loop"] /\ state' = at
            /\ UNCHANGED device
       ELSE /\ device' = BagFile /\ serial' = "file"
            /\ Goto("main", "create")
            /\ UNCHANGED <<state, initialReset>>

Transition(from) ==
    /\ At("main", "idle") /\ setup.lifecycle /\ state \in from /\ CalmTransition
    /\ transitions < setup.transitions /\ transitions' = transitions + 1

OnConfigure ==
    /\ Transition({"unconfigured"})
    /\ Initialized("inactive")
    /\ UNCHANGED <<setup, worldVars, events, callback, list, node, bagVars, process, failures>>
OnActivate ==
    /\ Transition({"inactive"}) /\ CalmActivation
    /\ goal' = "active" /\ Goto("main", "create")
    /\ UNCHANGED <<setup, worldVars, events, callback, deviceVars, node, alive, timeLeft, state,
                   bagVars, process, served, failures>>
OnDeactivate ==
    /\ Transition({"active"})
    /\ NodeGoes("main") /\ node' = NoNode
    /\ state' = "inactive"
    /\ UNCHANGED <<setup, worldVars, events, callback, deviceVars, pc, alive, timeLeft, goal,
                   bagVars, served, failures>>

Close(to) ==
    /\ goal' = to /\ alive' = FALSE
    /\ Goto("main", "join")
    /\ UNCHANGED <<setup, worldVars, events, callback, deviceVars, node, timeLeft, state,
                   bagVars, process, served, failures>>
OnCleanup == Transition({"inactive"}) /\ Close("unconfigured")
OnShutdown == Transition({"unconfigured", "inactive", "active"}) /\ Close("finalized")
Destroy ==
    /\ setup.destroy /\ At("main", "idle") /\ CalmTransition /\ state # "destroyed"
    /\ Close("destroyed")
    /\ UNCHANGED transitions

\* Mutant: nobody waits for the query thread.
NotJoined == TRUE
QueryJoined == pc["query"] \in {"none", "ended"}
\* stopDevice and what follows it; the destructor leaves that to its members, and
\* the callback alone.
CloseDevice ==
    /\ At("main", "join") /\ QueryJoined
    /\ pc' = [pc EXCEPT !["main"] = "idle", !["query"] = "none"]
    /\ process' = IF InUse("main") \/ (goal = "destroyed" /\ pc["event"] # "idle")
                  THEN "crashed" ELSE process
    /\ node' = NoNode
    /\ state' = goal
    /\ device' = NoHandle
    /\ callback' = IF device # NoHandle /\ goal # "destroyed" THEN "nobody" ELSE callback
    /\ UNCHANGED <<setup, worldVars, events, serial, initialReset, list, alive, timeLeft, goal,
                   transitions, bagVars, served, failures>>
----------------------------------------------------------------------------
\* rosbag_loop: the playback's status is polled in the constructor.

PlaybackEnds ==
    /\ process = "runs" /\ playing /\ pc["main"] # "publish"
    /\ playing' = FALSE
    /\ UNCHANGED <<setup, worldVars, events, callback, deviceVars, node, pc, lifeVars, isPlaying,
                   process, served, failures>>
IsPlaying == playing
PollPlayback ==
    /\ At("main", "poll")
    /\ IF ~ isPlaying /\ ~ playing
       THEN isPlaying' = TRUE /\ Goto("main", "create")
       ELSE isPlaying' = IsPlaying /\ UNCHANGED pc
    /\ UNCHANGED <<setup, worldVars, events, callback, deviceVars, node, lifeVars, playing,
                   process, served, failures>>
----------------------------------------------------------------------------
\* The ordinary node initializes in its constructor, the lifecycle node when configured.
Init ==
    /\ setup \in Settings
    /\ \E ids \in SUBSET Ids : attached = {[id |-> id, connection |-> 1] : id \in ids}
    /\ resetting = {} /\ connection = 1 /\ events = <<>> /\ callback = "none"
    /\ device = IF setup.file # "no" /\ ~ setup.lifecycle THEN BagFile ELSE NoHandle
    /\ serial = setup.serial /\ initialReset = setup.initialReset
    /\ list = [t \in {"query", "event"} |-> {}]
    /\ alive = TRUE /\ node = NoNode /\ timeLeft = setup.timeout
    /\ pc = [query |-> IF setup.lifecycle \/ setup.file # "no" THEN "none" ELSE "loop",
             event |-> "idle",
             main |-> IF setup.file # "no" /\ ~ setup.lifecycle THEN "create" ELSE "idle"]
    /\ state = IF setup.lifecycle THEN "unconfigured" ELSE "active"
    /\ goal = "active"
    /\ playing = FALSE /\ isPlaying = TRUE
    /\ process = "runs" /\ served = {} /\ plugs = 0 /\ transitions = 0 /\ failures = 0

Query ==
    \/ QueryLoops \/ QueryDevices \/ Search("query") \/ QueryFinds \/ LoopsAgain \/ Sleep \/ GiveUp
    \/ StartDevice("query")
Event ==
    \/ TakeEvent \/ CheckRemoved \/ ClearDevice \/ CheckAdded \/ Search("event") \/ CallbackFinds
    \/ StartDevice("event")
Main == CloseDevice \/ PollPlayback \/ StartDevice("main")
ManagerAsks == OnConfigure \/ OnActivate \/ OnDeactivate \/ OnCleanup \/ OnShutdown
Next ==
    \/ \E id \in Ids : Plug(id) \/ ResetDevice(id)
    \/ PlaybackEnds \/ ManagerAsks \/ Destroy
    \/ Query \/ Event \/ Main

Spec == Init /\ [][Next]_vars
\* The threads run and a device that was reset comes back.  Nobody has to plug
\* devices, ask for transitions or destroy the node.
FairSpec ==
    /\ Spec
    /\ WF_vars(Query) /\ WF_vars(Event) /\ WF_vars(Main)
    /\ WF_vars(\E id \in Ids : ResetDevice(id) /\ resetting' # resetting)
----------------------------------------------------------------------------
\* The types of all variables.
TypeOK ==
    /\ setup \in Settings
    /\ attached \subseteq Handle /\ resetting \subseteq Ids
    /\ {connection, plugs, transitions, failures} \subseteq Nat /\ timeLeft \in Int
    /\ events \in Seq([gone : SUBSET Handle, new : SUBSET Handle])
    /\ callback \in {"none", "changeDevice", "nobody"}
    /\ device \in Handle /\ serial \in Ids \cup {"any", "file"}
    /\ list \in [{"query", "event"} -> SUBSET Handle]
    /\ {initialReset, alive, playing, isPlaying} \subseteq BOOLEAN
    /\ node \in [device : Handle, up : BOOLEAN]
    /\ pc["query"] \in {"none", "loop", "query", "get", "assign", "reset", "found", "wait",
                       "create", "publish", "caught", "ended"}
    /\ pc["event"] \in {"idle", "removed", "clear", "added", "get", "assign", "reset", "found",
                       "create", "publish"}
    /\ pc["main"] \in {"idle", "create", "publish", "join", "poll"}
    /\ {state, goal} \subseteq {"unconfigured", "inactive", "active", "finalized", "destroyed"}
    /\ process \in {"runs", "exited", "crashed"}
    /\ served \subseteq Ids \cup {"file"}

\* In a calm setting no thread destroys the node that another one starts, until a
\* backend error has the query thread and the callback look for the device both
\* (closeDevice, ~RealSenseNodeFactory, startDevice).
NoDanglingNode == setup.calm /\ failures = 0 => process # "crashed"

Quiet ==
    /\ process = "runs" /\ EventThreadIdle
    /\ pc["query"] \in {"none", "ended"} /\ pc["main"] = "idle"

\* In a calm setting, and while starting does not fail, the node serves the device
\* as it is plugged in now, not what it was before a reset or a reconnection, and an
\* active node with a device serves it (changeDeviceCallback, startDevice, stopDevice).
ServesItsDevice ==
    Quiet /\ setup.calm /\ setup.file = "no" /\ ~ setup.mayThrow /\ failures = 0 =>
        /\ device # NoHandle => device \in attached
        /\ node # NoNode => node = [device |-> device, up |-> TRUE]
        /\ state = "active" /\ device # NoHandle => node # NoNode

\* An ordinary node that has found a camera never serves another one, whatever is
\* plugged in when: the serial number is kept (getDevice).
OneCamera == ~ setup.lifecycle => Cardinality(served) <= 1

\* Closing and destroying return, at whatever step they meet the query thread and
\* the callback (closeDevice, ~RealSenseNodeFactory).
CloseReturns == pc["main"] = "join" ~> pc["main"] # "join" \/ process # "runs"

\* In a calm setting an ordinary node serves its camera time and again while it is
\* plugged in, also after backend errors, an initial reset and reconnections.
CameraIsServed ==
    ~ setup.lifecycle /\ setup.calm /\ setup.file = "no" /\ ~ setup.mayThrow =>
        []<>(\/ process # "runs" \/ ~ alive
             \/ \A h \in attached : ~ Suits(h)
             \/ node.up /\ node.device \in attached)

\* With wait_for_device_timeout the node has found a device in the end or has given up,
\* unless its tries end in exceptions time and again (init, the query thread).
WaitIsBounded ==
    setup.timeout > 0 /\ ~ setup.lifecycle =>
        \/ <>(process # "runs" \/ callback # "none" \/ pc["query"] \in {"none", "ended"})
        \/ []<>(pc["query"] = "caught")

\* "INACTIVE: The node is initialized but not yet publishing data." (README.md:304).
InactiveIsSilent == state = "inactive" /\ pc["main"] = "idle" => ~ node.up
=============================================================================
