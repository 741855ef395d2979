------------------------- MODULE NodeFactoryProofs -------------------------
(***************************************************************************)
(* Proofs about the node factory, for every set of devices, every setting  *)
(* and however the query thread, the callback for changes and the          *)
(* lifecycle meet: an ordinary node serves one camera, and in a calm       *)
(* setting no thread takes the node from another one.                      *)
(***************************************************************************)
EXTENDS NodeFactory, SequenceTheorems, FiniteSetTheorems, TLAPS

Step == {"none", "loop", "query", "get", "assign", "reset", "found", "wait", "create", "publish",
         "caught", "ended", "idle", "removed", "clear", "added", "join", "poll"}
Change == [gone : SUBSET Handle, new : SUBSET Handle]

\* Types, with each thread's place.
TypeInv ==
    /\ TypeOK /\ setup \in Setting
    /\ pc \in [Thread -> Step]

Starting == {"create", "publish"}
HandlingEvent == {"removed", "clear", "added"}
Searching == {"query", "get", "assign", "reset", "found", "wait"}

\* Handles are never used again: what is plugged in is not reported as gone.  What
\* changeDeviceCallback is busy with is reported still.  There are no reports before
\* anybody asked for them, and what a search has taken is a device.
HandleInv ==
    /\ \A h \in attached : h.id \in Ids /\ h.connection <= connection
    /\ \A i \in 1..Len(events) : \A h \in events[i].gone :
          h.id \in Ids /\ h.connection <= connection /\ h \notin attached
    /\ pc["event"] \in HandlingEvent => events # <<>>
    /\ callback = "none" => EventThreadIdle
    /\ \A t \in {"query", "event"} : pc[t] = "assign" => \A h \in list[t] : h.id \in Ids

\* A thread that publishes has a node, and a node has a device: who takes the node away
\* crashes it.
NodeInv ==
    /\ device # NoHandle => device.id \in Ids \cup {"file"}
    /\ node # NoNode => node.device.id \in Ids \cup {"file"}
    /\ process = "runs" => \A t \in Thread : pc[t] = "publish" => node # NoNode

\* The camera of an ordinary node: the one it looks for, or the file.
Camera == IF setup.file = "no" THEN serial ELSE "file"

\* Without a file devices and nodes are those of the camera, also one a search is about
\* to take; it is known before changes are reported.  With a file nobody looks for
\* devices.  The node is closed only by the destructor.
CameraInv ==
    ~ setup.lifecycle =>
        /\ device # NoHandle => device.id = Camera
        /\ node # NoNode => node.device.id = Camera
        /\ served \subseteq {Camera}
        /\ \A t \in {"query", "event"} :
              pc[t] = "assign" => \A h \in list[t] : serial \in {"any", h.id}
        /\ setup.file = "no" /\ callback # "none" => serial # "any"
        /\ pc["main"] = "join" => goal = "destroyed"
        /\ setup.file # "no" => pc["query"] = "none" /\ callback = "none"

\* In a calm setting without backend errors the threads that start a node exclude each
\* other: the callback handles no change before the query thread of an ordinary node is
\* done, that of a lifecycle node starts none, and main starts one only while nothing is
\* reported.
ThreadInv ==
    setup.calm /\ failures = 0 =>
        /\ process # "crashed"
        /\ setup.lifecycle => pc["query"] \notin Starting
        /\ ~ setup.lifecycle /\ pc["query"] \notin {"none", "ended"} =>
              EventThreadIdle /\ (callback # "none" => device # NoHandle)
        /\ ~ setup.lifecycle /\ pc["query"] \in Searching => callback = "none"
        /\ ~ setup.lifecycle /\ pc["main"] \in Starting \cup {"poll"} => setup.file # "no"
        /\ pc["main"] # "idle" \/ state = "destroyed" => EventThreadIdle

\* A calm setting in which nothing fails.
Smooth == setup.calm /\ setup.file = "no" /\ ~ setup.mayThrow /\ failures = 0

\* The query thread does not run before the node is configured, and does not reset what
\* main starts.  A calm setting reports one change at a time, to a query thread that is
\* done or that has found its device; a device that is gone is used only until
\* changeDeviceCallback reads that it is.
ReportInv ==
    Smooth =>
        /\ state = "unconfigured" => pc["query"] = "none"
        /\ pc["main"] # "poll" /\ (pc["main"] \in Starting => goal = "active")
        /\ pc["main"] \in Starting /\ initialReset => pc["query"] \in {"none", "ended"}
        /\ Len(events) <= 1
        /\ \A i \in 1..Len(events) : events[i].new \subseteq attached
        /\ pc["event"] # "idle" => callback = "changeDevice"
        /\ pc["event"] = "clear" => device \notin attached
        /\ \A t \in {"query", "event"} : pc[t] \in {"get", "assign"} => list[t] \subseteq attached
        /\ \A t \in {"query", "event"} : pc[t] = "assign" => device = NoHandle
        /\ pc["event"] = "get" => device = NoHandle
        /\ device # NoHandle /\ pc["query"] \notin {"reset", "found"} => callback = "changeDevice"
        /\ pc["query"] \notin {"none", "ended"} =>
              /\ pc["event"] \in {"idle", "removed", "added"}
              /\ callback = "changeDevice" =>
                    \/ EventThreadIdle
                    \/ device # NoHandle /\ pc["query"] \notin Searching
        /\ device # NoHandle /\ device \notin attached =>
              /\ events # <<>> /\ device \in Head(events).gone
              /\ pc["event"] \in {"idle", "removed", "clear"}
              /\ pc["query"] \in {"none", "ended"}

\* The node is that of the device, and it is missing only until the thread that found
\* the device, or that found it gone, is done.  Nobody has a node while the callback
\* looks for a device, or the query thread for one that it will reset first.
ServiceInv ==
    Smooth =>
        /\ node # NoNode => node.device = device
        /\ node # NoNode /\ ~ node.up => \E t \in Thread : pc[t] = "publish"
        /\ pc["event"] \in {"clear", "get", "assign", "reset", "found"} => node = NoNode
        /\ pc["query"] \in Searching /\ initialReset => node = NoNode
        /\ setup.lifecycle /\ pc["query"] \notin {"none", "ended"} /\ initialReset => state # "active"
        /\ state = "active" /\ device # NoHandle /\ node = NoNode =>
              \/ pc["event"] \in {"clear", "reset", "found", "create"}
              \/ ~ setup.lifecycle /\ pc["query"] \in {"reset", "found", "create"}
        /\ setup.lifecycle /\ pc["query"] \in Searching \cup {"loop", "caught"} /\ device = NoHandle =>
              state # "active"

FactoryInv == TypeInv /\ HandleInv /\ NodeInv /\ CameraInv /\ ThreadInv /\ ReportInv /\ ServiceInv
----------------------------------------------------------------------------
\* Where threads go.

\* A thread that goes to a step moves no other thread.
LEMMA Going ==
    ASSUME pc \in [Thread -> Step], NEW t \in Thread, NEW step \in Step, Goto(t, step)
    PROVE  /\ pc' \in [Thread -> Step] /\ pc'[t] = step
           /\ \A u \in Thread : u # t => pc'[u] = pc[u]
  BY DEF Goto

\* The places of each thread.
Places(t) ==
    CASE t = "query" -> {"none", "loop", "query", "get", "assign", "reset", "found", "wait",
                         "create", "publish", "caught", "ended"}
      [] t = "event" -> {"idle", "removed", "clear", "added", "get", "assign", "reset", "found",
                         "create", "publish"}
      [] t = "main" -> {"idle", "create", "publish", "join", "poll"}

\* Types of all variables but the places.
OtherTypes ==
    /\ setup \in Settings
    /\ attached \subseteq Handle /\ resetting \subseteq Ids
    /\ connection \in Nat /\ plugs \in Nat /\ transitions \in Nat /\ failures \in Nat
    /\ timeLeft \in Int
    /\ events \in Seq(Change)
    /\ callback \in {"none", "changeDevice", "nobody"}
    /\ device \in Handle /\ serial \in Ids \cup {"any", "file"}
    /\ list \in [{"query", "event"} -> SUBSET Handle]
    /\ initialReset \in BOOLEAN /\ alive \in BOOLEAN /\ playing \in BOOLEAN /\ isPlaying \in BOOLEAN
    /\ node \in [device : Handle, up : BOOLEAN]
    /\ state \in {"unconfigured", "inactive", "active", "finalized", "destroyed"}
    /\ goal \in {"unconfigured", "inactive", "active", "finalized", "destroyed"}
    /\ process \in {"runs", "exited", "crashed"}
    /\ served \subseteq Ids \cup {"file"}
PlaceTypes == pc \in [Thread -> Step] /\ \A t \in Thread : pc[t] \in Places(t)

\* The type invariant is that of the variables and that of each thread's places.
LEMMA TypeParts == TypeInv <=> OtherTypes /\ PlaceTypes
<1>1. (\A t \in Thread : pc[t] \in Places(t)) <=>
        pc["query"] \in Places("query") /\ pc["event"] \in Places("event")
        /\ pc["main"] \in Places("main")
  BY DEF Thread
<1>2. setup \in Settings => setup \in Setting
  BY NodeFactoryAssumption
<1>3. QED
  BY <1>1, <1>2 DEF TypeInv, TypeOK, OtherTypes, PlaceTypes, Change, Places

\* A thread goes to a place of its own.
LEMMA Placed ==
    ASSUME PlaceTypes, NEW t \in Thread, NEW step \in Step, Goto(t, step), step \in Places(t)
    PROVE  PlaceTypes'
<1>1. /\ pc' \in [Thread -> Step] /\ pc'[t] = step
      /\ \A u \in Thread : u # t => pc'[u] = pc[u]
  BY Going DEF PlaceTypes
<1>2. QED
  BY <1>1 DEF PlaceTypes

----------------------------------------------------------------------------
\* The steps there are.

Starts(t) == CreateNode(t) \/ CreateThrows(t) \/ PublishTopics(t) \/ PublishFails(t) \/ PublishThrows(t)

\* The actions of the factory, one disjunct each.
LEMMA Steps ==
    ASSUME [Next]_vars
    PROVE  \/ \E id \in Ids : Plug(id) \/ ResetDevice(id)
           \/ \E t \in Thread : Starts(t)
           \/ \E t \in {"query", "event"} : GetDevice(t) \/ AssignDevice(t) \/ ResetFirst(t)
           \/ QueryLoops \/ QueryDevices \/ QueryFinds \/ LoopsAgain \/ Sleep \/ GiveUp
           \/ TakeEvent \/ CheckRemoved \/ ClearDevice \/ CheckAdded \/ CallbackFinds
           \/ OnConfigure \/ OnActivate \/ OnDeactivate \/ OnCleanup \/ OnShutdown \/ Destroy
           \/ CloseDevice \/ PlaybackEnds \/ PollPlayback
           \/ UNCHANGED vars
  BY DEF Next, Query, Event, Main, ManagerAsks, StartDevice, Starts, Search, Thread

\* No step changes the setting, and backend errors are counted.
LEMMA SettingKept ==
    ASSUME [Next]_vars
    PROVE  setup' = setup /\ (failures' = failures \/ failures' = failures + 1)
  BY Steps DEF vars, Plug, ResetDevice, Starts, CreateNode, CreateThrows, PublishTopics, PublishFails,
       PublishThrows, GetDevice, AssignDevice, ResetFirst, QueryLoops, QueryDevices, QueryFinds,
       LoopsAgain, Sleep, GiveUp, TakeEvent, CheckRemoved, ClearDevice, CheckAdded, CallbackFinds,
       OnConfigure, OnActivate, OnDeactivate, OnCleanup, OnShutdown, Destroy, Close, CloseDevice,
       PlaybackEnds, PollPlayback

\* Without a backend error up to now there was none before.
LEMMA NoFailure ==
    ASSUME OtherTypes, [Next]_vars, failures' = 0
    PROVE  failures = 0 /\ \A t \in Thread : ~ PublishFails(t)
  BY SettingKept DEF OtherTypes, PublishFails

\* What the files and the device that is plugged in are not.
LEMMA Handles ==
    ASSUME HandleInv
    PROVE  /\ NoHandle \notin attached /\ BagFile \notin attached
           /\ \A i \in 1..Len(events) : NoHandle \notin events[i].gone
  BY NodeFactoryAssumption DEF HandleInv, NoHandle, BagFile

\* What getDevice takes is one of the list that suits.
LEMMA DeviceFound ==
    ASSUME setup \in Setting, NEW devices, NEW h \in Found(devices), h # NoHandle
    PROVE  h \in devices /\ h.id \in Ids /\ serial \in {"any", h.id}
<1>1. h \in devices /\ Suits(h)
  BY DEF Found
<1>2. QED
  BY <1>1 DEF Suits, Setting

\* A search leaves the node and what is reported alone; its thread goes on to the next step.
LEMMA SearchMoves ==
    ASSUME setup \in Setting, OtherTypes, pc \in [Thread -> Step], NEW t \in {"query", "event"},
           GetDevice(t) \/ AssignDevice(t) \/ ResetFirst(t)
    PROVE  /\ UNCHANGED <<attached, connection, events, callback, node, alive, state, goal, process, served>>
           /\ \A u \in Thread : u # t => pc'[u] = pc[u]
           /\ \A u \in {"query", "event"} : u # t => list'[u] = list[u]
           /\ \/ GetDevice(t) /\ pc[t] = "get" /\ device' = device /\ serial' = serial
                 /\ initialReset' = initialReset
                 /\ \/ pc'[t] = "reset" /\ list'[t] = {}
                    \/ /\ device = NoHandle /\ pc'[t] = "assign"
                       /\ \A h \in list'[t] : h \in list[t] /\ h.id \in Ids /\ serial \in {"any", h.id}
                    \/ setup.mayThrow /\ list'[t] = {} /\ pc'[t] = (IF t = "query" THEN "caught" ELSE "idle")
              \/ AssignDevice(t) /\ pc[t] = "assign" /\ pc'[t] = "reset"
                 /\ device' \in list[t] /\ serial' = device'.id /\ initialReset' = initialReset
              \/ ResetFirst(t) /\ pc[t] = "reset" /\ pc'[t] = "found" /\ serial' = serial
                 /\ (initialReset' => initialReset)
                 /\ (device' = device \/ (initialReset /\ device' = NoHandle))
<1>0. t \in Thread /\ list \in [{"query", "event"} -> SUBSET Handle]
  BY DEF Thread, OtherTypes
<1>1. ASSUME NEW step \in Step, Goto(t, step)
      PROVE  pc'[t] = step /\ \A u \in Thread : u # t => pc'[u] = pc[u]
  BY <1>0, <1>1, Going
<1>2. CASE GetDevice(t)
  <2>1. /\ UNCHANGED <<attached, connection, events, callback, node, alive, state, goal, process, served>>
        /\ UNCHANGED <<device, serial, initialReset>> /\ pc[t] = "get"
    BY <1>2 DEF GetDevice, At, worldVars, lifeVars
  <2>2. CASE Goto(t, "reset") /\ list' = [list EXCEPT ![t] = {}]
    BY <1>0, <1>1, <1>2, <2>1, <2>2 DEF Step
  <2>3. CASE device = NoHandle /\ \E h \in Found(list[t]) :
                /\ list' = [list EXCEPT ![t] = {h} \ {NoHandle}]
                /\ Goto(t, IF h = NoHandle THEN "reset" ELSE "assign")
    <3>1. PICK h \in Found(list[t]) :
             /\ list' = [list EXCEPT ![t] = {h} \ {NoHandle}]
             /\ Goto(t, IF h = NoHandle THEN "reset" ELSE "assign")
      BY <2>3
    <3>2. list'[t] = {h} \ {NoHandle} /\ \A u \in {"query", "event"} : u # t => list'[u] = list[u]
      BY <1>0, <3>1
    <3>3. pc'[t] = (IF h = NoHandle THEN "reset" ELSE "assign")
          /\ \A u \in Thread : u # t => pc'[u] = pc[u]
      BY <1>1, <3>1 DEF Step
    <3>4. \A g \in list'[t] : g \in list[t] /\ g.id \in Ids /\ serial \in {"any", g.id}
      BY <3>1, <3>2, DeviceFound
    <3>5. h = NoHandle => list'[t] = {}
      BY <3>2
    <3>6. QED
      BY <1>2, <2>1, <2>3, <3>2, <3>3, <3>4, <3>5
  <2>4. CASE setup.mayThrow /\ Caught(t) /\ list' = [list EXCEPT ![t] = {}]
    <3>1. Goto(t, IF t = "query" THEN "caught" ELSE "idle")
      BY <2>4 DEF Caught
    <3>2. list'[t] = {} /\ \A u \in {"query", "event"} : u # t => list'[u] = list[u]
      BY <1>0, <2>4
    <3>3. QED
      BY <1>1, <1>2, <2>1, <2>4, <3>1, <3>2 DEF Step
  <2>5. QED
    BY <1>2, <2>2, <2>3, <2>4 DEF GetDevice
<1>3. CASE AssignDevice(t)
  <2>1. /\ UNCHANGED <<attached, connection, events, callback, node, alive, state, goal, process, served>>
        /\ initialReset' = initialReset /\ pc[t] = "assign" /\ Goto(t, "reset")
        /\ device' \in list[t] /\ serial' = device'.id /\ list' = [list EXCEPT ![t] = {}]
    BY <1>3 DEF AssignDevice, At, worldVars, lifeVars
  <2>2. QED
    BY <1>0, <1>1, <1>3, <2>1 DEF Step
<1>4. CASE ResetFirst(t)
  <2>1. /\ UNCHANGED <<attached, connection, events, callback, node, alive, state, goal, process, served>>
        /\ serial' = serial /\ pc[t] = "reset" /\ Goto(t, "found") /\ list' = list
        /\ (initialReset' => initialReset)
        /\ device' = device \/ (initialReset /\ device' = NoHandle)
    BY <1>4 DEF ResetFirst, At, lifeVars
  <2>2. QED
    BY <1>0, <1>1, <1>4, <2>1 DEF Step
<1>5. QED
  BY <1>2, <1>3, <1>4

----------------------------------------------------------------------------
\* Every step preserves the types.

\* Threads stay at places of their own.
LEMMA PlacesStep == ASSUME TypeInv, [Next]_vars PROVE PlaceTypes'
<1> USE DEF Places, Step, Thread
<1>0. PlaceTypes
  BY TypeParts
<1>1. pc' = pc => PlaceTypes'
  BY <1>0 DEF PlaceTypes
<1>2. ASSUME NEW t \in Thread, NEW step \in Places(t), Goto(t, step) PROVE PlaceTypes'
  <2>1. step \in Step
    OBVIOUS
  <2>2. QED
    BY <1>0, <1>2, <2>1, Placed
<1>3. ASSUME NEW t \in Thread PROVE After(t) \in Places(t)
  BY DEF After
<1>4. ASSUME NEW t \in Thread, Thrown(t) PROVE PlaceTypes'
  <2>1. \/ t = "query" /\ Goto(t, "caught")
        \/ t \in {"event", "main"} /\ Goto(t, "idle")
        \/ pc' = pc
    BY <1>4 DEF Thrown, Caught
  <2>2. QED
    BY <2>1, <1>1, <1>2
<1>5. ASSUME NEW t \in Thread, Starts(t) PROVE PlaceTypes'
  <2>1. CASE CreateNode(t)
    <3>1. Goto(t, "publish") /\ "publish" \in Places(t)
      BY <2>1 DEF CreateNode
    <3>2. QED
      BY <3>1, <1>2
  <2>2. CASE CreateThrows(t)
    BY <2>2, <1>1, <1>4 DEF CreateThrows
  <2>3. CASE PublishTopics(t) \/ PublishFails(t)
    BY <2>3, <1>2, <1>3 DEF PublishTopics, PublishFails, Succeeded
  <2>4. CASE PublishThrows(t)
    BY <2>4, <1>4 DEF PublishThrows
  <2>5. QED
    BY <1>5, <2>1, <2>2, <2>3, <2>4 DEF Starts
<1>6. CASE \E t \in {"query", "event"} : GetDevice(t) \/ AssignDevice(t) \/ ResetFirst(t)
  <2>1. PICK t \in {"query", "event"} : GetDevice(t) \/ AssignDevice(t) \/ ResetFirst(t)
    BY <1>6
  <2>2. \E step \in Places(t) : Goto(t, step)
    BY <2>1 DEF GetDevice, AssignDevice, ResetFirst, Caught
  <2>3. QED
    BY <1>2, <2>2
<1>7. CASE QueryLoops \/ QueryDevices \/ QueryFinds \/ LoopsAgain \/ Sleep \/ GiveUp
  <2>1. pc' = pc \/ \E step \in Places("query") : Goto("query", step)
    BY <1>7 DEF QueryLoops, QueryDevices, QueryFinds, LoopsAgain, Sleep, GiveUp, Caught
  <2>2. QED
    BY <2>1, <1>1, <1>2
<1>8. CASE TakeEvent \/ CheckRemoved \/ ClearDevice \/ CheckAdded \/ CallbackFinds
  <2>1. pc' = pc \/ \E step \in Places("event") : Goto("event", step)
    BY <1>8 DEF TakeEvent, CheckRemoved, ClearDevice, CheckAdded, CallbackFinds
  <2>2. QED
    BY <2>1, <1>1, <1>2
<1>9. CASE OnConfigure
  <2>1. pc' = [pc EXCEPT !["query"] = "loop"] \/ Goto("main", "create")
    BY <1>9 DEF OnConfigure, Initialized
  <2>2. Goto("query", "loop") \/ Goto("main", "create")
    BY <2>1 DEF Goto
  <2>3. QED
    BY <2>2, <1>2
<1>10. CASE OnActivate \/ OnDeactivate \/ OnCleanup \/ OnShutdown \/ Destroy \/ PollPlayback
  <2>1. pc' = pc \/ \E step \in Places("main") : Goto("main", step)
    BY <1>10 DEF OnActivate, OnDeactivate, OnCleanup, OnShutdown, Destroy, Close, PollPlayback
  <2>2. QED
    BY <2>1, <1>1, <1>2
<1>11. CASE CloseDevice
  BY <1>11, <1>0 DEF CloseDevice, PlaceTypes
<1>12. CASE PlaybackEnds \/ UNCHANGED vars \/ \E id \in Ids : Plug(id) \/ ResetDevice(id)
  <2>1. pc' = pc
    BY <1>12 DEF PlaybackEnds, vars, Plug, ResetDevice
  <2>2. QED
    BY <2>1, <1>1
<1>13. QED
  BY <1>5, <1>6, <1>7, <1>8, <1>9, <1>10, <1>11, <1>12, Steps

\* A device comes or goes.
LEMMA ChangeTypes ==
    ASSUME OtherTypes, NEW id \in Ids, DeviceLeaves(id) \/ DeviceComes(id)
    PROVE  attached' \subseteq Handle /\ events' \in Seq(Change) /\ connection' \in Nat
<1>1. Plugged(id) \in SUBSET Handle
  BY DEF Plugged, OtherTypes
<1>2. ASSUME NEW gone \in SUBSET Handle, NEW new \in SUBSET Handle, Report(gone, new)
      PROVE  events' \in Seq(Change)
  <2>1. [gone |-> gone, new |-> new] \in Change
    BY DEF Change
  <2>2. Append(events, [gone |-> gone, new |-> new]) \in Seq(Change)
    BY <2>1, AppendProperties DEF OtherTypes
  <2>3. QED
    BY <1>2, <2>2 DEF Report, OtherTypes
<1>3. CASE DeviceLeaves(id)
  BY <1>1, <1>2, <1>3 DEF DeviceLeaves, OtherTypes
<1>4. CASE DeviceComes(id)
  <2>1. connection' \in Nat
    BY <1>4 DEF DeviceComes, OtherTypes
  <2>2. [id |-> id, connection |-> connection'] \in Handle
    BY <2>1 DEF Handle
  <2>3. QED
    BY <1>1, <1>2, <1>4, <2>1, <2>2 DEF DeviceComes, OtherTypes
<1>5. QED
  BY <1>3, <1>4

\* A thread starts a device.
LEMMA StartTypes ==
    ASSUME FactoryInv, OtherTypes, NEW t \in Thread, Starts(t)
    PROVE  OtherTypes'
<1>1. NoNode \in [device : Handle, up : BOOLEAN] /\ NoHandle \in Handle
  BY DEF NoNode, NoHandle, Handle
<1>2. CASE CreateNode(t)
  <2>1. [device |-> device, up |-> FALSE] \in [device : Handle, up : BOOLEAN]
    BY DEF OtherTypes
  <2>2. QED
    BY <1>2, <2>1 DEF CreateNode, NodeGoes, OtherTypes, worldVars, deviceVars, lifeVars, bagVars
<1>3. ASSUME Thrown(t)
      PROVE  /\ process' \in {"runs", "exited", "crashed"}
             /\ state' \in {"unconfigured", "inactive", "active", "finalized", "destroyed"}
  BY <1>3 DEF Thrown, OtherTypes
<1>4. CASE CreateThrows(t)
  <2>1. /\ process' \in {"runs", "exited", "crashed"}
        /\ state' \in {"unconfigured", "inactive", "active", "finalized", "destroyed"}
    BY <1>3, <1>4 DEF CreateThrows, OtherTypes
  <2>2. QED
    BY <1>1, <1>4, <2>1 DEF CreateThrows, OtherTypes, worldVars, deviceVars, bagVars
<1>5. CASE PublishTopics(t)
  <2>1. node # NoNode
    BY <1>5 DEF PublishTopics, At, FactoryInv, NodeInv
  <2>2. node.device.id \in Ids \cup {"file"}
    BY <2>1 DEF FactoryInv, NodeInv
  <2>3. node' \in [device : Handle, up : BOOLEAN]
    BY <1>5 DEF PublishTopics, OtherTypes
  <2>4. served' \subseteq Ids \cup {"file"}
    BY <1>5, <2>2 DEF PublishTopics, OtherTypes
  <2>5. playing' \in BOOLEAN /\ state' \in {"unconfigured", "inactive", "active", "finalized", "destroyed"}
    BY <1>5 DEF PublishTopics, Succeeded, OtherTypes
  <2>6. QED
    BY <1>5, <2>3, <2>4, <2>5 DEF PublishTopics, OtherTypes, worldVars, deviceVars
<1>6. CASE PublishFails(t)
  <2>1. device.id \in Ids
    BY <1>6 DEF PublishFails, FactoryInv, HandleInv
  <2>2. /\ resetting' \subseteq Ids /\ failures' \in Nat /\ device' \in Handle
        /\ state' \in {"unconfigured", "inactive", "active", "finalized", "destroyed"}
    BY <1>1, <1>6, <2>1 DEF PublishFails, Succeeded, OtherTypes
  <2>3. QED
    BY <1>6, <2>2 DEF PublishFails, OtherTypes, bagVars
<1>7. CASE PublishThrows(t)
  BY <1>3, <1>7 DEF PublishThrows, OtherTypes, worldVars, deviceVars, bagVars
<1>8. QED
  BY <1>2, <1>4, <1>5, <1>6, <1>7 DEF Starts

\* The change that changeDeviceCallback is given.
LEMMA FirstEvent ==
    ASSUME OtherTypes, events # <<>>
    PROVE  /\ Len(events) >= 1 /\ Len(events) \in Nat /\ Head(events) = events[1]
           /\ Head(events) \in Change
           /\ Tail(events) \in Seq(Change) /\ Len(Tail(events)) = Len(events) - 1
           /\ \A i \in 1..Len(Tail(events)) : i + 1 \in 1..Len(events) /\ Tail(events)[i] = events[i + 1]
<1>1. events \in Seq(Change)
  BY DEF OtherTypes
<1>2. QED
  BY <1>1, HeadTailProperties, EmptySeq, LenProperties, ElementOfSeq

\* Every step keeps the types of everything but the threads' places.
LEMMA OtherTypesStep == ASSUME FactoryInv, [Next]_vars PROVE OtherTypes'
<1> USE DEF worldVars, deviceVars, lifeVars, bagVars
<1>0. /\ OtherTypes /\ HandleInv /\ setup \in Setting
      /\ setup.timeout \in Nat /\ setup.span \in Nat /\ setup.serial \in Ids \cup {"any"}
      /\ setup.initialReset \in BOOLEAN
  BY TypeParts DEF FactoryInv, TypeInv, Setting
<1>1. NoNode \in [device : Handle, up : BOOLEAN] /\ NoHandle \in Handle /\ BagFile \in Handle
  BY DEF NoNode, NoHandle, BagFile, Handle
<1>2. ASSUME NEW id \in Ids, Plug(id) \/ ResetDevice(id) PROVE OtherTypes'
  <2>1. DeviceLeaves(id) \/ DeviceComes(id)
    BY <1>2 DEF Plug, ResetDevice
  <2>2. attached' \subseteq Handle /\ events' \in Seq(Change) /\ connection' \in Nat
    BY <2>1, <1>0, ChangeTypes
  <2>3. CASE Plug(id)
    BY <2>3, <2>2, <1>0 DEF Plug, OtherTypes
  <2>4. CASE ResetDevice(id)
    BY <2>4, <2>2, <1>0 DEF ResetDevice, OtherTypes
  <2>5. QED
    BY <1>2, <2>3, <2>4
<1>3. CASE \E t \in Thread : Starts(t)
  BY <1>0, <1>3, StartTypes
<1>4. ASSUME NEW t \in {"query", "event"}, GetDevice(t) \/ AssignDevice(t) \/ ResetFirst(t)
      PROVE  OtherTypes'
  <2>0. /\ pc \in [Thread -> Step] /\ \A h \in list[t] : h \in Handle
        /\ pc[t] = "assign" => \A h \in list[t] : h.id \in Ids
    BY <1>0, TypeParts DEF FactoryInv, PlaceTypes, OtherTypes, HandleInv
  <2>1. CASE GetDevice(t)
    <3>1. \E handles \in SUBSET Handle : list' = [list EXCEPT ![t] = handles]
      <4>1. CASE list' = [list EXCEPT ![t] = {}]
        BY <4>1
      <4>2. CASE \E h \in Found(list[t]) : list' = [list EXCEPT ![t] = {h} \ {NoHandle}]
        <5>1. PICK h \in Found(list[t]) : list' = [list EXCEPT ![t] = {h} \ {NoHandle}]
          BY <4>2
        <5>2. {h} \ {NoHandle} \in SUBSET Handle
          BY <2>0 DEF Found
        <5>3. QED
          BY <5>1, <5>2
      <4>3. QED
        BY <2>1, <4>1, <4>2 DEF GetDevice
    <3>2. list' \in [{"query", "event"} -> SUBSET Handle]
      BY <1>0, <3>1 DEF OtherTypes
    <3>3. QED
      BY <1>0, <2>1, <3>2 DEF GetDevice, OtherTypes
  <2>2. CASE AssignDevice(t)
    <3>1. device' \in Handle /\ serial' \in Ids
      BY <2>0, <2>2 DEF AssignDevice, At
    <3>2. list' \in [{"query", "event"} -> SUBSET Handle]
      BY <1>0, <2>2 DEF AssignDevice, OtherTypes
    <3>3. QED
      BY <1>0, <2>2, <3>1, <3>2 DEF AssignDevice, OtherTypes
  <2>3. CASE ResetFirst(t)
    <3>1. initialReset' \in BOOLEAN
      BY <1>0, <2>3 DEF ResetFirst, OtherTypes
    <3>2. device' \in Handle /\ resetting' \subseteq Ids
      BY <1>0, <1>1, <2>3 DEF ResetFirst, OtherTypes, HandleInv
    <3>3. QED
      BY <1>0, <2>3, <3>1, <3>2 DEF ResetFirst, OtherTypes
  <2>4. QED
    BY <1>4, <2>1, <2>2, <2>3
<1>5. CASE QueryDevices
  <2>1. list' \in [{"query", "event"} -> SUBSET Handle]
    BY <1>0, <1>5 DEF QueryDevices, OtherTypes
  <2>2. QED
    BY <1>0, <1>5, <2>1 DEF QueryDevices, OtherTypes
<1>6. CASE QueryLoops \/ QueryFinds \/ LoopsAgain \/ GiveUp \/ CallbackFinds
  BY <1>0, <1>6 DEF QueryLoops, QueryFinds, LoopsAgain, GiveUp, CallbackFinds, OtherTypes
<1>7. CASE Sleep
  <2>1. timeLeft' \in Int
    BY <1>0, <1>7 DEF Sleep, TimeLeftAfter, OtherTypes
  <2>2. QED
    BY <1>0, <1>7, <2>1 DEF Sleep, OtherTypes
<1>8. CASE TakeEvent
  <2>1. events' \in Seq(Change) /\ process' \in {"runs", "exited", "crashed"}
    BY <1>0, <1>8, FirstEvent DEF TakeEvent, OtherTypes
  <2>2. QED
    BY <1>0, <1>8, <2>1 DEF TakeEvent, OtherTypes
<1>9. CASE CheckRemoved
  <2>1. process' \in {"runs", "exited", "crashed"} /\ node' \in [device : Handle, up : BOOLEAN]
    BY <1>0, <1>1, <1>9 DEF CheckRemoved, NodeGoes, NodeOfRemoved, OtherTypes
  <2>2. QED
    BY <1>0, <1>9, <2>1 DEF CheckRemoved, OtherTypes
<1>10. CASE ClearDevice
  BY <1>0, <1>1, <1>10 DEF ClearDevice, DeviceAfterRemoval, OtherTypes
<1>11. CASE CheckAdded
  <2>1. events # <<>>
    BY <1>0, <1>11 DEF CheckAdded, At, HandleInv, HandlingEvent
  <2>2. events' \in Seq(Change) /\ Head(events).new \in SUBSET Handle
    BY <1>0, <1>11, <2>1, FirstEvent DEF CheckAdded, Change
  <2>3. list' \in [{"query", "event"} -> SUBSET Handle]
    BY <1>0, <1>11, <2>2 DEF CheckAdded, OtherTypes
  <2>4. QED
    BY <1>0, <1>11, <2>2, <2>3 DEF CheckAdded, OtherTypes
<1>12. CASE OnConfigure
  <2>1. /\ transitions' \in Nat /\ timeLeft' \in Int /\ alive' \in BOOLEAN /\ served' = {}
        /\ goal' = "inactive" /\ state' \in {state, "inactive"}
    BY <1>0, <1>12 DEF OnConfigure, Transition, Initialized, OtherTypes
  <2>2. device' \in Handle /\ serial' \in Ids \cup {"any", "file"} /\ initialReset' \in BOOLEAN
    BY <1>0, <1>1, <1>12 DEF OnConfigure, Initialized, OtherTypes
  <2>3. QED
    BY <1>0, <1>12, <2>1, <2>2 DEF OnConfigure, OtherTypes
<1>13. CASE OnActivate \/ OnCleanup \/ OnShutdown \/ Destroy
  <2>1. transitions' \in Nat
    BY <1>0, <1>13 DEF OnActivate, OnCleanup, OnShutdown, Destroy, Transition, OtherTypes
  <2>2. CASE OnActivate
    BY <1>0, <2>1, <2>2 DEF OnActivate, OtherTypes
  <2>3. ASSUME NEW to \in {"unconfigured", "finalized", "destroyed"}, Close(to) PROVE OtherTypes'
    <3>1. /\ goal' \in {"unconfigured", "finalized", "destroyed"} /\ alive' \in BOOLEAN
          /\ timeLeft' = timeLeft /\ state' = state
      BY <2>3 DEF Close
    <3>2. UNCHANGED <<setup, worldVars, events, callback, deviceVars, node, bagVars, process, served,
                      failures>>
      BY <2>3 DEF Close
    <3>3. QED
      BY <1>0, <2>1, <3>1, <3>2 DEF OtherTypes
  <2>4. QED
    BY <1>13, <2>2, <2>3 DEF OnCleanup, OnShutdown, Destroy
<1>14. CASE OnDeactivate
  <2>1. transitions' \in Nat /\ process' \in {"runs", "exited", "crashed"}
    BY <1>0, <1>14 DEF OnDeactivate, Transition, NodeGoes, OtherTypes
  <2>2. QED
    BY <1>0, <1>1, <1>14, <2>1 DEF OnDeactivate, OtherTypes
<1>15. CASE CloseDevice
  <2>1. process' \in {"runs", "exited", "crashed"} /\ callback' \in {"none", "changeDevice", "nobody"}
    BY <1>0, <1>15 DEF CloseDevice, OtherTypes
  <2>2. QED
    BY <1>0, <1>1, <1>15, <2>1 DEF CloseDevice, OtherTypes
<1>16. CASE PlaybackEnds \/ PollPlayback
  <2>1. playing' \in BOOLEAN /\ isPlaying' \in BOOLEAN
    BY <1>0, <1>16 DEF PlaybackEnds, PollPlayback, IsPlaying, OtherTypes
  <2>2. QED
    BY <1>0, <1>16, <2>1 DEF PlaybackEnds, PollPlayback, OtherTypes
<1>17. CASE UNCHANGED vars
  BY <1>0, <1>17 DEF vars, OtherTypes
<1>18. QED
  BY <1>2, <1>3, <1>4, <1>5, <1>6, <1>7, <1>8, <1>9, <1>10, <1>11, <1>12, <1>13, <1>14, <1>15,
     <1>16, <1>17, Steps

\* Every step preserves the types, once devices and nodes are known to be there.
LEMMA TypeStep == ASSUME FactoryInv, [Next]_vars PROVE TypeInv'
<1>1. OtherTypes' /\ PlaceTypes'
  BY OtherTypesStep, PlacesStep DEF FactoryInv
<1>2. pc'["query"] \in Places("query") /\ pc'["event"] \in Places("event")
      /\ pc'["main"] \in Places("main")
  BY <1>1 DEF PlaceTypes, Thread
<1>3. setup' \in Setting
  BY <1>1, NodeFactoryAssumption DEF OtherTypes
<1>4. QED
  BY <1>1, <1>2, <1>3 DEF TypeInv, TypeOK, OtherTypes, PlaceTypes, Change, Places

----------------------------------------------------------------------------
\* Handles are never used again.

\* What a change of the devices leaves in the queue.
LEMMA Reported ==
    ASSUME OtherTypes, NEW gone, NEW new, Report(gone, new)
    PROVE  \/ events' = events
           \/ /\ callback # "none"
              /\ Len(events') = Len(events) + 1 /\ Len(events) \in Nat
              /\ events'[Len(events) + 1] = [gone |-> gone, new |-> new]
              /\ \A i \in 1..Len(events) : events'[i] = events[i]
<1>1. events \in Seq(Change)
  BY DEF OtherTypes
<1>2. CASE callback # "none"
  <2>1. events' = Append(events, [gone |-> gone, new |-> new])
    BY <1>2 DEF Report
  <2>2. QED
    BY <1>1, <1>2, <2>1
<1>3. QED
  BY <1>2 DEF Report

\* A device that comes has a connection of its own; one that leaves is attached no more.
LEMMA DevicesChange ==
    ASSUME OtherTypes, HandleInv, NEW id \in Ids, DeviceLeaves(id) \/ DeviceComes(id)
    PROVE  /\ \A h \in attached' : h.id \in Ids /\ h.connection <= connection'
           /\ \A i \in 1..Len(events') : \A h \in events'[i].gone :
                 h.id \in Ids /\ h.connection <= connection' /\ h \notin attached'
           /\ events # <<>> => events' # <<>>
<1>0. /\ events \in Seq(Change) /\ connection \in Nat /\ attached \subseteq Handle
      /\ \A h \in attached : h.id \in Ids /\ h.connection <= connection
      /\ \A i \in 1..Len(events) : \A h \in events[i].gone :
            h.id \in Ids /\ h.connection <= connection /\ h \notin attached
  BY DEF OtherTypes, HandleInv
<1>1. \A h \in attached : h.connection \in Nat
  BY <1>0 DEF Handle
<1>2. PICK new \in {{}, {[id |-> id, connection |-> connection + 1]}} :
         /\ attached' = (attached \ Plugged(id)) \cup new
         /\ Report(Plugged(id), new)
         /\ connection' = IF new = {} THEN connection ELSE connection + 1
  BY DEF DeviceLeaves, DeviceComes
<1>3. connection' \in Nat /\ connection <= connection'
  BY <1>0, <1>2
<1>4. \A h \in new : h.id = id /\ h.connection = connection + 1 /\ connection' = connection + 1
  BY <1>2
<1>5. \A h \in attached' : h.id \in Ids /\ h.connection <= connection'
  BY <1>0, <1>1, <1>2, <1>3, <1>4
<1>6. \A i \in 1..Len(events) : \A h \in events[i].gone :
         h.id \in Ids /\ h.connection <= connection' /\ h \notin attached'
  <2> SUFFICES ASSUME NEW i \in 1..Len(events), NEW h \in events[i].gone
               PROVE  h.id \in Ids /\ h.connection <= connection' /\ h \notin attached'
    OBVIOUS
  <2>0. events[i] \in Change
    BY <1>0, ElementOfSeq
  <2>1. h \in Handle
    BY <2>0 DEF Change
  <2>2. h.connection \in Nat /\ h.connection <= connection /\ h.id \in Ids /\ h \notin attached
    BY <1>0, <2>1 DEF Handle
  <2>3. h \notin new
    BY <1>0, <1>4, <2>2
  <2>4. QED
    BY <1>0, <1>2, <1>3, <2>2, <2>3
<1>7. \A h \in Plugged(id) : h.id \in Ids /\ h.connection <= connection' /\ h \notin attached'
  <2> SUFFICES ASSUME NEW h \in Plugged(id)
               PROVE  h.id \in Ids /\ h.connection <= connection' /\ h \notin attached'
    OBVIOUS
  <2>1. h \in attached /\ h.connection \in Nat /\ h.connection <= connection /\ h.id \in Ids
    BY <1>0, <1>1 DEF Plugged
  <2>2. h \notin new
    BY <1>0, <1>4, <2>1
  <2>3. QED
    BY <1>0, <1>2, <1>3, <2>1, <2>2
<1>8. \/ events' = events
      \/ /\ Len(events') = Len(events) + 1 /\ Len(events) \in Nat
         /\ events'[Len(events) + 1] = [gone |-> Plugged(id), new |-> new]
         /\ \A i \in 1..Len(events) : events'[i] = events[i]
  BY <1>2, Reported
<1>9. \A i \in 1..Len(events') : \A h \in events'[i].gone :
         h.id \in Ids /\ h.connection <= connection' /\ h \notin attached'
  <2>1. CASE events' = events
    BY <2>1, <1>6
  <2>2. CASE events' # events
    <3> SUFFICES ASSUME NEW i \in 1..Len(events'), NEW h \in events'[i].gone
                 PROVE  h.id \in Ids /\ h.connection <= connection' /\ h \notin attached'
      OBVIOUS
    <3>1. i \in 1..Len(events) \/ i = Len(events) + 1
      BY <1>8, <2>2
    <3>2. CASE i \in 1..Len(events)
      BY <1>6, <1>8, <2>2, <3>2
    <3>3. CASE i = Len(events) + 1
      <4>1. events'[i].gone = Plugged(id)
        BY <1>8, <2>2, <3>3
      <4>2. QED
        BY <1>7, <4>1
    <3>4. QED
      BY <3>1, <3>2, <3>3
  <2>3. QED
    BY <2>1, <2>2
<1>10. events # <<>> => events' # <<>>
  BY <1>8, EmptySeq
<1>11. QED
  BY <1>5, <1>9, <1>10

\* A thread that starts a device goes on to publish, or to where it continues.
LEMMA StartMoves ==
    ASSUME PlaceTypes, NEW t \in Thread, Starts(t)
    PROVE  /\ \A u \in Thread : u # t => pc'[u] = pc[u]
           /\ pc[t] \in {"create", "publish"}
           /\ \/ pc'[t] = pc[t] \/ pc'[t] = "publish" \/ pc'[t] = After(t) \/ pc'[t] = "idle"
              \/ t = "query" /\ pc'[t] = "caught"
           /\ UNCHANGED <<attached, connection, events, callback, serial, initialReset, list, goal>>
           /\ state' \in {state, "finalized"} \cup {g \in {goal} : t = "main"}
<1>0. pc \in [Thread -> Step]
  BY DEF PlaceTypes
<1>1. \/ pc' = pc \/ \E step \in {"publish", After(t), "idle"} : Goto(t, step)
      \/ t = "query" /\ Goto(t, "caught")
  BY DEF Starts, CreateNode, CreateThrows, PublishTopics, PublishFails, PublishThrows, Thrown, Caught, Succeeded
<1>2. After(t) \in {"loop", "poll", "idle"} /\ {"publish", "loop", "poll", "idle", "caught"} \subseteq Step
  BY DEF After, Step
<1>3. /\ UNCHANGED <<attached, connection, events, callback, serial, initialReset, list, goal>>
      /\ pc[t] \in {"create", "publish"}
      /\ state' \in {state, "finalized"} \cup {g \in {goal} : t = "main"}
  BY DEF Starts, CreateNode, CreateThrows, PublishTopics, PublishFails, PublishThrows, Thrown, Succeeded,
       At, worldVars, deviceVars, lifeVars
<1>4. CASE pc' = pc
  BY <1>3, <1>4
<1>5. ASSUME NEW step \in {"publish", After(t), "idle", "caught"}, Goto(t, step)
      PROVE  /\ \A u \in Thread : u # t => pc'[u] = pc[u]
             /\ pc'[t] = step
  <2>1. step \in Step
    BY <1>2
  <2>2. QED
    BY <1>0, <1>5, <2>1, Going
<1>6. QED
  BY <1>1, <1>3, <1>4, <1>5

\* Every step keeps what is known of the devices and of the events on their way.
LEMMA HandleStep == ASSUME FactoryInv, [Next]_vars PROVE HandleInv'
<1> USE DEF worldVars, HandlingEvent
<1>0. /\ OtherTypes /\ PlaceTypes /\ HandleInv /\ setup \in Setting /\ pc \in [Thread -> Step]
      /\ "query" \in Thread /\ "event" \in Thread /\ "main" \in Thread
  BY TypeParts DEF FactoryInv, TypeInv, PlaceTypes, Thread
<1>1. ASSUME UNCHANGED <<attached, connection, events>>,
             pc'["event"] \in HandlingEvent => events # <<>>,
             callback' = "none" => callback = "none" /\ pc'["event"] = "idle",
             \A t \in {"query", "event"} : pc'[t] = "assign" => \A h \in list'[t] : h.id \in Ids
      PROVE  HandleInv'
  BY <1>0, <1>1 DEF HandleInv, EventThreadIdle
<1>2. ASSUME NEW id \in Ids, Plug(id) \/ ResetDevice(id) PROVE HandleInv'
  <2>1. (DeviceLeaves(id) \/ DeviceComes(id)) /\ UNCHANGED <<pc, callback, list>>
    BY <1>2 DEF Plug, ResetDevice, deviceVars
  <2>2. callback = "none" => events' = events
    BY <2>1 DEF DeviceLeaves, DeviceComes, Report
  <2>3. /\ \A h \in attached' : h.id \in Ids /\ h.connection <= connection'
        /\ \A i \in 1..Len(events') : \A h \in events'[i].gone :
              h.id \in Ids /\ h.connection <= connection' /\ h \notin attached'
        /\ events # <<>> => events' # <<>>
    BY <1>0, <2>1, DevicesChange
  <2>4. QED
    BY <1>0, <2>1, <2>2, <2>3 DEF HandleInv, EventThreadIdle
<1>3. ASSUME NEW t \in Thread, Starts(t) PROVE HandleInv'
  <2>1. /\ UNCHANGED <<attached, connection, events, callback, list>>
        /\ \A u \in Thread : u # t => pc'[u] = pc[u]
        /\ pc[t] \in {"create", "publish"}
        /\ pc'[t] \in {pc[t], "publish", "loop", "idle", "poll", "caught"}
    BY <1>0, <1>3, StartMoves DEF After
  <2>2. \A u \in {"query", "event"} : pc'[u] = "assign" => pc[u] = "assign"
    BY <1>0, <2>1
  <2>3. pc'["event"] \in {pc["event"], "publish", "loop", "idle", "poll", "caught"}
        /\ (pc["event"] = "idle" => pc'["event"] = "idle")
    BY <1>0, <2>1
  <2>4. QED
    BY <1>0, <1>1, <2>1, <2>2, <2>3 DEF HandleInv, EventThreadIdle
<1>4. ASSUME NEW t \in {"query", "main"}, NEW step \in Step \ {"assign"}, Goto(t, step)
      PROVE  pc'["event"] = pc["event"] /\ (pc'["query"] = "assign" => pc["query"] = "assign")
  <2>1. t \in Thread /\ t # "event"
    BY DEF Thread
  <2>2. pc'[t] = step /\ \A u \in Thread : u # t => pc'[u] = pc[u]
    BY <1>0, <1>4, <2>1, Going
  <2>3. QED
    BY <1>0, <2>1, <2>2
<1>5. CASE QueryLoops \/ QueryFinds \/ LoopsAgain \/ Sleep \/ GiveUp \/ OnActivate
           \/ OnDeactivate \/ OnCleanup \/ OnShutdown \/ Destroy \/ PlaybackEnds \/ PollPlayback
           \/ OnConfigure \/ CloseDevice \/ UNCHANGED vars
  <2>1. UNCHANGED <<attached, connection, events, list>> /\ (callback' = "none" => callback = "none")
    BY <1>5 DEF QueryLoops, QueryFinds, LoopsAgain, Sleep, GiveUp, OnActivate, OnDeactivate,
         OnCleanup, OnShutdown, Destroy, Close, PlaybackEnds, PollPlayback, OnConfigure, CloseDevice,
         vars, deviceVars
  <2>2. pc' = pc \/ (\E t \in {"query", "main"} : \E step \in Step \ {"assign"} : Goto(t, step))
        \/ CloseDevice \/ OnConfigure
    BY <1>5 DEF QueryLoops, QueryFinds, LoopsAgain, Sleep, GiveUp, Caught, OnActivate, OnDeactivate,
         OnCleanup, OnShutdown, Destroy, Close, PlaybackEnds, PollPlayback, vars, Step
  <2>3. CloseDevice \/ OnConfigure =>
           pc'["event"] = pc["event"] /\ (pc'["query"] = "assign" => pc["query"] = "assign")
    BY <1>0 DEF CloseDevice, OnConfigure, Initialized, Goto
  <2>4. pc'["event"] = pc["event"] /\ (pc'["query"] = "assign" => pc["query"] = "assign")
    BY <1>4, <2>2, <2>3
  <2>5. QED
    BY <1>0, <1>1, <2>1, <2>4 DEF HandleInv, EventThreadIdle
<1>6. CASE QueryDevices
  <2>1. UNCHANGED <<attached, connection, events, callback>>
        /\ list'["event"] = list["event"]
        /\ \E step \in {"get", "caught"} : Goto("query", step)
    BY <1>0, <1>6 DEF QueryDevices, Caught, OtherTypes
  <2>2. pc'["event"] = pc["event"] /\ pc'["query"] \in {"get", "caught"}
    BY <1>0, <2>1, Going DEF Step
  <2>3. QED
    BY <1>0, <1>1, <2>1, <2>2 DEF HandleInv, EventThreadIdle
<1>7. CASE \E t \in {"query", "event"} : GetDevice(t) \/ AssignDevice(t) \/ ResetFirst(t)
  <2>1. PICK t \in {"query", "event"} : GetDevice(t) \/ AssignDevice(t) \/ ResetFirst(t)
    BY <1>7
  <2>2. /\ UNCHANGED <<attached, connection, events, callback>>
        /\ \A u \in Thread : u # t => pc'[u] = pc[u]
        /\ \A u \in {"query", "event"} : u # t => list'[u] = list[u]
        /\ pc[t] \in {"get", "assign", "reset"}
        /\ pc'[t] \in {"reset", "assign", "found", "caught", "idle"}
        /\ pc'[t] = "assign" => \A h \in list'[t] : h.id \in Ids
    BY <1>0, <2>1, SearchMoves
  <2>3. callback = "none" => t = "query"
    BY <1>0, <2>2 DEF HandleInv, EventThreadIdle
  <2>4. pc'["event"] \in HandlingEvent => pc["event"] \in HandlingEvent
    BY <1>0, <2>2
  <2>5. callback' = "none" => callback = "none" /\ pc'["event"] = "idle"
    BY <1>0, <2>2, <2>3 DEF HandleInv, EventThreadIdle
  <2>6. \A u \in {"query", "event"} : pc'[u] = "assign" => \A h \in list'[u] : h.id \in Ids
    BY <1>0, <2>2 DEF HandleInv
  <2>7. QED
    BY <1>0, <1>1, <2>2, <2>4, <2>5, <2>6 DEF HandleInv
\* The callback, and what has been reported to nobody.
<1>8. ASSUME NEW step \in Step, Goto("event", step)
      PROVE  pc'["event"] = step /\ pc'["query"] = pc["query"]
  BY <1>0, <1>8, Going
<1>9. CASE TakeEvent
  <2>1. UNCHANGED <<attached, connection, list, callback>> /\ events # <<>> /\ pc["event"] = "idle"
    BY <1>9 DEF TakeEvent, At, deviceVars
  <2>2. callback # "none"
    BY <1>0, <2>1 DEF HandleInv, EventThreadIdle
  <2>3. CASE events' = events
    <3>1. pc' = pc \/ Goto("event", "removed")
      BY <1>9, <2>1, <2>3 DEF TakeEvent
    <3>2. pc'["query"] = pc["query"] /\ pc'["event"] \in {"idle", "removed"}
      BY <1>8, <2>1, <3>1 DEF Step
    <3>3. QED
      BY <1>0, <1>1, <2>1, <2>2, <2>3, <3>2 DEF HandleInv
  <2>4. CASE events' = Tail(events) /\ pc' = pc
    <3>1. /\ Len(events') = Len(events) - 1
          /\ \A i \in 1..Len(events') : i + 1 \in 1..Len(events) /\ events'[i] = events[i + 1]
      BY <1>0, <2>1, <2>4, FirstEvent
    <3>2. QED
      BY <1>0, <2>1, <2>2, <2>4, <3>1 DEF HandleInv
  <2>5. QED
    BY <1>9, <2>3, <2>4 DEF TakeEvent
<1>10. CASE CheckRemoved \/ ClearDevice \/ CallbackFinds
  <2>1. /\ UNCHANGED <<attached, connection, events, list, callback>>
        /\ \/ pc["event"] \in HandlingEvent /\ \E step \in {"clear", "added"} : Goto("event", step)
           \/ pc["event"] = "found" /\ \E step \in {"idle", "create"} : Goto("event", step)
    BY <1>10 DEF CheckRemoved, ClearDevice, CallbackFinds, At, deviceVars
  <2>2. callback # "none"
    BY <1>0, <2>1 DEF HandleInv, EventThreadIdle
  <2>3. /\ pc'["query"] = pc["query"]
        /\ \/ pc["event"] \in HandlingEvent /\ pc'["event"] \in {"clear", "added"}
           \/ pc'["event"] \in {"idle", "create"}
    BY <1>8, <2>1 DEF Step
  <2>4. QED
    BY <1>0, <1>1, <2>1, <2>2, <2>3 DEF HandleInv
<1>11. CASE CheckAdded
  <2>1. /\ UNCHANGED <<attached, connection, callback>> /\ events' = Tail(events) /\ pc["event"] = "added"
        /\ \E step \in {"idle", "get"} : Goto("event", step)
        /\ list'["query"] = list["query"]
    BY <1>0, <1>11 DEF CheckAdded, At, OtherTypes
  <2>2. pc'["event"] \in {"idle", "get"} /\ pc'["query"] = pc["query"]
    BY <1>8, <2>1 DEF Step
  <2>3. events # <<>> /\ callback # "none"
    BY <1>0, <2>1 DEF HandleInv, EventThreadIdle
  <2>4. /\ Len(events') = Len(events) - 1
        /\ \A i \in 1..Len(events') : i + 1 \in 1..Len(events) /\ events'[i] = events[i + 1]
    BY <1>0, <2>1, <2>3, FirstEvent
  <2>5. QED
    BY <1>0, <2>1, <2>2, <2>3, <2>4 DEF HandleInv
<1>12. QED
  BY <1>2, <1>3, <1>5, <1>6, <1>7, <1>9, <1>10, <1>11, Steps

----------------------------------------------------------------------------
\* A thread that publishes has a node.

\* Where no other thread uses the node, nobody publishes once it is gone.
LEMMA NobodyPublishes ==
    ASSUME NodeInv, process = "runs", NEW t \in Thread, ~ InUse(t)
    PROVE  \A u \in Thread : u # t => pc[u] # "publish"
  BY DEF InUse, NodeInv

\* Every step keeps the node with the thread that uses it.
LEMMA NodeStep == ASSUME FactoryInv, [Next]_vars PROVE NodeInv'
<1> USE DEF worldVars, deviceVars
<1>0. /\ OtherTypes /\ PlaceTypes /\ HandleInv /\ NodeInv /\ setup \in Setting
      /\ pc \in [Thread -> Step]
      /\ "query" \in Thread /\ "event" \in Thread /\ "main" \in Thread
  BY TypeParts DEF FactoryInv, TypeInv, PlaceTypes, Thread
\* A step that leaves the node, and after which nobody else publishes.
<1>1. ASSUME device' = NoHandle \/ device'.id \in Ids \cup {"file"},
             node' = node, process' = "runs" => process = "runs",
             \A t \in Thread : pc'[t] = "publish" => pc[t] = "publish"
      PROVE  NodeInv'
  BY <1>0, <1>1 DEF NodeInv
\* A step of t that takes the node away.
<1>2. ASSUME NEW t \in Thread, process = "runs", node' = NoNode, process' = "runs" => ~ InUse(t),
             device' = NoHandle \/ device' = device,
             pc'[t] # "publish", \A u \in Thread : u # t => pc'[u] \in {pc[u], "none"}
      PROVE  NodeInv'
  <2>1. process' = "runs" => \A u \in Thread : pc'[u] # "publish"
    BY <1>0, <1>2, NobodyPublishes
  <2>2. QED
    BY <1>0, <1>2, <2>1 DEF NodeInv
<1>3. device = NoHandle \/ device.id \in Ids \cup {"file"}
  BY <1>0 DEF NodeInv
<1>4. ASSUME NEW id \in Ids, Plug(id) \/ ResetDevice(id) PROVE NodeInv'
  BY <1>1, <1>3, <1>4 DEF Plug, ResetDevice
<1>5. ASSUME NEW t \in Thread, Starts(t) PROVE NodeInv'
  <2>1. /\ \A u \in Thread : u # t => pc'[u] = pc[u]
        /\ pc'[t] \in {pc[t], "publish", After(t), "idle", "caught"}
        /\ After(t) # "publish" /\ process = "runs"
    BY <1>0, <1>5, StartMoves
       DEF Starts, After, At, CreateNode, CreateThrows, PublishTopics, PublishFails, PublishThrows
  <2>2. CASE CreateNode(t)
    <3>1. device # NoHandle /\ device' = device /\ node' = [device |-> device, up |-> FALSE]
      BY <2>2 DEF CreateNode
    <3>2. node' # NoNode /\ node'.device.id \in Ids \cup {"file"}
      BY <1>3, <3>1 DEF NoNode
    <3>3. QED
      BY <1>3, <3>1, <3>2 DEF NodeInv
  <2>3. CASE CreateThrows(t)
    <3>1. node' = NoNode /\ device' = device /\ pc[t] = "create"
          /\ (process' = "runs" => ~ InUse(t))
      BY <2>3 DEF CreateThrows, At
    <3>2. pc'[t] # "publish"
      BY <1>0, <2>3, <2>1, <3>1, Going DEF CreateThrows, Thrown, Caught, Goto, After, Step
    <3>3. QED
      BY <1>2, <2>1, <3>1, <3>2
  <2>4. CASE PublishTopics(t)
    <3>1. node # NoNode /\ device' = device /\ node' = [node EXCEPT !.up = TRUE]
      BY <1>0, <2>4 DEF PublishTopics, At, NodeInv
    <3>2. node'.device = node.device /\ node'.up = TRUE
      BY <1>0, <3>1 DEF OtherTypes
    <3>3. node' # NoNode /\ node'.device.id \in Ids \cup {"file"}
      BY <1>0, <3>1, <3>2 DEF NodeInv, NoNode
    <3>4. QED
      BY <1>3, <3>1, <3>3 DEF NodeInv
  <2>5. CASE PublishFails(t) \/ PublishThrows(t)
    <3>1. node' = node /\ pc[t] = "publish" /\ device' \in {NoHandle, device}
      BY <2>5 DEF PublishFails, PublishThrows, At
    <3>2. QED
      BY <1>1, <1>3, <2>1, <3>1
  <2>6. QED
    BY <1>5, <2>2, <2>3, <2>4, <2>5 DEF Starts
\* What a thread other than those that start a device does to its place.
<1>6. ASSUME NEW t \in Thread, NEW step \in Step \ {"publish"}, Goto(t, step)
      PROVE  \A u \in Thread : pc'[u] = "publish" => pc[u] = "publish"
  BY <1>0, <1>6, Going
<1>7. ASSUME NEW t \in {"query", "event"}, GetDevice(t) \/ AssignDevice(t) \/ ResetFirst(t)
      PROVE  NodeInv'
  <2>1. /\ node' = node /\ process' = process
        /\ \A u \in Thread : u # t => pc'[u] = pc[u]
        /\ pc'[t] \in {"reset", "assign", "found", "caught", "idle"}
        /\ \/ device' \in {device, NoHandle}
           \/ pc[t] = "assign" /\ device' \in list[t]
    BY <1>0, <1>7, SearchMoves
  <2>2. device' = NoHandle \/ device'.id \in Ids \cup {"file"}
    BY <1>0, <1>3, <2>1 DEF HandleInv
  <2>3. \A u \in Thread : pc'[u] = "publish" => pc[u] = "publish"
    BY <1>0, <2>1
  <2>4. QED
    BY <1>1, <2>1, <2>2, <2>3
<1>9. CASE QueryLoops \/ QueryDevices \/ QueryFinds \/ LoopsAgain \/ Sleep \/ GiveUp
           \/ TakeEvent \/ ClearDevice \/ CheckAdded \/ CallbackFinds \/ OnActivate
           \/ OnCleanup \/ OnShutdown \/ Destroy \/ PlaybackEnds \/ PollPlayback \/ UNCHANGED vars
  <2>1. node' = node /\ device' \in {NoHandle, device} /\ (process' = "runs" => process = "runs")
    BY <1>9 DEF QueryLoops, QueryDevices, QueryFinds, LoopsAgain, Sleep, GiveUp, TakeEvent, ClearDevice,
         DeviceAfterRemoval, CheckAdded, CallbackFinds, OnActivate, OnCleanup, OnShutdown, Destroy, Close,
         PlaybackEnds, PollPlayback, vars, At
  <2>2. pc' = pc \/ \E t \in Thread : \E step \in Step \ {"publish"} : Goto(t, step)
    BY <1>0, <1>9 DEF QueryLoops, QueryDevices, QueryFinds, LoopsAgain, Sleep, GiveUp, TakeEvent,
         ClearDevice, CheckAdded, CallbackFinds, Caught, Step, OnActivate, OnCleanup, OnShutdown, Destroy,
         Close, PlaybackEnds, PollPlayback, vars
  <2>3. \A u \in Thread : pc'[u] = "publish" => pc[u] = "publish"
    BY <1>6, <2>2
  <2>4. QED
    BY <1>1, <1>3, <2>1, <2>3
<1>10. CASE CheckRemoved
  <2>1. CASE device \in Head(events).gone
    <3>1. /\ process = "runs" /\ node' = NoNode /\ (process' = "runs" => ~ InUse("event"))
          /\ device' = device /\ Goto("event", "clear")
      BY <1>10, <2>1 DEF CheckRemoved, At, NodeGoes, NodeOfRemoved
    <3>2. pc'["event"] = "clear" /\ \A u \in Thread : u # "event" => pc'[u] = pc[u]
      BY <1>0, <3>1, Going DEF Step
    <3>3. QED
      BY <1>0, <1>2, <3>1, <3>2
  <2>2. CASE device \notin Head(events).gone
    <3>1. node' = node /\ device' = device /\ process' = process /\ Goto("event", "added")
      BY <1>10, <2>2 DEF CheckRemoved
    <3>2. QED
      BY <1>0, <1>1, <1>3, <1>6, <3>1 DEF Step
  <2>3. QED
    BY <2>1, <2>2
<1>12. CASE OnConfigure
  <2>1. device' \in {device, BagFile} /\ node' = node /\ process' = process
    BY <1>12 DEF OnConfigure, Initialized
  <2>2. Goto("query", "loop") \/ Goto("main", "create")
    BY <1>12 DEF OnConfigure, Initialized, Goto
  <2>3. QED
    BY <1>0, <1>1, <1>3, <1>6, <2>1, <2>2 DEF BagFile, Step
<1>13. CASE OnDeactivate
  <2>1. /\ process = "runs" /\ node' = NoNode /\ (process' = "runs" => ~ InUse("main"))
        /\ device' = device /\ pc' = pc /\ pc["main"] = "idle"
    BY <1>13 DEF OnDeactivate, Transition, At, NodeGoes
  <2>2. QED
    BY <1>0, <1>2, <2>1
<1>14. CASE CloseDevice
  <2>1. /\ process = "runs" /\ node' = NoNode /\ (process' = "runs" => ~ InUse("main"))
        /\ device' = NoHandle /\ pc' = [pc EXCEPT !["main"] = "idle", !["query"] = "none"]
    BY <1>14 DEF CloseDevice, At
  <2>2. pc'["main"] = "idle" /\ \A u \in Thread : u # "main" => pc'[u] \in {pc[u], "none"}
    BY <1>0, <2>1
  <2>3. QED
    BY <1>0, <1>2, <2>1, <2>2
<1>15. QED
  BY <1>4, <1>5, <1>7, <1>9, <1>10, <1>12, <1>13, <1>14, Steps

----------------------------------------------------------------------------
\* An ordinary node has one camera.

\* Every step keeps an ordinary node with the one camera it has found.
LEMMA CameraStep == ASSUME FactoryInv, [Next]_vars PROVE CameraInv'
<1> USE DEF worldVars, deviceVars
<1> SUFFICES ASSUME ~ setup.lifecycle PROVE CameraInv'
  BY SettingKept DEF CameraInv
<1>0. /\ OtherTypes /\ PlaceTypes /\ HandleInv /\ NodeInv /\ setup \in Setting
      /\ pc \in [Thread -> Step]
      /\ "query" \in Thread /\ "event" \in Thread /\ "main" \in Thread
      /\ setup' = setup
  BY TypeParts, SettingKept DEF FactoryInv, TypeInv, PlaceTypes, Thread
<1>1. /\ device # NoHandle => device.id = Camera
      /\ node # NoNode => node.device.id = Camera
      /\ served \subseteq {Camera}
      /\ \A t \in {"query", "event"} : pc[t] = "assign" => \A h \in list[t] : serial \in {"any", h.id}
      /\ setup.file = "no" /\ callback # "none" => serial # "any"
      /\ pc["main"] = "join" => goal = "destroyed"
      /\ setup.file # "no" => pc["query"] = "none" /\ callback = "none"
      /\ callback = "none" => pc["event"] = "idle" /\ events = <<>>
  BY <1>0 DEF FactoryInv, CameraInv, HandleInv, EventThreadIdle
<1>2. "any" \notin Ids \cup {"file"}
  BY NodeFactoryAssumption
\* Steps that find no device and close nothing: of the device and the node only what is
\* there already is used.
<1>3. ASSUME serial' = serial, device' \in {device, NoHandle},
             node' = NoNode \/ (node # NoNode /\ node'.device = node.device)
                \/ (device # NoHandle /\ node'.device = device),
             served' \subseteq served \cup {Camera},
             \A t \in {"query", "event"} :
                pc'[t] = "assign" => pc[t] = "assign" /\ list'[t] = list[t],
             setup.file = "no" /\ callback' # "none" => callback # "none" \/ device # NoHandle,
             pc'["main"] = "join" => goal' = "destroyed",
             setup.file # "no" => pc'["query"] = "none" /\ callback' = "none"
      PROVE  CameraInv'
  <2>1. Camera' = Camera
    BY <1>0, <1>3 DEF Camera
  <2>2. /\ device' # NoHandle => device'.id = Camera
        /\ node' # NoNode => node'.device.id = Camera
        /\ served' \subseteq {Camera}
    BY <1>1, <1>3
  <2>3. setup.file = "no" /\ device # NoHandle => serial # "any"
    BY <1>0, <1>1, <1>2 DEF NodeInv, Camera
  <2>4. \A t \in {"query", "event"} : pc'[t] = "assign" => \A h \in list'[t] : serial' \in {"any", h.id}
    BY <1>1, <1>3
  <2>5. setup'.file = "no" /\ callback' # "none" => serial' # "any"
    BY <1>0, <1>1, <1>3, <2>3
  <2>6. QED
    BY <1>0, <1>3, <2>1, <2>2, <2>4, <2>5 DEF CameraInv
\* Steps that leave the node.
<1>4. ASSUME UNCHANGED <<serial, served, node>>, device' \in {device, NoHandle},
             \A t \in {"query", "event"} :
                pc'[t] = "assign" => pc[t] = "assign" /\ list'[t] = list[t],
             setup.file = "no" /\ callback' # "none" => callback # "none" \/ device # NoHandle,
             pc'["main"] = "join" => goal' = "destroyed",
             setup.file # "no" => pc'["query"] = "none" /\ callback' = "none"
      PROVE  CameraInv'
  <2>1. \/ node' = NoNode
        \/ (node # NoNode /\ node'.device = node.device)
        \/ (device # NoHandle /\ node'.device = device)
    BY <1>4
  <2>2. QED
    BY <1>3, <1>4, <2>1
<1>5. ASSUME NEW t \in Thread, NEW step \in Step \ {"assign", "join"}, Goto(t, step)
      PROVE  /\ pc'[t] = step /\ \A u \in Thread : u # t => pc'[u] = pc[u]
             /\ \A u \in {"query", "event"} : pc'[u] = "assign" => pc[u] = "assign"
             /\ pc'["main"] = "join" => pc["main"] = "join"
  <2>1. pc'[t] = step /\ \A u \in Thread : u # t => pc'[u] = pc[u]
    BY <1>0, <1>5, Going
  <2>2. QED
    BY <1>0, <2>1
<1>6. CASE \/ \E id \in Ids : Plug(id) \/ ResetDevice(id)
           \/ PlaybackEnds \/ UNCHANGED vars
  <2>1. UNCHANGED <<serial, served, node, device, list, pc, goal, callback>>
    BY <1>6 DEF Plug, ResetDevice, PlaybackEnds, vars, deviceVars, lifeVars
  <2>2. QED
    BY <1>1, <1>4, <2>1
<1>7. CASE QueryLoops \/ QueryDevices \/ QueryFinds \/ LoopsAgain \/ Sleep \/ GiveUp
  <2>1. /\ UNCHANGED <<serial, served, node, device, goal>>
        /\ \A t \in {"event"} : list'[t] = list[t]
        /\ pc["query"] # "none"
        /\ callback' # "none" => callback # "none" \/ device # NoHandle
        /\ pc' = pc \/ \E step \in Step \ {"assign", "join"} : Goto("query", step)
        /\ list' = list \/ Goto("query", "get")
    BY <1>0, <1>7 DEF QueryLoops, QueryDevices, QueryFinds, LoopsAgain, Sleep, GiveUp, At, Caught, Step,
         deviceVars, lifeVars, OtherTypes
  <2>2. setup.file = "no"
    BY <1>1, <2>1
  <2>3. /\ \A u \in {"query", "event"} : pc'[u] = "assign" => pc[u] = "assign"
        /\ pc'["main"] = "join" => pc["main"] = "join"
    BY <1>0, <1>5, <2>1
  <2>4. pc'["query"] = "assign" => list' = list
    BY <1>0, <2>1, Going DEF Step
  <2>5. \A t \in {"query", "event"} : pc'[t] = "assign" => pc[t] = "assign" /\ list'[t] = list[t]
    BY <2>1, <2>3, <2>4
  <2>6. QED
    BY <1>1, <1>4, <2>1, <2>2, <2>3, <2>5
<1>8. ASSUME NEW t \in {"query", "event"}, GetDevice(t) \/ AssignDevice(t) \/ ResetFirst(t)
      PROVE  CameraInv'
  <2>1. /\ UNCHANGED <<callback, node, goal, served>>
        /\ \A u \in Thread : u # t => pc'[u] = pc[u]
        /\ \A u \in {"query", "event"} : u # t => list'[u] = list[u]
        /\ pc[t] \in {"get", "assign", "reset"}
    BY <1>0, <1>8, SearchMoves
  <2>2. setup.file = "no"
    BY <1>1, <2>1
  <2>3. pc'["main"] = pc["main"]
    BY <1>0, <2>1
  <2>4. CASE GetDevice(t)
    <3>1. /\ device' = device /\ serial' = serial
          /\ pc'[t] = "assign" => \A h \in list'[t] : serial \in {"any", h.id}
      BY <1>0, <2>4, SearchMoves DEF AssignDevice, ResetFirst, GetDevice, At
    <3>2. \A u \in {"query", "event"} : pc'[u] = "assign" => \A h \in list'[u] : serial \in {"any", h.id}
      BY <1>0, <1>1, <2>1, <3>1
    <3>3. Camera' = Camera
      BY <1>0, <3>1 DEF Camera
    <3>4. QED
      BY <1>0, <1>1, <2>1, <2>2, <2>3, <3>1, <3>2, <3>3 DEF CameraInv
  <2>5. CASE AssignDevice(t)
    <3>1. /\ pc[t] = "assign" /\ pc'[t] = "reset" /\ device' \in list[t] /\ serial' = device'.id
      BY <1>0, <2>5, SearchMoves DEF AssignDevice, ResetFirst, GetDevice, At
    <3>2. device'.id \in Ids /\ serial \in {"any", device'.id}
      BY <1>0, <1>1, <3>1 DEF HandleInv
    <3>3. Camera = serial /\ Camera' = device'.id
      BY <1>0, <2>2, <3>1 DEF Camera
    <3>4. (node # NoNode => node.device.id = device'.id) /\ served \subseteq {device'.id}
      <4>1. CASE serial = device'.id
        BY <1>1, <3>3, <4>1
      <4>2. CASE serial = "any"
        <5>1. node = NoNode
          BY <1>0, <1>1, <1>2, <3>3, <4>2 DEF NodeInv
        <5>2. served = {}
          BY <1>0, <1>1, <1>2, <3>3, <4>2 DEF OtherTypes
        <5>3. QED
          BY <5>1, <5>2
      <4>3. QED
        BY <3>2, <4>1, <4>2
    <3>5. \A u \in {"query", "event"} : pc'[u] = "assign" => \A h \in list'[u] : serial' \in {"any", h.id}
      <4> SUFFICES ASSUME NEW u \in {"query", "event"}, pc'[u] = "assign", NEW h \in list'[u]
                   PROVE  serial' = h.id
        OBVIOUS
      <4>1. u # t /\ pc[u] = "assign" /\ h \in list[u]
        BY <1>0, <2>1, <3>1
      <4>2. serial # "any"
        BY <1>1, <2>2, <3>1, <4>1
      <4>3. QED
        BY <1>1, <3>1, <3>2, <4>1, <4>2
    <3>6. serial' # "any"
      BY <1>2, <3>1, <3>2
    <3>7. QED
      BY <1>0, <1>1, <2>1, <2>2, <2>3, <3>1, <3>3, <3>4, <3>5, <3>6 DEF CameraInv
  <2>6. CASE ResetFirst(t)
    <3>1. pc'[t] = "found" /\ serial' = serial /\ device' \in {device, NoHandle} /\ list' = list
      BY <1>0, <2>6, SearchMoves DEF AssignDevice, ResetFirst, GetDevice, At
    <3>2. \A u \in {"query", "event"} : pc'[u] = "assign" => pc[u] = "assign" /\ list'[u] = list[u]
      BY <1>0, <2>1, <3>1
    <3>3. QED
      BY <1>1, <1>4, <2>1, <2>2, <2>3, <3>1, <3>2
  <2>7. QED
    BY <1>8, <2>4, <2>5, <2>6
<1>9. CASE TakeEvent \/ CheckRemoved \/ ClearDevice \/ CheckAdded \/ CallbackFinds
  <2>1. /\ UNCHANGED <<serial, served, goal, callback>>
        /\ device' \in {device, NoHandle} /\ node' \in {node, NoNode}
        /\ list'["query"] = list["query"]
        /\ pc' = pc \/ \E step \in Step \ {"assign", "join"} : Goto("event", step)
        /\ list' = list \/ Goto("event", "get")
    BY <1>0, <1>9 DEF TakeEvent, CheckRemoved, ClearDevice, CheckAdded, CallbackFinds, NodeOfRemoved,
         DeviceAfterRemoval, Step, deviceVars, lifeVars, OtherTypes
  <2>2. /\ \A u \in {"query", "event"} : pc'[u] = "assign" => pc[u] = "assign"
        /\ pc'["main"] = "join" => pc["main"] = "join"
        /\ pc'["query"] = pc["query"]
    BY <1>0, <1>5, <2>1
  <2>3. pc'["event"] = "assign" => list' = list
    BY <1>0, <2>1, Going DEF Step
  <2>4. \A t \in {"query", "event"} : pc'[t] = "assign" => pc[t] = "assign" /\ list'[t] = list[t]
    BY <2>1, <2>2, <2>3
  <2>5. QED
    BY <1>1, <1>3, <2>1, <2>2, <2>4
<1>10. ASSUME NEW t \in Thread, Starts(t) PROVE CameraInv'
  <2>1. /\ UNCHANGED <<callback, serial, list, goal>>
        /\ \A u \in Thread : u # t => pc'[u] = pc[u]
        /\ pc[t] \in {"create", "publish"}
        /\ pc'[t] \in {pc[t], "publish", "loop", "idle", "poll", "caught"}
    BY <1>0, <1>10, StartMoves DEF After
  <2>2. /\ \A u \in {"query", "event"} : pc'[u] = "assign" => pc[u] = "assign" /\ list'[u] = list[u]
        /\ pc'["main"] = "join" => pc["main"] = "join"
        /\ setup.file # "no" => pc'["query"] = "none"
    BY <1>0, <1>1, <2>1
  <2>3. device' \in {device, NoHandle}
    BY <1>10 DEF Starts, CreateNode, CreateThrows, PublishTopics, PublishFails, PublishThrows, deviceVars
  <2>4. CASE CreateThrows(t) \/ PublishFails(t) \/ PublishThrows(t)
    <3>1. node' \in {node, NoNode} /\ served' = served
      BY <2>4 DEF CreateThrows, PublishFails, PublishThrows
    <3>2. QED
      BY <1>1, <1>3, <2>1, <2>2, <2>3, <3>1
  <2>5. CASE CreateNode(t)
    <3>1. node' = [device |-> device, up |-> FALSE] /\ device # NoHandle /\ served' = served
      BY <2>5 DEF CreateNode
    <3>2. node'.device = device
      BY <3>1
    <3>3. QED
      BY <1>1, <1>3, <2>1, <2>2, <2>3, <3>1, <3>2
  <2>6. CASE PublishTopics(t)
    <3>1. node # NoNode /\ node' = [node EXCEPT !.up = TRUE] /\ served' = served \cup {node.device.id}
      BY <1>0, <2>6 DEF PublishTopics, At, NodeInv
    <3>2. node'.device = node.device
      BY <1>0, <3>1 DEF OtherTypes
    <3>3. served' \subseteq served \cup {Camera}
      BY <1>1, <3>1
    <3>4. QED
      BY <1>1, <1>3, <2>1, <2>2, <2>3, <3>1, <3>2, <3>3
  <2>7. QED
    BY <1>10, <2>4, <2>5, <2>6 DEF Starts
<1>11. CASE Destroy
  <2>1. UNCHANGED <<serial, served, node, device, list, callback>> /\ Goto("main", "join") /\ goal' = "destroyed"
    BY <1>11 DEF Destroy, Close, deviceVars
  <2>2. pc'["query"] = pc["query"] /\ pc'["event"] = pc["event"]
    BY <1>0, <2>1, Going DEF Step
  <2>3. QED
    BY <1>1, <1>4, <2>1, <2>2
<1>12. CASE CloseDevice
  <2>1. /\ UNCHANGED <<serial, list>> /\ served' = served /\ device' = NoHandle /\ node' = NoNode
        /\ pc["main"] = "join" /\ pc' = [pc EXCEPT !["main"] = "idle", !["query"] = "none"]
        /\ callback' = (IF device # NoHandle /\ goal # "destroyed" THEN "nobody" ELSE callback)
    BY <1>12 DEF CloseDevice, At
  <2>2. callback' = callback
    BY <1>1, <2>1
  <2>3. pc'["main"] = "idle" /\ pc'["query"] = "none" /\ pc'["event"] = pc["event"]
    BY <1>0, <2>1
  <2>4. QED
    BY <1>1, <1>3, <2>1, <2>2, <2>3
<1>13. CASE PollPlayback
  <2>1. /\ UNCHANGED <<serial, served, node, device, list, callback, goal>> /\ pc["main"] = "poll"
        /\ pc' = pc \/ Goto("main", "create")
    BY <1>13 DEF PollPlayback, At, deviceVars, lifeVars
  <2>2. pc'["query"] = pc["query"] /\ pc'["event"] = pc["event"] /\ pc'["main"] # "join"
    BY <1>0, <2>1, Going DEF Step
  <2>3. QED
    BY <1>1, <1>4, <2>1, <2>2
<1>14. ~ (OnConfigure \/ OnActivate \/ OnDeactivate \/ OnCleanup \/ OnShutdown)
  BY DEF OnConfigure, OnActivate, OnDeactivate, OnCleanup, OnShutdown, Transition
<1>15. QED
  BY <1>6, <1>7, <1>8, <1>9, <1>10, <1>11, <1>12, <1>13, <1>14, Steps

----------------------------------------------------------------------------
\* In a calm setting nobody takes the node from another thread.

\* While there was no backend error, a node that a thread takes is not in use.
LEMMA NotInUse ==
    ASSUME FactoryInv, setup.calm, failures = 0
    PROVE  /\ \A t \in Thread : pc[t] \in Starting => ~ InUse(t)
           /\ pc["event"] # "idle" => ~ InUse("event")
           /\ EventThreadIdle /\ (setup.lifecycle \/ QueryJoined) => ~ InUse("main")
<1>1. /\ setup.lifecycle => pc["query"] \notin Starting
      /\ (~ setup.lifecycle /\ pc["query"] \in Starting) => pc["event"] = "idle"
      /\ (~ setup.lifecycle /\ pc["main"] \in Starting) => setup.file # "no"
      /\ pc["main"] # "idle" => pc["event"] = "idle"
  BY DEF FactoryInv, ThreadInv, EventThreadIdle, Starting
<1>2. (~ setup.lifecycle /\ setup.file # "no") => pc["query"] = "none"
  BY DEF FactoryInv, CameraInv
<1>3. ASSUME NEW t \in Thread, pc[t] \in Starting PROVE ~ InUse(t)
  BY <1>1, <1>2, <1>3 DEF InUse, Starting, Thread
<1>4. ASSUME pc["event"] # "idle" PROVE ~ InUse("event")
  BY <1>1, <1>4 DEF InUse, Thread, Starting
<1>5. ASSUME EventThreadIdle, setup.lifecycle \/ QueryJoined PROVE ~ InUse("main")
  BY <1>1, <1>5 DEF InUse, Thread, Starting, EventThreadIdle, QueryJoined
<1>6. QED
  BY <1>3, <1>4, <1>5

\* In a calm setting every step keeps the threads from starting nodes at the same time.
LEMMA ThreadStep == ASSUME FactoryInv, [Next]_vars PROVE ThreadInv'
<1> USE DEF Starting, EventThreadIdle
<1>a. OtherTypes
  BY TypeParts DEF FactoryInv
<1> SUFFICES ASSUME setup.calm, failures' = 0, failures = 0, \A t \in Thread : ~ PublishFails(t)
             PROVE  ThreadInv'
  BY <1>a, SettingKept, NoFailure DEF ThreadInv
<1>0. /\ OtherTypes /\ PlaceTypes /\ HandleInv /\ setup \in Setting /\ pc \in [Thread -> Step]
      /\ "query" \in Thread /\ "event" \in Thread /\ "main" \in Thread
      /\ setup' = setup
  BY TypeParts, SettingKept DEF FactoryInv, TypeInv, PlaceTypes, Thread
<1>1. /\ process # "crashed"
      /\ setup.lifecycle => pc["query"] \notin Starting
      /\ (~ setup.lifecycle /\ pc["query"] \notin {"none", "ended"}) =>
            /\ pc["event"] = "idle" /\ events = <<>>
            /\ callback # "none" => device # NoHandle
      /\ (~ setup.lifecycle /\ pc["query"] \in Searching) => callback = "none"
      /\ (~ setup.lifecycle /\ pc["main"] \in Starting \cup {"poll"}) => setup.file # "no"
      /\ (pc["main"] # "idle" \/ state = "destroyed") => (pc["event"] = "idle" /\ events = <<>>)
  BY DEF FactoryInv, ThreadInv
<1>2. /\ (~ setup.lifecycle /\ setup.file # "no") => pc["query"] = "none" /\ callback = "none"
      /\ callback = "none" => pc["event"] = "idle" /\ events = <<>>
  BY DEF FactoryInv, CameraInv, HandleInv
<1>3. ASSUME NEW id \in Ids, Plug(id) \/ ResetDevice(id) PROVE ThreadInv'
  <2>1. /\ UNCHANGED <<pc, device, state, process, callback>>
        /\ pc["event"] = "idle" /\ events = <<>> /\ pc["main"] = "idle" /\ state # "destroyed"
        /\ (pc["query"] \in {"none", "ended"} \/ device = NoHandle)
        /\ (DeviceLeaves(id) \/ DeviceComes(id))
    BY <1>3 DEF Plug, ResetDevice, CalmDevices, deviceVars, lifeVars
  <2>2. callback = "none" => events' = events
    BY <2>1 DEF DeviceLeaves, DeviceComes, Report
  <2>3. QED
    BY <1>0, <1>1, <2>1, <2>2 DEF ThreadInv
<1>4. ASSUME NEW t \in Thread, Starts(t) PROVE ThreadInv'
  <2>1. /\ \A u \in Thread : u # t => pc'[u] = pc[u]
        /\ pc[t] \in Starting
        /\ \/ pc'[t] = pc[t] \/ pc'[t] = "publish" \/ pc'[t] = After(t) \/ pc'[t] = "idle"
           \/ t = "query" /\ pc'[t] = "caught"
        /\ UNCHANGED <<attached, connection, events, callback, serial, initialReset>>
        /\ state' \in {state, "finalized"} \cup {g \in {goal} : t = "main"}
    BY <1>0, <1>4, StartMoves
  <2>2. device' = device
    BY <1>4 DEF Starts, CreateNode, CreateThrows, PublishTopics, PublishThrows, deviceVars
  <2>3. ~ InUse(t)
    BY <2>1, NotInUse
  <2>4. process' # "crashed"
    BY <1>1, <1>4, <2>3
       DEF Starts, CreateNode, NodeGoes, CreateThrows, Thrown, PublishTopics, PublishThrows
  <2>5. After("query") = "loop" /\ After("event") = "idle"
        /\ After("main") \in {"poll", "idle"} /\ (After("main") = "poll" => setup.file # "no")
    BY DEF After
  <2>6. CASE t = "query"
    <3>1. /\ pc'["event"] = pc["event"] /\ pc'["main"] = pc["main"]
          /\ pc'["query"] \in {pc["query"], "publish", "loop", "idle", "caught"}
          /\ ~ setup.lifecycle /\ pc["event"] = "idle" /\ events = <<>>
      BY <1>0, <1>1, <2>1, <2>5, <2>6
    <3>2. QED
      BY <1>0, <1>1, <2>1, <2>2, <2>4, <3>1 DEF ThreadInv, Searching
  <2>7. CASE t = "event"
    <3>1. /\ pc'["query"] = pc["query"] /\ pc'["main"] = pc["main"]
          /\ pc["main"] = "idle" /\ state # "destroyed"
          /\ (~ setup.lifecycle => pc["query"] \in {"none", "ended"})
          /\ state' \in {state, "finalized"}
      BY <1>0, <1>1, <2>1, <2>7
    <3>2. QED
      BY <1>0, <1>1, <2>1, <2>2, <2>4, <3>1 DEF ThreadInv, Searching
  <2>8. CASE t = "main"
    <3>1. /\ pc'["query"] = pc["query"] /\ pc'["event"] = pc["event"]
          /\ pc'["main"] \in {pc["main"], "publish", "idle", After("main")}
          /\ pc["event"] = "idle" /\ events = <<>>
      BY <1>0, <1>1, <2>1, <2>8
    <3>2. QED
      BY <1>0, <1>1, <2>1, <2>2, <2>4, <2>5, <3>1 DEF ThreadInv
  <2>9. QED
    BY <2>6, <2>7, <2>8 DEF Thread
<1>5. ASSUME NEW t \in {"query", "event"}, GetDevice(t) \/ AssignDevice(t) \/ ResetFirst(t)
      PROVE  ThreadInv'
  <2>1. /\ UNCHANGED <<events, callback, state, process>>
        /\ \A u \in Thread : u # t => pc'[u] = pc[u]
        /\ pc[t] \in {"get", "assign", "reset"}
        /\ pc'[t] \in {"reset", "assign", "found", "idle", "caught"}
        /\ t = "query" => pc'[t] # "idle"
    BY <1>0, <1>5, SearchMoves
  <2>2. CASE t = "query"
    <3>1. pc'["event"] = pc["event"] /\ pc'["main"] = pc["main"]
      BY <1>0, <2>1, <2>2
    <3>2. ~ setup.lifecycle => callback = "none"
      BY <1>1, <2>1, <2>2 DEF Searching
    <3>3. QED
      BY <1>0, <1>1, <2>1, <2>2, <3>1, <3>2 DEF ThreadInv, Searching
  <2>3. CASE t = "event"
    <3>1. /\ pc'["query"] = pc["query"] /\ pc'["main"] = pc["main"]
          /\ pc["main"] = "idle" /\ state # "destroyed"
          /\ (~ setup.lifecycle => pc["query"] \in {"none", "ended"})
      BY <1>0, <1>1, <2>1, <2>3
    <3>2. QED
      BY <1>0, <1>1, <2>1, <3>1 DEF ThreadInv, Searching
  <2>4. QED
    BY <2>2, <2>3
\* The query thread.
<1>6. ASSUME NEW step \in Step, Goto("query", step)
      PROVE  pc'["query"] = step /\ pc'["event"] = pc["event"] /\ pc'["main"] = pc["main"]
  BY <1>0, <1>6, Going
<1>7. CASE QueryLoops \/ QueryDevices \/ LoopsAgain \/ Sleep \/ GiveUp
  <2>1. /\ UNCHANGED <<events, device, state, callback>> /\ process' \in {process, "exited"}
        /\ \/ pc' = pc
           \/ Goto("query", "ended") \/ Goto("query", "loop") \/ Goto("query", "caught")
           \/ pc["query"] = "loop" /\ device = NoHandle /\ Goto("query", "query")
           \/ pc["query"] = "query" /\ Goto("query", "get")
        /\ pc["query"] \notin {"none", "ended"}
    BY <1>7 DEF QueryLoops, Loops, QueryDevices, Caught, LoopsAgain, Sleep, GiveUp, At, deviceVars,
         lifeVars
  <2>2. /\ pc'["event"] = pc["event"] /\ pc'["main"] = pc["main"]
        /\ \/ pc'["query"] \in {pc["query"], "ended", "loop", "caught"}
           \/ pc["query"] = "loop" /\ device = NoHandle /\ pc'["query"] = "query"
           \/ pc["query"] = "query" /\ pc'["query"] = "get"
    BY <1>0, <1>6, <2>1 DEF Step
  <2>3. QED
    BY <1>0, <1>1, <2>1, <2>2 DEF ThreadInv, Searching
<1>8. CASE QueryFinds
  <2>1. /\ UNCHANGED <<events, device, state, process>> /\ pc["query"] = "found"
        /\ \/ callback' = callback /\ Goto("query", "wait")
           \/ callback' = callback /\ Goto("query", "caught")
           \/ device # NoHandle /\ Goto("query", "loop")
           \/ device # NoHandle /\ ~ setup.lifecycle /\ Goto("query", "create")
    BY <1>8 DEF QueryFinds, At, Caught, deviceVars, lifeVars
  <2>2. /\ pc'["event"] = pc["event"] /\ pc'["main"] = pc["main"]
        /\ \/ callback' = callback /\ pc'["query"] \in {"wait", "caught"}
           \/ device # NoHandle /\ pc'["query"] = "loop"
           \/ device # NoHandle /\ ~ setup.lifecycle /\ pc'["query"] = "create"
    BY <1>0, <1>6, <2>1 DEF Step
  <2>3. QED
    BY <1>0, <1>1, <2>1, <2>2 DEF ThreadInv, Searching
\* The thread that reports changes.
<1>9. ASSUME NEW step \in Step, Goto("event", step)
      PROVE  pc'["event"] = step /\ pc'["query"] = pc["query"] /\ pc'["main"] = pc["main"]
  BY <1>0, <1>9, Going
<1>10. CASE TakeEvent \/ CheckRemoved \/ ClearDevice \/ CheckAdded \/ CallbackFinds
  <2>1. pc["event"] # "idle" \/ events # <<>>
    BY <1>10 DEF TakeEvent, CheckRemoved, ClearDevice, CheckAdded, CallbackFinds, At
  <2>2. /\ pc["main"] = "idle" /\ state # "destroyed"
        /\ (~ setup.lifecycle => pc["query"] \in {"none", "ended"})
    BY <1>1, <2>1
  <2>3. /\ state' = state
        /\ pc' = pc \/ \E step \in Step : Goto("event", step)
    BY <1>10 DEF TakeEvent, CheckRemoved, ClearDevice, CheckAdded, CallbackFinds, lifeVars, Step
  <2>4. process' # "crashed"
    <3>1. pc["event"] = "removed" => ~ InUse("event")
      BY NotInUse
    <3>2. QED
      BY <1>1, <1>10, <2>2, <3>1
         DEF TakeEvent, CheckRemoved, NodeGoes, ClearDevice, CheckAdded, CallbackFinds, At
  <2>5. pc'["query"] = pc["query"] /\ pc'["main"] = pc["main"]
    BY <1>9, <2>3
  <2>6. QED
    BY <1>0, <1>1, <2>2, <2>3, <2>4, <2>5 DEF ThreadInv, Searching
\* The thread of the lifecycle.
<1>13. ASSUME NEW step \in Step, Goto("main", step)
       PROVE  pc'["main"] = step /\ pc'["query"] = pc["query"] /\ pc'["event"] = pc["event"]
  BY <1>0, <1>13, Going
<1>14. CASE OnConfigure \/ OnActivate
  <2>1. /\ UNCHANGED <<attached, events, process>> /\ setup.lifecycle
        /\ pc["event"] = "idle" /\ events = <<>>
        /\ Goto("main", "create") \/ Goto("query", "loop")
    BY <1>14 DEF OnConfigure, OnActivate, Transition, CalmTransition, Initialized, worldVars, Goto
  <2>2. pc'["event"] = pc["event"] /\ pc'["query"] \in {pc["query"], "loop"}
    BY <1>6, <1>13, <2>1 DEF Step
  <2>3. QED
    BY <1>0, <1>1, <2>1, <2>2 DEF ThreadInv
<1>15. CASE OnDeactivate
  <2>1. /\ UNCHANGED <<attached, events, device, pc, callback>> /\ setup.lifecycle
        /\ pc["event"] = "idle" /\ events = <<>> /\ pc["main"] = "idle"
    BY <1>15 DEF OnDeactivate, Transition, CalmTransition, At, worldVars, deviceVars
  <2>2. process' # "crashed"
    BY <1>1, <1>15, <2>1, NotInUse DEF OnDeactivate, NodeGoes
  <2>3. QED
    BY <1>0, <1>1, <2>1, <2>2 DEF ThreadInv
<1>16. CASE OnCleanup \/ OnShutdown \/ Destroy
  <2>1. /\ UNCHANGED <<attached, events, device, state, process, callback>>
        /\ pc["event"] = "idle" /\ events = <<>> /\ Goto("main", "join")
    BY <1>16 DEF OnCleanup, OnShutdown, Destroy, Transition, CalmTransition, Close, worldVars, deviceVars
  <2>2. pc'["main"] = "join" /\ pc'["query"] = pc["query"] /\ pc'["event"] = pc["event"]
    BY <1>13, <2>1 DEF Step
  <2>3. QED
    BY <1>0, <1>1, <2>1, <2>2 DEF ThreadInv
<1>17. CASE CloseDevice
  <2>1. /\ UNCHANGED <<attached, events>> /\ pc["main"] = "join" /\ QueryJoined
        /\ pc' = [pc EXCEPT !["main"] = "idle", !["query"] = "none"]
        /\ pc["event"] = "idle" /\ events = <<>>
    BY <1>1, <1>17 DEF CloseDevice, At, worldVars
  <2>2. process' # "crashed"
    BY <1>1, <1>17, <2>1, NotInUse DEF CloseDevice
  <2>3. pc'["main"] = "idle" /\ pc'["query"] = "none" /\ pc'["event"] = "idle"
    BY <1>0, <2>1
  <2>4. QED
    BY <1>0, <1>1, <2>1, <2>2, <2>3 DEF ThreadInv, Searching
<1>18. CASE PlaybackEnds \/ PollPlayback
  <2>1. /\ UNCHANGED <<attached, events, device, state, process, callback>>
        /\ pc' = pc \/ (pc["main"] = "poll" /\ Goto("main", "create"))
    BY <1>18 DEF PlaybackEnds, PollPlayback, At, worldVars, deviceVars, lifeVars
  <2>2. /\ pc'["query"] = pc["query"] /\ pc'["event"] = pc["event"]
        /\ pc'["main"] = pc["main"] \/ (pc["main"] = "poll" /\ pc'["main"] = "create")
    BY <1>13, <2>1 DEF Step
  <2>3. QED
    BY <1>0, <1>1, <2>1, <2>2 DEF ThreadInv
<1>19. CASE UNCHANGED vars
  BY <1>0, <1>1, <1>19 DEF vars, ThreadInv, worldVars, deviceVars, lifeVars
<1>20. QED
  BY <1>3, <1>4, <1>5, <1>7, <1>8, <1>10, <1>14, <1>15, <1>16, <1>17, <1>18, <1>19,
     Steps

----------------------------------------------------------------------------
\* In a calm setting a device that is gone is reported next.

\* A change of the devices while none is reported.
LEMMA ReportOfChange ==
    ASSUME OtherTypes, HandleInv, events = <<>>, NEW id \in Ids, DeviceLeaves(id) \/ DeviceComes(id)
    PROVE  /\ Len(events') <= 1
           /\ \A i \in 1..Len(events') : events'[i].new \subseteq attached'
           /\ callback # "none" => events' # <<>>
           /\ \A h \in attached : h \notin attached' /\ callback # "none" => h \in Head(events').gone
<1>1. PICK new \in {{}, {[id |-> id, connection |-> connection + 1]}} :
         attached' = (attached \ Plugged(id)) \cup new /\ Report(Plugged(id), new)
  BY DEF DeviceLeaves, DeviceComes
<1>2. CASE callback = "none"
  BY <1>1, <1>2 DEF Report
<1>3. CASE callback # "none"
  <2>1. events' = <<[gone |-> Plugged(id), new |-> new]>>
    BY <1>1, <1>3 DEF Report
  <2>2. Len(events') = 1 /\ events' # <<>> /\ Head(events') = [gone |-> Plugged(id), new |-> new]
        /\ events'[1] = [gone |-> Plugged(id), new |-> new]
    BY <2>1
  <2>3. QED
    BY <1>1, <2>2
<1>4. QED
  BY <1>2, <1>3

\* Every step keeps what the device list still has to report to the node.
LEMMA ReportStep == ASSUME FactoryInv, [Next]_vars PROVE ReportInv'
<1> USE DEF Starting, Searching, EventThreadIdle
<1>a. OtherTypes
  BY TypeParts DEF FactoryInv
<1> SUFFICES ASSUME setup.calm, setup.file = "no", ~ setup.mayThrow, failures' = 0, failures = 0,
                    \A t \in Thread : ~ PublishFails(t)
             PROVE  ReportInv'
  BY <1>a, SettingKept, NoFailure DEF ReportInv, Smooth
<1>0. /\ OtherTypes /\ PlaceTypes /\ HandleInv /\ setup \in Setting /\ pc \in [Thread -> Step]
      /\ "query" \in Thread /\ "event" \in Thread /\ "main" \in Thread
      /\ setup' = setup
  BY TypeParts, SettingKept DEF FactoryInv, TypeInv, PlaceTypes, Thread
<1>1. /\ state = "unconfigured" => pc["query"] = "none"
      /\ pc["main"] # "poll" /\ (pc["main"] \in Starting => goal = "active")
      /\ (pc["main"] \in Starting /\ initialReset) => pc["query"] \in {"none", "ended"}
      /\ Len(events) <= 1
      /\ \A i \in 1..Len(events) : events[i].new \subseteq attached
      /\ pc["event"] # "idle" => callback = "changeDevice"
      /\ pc["event"] = "clear" => device \notin attached
      /\ \A t \in {"query", "event"} : pc[t] \in {"get", "assign"} => list[t] \subseteq attached
      /\ \A t \in {"query", "event"} : pc[t] = "assign" => device = NoHandle
      /\ pc["event"] = "get" => device = NoHandle
      /\ (device # NoHandle /\ pc["query"] \notin {"reset", "found"}) => callback = "changeDevice"
      /\ pc["query"] \notin {"none", "ended"} =>
            /\ pc["event"] \in {"idle", "removed", "added"}
            /\ callback = "changeDevice" =>
                  (\/ pc["event"] = "idle" /\ events = <<>>
                   \/ device # NoHandle /\ pc["query"] \notin Searching)
      /\ (device # NoHandle /\ device \notin attached) =>
            (/\ events # <<>> /\ device \in Head(events).gone
             /\ pc["event"] \in {"idle", "removed", "clear"}
             /\ pc["query"] \in {"none", "ended"})
  BY DEF FactoryInv, ReportInv, Smooth
<1>2. (pc["main"] # "idle" \/ state = "destroyed") => (pc["event"] = "idle" /\ events = <<>>)
  BY DEF FactoryInv, ThreadInv
<1>3. /\ NoHandle \notin attached
      /\ \A i \in 1..Len(events) : NoHandle \notin events[i].gone
      /\ \A i \in 1..Len(events) : \A h \in events[i].gone : h \notin attached
      /\ pc["event"] \in HandlingEvent => events # <<>>
  BY <1>0, Handles DEF HandleInv
<1>4. ASSUME NEW id \in Ids, Plug(id) \/ ResetDevice(id) PROVE ReportInv'
  <2>1. /\ UNCHANGED <<pc, device, callback, state, goal, list, initialReset>>
        /\ (DeviceLeaves(id) \/ DeviceComes(id))
        /\ pc["event"] = "idle" /\ events = <<>> /\ pc["main"] = "idle"
        /\ \/ pc["query"] \in {"none", "ended"}
           \/ /\ pc["query"] \in {"loop", "query", "wait", "caught"} /\ device = NoHandle
              /\ callback # "changeDevice"
    BY <1>4 DEF Plug, ResetDevice, CalmDevices, deviceVars, lifeVars
  <2>2. /\ Len(events') <= 1
        /\ \A i \in 1..Len(events') : events'[i].new \subseteq attached'
        /\ callback # "none" => events' # <<>>
        /\ \A h \in attached : h \notin attached' /\ callback # "none" => h \in Head(events').gone
    BY <1>0, <2>1, ReportOfChange
  <2>3. device # NoHandle => device \in attached /\ callback = "changeDevice" /\ pc["query"] \in {"none", "ended"}
    BY <1>1, <2>1
  <2>4. \A t \in {"query", "event"} : pc'[t] \notin {"get", "assign"}
    BY <2>1
  <2>5. QED
    BY <1>0, <1>1, <2>1, <2>2, <2>3, <2>4 DEF ReportInv
<1>5. ASSUME NEW t \in Thread, Starts(t) PROVE ReportInv'
  <2>1. /\ \A u \in Thread : u # t => pc'[u] = pc[u]
        /\ pc[t] \in Starting
        /\ \/ pc'[t] = pc[t] \/ pc'[t] = "publish" \/ pc'[t] = After(t) \/ pc'[t] = "idle"
           \/ t = "query" /\ pc'[t] = "caught"
        /\ UNCHANGED <<attached, connection, events, callback, serial, initialReset, list, goal>>
        /\ state' \in {state, "finalized"} \cup {g \in {goal} : t = "main"}
    BY <1>0, <1>5, StartMoves
  <2>2. device' = device
    BY <1>5 DEF Starts, CreateNode, CreateThrows, PublishTopics, PublishThrows, deviceVars
  <2>3. After("query") = "loop" /\ After("event") = "idle" /\ After("main") = "idle"
    BY DEF After
  <2>4. pc'["event"] = pc["event"] \/ (pc["event"] \in Starting /\ pc'["event"] \in {"publish", "idle"})
    BY <1>0, <2>1, <2>3
  <2>5. \/ pc'["query"] = pc["query"]
        \/ pc["query"] \in Starting /\ pc'["query"] \in {"publish", "loop", "idle", "caught"}
    BY <1>0, <2>1, <2>3
  <2>6. pc'["main"] # "poll" /\ (pc'["main"] \in Starting => pc["main"] \in Starting)
    BY <1>0, <1>1, <2>1, <2>3
  <2>7. state' = "unconfigured" => state = "unconfigured"
    BY <1>1, <2>1
  <2>8. pc'["query"] \in {"none", "ended"} <=> pc["query"] \in {"none", "ended"}
    BY <2>5
  <2>9. \A u \in {"query", "event"} :
           /\ pc'[u] \in {"get", "assign"} => pc[u] \in {"get", "assign"}
           /\ pc'[u] = "assign" => pc[u] = "assign"
    BY <2>4, <2>5
  <2>10. /\ state' = "unconfigured" => pc'["query"] = "none"
         /\ (pc'["main"] \in Starting => goal' = "active")
         /\ (pc'["main"] \in Starting /\ initialReset') => pc'["query"] \in {"none", "ended"}
    BY <1>1, <2>1, <2>5, <2>6, <2>7, <2>8
  <2>11. /\ pc'["event"] # "idle" => callback' = "changeDevice"
         /\ pc'["event"] = "clear" => device' \notin attached'
         /\ pc'["event"] = "get" => device' = NoHandle
         /\ (device' # NoHandle /\ pc'["query"] \notin {"reset", "found"}) => callback' = "changeDevice"
    BY <1>1, <2>1, <2>2, <2>4, <2>5
  <2>12. pc'["query"] \notin {"none", "ended"} =>
            /\ pc'["event"] \in {"idle", "removed", "added"}
            /\ callback' = "changeDevice" =>
                  (\/ pc'["event"] = "idle" /\ events' = <<>>
                   \/ device' # NoHandle /\ pc'["query"] \notin Searching)
    BY <1>1, <2>1, <2>2, <2>4, <2>5, <2>8
  <2>13. (device' # NoHandle /\ device' \notin attached') =>
            (/\ events' # <<>> /\ device' \in Head(events').gone
             /\ pc'["event"] \in {"idle", "removed", "clear"}
             /\ pc'["query"] \in {"none", "ended"})
    BY <1>1, <2>1, <2>2, <2>4, <2>8
  <2>14. QED
    BY <1>1, <2>1, <2>2, <2>6, <2>9, <2>10, <2>11, <2>12, <2>13 DEF ReportInv
<1>6. ASSUME NEW t \in {"query", "event"}, GetDevice(t) \/ AssignDevice(t) \/ ResetFirst(t)
      PROVE  ReportInv'
  <2>1. /\ UNCHANGED <<attached, events, callback, state, goal>>
        /\ \A u \in Thread : u # t => pc'[u] = pc[u]
        /\ \A u \in {"query", "event"} : u # t => list'[u] = list[u]
        /\ (initialReset' => initialReset)
        /\ pc[t] \in {"get", "assign", "reset"}
        /\ \/ pc[t] = "get" /\ device' = device /\ pc'[t] = "reset"
           \/ /\ pc[t] = "get" /\ device' = device /\ device = NoHandle /\ pc'[t] = "assign"
              /\ list'[t] \subseteq list[t]
           \/ pc[t] = "assign" /\ pc'[t] = "reset" /\ device' \in list[t]
           \/ pc[t] = "reset" /\ pc'[t] = "found" /\ device' \in {device, NoHandle}
    BY <1>0, <1>6, SearchMoves
  <2>2. pc'["main"] = pc["main"]
    BY <1>0, <2>1
  <2>3. pc[t] = "assign" => device' \in attached
    BY <1>1, <2>1
  <2>4. pc'[t] \in {"get", "assign"} => list'[t] \subseteq attached
    BY <1>1, <2>1
  <2>5. CASE t = "query"
    <3>1. /\ pc'["event"] = pc["event"] /\ list'["event"] = list["event"]
          /\ pc["event"] \in {"idle", "removed", "added"}
          /\ (callback = "changeDevice" => pc["event"] = "idle" /\ events = <<>>)
          /\ pc["main"] \in Starting => ~ initialReset
          /\ state # "unconfigured"
          /\ device # NoHandle => device \in attached
          /\ pc'["query"] \in {"assign", "reset", "found"}
      BY <1>0, <1>1, <2>1, <2>5
    <3>2. \A u \in {"query", "event"} :
             /\ pc'[u] \in {"get", "assign"} => list'[u] \subseteq attached'
             /\ pc'[u] = "assign" => device' = NoHandle
      BY <1>1, <2>1, <2>4, <2>5, <3>1
    <3>3. device' # NoHandle => device' \in attached'
      BY <1>1, <2>1, <2>3, <2>5, <3>1
    <3>4. (device' # NoHandle /\ pc'["query"] \notin {"reset", "found"}) => callback' = "changeDevice"
      BY <2>1, <2>5, <3>1
    <3>5. QED
      BY <1>0, <1>1, <2>1, <2>2, <3>1, <3>2, <3>3, <3>4 DEF ReportInv
  <2>6. CASE t = "event"
    <3>1. /\ pc'["query"] = pc["query"] /\ list'["query"] = list["query"]
          /\ pc["query"] \in {"none", "ended"} /\ callback = "changeDevice"
          /\ pc["main"] = "idle"
          /\ device # NoHandle => device \in attached
          /\ pc'["event"] \in {"assign", "reset", "found"}
      BY <1>0, <1>1, <1>2, <2>1, <2>6
    <3>2. \A u \in {"query", "event"} :
             /\ pc'[u] \in {"get", "assign"} => list'[u] \subseteq attached'
             /\ pc'[u] = "assign" => device' = NoHandle
      BY <1>1, <2>1, <2>4, <2>6, <3>1
    <3>3. device' # NoHandle => device' \in attached'
      BY <1>1, <2>1, <2>3, <2>6, <3>1
    <3>4. QED
      BY <1>0, <1>1, <2>1, <2>2, <3>1, <3>2, <3>3 DEF ReportInv
  <2>7. QED
    BY <2>5, <2>6
\* The query thread.
<1>7. ASSUME NEW step \in Step, Goto("query", step)
      PROVE  pc'["query"] = step /\ pc'["event"] = pc["event"] /\ pc'["main"] = pc["main"]
  BY <1>0, <1>7, Going
<1>8. CASE QueryLoops \/ QueryDevices \/ QueryFinds \/ LoopsAgain \/ Sleep \/ GiveUp
  <2>1. /\ UNCHANGED <<attached, events, device, state, goal, initialReset>>
        /\ list'["event"] = list["event"]
        /\ pc["query"] \notin {"none", "ended"}
        /\ \/ callback' = callback /\ list' = list /\ pc' = pc
           \/ callback' = callback /\ list' = list /\ pc["query"] \notin {"reset", "found"}
              /\ (Goto("query", "ended") \/ Goto("query", "loop"))
           \/ callback' = callback /\ list' = list /\ device = NoHandle
              /\ \/ pc["query"] = "loop" /\ Goto("query", "query")
                 \/ pc["query"] = "found" /\ Goto("query", "wait")
           \/ callback' = callback /\ list'["query"] = attached /\ pc["query"] = "query"
              /\ Goto("query", "get")
           \/ callback' = "changeDevice" /\ list' = list /\ device # NoHandle
              /\ (Goto("query", "create") \/ Goto("query", "loop"))
    BY <1>0, <1>8 DEF QueryLoops, Loops, QueryDevices, QueryFinds, LoopsAgain, Sleep, GiveUp, At, worldVars,
         deviceVars, lifeVars, OtherTypes
  <2>2. /\ pc'["event"] = pc["event"] /\ pc'["main"] = pc["main"]
        /\ \/ callback' = callback /\ list' = list /\ pc'["query"] = pc["query"]
           \/ callback' = callback /\ list' = list /\ pc["query"] \notin {"reset", "found"}
              /\ pc'["query"] \in {"ended", "loop"}
           \/ callback' = callback /\ list' = list /\ device = NoHandle
              /\ \/ pc["query"] = "loop" /\ pc'["query"] = "query"
                 \/ pc["query"] = "found" /\ pc'["query"] = "wait"
           \/ callback' = callback /\ list'["query"] = attached /\ pc["query"] = "query"
              /\ pc'["query"] = "get"
           \/ callback' = "changeDevice" /\ list' = list /\ device # NoHandle
              /\ pc'["query"] \in {"create", "loop"}
    BY <1>0, <1>7, <2>1 DEF Step
  <2>3. /\ state # "unconfigured" /\ (pc["main"] \in Starting => ~ initialReset)
        /\ pc["event"] \in {"idle", "removed", "added"}
        /\ device # NoHandle => device \in attached
    BY <1>1, <2>1
  <2>4. \A u \in {"query", "event"} :
           /\ pc'[u] \in {"get", "assign"} => list'[u] \subseteq attached'
           /\ pc'[u] = "assign" => device' = NoHandle
    BY <1>1, <2>1, <2>2, <2>3
  <2>5. (device' # NoHandle /\ pc'["query"] \notin {"reset", "found"}) => callback' = "changeDevice"
    BY <1>1, <2>1, <2>2
  <2>6. callback' = "changeDevice" =>
           (\/ pc'["event"] = "idle" /\ events' = <<>>
            \/ device' # NoHandle /\ pc'["query"] \notin Searching)
        \/ pc'["query"] \in {"none", "ended"}
    BY <1>1, <2>1, <2>2
  <2>7. pc'["event"] # "idle" => callback' = "changeDevice"
    BY <1>1, <2>2
  <2>8. QED
    BY <1>0, <1>1, <2>1, <2>2, <2>3, <2>4, <2>5, <2>6, <2>7 DEF ReportInv
\* The thread that reports changes.
<1>9. ASSUME NEW step \in Step, Goto("event", step)
      PROVE  pc'["event"] = step /\ pc'["query"] = pc["query"] /\ pc'["main"] = pc["main"]
  BY <1>0, <1>9, Going
<1>10. CASE TakeEvent
  <2>1. /\ UNCHANGED <<attached, device, callback, state, goal, list, initialReset>>
        /\ pc["event"] = "idle" /\ events # <<>> /\ pc["main"] = "idle" /\ state # "destroyed"
    BY <1>2, <1>10 DEF TakeEvent, At, worldVars, deviceVars, lifeVars
  <2>2. CASE callback = "changeDevice"
    <3>1. Goto("event", "removed") /\ events' = events
      BY <1>10, <2>1, <2>2 DEF TakeEvent
    <3>2. /\ pc'["query"] = pc["query"] /\ pc'["main"] = pc["main"] /\ pc'["event"] = "removed"
      BY <1>9, <3>1 DEF Step
    <3>3. \A u \in {"query", "event"} :
             /\ pc'[u] \in {"get", "assign"} => list'[u] \subseteq attached'
             /\ pc'[u] = "assign" => device' = NoHandle
      BY <1>1, <2>1, <3>2
    <3>4. QED
      BY <1>0, <1>1, <2>1, <2>2, <3>1, <3>2, <3>3 DEF ReportInv
  <2>3. CASE callback # "changeDevice"
    <3>1. pc' = pc /\ events' = Tail(events)
      BY <1>10, <2>3 DEF TakeEvent
    <3>2. Len(events') <= 0 /\ Len(events') \in Nat
      BY <1>0, <1>1, <2>1, <3>1, FirstEvent, LenProperties
    <3>3. device = NoHandle \/ device \in attached
      BY <1>1, <2>3
    <3>4. QED
      BY <1>0, <1>1, <2>1, <2>3, <3>1, <3>2, <3>3 DEF ReportInv
  <2>4. QED
    BY <2>2, <2>3
<1>11. CASE CheckRemoved
  <2>1. /\ UNCHANGED <<attached, events, callback, device, state, goal, list, initialReset>>
        /\ pc["event"] = "removed" /\ events # <<>>
    BY <1>3, <1>11 DEF CheckRemoved, At, worldVars, deviceVars, lifeVars, HandlingEvent
  <2>2. CASE device \in Head(events).gone
    <3>1. Goto("event", "clear")
      BY <1>11, <2>2 DEF CheckRemoved
    <3>2. /\ pc'["query"] = pc["query"] /\ pc'["main"] = pc["main"] /\ pc'["event"] = "clear"
      BY <1>9, <3>1 DEF Step
    <3>3. device \notin attached /\ device # NoHandle
      BY <1>0, <1>3, <2>1, <2>2, FirstEvent
    <3>4. \A u \in {"query", "event"} :
             /\ pc'[u] \in {"get", "assign"} => list'[u] \subseteq attached'
             /\ pc'[u] = "assign" => device' = NoHandle
      BY <1>1, <2>1, <3>2
    <3>5. QED
      BY <1>0, <1>1, <2>1, <3>2, <3>3, <3>4 DEF ReportInv
  <2>3. CASE device \notin Head(events).gone
    <3>1. Goto("event", "added")
      BY <1>11, <2>3 DEF CheckRemoved
    <3>2. /\ pc'["query"] = pc["query"] /\ pc'["main"] = pc["main"] /\ pc'["event"] = "added"
      BY <1>9, <3>1 DEF Step
    <3>3. \A u \in {"query", "event"} :
             /\ pc'[u] \in {"get", "assign"} => list'[u] \subseteq attached'
             /\ pc'[u] = "assign" => device' = NoHandle
      BY <1>1, <2>1, <3>2
    <3>4. QED
      BY <1>0, <1>1, <2>1, <2>3, <3>2, <3>3 DEF ReportInv
  <2>4. QED
    BY <2>2, <2>3
<1>12. CASE ClearDevice
  <2>1. /\ UNCHANGED <<attached, events, callback, state, goal, list, initialReset>> /\ Goto("event", "added")
        /\ device' = NoHandle /\ pc["event"] = "clear"
    BY <1>12 DEF ClearDevice, DeviceAfterRemoval, At, worldVars, lifeVars
  <2>2. /\ pc'["query"] = pc["query"] /\ pc'["main"] = pc["main"] /\ pc'["event"] = "added"
    BY <1>9, <2>1 DEF Step
  <2>3. pc["query"] \in {"none", "ended"}
    BY <1>1, <2>1
  <2>4. QED
    BY <1>0, <1>1, <2>1, <2>2, <2>3 DEF ReportInv
<1>13. CASE CheckAdded
  <2>1. /\ UNCHANGED <<attached, callback, device, state, goal, initialReset>> /\ events' = Tail(events)
        /\ pc["event"] = "added" /\ events # <<>> /\ callback = "changeDevice"
        /\ list'["query"] = list["query"]
        /\ \/ Goto("event", "idle") /\ list' = list
           \/ device = NoHandle /\ Goto("event", "get") /\ list'["event"] = Head(events).new
    BY <1>0, <1>1, <1>3, <1>13 DEF CheckAdded, At, worldVars, lifeVars, HandlingEvent, OtherTypes
  <2>2. /\ pc'["query"] = pc["query"] /\ pc'["main"] = pc["main"]
        /\ \/ pc'["event"] = "idle" /\ list' = list
           \/ device = NoHandle /\ pc'["event"] = "get" /\ list'["event"] = Head(events).new
    BY <1>9, <2>1 DEF Step
  <2>3. Len(events') <= 0 /\ Len(events') \in Nat /\ Head(events).new \subseteq attached
    BY <1>0, <1>1, <2>1, FirstEvent, LenProperties
  <2>4. events' = <<>>
    BY <1>0, <2>1, <2>3, FirstEvent, EmptySeq
  <2>5. pc["query"] \notin {"none", "ended"} => pc'["event"] = "idle"
    BY <1>1, <2>1, <2>2
  <2>6. \A u \in {"query", "event"} :
           /\ pc'[u] \in {"get", "assign"} => list'[u] \subseteq attached'
           /\ pc'[u] = "assign" => device' = NoHandle
    BY <1>1, <2>1, <2>2, <2>3
  <2>7. device # NoHandle => device \in attached
    BY <1>1, <2>1
  <2>8. QED
    BY <1>0, <1>1, <2>1, <2>2, <2>3, <2>4, <2>5, <2>6, <2>7 DEF ReportInv
<1>14. CASE CallbackFinds
  <2>1. /\ UNCHANGED <<attached, events, callback, device, state, goal, list, initialReset>>
        /\ pc["event"] = "found" /\ (Goto("event", "idle") \/ Goto("event", "create"))
    BY <1>14 DEF CallbackFinds, At, worldVars, deviceVars, lifeVars
  <2>2. /\ pc'["query"] = pc["query"] /\ pc'["main"] = pc["main"] /\ pc'["event"] \in {"idle", "create"}
    BY <1>9, <2>1 DEF Step
  <2>3. pc["query"] \in {"none", "ended"} /\ (device # NoHandle => device \in attached)
    BY <1>1, <2>1
  <2>4. QED
    BY <1>0, <1>1, <2>1, <2>2, <2>3 DEF ReportInv
\* The thread of the lifecycle.
<1>15. ASSUME NEW step \in Step, Goto("main", step)
       PROVE  pc'["main"] = step /\ pc'["query"] = pc["query"] /\ pc'["event"] = pc["event"]
  BY <1>0, <1>15, Going
<1>16. CASE OnConfigure
  <2>1. /\ UNCHANGED <<attached, events, callback, device, list>> /\ state = "unconfigured"
        /\ pc["event"] = "idle" /\ events = <<>> /\ pc["main"] = "idle"
        /\ state' = "inactive" /\ Goto("query", "loop")
    BY <1>16 DEF OnConfigure, Transition, CalmTransition, Initialized, worldVars, At, Goto
  <2>2. pc'["event"] = pc["event"] /\ pc'["main"] = pc["main"] /\ pc'["query"] = "loop"
    BY <1>7, <2>1 DEF Step
  <2>3. pc["query"] = "none" /\ (device # NoHandle => device \in attached /\ callback = "changeDevice")
    BY <1>1, <2>1
  <2>4. QED
    BY <1>0, <1>1, <2>1, <2>2, <2>3 DEF ReportInv
<1>17. CASE OnActivate
  <2>1. /\ UNCHANGED <<attached, events, callback, device, state, list, initialReset>>
        /\ goal' = "active" /\ Goto("main", "create")
        /\ initialReset => pc["query"] \in {"none", "ended"}
    BY <1>17 DEF OnActivate, CalmActivation, worldVars, deviceVars
  <2>2. pc'["main"] = "create" /\ pc'["query"] = pc["query"] /\ pc'["event"] = pc["event"]
    BY <1>15, <2>1 DEF Step
  <2>3. QED
    BY <1>0, <1>1, <2>1, <2>2 DEF ReportInv
<1>18. CASE OnDeactivate
  <2>1. /\ UNCHANGED <<attached, events, callback, device, pc, goal, list, initialReset>>
        /\ state' = "inactive"
    BY <1>18 DEF OnDeactivate, worldVars, deviceVars
  <2>2. QED
    BY <1>0, <1>1, <2>1 DEF ReportInv
<1>19. CASE OnCleanup \/ OnShutdown \/ Destroy
  <2>1. /\ UNCHANGED <<attached, events, callback, device, state, list, initialReset>>
        /\ Goto("main", "join")
    BY <1>19 DEF OnCleanup, OnShutdown, Destroy, Close, worldVars, deviceVars
  <2>2. pc'["main"] = "join" /\ pc'["query"] = pc["query"] /\ pc'["event"] = pc["event"]
    BY <1>15, <2>1 DEF Step
  <2>3. QED
    BY <1>0, <1>1, <2>1, <2>2 DEF ReportInv
<1>20. CASE CloseDevice
  <2>1. /\ UNCHANGED <<attached, events, list, initialReset>> /\ pc["main"] = "join" /\ device' = NoHandle
        /\ pc' = [pc EXCEPT !["main"] = "idle", !["query"] = "none"]
        /\ pc["event"] = "idle"
    BY <1>2, <1>20 DEF CloseDevice, At, worldVars
  <2>2. pc'["main"] = "idle" /\ pc'["query"] = "none" /\ pc'["event"] = "idle"
    BY <1>0, <2>1
  <2>3. QED
    BY <1>0, <1>1, <2>1, <2>2 DEF ReportInv
<1>21. CASE PlaybackEnds \/ UNCHANGED vars
  <2>1. UNCHANGED <<attached, events, callback, device, state, goal, list, initialReset, pc>>
    BY <1>21 DEF PlaybackEnds, vars, worldVars, deviceVars, lifeVars
  <2>2. QED
    BY <1>0, <1>1, <2>1 DEF ReportInv
<1>22. ~ PollPlayback
  BY <1>1 DEF PollPlayback, At
<1>23. QED
  BY <1>4, <1>5, <1>6, <1>8, <1>10, <1>11, <1>12, <1>13, <1>14, <1>16, <1>17, <1>18, <1>19, <1>20,
     <1>21, <1>22, Steps

----------------------------------------------------------------------------
\* In a calm setting, and while starting does not fail, the node is that of the device.

\* Every step keeps the node with the device it has to serve, or a thread about to start it.
LEMMA ServiceStep == ASSUME FactoryInv, [Next]_vars PROVE ServiceInv'
<1> USE DEF Starting, Searching, EventThreadIdle
<1>a. OtherTypes
  BY TypeParts DEF FactoryInv
<1> SUFFICES ASSUME setup.calm, setup.file = "no", ~ setup.mayThrow, failures' = 0, failures = 0,
                    \A t \in Thread : ~ PublishFails(t)
             PROVE  ServiceInv'
  BY <1>a, SettingKept, NoFailure DEF ServiceInv, Smooth
<1>0. /\ OtherTypes /\ PlaceTypes /\ HandleInv /\ NodeInv /\ setup \in Setting /\ pc \in [Thread -> Step]
      /\ "query" \in Thread /\ "event" \in Thread /\ "main" \in Thread
      /\ setup' = setup
  BY TypeParts, SettingKept DEF FactoryInv, TypeInv, PlaceTypes, Thread
<1>1. /\ node # NoNode => node.device = device
      /\ (node # NoNode /\ ~ node.up) => \E t \in Thread : pc[t] = "publish"
      /\ pc["event"] \in {"clear", "get", "assign", "reset", "found"} => node = NoNode
      /\ (pc["query"] \in Searching /\ initialReset) => node = NoNode
      /\ (setup.lifecycle /\ pc["query"] \notin {"none", "ended"} /\ initialReset) => state # "active"
      /\ (state = "active" /\ device # NoHandle /\ node = NoNode) =>
            (\/ pc["event"] \in {"clear", "reset", "found", "create"}
             \/ ~ setup.lifecycle /\ pc["query"] \in {"reset", "found", "create"})
      /\ (setup.lifecycle /\ pc["query"] \in Searching \cup {"loop", "caught"} /\ device = NoHandle) =>
            state # "active"
  BY DEF FactoryInv, ServiceInv, Smooth
<1>2. node # NoNode => device # NoHandle
  <2>1. "none" \notin Ids \cup {"file"}
    BY NodeFactoryAssumption
  <2>2. QED
    BY <1>0, <1>1, <2>1 DEF NodeInv, NoHandle
<1>3. /\ setup.lifecycle => pc["query"] \notin Starting
      /\ (pc["main"] # "idle" \/ state = "destroyed") => (pc["event"] = "idle" /\ events = <<>>)
  BY DEF FactoryInv, ThreadInv
<1>4. /\ state = "unconfigured" => pc["query"] = "none"
      /\ pc["main"] # "poll"
      /\ (pc["main"] \in Starting /\ initialReset) => pc["query"] \in {"none", "ended"}
      /\ \A t \in {"query", "event"} : pc[t] = "assign" => device = NoHandle
      /\ pc["event"] = "get" => device = NoHandle
      /\ pc["query"] \notin {"none", "ended"} => pc["event"] \in {"idle", "removed", "added"}
      /\ (device # NoHandle /\ device \notin attached) =>
            (events # <<>> /\ pc["event"] \in {"idle", "removed", "clear"} /\ pc["query"] \in {"none", "ended"})
  BY DEF FactoryInv, ReportInv, Smooth
\* A thread that does not publish leaves those that do.
<1>5. ASSUME NEW t \in Thread, NEW step \in Step, Goto(t, step)
      PROVE  /\ pc'[t] = step /\ \A u \in Thread : u # t => pc'[u] = pc[u]
             /\ pc[t] # "publish" => \A u \in Thread : pc[u] = "publish" => pc'[u] = "publish"
  BY <1>0, <1>5, Going
<1>6. CASE (\E id \in Ids : Plug(id) \/ ResetDevice(id)) \/ PlaybackEnds \/ UNCHANGED vars
  <2>1. UNCHANGED <<pc, device, node, state, initialReset>>
    BY <1>6 DEF Plug, ResetDevice, PlaybackEnds, vars, deviceVars, lifeVars
  <2>2. QED
    BY <1>0, <1>1, <2>1 DEF ServiceInv
<1>7. ASSUME NEW t \in Thread, Starts(t) PROVE ServiceInv'
  <2>1. /\ \A u \in Thread : u # t => pc'[u] = pc[u]
        /\ pc[t] \in Starting
        /\ \/ pc'[t] = pc[t] \/ pc'[t] = "publish" \/ pc'[t] = After(t) \/ pc'[t] = "idle"
           \/ t = "query" /\ pc'[t] = "caught"
        /\ UNCHANGED <<initialReset, goal>>
        /\ state' \in {state, "finalized"} \cup {g \in {goal} : t = "main"}
    BY <1>0, <1>7, StartMoves
  <2>2. t \in {"query", "event", "main"} /\ After("query") = "loop" /\ After("event") = "idle"
        /\ After("main") = "idle"
    BY DEF After, Thread
  <2>3. /\ pc["event"] \notin {"clear", "get", "assign", "reset", "found"}
        /\ pc'["event"] \notin {"clear", "get", "assign", "reset", "found"}
    BY <1>0, <1>3, <1>4, <2>1, <2>2
  <2>4. pc'["query"] \in Searching => t # "query" /\ pc["query"] = pc'["query"]
    BY <1>0, <2>1, <2>2
  <2>5. pc'["query"] \in Searching => ~ initialReset
    BY <1>0, <1>4, <2>1, <2>2, <2>4
  <2>6. setup.lifecycle => t # "query" /\ pc'["query"] = pc["query"]
    BY <1>0, <1>3, <2>1
  <2>7. (setup.lifecycle /\ pc'["query"] \notin {"none", "ended"} /\ initialReset') => state' # "active"
    <3>1. CASE t = "main"
      BY <1>4, <2>1, <2>6, <3>1
    <3>2. CASE t # "main"
      BY <1>1, <2>1, <2>6, <3>2
    <3>3. QED
      BY <3>1, <3>2
  <2>8. CASE CreateNode(t)
    <3>1. /\ node' = [device |-> device, up |-> FALSE] /\ device # NoHandle /\ device' = device
          /\ Goto(t, "publish")
      BY <2>8 DEF CreateNode, deviceVars
    <3>2. node' # NoNode /\ node'.device = device /\ pc'[t] = "publish"
      BY <1>5, <3>1 DEF NoNode, Step
    <3>3. QED
      BY <1>0, <2>1, <2>3, <2>5, <2>7, <3>1, <3>2 DEF ServiceInv
  <2>9. CASE CreateThrows(t)
    <3>1. node' = NoNode /\ device = NoHandle /\ device' = NoHandle /\ state' \in {state, "finalized"}
      BY <2>9 DEF CreateThrows, Thrown, deviceVars
    <3>2. QED
      BY <1>0, <1>1, <2>1, <2>3, <2>5, <2>6, <2>7, <3>1 DEF ServiceInv
  <2>10. CASE PublishTopics(t)
    <3>1. /\ node # NoNode /\ device' = device /\ node' = [node EXCEPT !.up = TRUE]
      BY <1>0, <2>10 DEF PublishTopics, At, NodeInv, deviceVars
    <3>2. node'.device = node.device /\ node'.up = TRUE /\ node' # NoNode
      BY <1>0, <3>1 DEF OtherTypes, NoNode
    <3>3. QED
      BY <1>0, <1>1, <1>2, <2>1, <2>3, <2>5, <2>7, <3>1, <3>2 DEF ServiceInv
  <2>11. ~ PublishThrows(t)
    <3>1. ASSUME PublishThrows(t) PROVE FALSE
      <4>1. pc[t] = "publish" /\ process = "runs" /\ device \notin attached
        BY <3>1 DEF PublishThrows, At
      <4>2. node # NoNode
        BY <1>0, <4>1 DEF NodeInv
      <4>3. device # NoHandle
        BY <1>2, <4>2
      <4>4. events # <<>> /\ pc["event"] \in {"idle", "removed", "clear"} /\ pc["query"] \in {"none", "ended"}
        BY <1>4, <4>1, <4>3
      <4>5. QED
        BY <1>3, <2>2, <4>1, <4>4
    <3>2. QED
      BY <3>1
  <2>12. QED
    BY <1>7, <2>8, <2>9, <2>10, <2>11 DEF Starts
<1>8. ASSUME NEW t \in {"query", "event"}, GetDevice(t) \/ AssignDevice(t) \/ ResetFirst(t)
      PROVE  ServiceInv'
  <2>1. /\ UNCHANGED <<node, state>>
        /\ \A u \in Thread : u # t => pc'[u] = pc[u]
        /\ (initialReset' => initialReset)
        /\ pc[t] \in {"get", "assign", "reset"}
        /\ \/ pc[t] = "get" /\ device' = device /\ pc'[t] = "reset"
           \/ pc[t] = "get" /\ device' = device /\ device = NoHandle /\ pc'[t] = "assign"
           \/ pc[t] = "assign" /\ pc'[t] = "reset"
           \/ pc[t] = "reset" /\ pc'[t] = "found"
              /\ (device' = device \/ (initialReset /\ device' = NoHandle))
    BY <1>0, <1>8, SearchMoves
  <2>2. \A u \in Thread : pc[u] = "publish" => pc'[u] = "publish"
    BY <1>0, <2>1
  <2>3. CASE t = "event"
    <3>1. /\ pc'["query"] = pc["query"] /\ pc["query"] \in {"none", "ended"}
          /\ node = NoNode /\ pc'["event"] \in {"assign", "reset", "found"}
      BY <1>0, <1>1, <1>4, <2>1, <2>3
    <3>2. (state = "active" /\ device' # NoHandle) => pc'["event"] \in {"reset", "found"}
      BY <2>1, <2>3
    <3>3. QED
      BY <1>0, <1>1, <2>1, <2>2, <3>1, <3>2 DEF ServiceInv
  <2>4. CASE t = "query"
    <3>1. /\ pc'["event"] = pc["event"] /\ pc["event"] \in {"idle", "removed", "added"}
          /\ pc'["query"] \in {"assign", "reset", "found"}
      BY <1>0, <1>4, <2>1, <2>4
    <3>2. node # NoNode => device' = device
      BY <1>1, <1>2, <1>4, <2>1, <2>4
    <3>3. (setup.lifecycle /\ (initialReset \/ device = NoHandle)) => state # "active"
      BY <1>1, <2>1, <2>4
    <3>4. (setup.lifecycle /\ device' = NoHandle) => state # "active"
      BY <1>4, <2>1, <2>4, <3>3
    <3>5. (state = "active" /\ device' # NoHandle /\ node = NoNode) =>
             ~ setup.lifecycle /\ pc'["query"] \in {"reset", "found"}
      BY <1>1, <2>1, <2>4, <3>1, <3>3
    <3>6. (initialReset' => node = NoNode)
      BY <1>1, <2>1, <2>4
    <3>7. QED
      BY <1>0, <1>1, <2>1, <2>2, <3>1, <3>2, <3>3, <3>4, <3>5, <3>6 DEF ServiceInv
  <2>5. QED
    BY <2>3, <2>4
\* The query thread.
<1>9. CASE QueryLoops \/ QueryDevices \/ QueryFinds \/ LoopsAgain \/ Sleep \/ GiveUp
  <2>1. /\ UNCHANGED <<device, node, state, initialReset>>
        /\ pc["query"] \notin {"none", "ended", "publish", "create"}
        /\ \/ pc' = pc
           \/ pc["query"] \notin {"reset", "found"} /\ (Goto("query", "ended") \/ Goto("query", "loop"))
           \/ pc["query"] = "loop" /\ device = NoHandle /\ Goto("query", "query")
           \/ pc["query"] = "query" /\ Goto("query", "get")
           \/ pc["query"] = "found" /\ device = NoHandle /\ Goto("query", "wait")
           \/ pc["query"] = "found" /\ device # NoHandle
              /\ Goto("query", IF setup.lifecycle THEN "loop" ELSE "create")
    BY <1>0, <1>9 DEF QueryLoops, Loops, QueryDevices, QueryFinds, LoopsAgain, Sleep, GiveUp, At, deviceVars,
         lifeVars
  <2>2. /\ pc'["event"] = pc["event"]
        /\ \A u \in Thread : pc[u] = "publish" => pc'[u] = "publish"
        /\ \/ pc'["query"] = pc["query"]
           \/ pc["query"] \notin {"reset", "found"} /\ pc'["query"] \in {"ended", "loop"}
           \/ pc["query"] = "loop" /\ device = NoHandle /\ pc'["query"] = "query"
           \/ pc["query"] = "query" /\ pc'["query"] = "get"
           \/ pc["query"] = "found" /\ device = NoHandle /\ pc'["query"] = "wait"
           \/ pc["query"] = "found" /\ device # NoHandle
              /\ pc'["query"] = (IF setup.lifecycle THEN "loop" ELSE "create")
    BY <1>0, <1>5, <2>1 DEF Step
  <2>3. (pc'["query"] \in Searching /\ initialReset) => node = NoNode
    BY <1>1, <1>2, <2>2
  <2>4. (setup.lifecycle /\ pc'["query"] \in Searching \cup {"loop", "caught"} /\ device = NoHandle) =>
           state # "active"
    BY <1>0, <1>1, <2>1, <2>2 DEF PlaceTypes, Places
  <2>5. (state = "active" /\ device # NoHandle /\ node = NoNode) =>
           (\/ pc["event"] \in {"clear", "reset", "found", "create"}
            \/ ~ setup.lifecycle /\ pc'["query"] \in {"reset", "found", "create"})
    BY <1>1, <2>1, <2>2
  <2>6. QED
    BY <1>0, <1>1, <2>1, <2>2, <2>3, <2>4, <2>5 DEF ServiceInv
\* The thread that reports changes.
<1>10. CASE TakeEvent
  <2>1. /\ UNCHANGED <<device, node, state, initialReset>> /\ pc["event"] = "idle"
        /\ pc' = pc \/ Goto("event", "removed")
    BY <1>10 DEF TakeEvent, At, deviceVars, lifeVars
  <2>2. /\ pc'["query"] = pc["query"] /\ pc'["event"] \in {"idle", "removed"}
        /\ \A u \in Thread : pc[u] = "publish" => pc'[u] = "publish"
    BY <1>0, <1>5, <2>1 DEF Step
  <2>3. QED
    BY <1>0, <1>1, <2>1, <2>2 DEF ServiceInv
<1>11. CASE CheckRemoved
  <2>1. /\ UNCHANGED <<device, state, initialReset>> /\ pc["event"] = "removed"
        /\ \/ node' = NoNode /\ Goto("event", "clear")
           \/ node' = node /\ Goto("event", "added")
    BY <1>11 DEF CheckRemoved, NodeOfRemoved, At, deviceVars, lifeVars
  <2>2. /\ pc'["query"] = pc["query"]
        /\ \A u \in Thread : pc[u] = "publish" => pc'[u] = "publish"
        /\ \/ node' = NoNode /\ pc'["event"] = "clear"
           \/ node' = node /\ pc'["event"] = "added"
    BY <1>0, <1>5, <2>1 DEF Step
  <2>3. QED
    BY <1>0, <1>1, <2>1, <2>2 DEF ServiceInv
<1>12. CASE ClearDevice
  <2>1. /\ UNCHANGED <<node, state, initialReset>> /\ Goto("event", "added")
        /\ device' = NoHandle /\ pc["event"] = "clear"
    BY <1>12 DEF ClearDevice, DeviceAfterRemoval, At, lifeVars
  <2>2. pc'["query"] = pc["query"] /\ pc'["event"] = "added"
    BY <1>0, <1>5, <2>1 DEF Step
  <2>3. node = NoNode /\ pc["query"] \in {"none", "ended"}
    BY <1>1, <1>4, <2>1
  <2>4. QED
    BY <1>0, <1>1, <2>1, <2>2, <2>3 DEF ServiceInv
<1>13. CASE CheckAdded \/ CallbackFinds
  <2>1. /\ UNCHANGED <<device, node, state, initialReset>> /\ pc["event"] \in {"added", "found"}
        /\ \/ device = NoHandle /\ Goto("event", "get")
           \/ pc["event"] = "added" /\ Goto("event", "idle")
           \/ device = NoHandle /\ Goto("event", "idle")
           \/ Goto("event", "create")
    BY <1>13 DEF CheckAdded, CallbackFinds, At, deviceVars, lifeVars
  <2>2. /\ pc'["query"] = pc["query"]
        /\ \A u \in Thread : pc[u] = "publish" => pc'[u] = "publish"
        /\ \/ device = NoHandle /\ pc'["event"] = "get"
           \/ pc["event"] = "added" /\ pc'["event"] = "idle"
           \/ device = NoHandle /\ pc'["event"] = "idle"
           \/ pc'["event"] = "create"
    BY <1>0, <1>5, <2>1 DEF Step
  <2>3. QED
    BY <1>0, <1>1, <1>2, <2>1, <2>2 DEF ServiceInv
\* The thread of the lifecycle.
<1>14. CASE OnConfigure
  <2>1. /\ UNCHANGED <<device, node>> /\ state' = "inactive" /\ state = "unconfigured"
        /\ pc["event"] = "idle" /\ Goto("query", "loop")
    BY <1>14 DEF OnConfigure, Transition, CalmTransition, Initialized, Goto
  <2>2. pc["query"] = "none"
    BY <1>4, <2>1
  <2>3. /\ pc'["event"] = pc["event"] /\ pc'["query"] = "loop"
        /\ \A u \in Thread : pc[u] = "publish" => pc'[u] = "publish"
    BY <1>0, <1>5, <2>1, <2>2 DEF Step
  <2>4. QED
    BY <1>0, <1>1, <2>1, <2>3 DEF ServiceInv
<1>15. CASE OnActivate \/ OnCleanup \/ OnShutdown \/ Destroy
  <2>1. /\ UNCHANGED <<device, node, state, initialReset>> /\ pc["main"] = "idle"
        /\ (Goto("main", "create") \/ Goto("main", "join"))
    BY <1>15 DEF OnActivate, OnCleanup, OnShutdown, Destroy, Close, Transition, At, deviceVars, lifeVars
  <2>2. /\ pc'["query"] = pc["query"] /\ pc'["event"] = pc["event"]
        /\ \A u \in Thread : pc[u] = "publish" => pc'[u] = "publish"
    BY <1>0, <1>5, <2>1 DEF Step
  <2>3. QED
    BY <1>0, <1>1, <2>1, <2>2 DEF ServiceInv
<1>16. CASE OnDeactivate
  <2>1. /\ UNCHANGED <<device, pc, initialReset>> /\ node' = NoNode /\ state' = "inactive"
    BY <1>16 DEF OnDeactivate, deviceVars
  <2>2. QED
    BY <1>0, <1>1, <2>1 DEF ServiceInv
<1>17. CASE CloseDevice
  <2>1. /\ node' = NoNode /\ device' = NoHandle
        /\ pc' = [pc EXCEPT !["main"] = "idle", !["query"] = "none"]
    BY <1>17 DEF CloseDevice
  <2>2. pc'["query"] = "none"
    BY <1>0, <2>1
  <2>3. QED
    BY <1>0, <2>1, <2>2 DEF ServiceInv
<1>18. ~ PollPlayback
  BY <1>4 DEF PollPlayback, At
<1>19. QED
  BY <1>6, <1>7, <1>8, <1>9, <1>10, <1>11, <1>12, <1>13, <1>14, <1>15, <1>16, <1>17, <1>18, Steps

----------------------------------------------------------------------------
\* The theorems.

\* The factory starts in its invariant.
LEMMA InitInv == Init => FactoryInv
<1> SUFFICES ASSUME Init PROVE FactoryInv
  OBVIOUS
<1>0. setup \in Settings /\ setup \in Setting
  BY NodeFactoryAssumption DEF Init
<1>1. PICK ids \in SUBSET Ids : attached = {[id |-> id, connection |-> 1] : id \in ids}
  BY DEF Init
<1>2. /\ pc["query"] = (IF setup.lifecycle \/ setup.file # "no" THEN "none" ELSE "loop")
      /\ pc["event"] = "idle"
      /\ pc["main"] = (IF setup.file # "no" /\ ~ setup.lifecycle THEN "create" ELSE "idle")
      /\ DOMAIN pc = Thread
  BY DEF Init, Thread
<1>3. PlaceTypes
  <2>1. \A t \in Thread : pc[t] \in Places(t) /\ pc[t] \in Step
    BY <1>2 DEF Thread, Places, Step
  <2>2. pc = [t \in Thread |-> pc[t]]
    BY DEF Init, Thread
  <2>3. QED
    BY <2>1, <2>2 DEF PlaceTypes
<1>4. attached \subseteq Handle
  BY <1>1 DEF Handle
<1>5. NoHandle \in Handle /\ BagFile \in Handle /\ NoNode \in [device : Handle, up : BOOLEAN]
  BY DEF NoHandle, BagFile, Handle, NoNode
<1>6. OtherTypes
  <2>1. setup.serial \in Ids \cup {"any"} /\ setup.initialReset \in BOOLEAN /\ setup.timeout \in Nat
    BY <1>0 DEF Setting
  <2>2. /\ resetting = {} /\ connection = 1 /\ plugs = 0 /\ transitions = 0 /\ failures = 0
        /\ timeLeft = setup.timeout /\ events = <<>> /\ callback = "none" /\ serial = setup.serial
        /\ initialReset = setup.initialReset /\ alive = TRUE /\ playing = FALSE /\ isPlaying = TRUE
        /\ node = NoNode /\ goal = "active" /\ process = "runs" /\ served = {}
    BY DEF Init
  <2>3. device \in Handle /\ state \in {"unconfigured", "active"}
    BY <1>5 DEF Init
  <2>4. <<>> \in Seq(Change)
    BY EmptySeq
  <2>5. /\ initialReset \in BOOLEAN /\ alive \in BOOLEAN /\ playing \in BOOLEAN
        /\ isPlaying \in BOOLEAN
    BY <2>1, <2>2, Zenon
  <2>6. /\ connection \in Nat /\ plugs \in Nat /\ transitions \in Nat /\ failures \in Nat
        /\ timeLeft \in Int /\ events \in Seq(Change)
    BY <2>1, <2>2, <2>4
  <2>7. /\ resetting \subseteq Ids /\ serial \in Ids \cup {"any", "file"}
        /\ node \in [device : Handle, up : BOOLEAN] /\ served \subseteq Ids \cup {"file"}
    BY <1>5, <2>1, <2>2
  <2>8. list \in [{"query", "event"} -> SUBSET Handle]
    BY DEF Init
  <2>9. QED
    BY <1>0, <1>4, <2>2, <2>3, <2>5, <2>6, <2>7, <2>8 DEF OtherTypes
<1>7. TypeInv
  BY <1>3, <1>6, TypeParts
<1>8. HandleInv
  BY <1>1, <1>2, EmptySeq DEF Init, HandleInv, HandlingEvent, EventThreadIdle
<1>9. NodeInv
  BY <1>2 DEF Init, NodeInv, BagFile, Thread
<1>10. CameraInv
  BY <1>2 DEF Init, CameraInv, Camera, BagFile
<1>11. ThreadInv
  BY <1>2 DEF Init, ThreadInv, Starting, Searching, EventThreadIdle
<1>12. ReportInv
  BY <1>2, EmptySeq DEF Init, ReportInv, Smooth, Starting, EventThreadIdle
<1>13. ServiceInv
  BY <1>2 DEF Init, ServiceInv, Smooth, Searching
<1>14. QED
  BY <1>7, <1>8, <1>9, <1>10, <1>11, <1>12, <1>13 DEF FactoryInv

\* What each thread finds, whatever the others have done, in every reachable state.
THEOREM FactoryInvariant == Spec => []FactoryInv
<1>1. FactoryInv /\ [Next]_vars => FactoryInv'
  BY TypeStep, HandleStep, NodeStep, CameraStep, ThreadStep, ReportStep, ServiceStep DEF FactoryInv
<1>2. QED
  BY InitInv, <1>1, PTL DEF Spec

\* All variables keep their types: a node that is started has a device.
THEOREM FactoryTypeCorrect == Spec => []TypeOK
<1>1. FactoryInv => TypeOK
  BY DEF FactoryInv, TypeInv
<1>2. QED
  BY <1>1, FactoryInvariant, PTL

\* An ordinary node that has found a camera never serves another one.
THEOREM NodeServesOneCamera == Spec => []OneCamera
<1>1. ASSUME FactoryInv PROVE OneCamera
  <2> SUFFICES ASSUME ~ setup.lifecycle PROVE Cardinality(served) <= 1
    BY DEF OneCamera
  <2>1. served \subseteq {Camera}
    BY <1>1 DEF FactoryInv, CameraInv
  <2>2. served = {} \/ served = {Camera}
    BY <2>1
  <2>3. Cardinality({}) = 0
    BY FS_EmptySet
  <2>4. Cardinality({Camera}) = 1
    BY FS_Singleton, Zenon
  <2>5. Cardinality(served) = 0 \/ Cardinality(served) = 1
    BY <2>2, <2>3, <2>4
  <2>6. QED
    BY <2>5
<1>2. QED
  BY <1>1, FactoryInvariant, PTL

\* In a calm setting no thread destroys the node that another one starts, up to the first
\* backend error.
THEOREM NodeOutlivesItsUse == Spec => []NoDanglingNode
<1>1. FactoryInv => NoDanglingNode
  BY DEF FactoryInv, ThreadInv, NoDanglingNode
<1>2. QED
  BY <1>1, FactoryInvariant, PTL

\* In a calm setting, and while starting does not fail, the node serves the device as it
\* is plugged in now whenever the threads are done.
THEOREM NodeServesItsDevice == Spec => []ServesItsDevice
<1>1. ASSUME FactoryInv PROVE ServesItsDevice
  <2> SUFFICES ASSUME Quiet, setup.calm, setup.file = "no", ~ setup.mayThrow, failures = 0
               PROVE  /\ device # NoHandle => device \in attached
                      /\ node # NoNode => node = [device |-> device, up |-> TRUE]
                      /\ state = "active" /\ device # NoHandle => node # NoNode
    BY DEF ServesItsDevice
  <2>1. events = <<>> /\ pc["event"] = "idle" /\ pc["query"] \in {"none", "ended"} /\ pc["main"] = "idle"
    BY DEF Quiet, EventThreadIdle
  <2>2. device # NoHandle => device \in attached
    BY <1>1, <2>1 DEF FactoryInv, ReportInv, Smooth
  <2>3. node # NoNode => node = [device |-> device, up |-> TRUE]
    <3>1. \A t \in Thread : pc[t] # "publish"
      BY <2>1 DEF Thread
    <3>2. node # NoNode => node.device = device /\ node.up
      BY <1>1, <3>1 DEF FactoryInv, ServiceInv, Smooth
    <3>3. node \in [device : Handle, up : BOOLEAN]
      BY <1>1 DEF FactoryInv, TypeInv, TypeOK
    <3>4. QED
      BY <3>2, <3>3
  <2>4. state = "active" /\ device # NoHandle => node # NoNode
    BY <1>1, <2>1 DEF FactoryInv, ServiceInv, Smooth
  <2>5. QED
    BY <2>2, <2>3, <2>4
<1>2. QED
  BY <1>1, FactoryInvariant, PTL
=============================================================================
