----------------------------- MODULE MqttBridge -----------------------------
(***************************************************************************)
(* The bridge between an MQTT broker and a camera node.  The MQTT client's *)
(* thread handles the requests one after the other and waits in the        *)
(* handlers of service requests; the executor's thread runs the callbacks  *)
(* of the action client and of the frame subscriptions.  Both use          *)
(* action_clients, goal_handles and topic_handle, and no lock guards them. *)
(* One camera and one stream are modelled; the camera's calibration action *)
(* is that of TriggeredCalibration, client n sending goal n.               *)
(*                                                                         *)
(* Abstracted: what requests and answers say, but for what makes a handler *)
(* return without an answer or raise.  An exception ends the MQTT thread,  *)
(* or the executor and with it the process.                                *)
(***************************************************************************)
EXTENDS TriggeredCalibration, Sequences, FiniteSets

CONSTANTS Settings  \* the settings to start with

\* Requests that call a service: those that are well formed, for one that the camera
\* does not have (the safety services of a camera without a safety sensor), for a
\* parameter of a type the bridge does not know ("double", for one), with a value that
\* does not convert, for the value of a parameter that is not declared.
ServiceKind == {"service", "missing", "unsupported", "mistyped", "undeclared"}
\* "direct" requests are answered on the spot: incomplete and unknown ones, the list
\* of devices, transforms.  "malformed" ones raise as they are read: they are no JSON,
\* or a field is not of the type it is used as.
Kind == {"direct", "malformed", "frame", "run", "abort"} \cup ServiceKind
\* Those whose handler raises, and those that are not answered themselves.
Raises == {"malformed", "mistyped", "undeclared"}
Silent == {"missing", "unsupported", "abort"}

\* What users ask and how often (bound); whether they wait for a calibration to end
\* before they ask for another one; whether the camera node is there; whether the two
\* threads leave each other's steps alone.
Setting ==
    [kinds : SUBSET Kind, requests : Nat, patient : BOOLEAN,
     camera : {"up", "absent", "dies"}, calm : BOOLEAN]
ASSUME MqttBridgeAssumption ==
    \A setting \in Settings : setting.kinds \subseteq Kind /\ setting.requests \in Nat

VARIABLES
    setup,        \* the setting, which nothing changes
    requests,     \* history: the requests made
    handled,      \* how many of them the MQTT thread has taken
    answers,      \* history: what was answered to each request
    mqtt,         \* where the MQTT thread is
    executor,     \* "idle", "dropping" a client, or "crashed"
    camera,       \* the camera node: "up" or "absent"
    clients,      \* action clients that were created
    live,         \* those that are not destroyed
    actionClient, \* action_clients[camera], or 0
    goalHandle,   \* goal_handles[camera], or 0
    asked,        \* the request for which each goal was sent
    cancels,      \* goals whose cancellation is on its way or was handled
    heard,        \* what the bridge has heard of each goal
    call,         \* the service call under way
    subscriptions,\* requests whose subscriptions exist
    topicKnown, topicHandle \* topic_handle has the topic; the request it is for, or 0

actionVars == <<goals, clients, live, actionClient, goalHandle, asked, cancels, heard>>
frameVars == <<subscriptions, topicKnown, topicHandle>>
vars == <<setup, requests, handled, answers, mqtt, executor, camera, actionVars, call, frameVars>>

Numbers(seq) == 1..Len(seq)
Answer(n, what) == answers' = [answers EXCEPT ![n] = Append(@, what)]
Idle == [at |-> "idle", request |-> 0, goal |-> 0]
MqttAt(step) == executor # "crashed" /\ mqtt.at = step
MqttGoes(step) == mqtt' = [mqtt EXCEPT !.at = step]

Init ==
    /\ setup \in Settings
    /\ requests = <<>> /\ handled = 0 /\ answers = <<>>
    /\ mqtt = Idle /\ executor = "idle"
    /\ camera = IF setup.camera = "absent" THEN "absent" ELSE "up"
    /\ CalibrationInit /\ clients = 0 /\ live = {} /\ actionClient = 0 /\ goalHandle = 0
    /\ asked = [g \in Goals |-> 0] /\ cancels = {}
    /\ heard = [g \in Goals |-> "nothing"]
    /\ call = "none" /\ subscriptions = {} /\ topicKnown = FALSE /\ topicHandle = 0

----------------------------------------------------------------------------
\* The users, the camera.

Unanswered(kind) == {n \in Numbers(requests) : requests[n] = kind /\ answers[n] = <<>>}
Request(kind) ==
    /\ kind \in setup.kinds /\ Len(requests) < setup.requests
    /\ kind = "run" => /\ Cardinality({n \in Numbers(requests) : requests[n] = "run"}) < MaxGoals
                       /\ setup.patient => Unanswered("run") = {}
    /\ requests' = Append(requests, kind) /\ answers' = Append(answers, <<>>)
    /\ UNCHANGED <<setup, handled, mqtt, executor, camera, actionVars, call, frameVars>>

CameraDies ==
    /\ setup.camera = "dies" /\ camera = "up"
    /\ camera' = "absent"
    /\ UNCHANGED <<setup, requests, handled, answers, mqtt, executor, actionVars, call, frameVars>>

CameraServes ==
    /\ camera = "up"
    /\ \/ call = "sent" /\ call' = "served" /\ UNCHANGED goals
       \/ /\ UNCHANGED call
          /\ \E g \in Goals :
                \/ asked[g] # 0 /\ HandleGoal(g)
                \/ g \in cancels /\ goals[g].state = "executing" /\ HandleCancel(g)
                \/ ExecuteEnds(g)
                \/ \E p \in {50, 100} : Progress(g, p)
    /\ UNCHANGED <<setup, requests, handled, answers, mqtt, executor, camera, clients, live,
                   actionClient, goalHandle, asked, cancels, heard, frameVars>>
----------------------------------------------------------------------------
\* on_mqtt_message and the handlers it calls.

\* In a calm setting a request is not taken up in the middle of a callback.
Take(kind) ==
    /\ MqttAt("idle") /\ handled < Len(requests) /\ requests[handled + 1] = kind
    /\ setup.calm => executor = "idle"
    /\ handled' = handled + 1
TakenTo(step) == mqtt' = [Idle EXCEPT !.at = step, !.request = handled']

AnswerDirectly ==
    /\ Take("direct")
    /\ Answer(handled', "done")
    /\ UNCHANGED <<setup, requests, mqtt, executor, camera, actionVars, call, frameVars>>

ReadMalformedRequest ==
    /\ Take("malformed")
    /\ TakenTo("dead")
    /\ UNCHANGED <<setup, requests, answers, executor, camera, actionVars, call, frameVars>>

HandleServiceRequest ==
    /\ \E kind \in ServiceKind : Take(kind)
    /\ TakenTo("waitForService")
    /\ UNCHANGED <<setup, requests, answers, executor, camera, actionVars, call, frameVars>>
Asking == requests[mqtt.request]
HasService == camera = "up" /\ Asking # "missing"
\* Mutant: the wait has no timeout.
WaitsForEver == FALSE
TimesOut == ~ HasService
\* Without the service there is no answer; with it the request's values are converted.
WaitForService ==
    /\ MqttAt("waitForService")
    /\ \/ TimesOut /\ mqtt' = Idle /\ UNCHANGED call
       \/ HasService /\ Asking = "unsupported" /\ mqtt' = Idle /\ UNCHANGED call
       \/ HasService /\ Asking = "mistyped" /\ MqttGoes("dead") /\ UNCHANGED call
       \/ /\ HasService /\ Asking \in {"service", "undeclared"}
          /\ call' = "sent" /\ MqttGoes("waitForFuture")
    /\ UNCHANGED <<setup, requests, handled, answers, executor, camera, actionVars, frameVars>>
\* What the camera says of an undeclared parameter is an empty list.
WaitForFuture ==
    /\ MqttAt("waitForFuture") /\ call = "done"
    /\ call' = "none"
    /\ IF Asking = "undeclared"
       THEN MqttGoes("dead") /\ UNCHANGED answers
       ELSE Answer(mqtt.request, "done") /\ mqtt' = Idle
    /\ UNCHANGED <<setup, requests, handled, executor, camera, actionVars, frameVars>>

HandleFrameRequest ==
    /\ Take("frame")
    /\ IF topicHandle = 0
       THEN TakenTo("subscribe") /\ UNCHANGED answers
       ELSE Answer(handled', "refused") /\ UNCHANGED mqtt
    /\ UNCHANGED <<setup, requests, executor, camera, actionVars, call, frameVars>>
\* The subscription exists before it is remembered.
CreateSubscription ==
    /\ MqttAt("subscribe")
    /\ subscriptions' = subscriptions \cup {mqtt.request}
    /\ MqttGoes("remember")
    /\ UNCHANGED <<setup, requests, handled, answers, executor, camera, actionVars, call, topicKnown,
                   topicHandle>>
RememberSubscription ==
    /\ MqttAt("remember")
    /\ topicHandle' = mqtt.request /\ topicKnown' = TRUE
    /\ mqtt' = Idle
    /\ UNCHANGED <<setup, requests, handled, answers, executor, camera, actionVars, call, subscriptions>>

\* A run gets a client of its own, whatever became of the last one.
HandleRunRequest ==
    /\ Take("run")
    /\ clients' = clients + 1
    /\ live' = live \cup {clients'} /\ actionClient' = clients'
    /\ TakenTo("waitForServer")
    /\ UNCHANGED <<setup, requests, answers, executor, camera, goals, goalHandle, asked, cancels,
                   heard, call, frameVars>>
WaitForServer ==
    /\ MqttAt("waitForServer") /\ camera = "up"
    /\ MqttGoes("sendGoal")
    /\ UNCHANGED <<setup, requests, handled, answers, executor, camera, actionVars, call, frameVars>>
\* The client is looked up anew; there may be none, or a destroyed one.
SendGoal ==
    /\ MqttAt("sendGoal")
    /\ IF actionClient \in live
       THEN asked' = [asked EXCEPT ![actionClient] = mqtt.request] /\ mqtt' = Idle
       ELSE MqttGoes("dead") /\ UNCHANGED asked
    /\ UNCHANGED <<setup, requests, handled, answers, executor, camera, goals, clients, live,
                   actionClient, goalHandle, cancels, heard, call, frameVars>>

HandleAbortRequest ==
    /\ Take("abort")
    /\ IF actionClient = 0 \/ goalHandle = 0
       THEN Answer(handled', "tooEarly") /\ UNCHANGED mqtt
       ELSE /\ mqtt' = [at |-> "cancel", request |-> handled', goal |-> goalHandle]
            /\ UNCHANGED answers
    /\ UNCHANGED <<setup, requests, executor, camera, actionVars, call, frameVars>>
\* The goal's client may be destroyed by now.
CancelGoal ==
    /\ MqttAt("cancel")
    /\ IF mqtt.goal \in live
       THEN cancels' = cancels \cup {mqtt.goal} /\ mqtt' = Idle
       ELSE MqttGoes("dead") /\ UNCHANGED cancels
    /\ UNCHANGED <<setup, requests, handled, answers, executor, camera, goals, clients, live,
                   actionClient, goalHandle, asked, heard, call, frameVars>>
----------------------------------------------------------------------------
\* The executor.

\* In a calm setting callbacks run while the MQTT thread is idle or waits.
ExecutorRuns ==
    /\ executor = "idle"
    /\ setup.calm => mqtt.at \in {"idle", "dead", "waitForService", "waitForFuture", "waitForServer"}

FutureDone ==
    /\ ExecutorRuns /\ call = "served"
    /\ call' = "done"
    /\ UNCHANGED <<setup, requests, handled, answers, mqtt, executor, camera, actionVars, frameVars>>

GoalResponse(g) ==
    /\ ExecutorRuns /\ g \in live /\ heard[g] = "nothing" /\ goals[g].state # "none"
    /\ goalHandle' = g
    /\ heard' = [heard EXCEPT ![g] = "accepted"]
    /\ UNCHANGED <<setup, requests, handled, answers, mqtt, executor, camera, goals, clients, live,
                   actionClient, asked, cancels, call, frameVars>>

\* The answer goes out first.
Result(g) ==
    /\ ExecutorRuns /\ g \in live /\ heard[g] = "accepted" /\ goals[g].state \in Ended
    /\ Answer(asked[g], goals[g].state)
    /\ heard' = [heard EXCEPT ![g] = "result"]
    /\ executor' = "dropping"
    /\ UNCHANGED <<setup, requests, handled, mqtt, camera, goals, clients, live, actionClient,
                   goalHandle, asked, cancels, call, frameVars>>
\* Mutant: the handle of the ended goal is kept.
KeepHandle == goalHandle
HandleAfterResult == 0
\* The client that is the camera's now is destroyed.
DropClient ==
    /\ executor = "dropping"
    /\ IF actionClient = 0
       THEN executor' = "crashed" /\ UNCHANGED <<live, actionClient, goalHandle>>
       ELSE /\ live' = live \ {actionClient} /\ actionClient' = 0
            /\ goalHandle' = HandleAfterResult
            /\ executor' = "idle"
    /\ UNCHANGED <<setup, requests, handled, answers, mqtt, camera, goals, clients, asked, cancels,
                   heard, call, frameVars>>

\* Mutant: the topic stays taken.
KeepTopic == topicHandle
TopicAfterFrame == 0
ImageCallback(n) ==
    /\ ExecutorRuns /\ n \in subscriptions /\ camera = "up"
    /\ \/ ~ topicKnown /\ executor' = "crashed" /\ UNCHANGED <<answers, frameVars>>
       \/ topicKnown /\ topicHandle = 0 /\ UNCHANGED <<executor, answers, frameVars>>
       \/ /\ topicHandle # 0
          /\ subscriptions' = subscriptions \ {topicHandle}
          /\ topicHandle' = TopicAfterFrame
          /\ Answer(n, "done")
          /\ UNCHANGED <<executor, topicKnown>>
    /\ UNCHANGED <<setup, requests, handled, mqtt, camera, actionVars, call>>

MqttThread ==
    \/ AnswerDirectly \/ ReadMalformedRequest
    \/ HandleServiceRequest \/ WaitForService \/ WaitForFuture
    \/ HandleFrameRequest \/ CreateSubscription \/ RememberSubscription
    \/ HandleRunRequest \/ WaitForServer \/ SendGoal \/ HandleAbortRequest \/ CancelGoal
Executor ==
    FutureDone \/ DropClient \/ \E g \in Goals : GoalResponse(g) \/ Result(g)
Frames == \E n \in subscriptions : ImageCallback(n)
Next ==
    \/ \E kind \in Kind : Request(kind)
    \/ CameraDies \/ CameraServes \/ MqttThread \/ Executor \/ Frames

Spec == Init /\ [][Next]_vars
\* The threads run, the camera serves, its calibrations end (run_on_chip_calibration
\* has a timeout) and its frames come.  Nobody has to ask, and a camera need not be.
FairSpec ==
    /\ Spec
    /\ WF_vars(MqttThread) /\ WF_vars(Executor) /\ WF_vars(Frames) /\ WF_vars(CameraServes)

----------------------------------------------------------------------------
\* The types of all variables.
TypeOK ==
    /\ setup \in Setting /\ CalibrationTypeOK
    /\ requests \in Seq(Kind) /\ handled \in 0..Len(requests)
    /\ answers \in [Numbers(requests) -> Seq({"done", "refused", "tooEarly"} \cup Ended)]
    /\ mqtt.request \in Nat /\ mqtt.goal \in 0..MaxGoals
    /\ mqtt.at \in {"idle", "dead", "waitForService", "waitForFuture", "subscribe", "remember",
                   "waitForServer", "sendGoal", "cancel"}
    /\ executor \in {"idle", "dropping", "crashed"} /\ camera \in {"up", "absent"}
    /\ clients \in 0..MaxGoals /\ live \subseteq 1..clients
    /\ {actionClient, goalHandle} \subseteq 0..clients
    /\ asked \in [Goals -> 0..Len(requests)] /\ cancels \subseteq Goals
    /\ heard \in [Goals -> {"nothing", "accepted", "result"}]
    /\ call \in {"none", "sent", "served", "done"}
    /\ subscriptions \subseteq Numbers(requests) /\ topicHandle \in 0..Len(requests)
    /\ topicKnown \in BOOLEAN

\* Users who wait for a calibration before they ask for the next bring neither thread
\* of the bridge down by what they run and abort and when, unless the threads meet in
\* the middle of a handler (action_clients, goal_handles and topic_handle are not
\* locked): the MQTT thread ends only by a request whose own handler raises.
BridgeSurvives ==
    setup.calm /\ setup.patient =>
        executor # "crashed" /\ (mqtt.at = "dead" => requests[mqtt.request] \in Raises)

\* In such a setting, and if no handler raises, every request is answered in the end
\* while the camera node is there, except those for a service it does not have or of a
\* type the bridge does not know, and aborts that reached a goal: it is the goal that
\* is answered.
EveryRequestAnswered ==
    /\ setup.calm /\ setup.patient /\ setup.camera = "up"
    /\ setup.kinds \cap Raises = {}
    => <>[](\A n \in Numbers(requests) : requests[n] \in Silent \/ answers[n] # <<>>)

\* A frame request is answered once, and refused only while another one waits for its
\* frame, however the threads meet (handle_get_frame_request, image_callback).
FramesOneAtATime ==
    [][\A n \in Numbers(requests) :
          requests[n] = "frame" /\ answers'[n] # answers[n] =>
              /\ answers[n] = <<>>
              /\ answers'[n] = <<"refused">> => \E m \in Unanswered("frame") : m < n]_vars

\* No service request holds up the others for good: the thread is back at its queue,
\* also without a camera node (create_ros_client, wait_for_future).  (A camera that
\* goes away during a call and a calibration without a camera hold it up for good.)
RequestsComeToAnEnd ==
    setup.camera = "up" \/ (setup.camera = "absent" /\ "run" \notin setup.kinds) =>
        []<>(mqtt.at \in {"idle", "dead"} \/ executor = "crashed")
=============================================================================
