--------------------------- MODULE MqttBridgeProofs ---------------------------
(***************************************************************************)
(* Proofs about the MQTT bridge and the camera's calibration action, for   *)
(* every number of requests and goals and however the threads meet: a goal *)
(* ends exactly when its thread does, the goals keep to the protocol of    *)
(* actions, frame requests are answered one at a time, and patient users   *)
(* bring down a thread of the bridge only by a request whose handler       *)
(* raises.                                                                 *)
(***************************************************************************)
EXTENDS MqttBridge, SequenceTheorems, TLAPS

\* What a client sees of a goal.
View == [g \in Goals |-> goals[g].state]

\* The updates a step makes to a goal.
LEMMA GoalUpdates ==
    ASSUME NEW r \in Goal
    PROVE  /\ \A s \in {"executing", "canceling"} \cup Ended, t \in {"running", "ended"} :
                 LET u == [r EXCEPT !.state = s, !.thread = t] IN u \in Goal /\ u.state = s
           /\ LET u == [r EXCEPT !.state = "canceling"] IN u \in Goal /\ u.state = "canceling"
           /\ [r EXCEPT !.cancelled = TRUE] \in Goal
           /\ \A p \in {50, 100} : [r EXCEPT !.progress = p] \in Goal
<1>1. ASSUME NEW s \in {"executing", "canceling"} \cup Ended, NEW t \in {"running", "ended"}
      PROVE  LET u == [r EXCEPT !.state = s, !.thread = t] IN u \in Goal /\ u.state = s
  BY DEF Goal, Ended
<1>2. LET u == [r EXCEPT !.state = "canceling"] IN u \in Goal /\ u.state = "canceling"
  BY DEF Goal, Ended
<1>3. [r EXCEPT !.cancelled = TRUE] \in Goal
  BY DEF Goal, Ended
<1>4. \A p \in {50, 100} : [r EXCEPT !.progress = p] \in Goal
  BY DEF Goal, Ended
<1>5. QED
  BY <1>1, <1>2, <1>3, <1>4

\* An update of one goal leaves the others alone, and is seen if it is one of the state.
LEMMA GoalUpdateSeen ==
    ASSUME CalibrationTypeOK, NEW g \in Goals, NEW r \in Goal,
           goals' = [goals EXCEPT ![g] = r]
    PROVE  /\ CalibrationTypeOK'
           /\ View' = [View EXCEPT ![g] = r.state]
           /\ r.state = goals[g].state => View' = View
  BY DEF CalibrationTypeOK, View

\* The goals' states are those the server names.
THEOREM CalibrationTypeCorrect == CalibrationSpec => []CalibrationTypeOK
<1>1. CalibrationInit => CalibrationTypeOK
  BY DEF CalibrationInit, CalibrationTypeOK, Goal
<1>2. CalibrationTypeOK /\ [CalibrationNext]_goals => CalibrationTypeOK'
  <2> SUFFICES ASSUME CalibrationTypeOK, [CalibrationNext]_goals PROVE CalibrationTypeOK'
    OBVIOUS
  <2>1. ASSUME NEW g \in Goals, NEW r \in Goal, goals' = [goals EXCEPT ![g] = r]
        PROVE  CalibrationTypeOK'
    BY <2>1 DEF CalibrationTypeOK
  <2>2. \A g \in Goals : goals[g] \in Goal
    BY DEF CalibrationTypeOK
  <2>3. ASSUME NEW g \in Goals, HandleGoal(g) PROVE CalibrationTypeOK'
    BY <2>1, <2>2, <2>3, GoalUpdates DEF HandleGoal
  <2>4. ASSUME NEW g \in Goals, HandleCancel(g) PROVE CalibrationTypeOK'
    BY <2>1, <2>2, <2>4, GoalUpdates DEF HandleCancel, CalibrationTypeOK
  <2>5. ASSUME NEW g \in Goals, ExecuteEnds(g) PROVE CalibrationTypeOK'
    <3>1. PICK end \in Ended :
             goals' = [goals EXCEPT ![g] = [@ EXCEPT !.state = end, !.thread = "ended"]]
      BY <2>5 DEF ExecuteEnds, CanceledOrAborted, Ended
    <3>2. [goals[g] EXCEPT !.state = end, !.thread = "ended"] \in Goal
      BY <2>2, GoalUpdates
    <3>3. QED
      BY <2>1, <3>1, <3>2
  <2>6. ASSUME NEW g \in Goals, NEW p \in {50, 100}, Progress(g, p) PROVE CalibrationTypeOK'
    <3>1. /\ [goals[g] EXCEPT !.cancelled = TRUE] \in Goal
          /\ [goals[g] EXCEPT !.progress = p] \in Goal
      <4>1. goals[g] \in Goal
        BY <2>2
      <4>2. \A r \in Goal : [r EXCEPT !.cancelled = TRUE] \in Goal
        BY GoalUpdates, Zenon
      <4>3. \A r \in Goal : [r EXCEPT !.progress = p] \in Goal
        BY GoalUpdates, Zenon
      <4>4. QED
        BY <4>1, <4>2, <4>3, Zenon
    <3>2. CASE goals[g].state = "canceling"
      BY <2>1, <2>6, <3>1, <3>2 DEF Progress
    <3>3. CASE goals[g].state # "canceling"
      BY <2>1, <2>6, <3>1, <3>3 DEF Progress
    <3>4. QED
      BY <3>2, <3>3
  <2>7. CASE UNCHANGED goals
    BY <2>7 DEF CalibrationTypeOK
  <2>8. QED
    BY <2>3, <2>4, <2>5, <2>6, <2>7 DEF CalibrationNext
<1>3. QED
  BY <1>1, <1>2, PTL DEF CalibrationSpec

\* A goal that is being executed or canceled has a running thread, one that has
\* ended has none: no goal is left open by its thread, whatever canceled() throws,
\* and only a complete calibration succeeds.
GoalsHaveThreads ==
    \A g \in Goals :
        /\ goals[g].state = "none" <=> goals[g].thread = "none"
        /\ goals[g].state \in {"executing", "canceling"} <=> goals[g].thread = "running"

\* Every goal has a running thread exactly while it is open, and ends as its thread ran.
THEOREM GoalsEndWithTheirThreads == CalibrationSpec => [](GoalsHaveThreads /\ GoalsEndAsTheyRan)
<1> USE DEF GoalsHaveThreads, GoalsEndAsTheyRan, Ended
<1>1. CalibrationInit => GoalsHaveThreads /\ GoalsEndAsTheyRan
  BY DEF CalibrationInit
<1>2. CalibrationTypeOK /\ GoalsHaveThreads /\ GoalsEndAsTheyRan /\ [CalibrationNext]_goals
        => (GoalsHaveThreads /\ GoalsEndAsTheyRan)'
  <2> SUFFICES ASSUME CalibrationTypeOK, GoalsHaveThreads, GoalsEndAsTheyRan,
                      [CalibrationNext]_goals
               PROVE  (GoalsHaveThreads /\ GoalsEndAsTheyRan)'
    OBVIOUS
  <2> USE DEF CalibrationTypeOK
  <2>1. ASSUME NEW g \in Goals, HandleGoal(g) PROVE (GoalsHaveThreads /\ GoalsEndAsTheyRan)'
    BY <2>1 DEF HandleGoal
  <2>2. ASSUME NEW g \in Goals, HandleCancel(g) PROVE (GoalsHaveThreads /\ GoalsEndAsTheyRan)'
    BY <2>2 DEF HandleCancel
  <2>3. ASSUME NEW g \in Goals, ExecuteEnds(g) PROVE (GoalsHaveThreads /\ GoalsEndAsTheyRan)'
    BY <2>3 DEF ExecuteEnds, CanceledOrAborted
  <2>4. ASSUME NEW g \in Goals, NEW p \in {50, 100}, Progress(g, p)
        PROVE  (GoalsHaveThreads /\ GoalsEndAsTheyRan)'
    BY <2>4 DEF Progress
  <2>5. CASE UNCHANGED goals
    BY <2>5
  <2>6. QED
    BY <2>1, <2>2, <2>3, <2>4, <2>5 DEF CalibrationNext
<1>3. QED
  BY <1>1, <1>2, CalibrationTypeCorrect, PTL DEF CalibrationSpec

\* A step that brings goal g to a state the protocol allows is a step of the protocol.
LEMMA StepOfTheProtocol ==
    ASSUME CalibrationTypeOK, NEW g \in Goals,
           NEW next \in Protocol!MayFollow[goals[g].state],
           View' = [View EXCEPT ![g] = next]
    PROVE  Protocol!Next
<1>1. View[g] = goals[g].state
  BY DEF View
<1>2. QED
  BY <1>1 DEF Protocol!Next, Protocol!Change, View

\* The server's goals follow the protocol of actions: an executed goal is canceled
\* only after the client's cancellation was accepted, and a result is final.
THEOREM CalibrationFollowsProtocol == CalibrationSpec => GoalsFollowProtocol
<1> USE DEF Ended
<1>1. CalibrationInit => Protocol!Init
  BY DEF CalibrationInit, Protocol!Init
<1>2. /\ CalibrationTypeOK /\ CalibrationTypeOK' /\ GoalsHaveThreads
      /\ [CalibrationNext]_goals
      => [Protocol!Next]_View
  <2> SUFFICES ASSUME CalibrationTypeOK, CalibrationTypeOK', GoalsHaveThreads,
                      [CalibrationNext]_goals
               PROVE  Protocol!Next \/ View' = View
    OBVIOUS
  <2>1. ASSUME NEW g \in Goals, HandleGoal(g) PROVE Protocol!Next
    <3> DEFINE r == [goals[g] EXCEPT !.state = "executing", !.thread = "running"]
    <3>1. goals[g] \in Goal
      BY DEF CalibrationTypeOK
    <3>2. r \in Goal /\ r.state = "executing"
      BY <3>1, GoalUpdates
    <3>3. goals' = [goals EXCEPT ![g] = r]
      BY <2>1 DEF HandleGoal
    <3> HIDE DEF r
    <3>4. View' = [View EXCEPT ![g] = r.state]
      BY <3>2, <3>3, GoalUpdateSeen
    <3>5. View' = [View EXCEPT ![g] = "executing"]
      BY <3>2, <3>4, Zenon
    <3>6. "executing" \in Protocol!MayFollow[goals[g].state]
      BY <2>1 DEF HandleGoal, Protocol!MayFollow
    <3>7. QED
      BY <3>5, <3>6, StepOfTheProtocol
  <2>2. ASSUME NEW g \in Goals, HandleCancel(g) PROVE Protocol!Next \/ View' = View
    <3>1. CASE goals[g].state = "executing"
      <4> DEFINE r == [goals[g] EXCEPT !.state = "canceling"]
      <4>1. goals[g] \in Goal
        BY DEF CalibrationTypeOK
      <4>2. r \in Goal /\ r.state = "canceling"
        BY <4>1, GoalUpdates
      <4>3. goals' = [goals EXCEPT ![g] = r]
        BY <2>2, <3>1 DEF HandleCancel
      <4> HIDE DEF r
      <4>4. View' = [View EXCEPT ![g] = r.state]
        BY <4>2, <4>3, GoalUpdateSeen
      <4>5. View' = [View EXCEPT ![g] = "canceling"]
        BY <4>2, <4>4, Zenon
      <4>6. "canceling" \in Protocol!MayFollow[goals[g].state]
        BY <3>1 DEF Protocol!MayFollow
      <4>7. QED
        BY <4>5, <4>6, StepOfTheProtocol
    <3>2. CASE goals[g].state # "executing"
      BY <2>2, <3>2 DEF HandleCancel, View
    <3>3. QED
      BY <3>1, <3>2
  <2>3. ASSUME NEW g \in Goals, ExecuteEnds(g) PROVE Protocol!Next
    <3>1. PICK end \in {IF goals[g].progress = 100 THEN "succeeded" ELSE CanceledOrAborted(g),
                        "aborted"} :
             goals' = [goals EXCEPT ![g] = [@ EXCEPT !.state = end, !.thread = "ended"]]
      BY <2>3 DEF ExecuteEnds
    <3> DEFINE r == [goals[g] EXCEPT !.state = end, !.thread = "ended"]
    <3>2. goals[g] \in Goal /\ end \in Ended
      BY <3>1 DEF CalibrationTypeOK, CanceledOrAborted
    <3>3. r \in Goal /\ r.state = end
      BY <3>2, GoalUpdates DEF Ended
    <3>4. goals' = [goals EXCEPT ![g] = r]
      BY <3>1
    <3> HIDE DEF r
    <3>5. View' = [View EXCEPT ![g] = end]
      BY <3>3, <3>4, GoalUpdateSeen
    <3>6. goals[g].state \in {"executing", "canceling"}
      BY <2>3 DEF ExecuteEnds, GoalsHaveThreads
    <3>7. CASE goals[g].state = "executing"
      <4>1. end \in {"succeeded", "aborted"}
        BY <3>1, <3>7 DEF CanceledOrAborted
      <4>2. end \in Protocol!MayFollow[goals[g].state]
        BY <3>7, <4>1 DEF Protocol!MayFollow
      <4>3. QED
        BY <3>5, <4>2, StepOfTheProtocol
    <3>8. CASE goals[g].state = "canceling"
      <4>1. end \in {"succeeded", "canceled", "aborted"}
        BY <3>1, <3>8 DEF CanceledOrAborted
      <4>2. end \in Protocol!MayFollow[goals[g].state]
        BY <3>8, <4>1 DEF Protocol!MayFollow
      <4>3. QED
        BY <3>5, <4>2, StepOfTheProtocol
    <3>9. QED
      BY <3>6, <3>7, <3>8
  <2>4. ASSUME NEW g \in Goals, NEW p \in {50, 100}, Progress(g, p) PROVE View' = View
    BY <2>4 DEF Progress, View, CalibrationTypeOK
  <2>5. CASE UNCHANGED goals
    BY <2>5 DEF View
  <2>6. QED
    BY <2>1, <2>2, <2>3, <2>4, <2>5 DEF CalibrationNext
<1>3. QED
  BY <1>1, <1>2, CalibrationTypeCorrect, GoalsEndWithTheirThreads, PTL
     DEF CalibrationSpec, GoalsFollowProtocol, Protocol!Spec, View

-------------------------------------------------------------------------------
\* The bridge drives the camera's action server only by goals and cancellations.
THEOREM BridgeUsesTheAction == Spec => CalibrationSpec
<1>1. Init => CalibrationInit
  BY DEF Init
<1>2. [Next]_vars => [CalibrationNext]_goals
  <2> SUFFICES ASSUME [Next]_vars PROVE CalibrationNext \/ UNCHANGED goals
    OBVIOUS
  <2>1. CASE CameraServes
    BY <2>1 DEF CameraServes, CalibrationNext
  <2>2. ASSUME NEW kind \in Kind, Request(kind) PROVE UNCHANGED goals
    BY <2>2 DEF Request, actionVars
  <2>3. CASE CameraDies
    BY <2>3 DEF CameraDies, actionVars
  <2>4. CASE MqttThread
    BY <2>4 DEF MqttThread, AnswerDirectly, ReadMalformedRequest, HandleServiceRequest,
                WaitForService, WaitForFuture, HandleFrameRequest, CreateSubscription, RememberSubscription, HandleRunRequest,
                WaitForServer, SendGoal, HandleAbortRequest, CancelGoal, actionVars
  <2>5. CASE Executor
    BY <2>5 DEF Executor, FutureDone, DropClient, GoalResponse, Result, actionVars
  <2>6. CASE Frames
    BY <2>6 DEF Frames, ImageCallback, actionVars
  <2>7. CASE UNCHANGED vars
    BY <2>7 DEF vars, actionVars
  <2>8. QED
    BY <2>1, <2>2, <2>3, <2>4, <2>5, <2>6, <2>7 DEF Next
<1>3. QED
  BY <1>1, <1>2, PTL DEF Spec, CalibrationSpec

\* Whatever requests arrive and however the bridge's threads meet, what the camera's
\* clients see of its goals follows the protocol of actions.
THEOREM BridgeFollowsProtocol == Spec => GoalsFollowProtocol
  BY BridgeUsesTheAction, CalibrationFollowsProtocol

-------------------------------------------------------------------------------
Reply == {"done", "refused", "tooEarly"} \cup Ended
Step == {"idle", "dead", "waitForService", "waitForFuture", "subscribe", "remember",
         "waitForServer", "sendGoal", "cancel"}
Work == [at : Step, request : Nat, goal : Nat]

\* Types of what frame requests depend on; the MQTT thread works on a request of the
\* kind its step is for, and goals were sent for runs.
WorkInv ==
    /\ requests \in Seq(Kind) /\ handled \in 0..Len(requests)
    /\ answers \in Seq(Seq(Reply)) /\ Len(answers) = Len(requests)
    /\ mqtt \in Work /\ goalHandle \in Nat
    /\ asked \in [Goals -> Nat] /\ subscriptions \subseteq Nat
    /\ \A g \in Goals : asked[g] # 0 =>
          asked[g] \in Numbers(requests) /\ requests[asked[g]] = "run"
    /\ mqtt.at # "idle" => mqtt.request \in 1..handled
    /\ mqtt.at \in {"waitForService", "waitForFuture"} => requests[mqtt.request] \in ServiceKind
    /\ mqtt.at \in {"waitForServer", "sendGoal"} => requests[mqtt.request] = "run"
    /\ mqtt.at \in {"subscribe", "remember"} => requests[mqtt.request] = "frame"

\* A subscription is there for one frame request at most, which has no answer yet and
\* keeps the topic taken from when it is remembered to when its frame has come.
FrameInv ==
    /\ topicHandle \in Nat
    /\ \A n \in Numbers(requests) :
          n > handled /\ requests[n] = "frame" => answers[n] = <<>>
    /\ mqtt.at \in {"subscribe", "remember"} => answers[mqtt.request] = <<>> /\ topicHandle = 0
    /\ topicHandle # 0 => /\ topicHandle \in 1..handled /\ requests[topicHandle] = "frame"
                          /\ answers[topicHandle] = <<>>
    /\ subscriptions = IF mqtt.at = "remember" THEN {mqtt.request}
                       ELSE IF topicHandle # 0 THEN {topicHandle} ELSE {}

\* An answer is added to one request.
LEMMA AnswerOne ==
    ASSUME answers \in Seq(Seq(Reply)), NEW n \in Nat, NEW what \in Reply, Answer(n, what)
    PROVE  /\ answers' \in Seq(Seq(Reply)) /\ Len(answers') = Len(answers)
           /\ \A m \in 1..Len(answers) : m # n => answers'[m] = answers[m]
           /\ n \in 1..Len(answers) => answers'[n] = Append(answers[n], what)
<1>1. CASE n \in 1..Len(answers)
  <2>1. answers[n] \in Seq(Reply)
    BY <1>1, ElementOfSeq
  <2>2. Append(answers[n], what) \in Seq(Reply)
    BY <2>1, AppendProperties
  <2>3. answers' = [answers EXCEPT ![n] = Append(answers[n], what)]
    BY DEF Answer
  <2>4. QED
    BY <1>1, <2>2, <2>3, ExceptSeq
<1>2. CASE n \notin 1..Len(answers)
  <2>1. answers' = answers
    BY <1>2, LenProperties DEF Answer
  <2>2. QED
    BY <1>2, <2>1
<1>3. QED
  BY <1>1, <1>2

\* A request is added at the end, without an answer.
LEMMA RequestAdded ==
    ASSUME WorkInv, NEW kind \in Kind, Request(kind)
    PROVE  /\ requests' \in Seq(Kind) /\ Len(requests') = Len(requests) + 1
           /\ answers' \in Seq(Seq(Reply)) /\ Len(answers') = Len(answers) + 1
           /\ \A n \in Numbers(requests) : requests'[n] = requests[n] /\ answers'[n] = answers[n]
           /\ answers'[Len(answers) + 1] = <<>>
<1>1. requests' = Append(requests, kind) /\ answers' = Append(answers, <<>>)
  BY DEF Request
<1>2. <<>> \in Seq(Reply)
  OBVIOUS
<1>3. QED
  BY <1>1, <1>2, AppendProperties DEF WorkInv, Numbers

\* The MQTT thread goes on to a step.
LEMMA Going ==
    ASSUME mqtt \in Work, NEW step \in Step, MqttGoes(step)
    PROVE  mqtt' \in Work /\ mqtt'.at = step /\ mqtt'.request = mqtt.request
  BY DEF Work, MqttGoes

\* The MQTT thread takes the next request up and, it may be, goes to a step with it.
LEMMA Taking ==
    ASSUME WorkInv, NEW kind, Take(kind)
    PROVE  /\ handled' = handled + 1 /\ handled' \in 1..Len(requests)
           /\ requests[handled'] = kind /\ mqtt.at = "idle"
           /\ \A step \in Step : TakenTo(step) =>
                 mqtt' \in Work /\ mqtt'.at = step /\ mqtt'.request = handled'
<1>1. /\ handled \in Nat /\ Len(requests) \in Nat
      /\ handled < Len(requests) /\ handled' = handled + 1
      /\ requests[handled + 1] = kind
  BY LenProperties DEF WorkInv, Take
<1>2. handled' \in 1..Len(requests) /\ requests[handled'] = kind /\ handled' \in Nat
  <2>1. handled + 1 \in 1..Len(requests) /\ handled + 1 \in Nat
    BY <1>1
  <2>2. QED
    BY <1>1, <2>1, Zenon
<1>3. ASSUME NEW step \in Step, TakenTo(step)
      PROVE  mqtt' \in Work /\ mqtt'.at = step /\ mqtt'.request = handled'
  <2>1. mqtt' = [at |-> step, request |-> handled', goal |-> 0]
    BY <1>3 DEF TakenTo, Idle
  <2>2. QED
    BY <1>2, <2>1 DEF Work
<1>4. mqtt.at = "idle"
  BY DEF Take, MqttAt
<1>5. QED
  BY <1>1, <1>2, <1>3, <1>4

\* A thread that waits for work is in a state the type knows.
LEMMA IdleIsWork == Idle \in Work /\ Idle.at = "idle"
  BY DEF Idle, Work, Step

\* Actions that change nothing the invariant of the work depends on.
LEMMA WorkUntouched ==
    ASSUME WorkInv,
           UNCHANGED <<requests, handled, answers, mqtt, goalHandle, asked, subscriptions>>
    PROVE  WorkInv'
  BY DEF WorkInv, Numbers

\* The MQTT thread answers requests of the kind its step is for, and goals run for
\* requests for a calibration.
THEOREM WorkInvariant == Spec => []WorkInv
<1>1. Init => WorkInv
  <2> SUFFICES ASSUME Init PROVE WorkInv
    OBVIOUS
  <2>1. requests \in Seq(Kind) /\ Len(requests) = 0 /\ answers \in Seq(Seq(Reply)) /\ Len(answers) = 0
    BY DEF Init
  <2>2. QED
    BY <2>1, IdleIsWork DEF Init, WorkInv
<1>2. WorkInv /\ [Next]_vars => WorkInv'
  <2> SUFFICES ASSUME WorkInv, [Next]_vars PROVE WorkInv'
    OBVIOUS
  <2>1. ASSUME NEW kind \in Kind, Request(kind) PROVE WorkInv'
    <3>1. /\ requests' \in Seq(Kind) /\ Len(requests') = Len(requests) + 1
          /\ answers' \in Seq(Seq(Reply)) /\ Len(answers') = Len(answers) + 1
          /\ \A n \in Numbers(requests) : requests'[n] = requests[n]
      BY <2>1, RequestAdded
    <3>2. UNCHANGED <<handled, mqtt, goalHandle, asked, subscriptions>>
      BY <2>1 DEF Request, actionVars, frameVars
    <3>3. /\ Len(requests) \in Nat /\ handled \in 0..Len(requests)
          /\ handled' \in 0..Len(requests') /\ Len(answers') = Len(requests')
      BY <3>1, <3>2, LenProperties DEF WorkInv
    <3>4. \A n \in Numbers(requests) : n \in Numbers(requests)' /\ requests'[n] = requests[n]
      BY <3>1, <3>3 DEF Numbers
    <3>5. \A g \in Goals : asked'[g] # 0 =>
            asked'[g] \in Numbers(requests)' /\ requests'[asked'[g]] = "run"
      BY <3>2, <3>4, Zenon DEF WorkInv
    <3>6. mqtt.at # "idle" =>
            mqtt.request \in 1..handled /\ requests'[mqtt.request] = requests[mqtt.request]
      BY <3>3, <3>4 DEF WorkInv, Numbers
    <3>7. QED
      BY <3>1, <3>2, <3>3, <3>5, <3>6 DEF WorkInv, Step
  <2>2. CASE CameraDies \/ CameraServes
    BY <2>2, WorkUntouched DEF CameraDies, CameraServes, actionVars, frameVars
  <2>3. CASE AnswerDirectly
    <3>1. handled' \in 1..Len(requests) /\ mqtt.at = "idle"
      BY <2>3, Taking DEF AnswerDirectly
    <3>2. answers' \in Seq(Seq(Reply)) /\ Len(answers') = Len(answers)
      <4>1. handled' \in Nat /\ Answer(handled', "done")
        BY <2>3, <3>1, LenProperties DEF AnswerDirectly, WorkInv
      <4>2. QED
        BY <4>1, AnswerOne DEF WorkInv, Reply
    <3>3. QED
      BY <2>3, <3>1, <3>2 DEF AnswerDirectly, WorkInv, actionVars, Numbers, frameVars
  <2>4. CASE HandleServiceRequest
    <3>1. PICK kind \in ServiceKind : Take(kind)
      BY <2>4 DEF HandleServiceRequest
    <3>2. /\ handled' \in 1..Len(requests) /\ requests[handled'] \in ServiceKind
          /\ mqtt' \in Work /\ mqtt'.at = "waitForService" /\ mqtt'.request = handled'
      BY <2>4, <3>1, Taking DEF HandleServiceRequest, Step
    <3>3. QED
      BY <2>4, <3>2 DEF HandleServiceRequest, WorkInv, actionVars, Numbers, frameVars
  <2>22. CASE ReadMalformedRequest
    <3>1. /\ handled' \in 1..Len(requests)
          /\ mqtt' \in Work /\ mqtt'.at = "dead" /\ mqtt'.request = handled'
      BY <2>22, Taking DEF ReadMalformedRequest, Step
    <3>2. QED
      BY <2>22, <3>1 DEF ReadMalformedRequest, WorkInv, actionVars, Numbers, frameVars
  <2>5. CASE WaitForService
    <3>1. \/ /\ mqtt' \in Work /\ mqtt'.at \in {"waitForFuture", "dead"}
             /\ mqtt'.request = mqtt.request
          \/ mqtt' \in Work /\ mqtt'.at = "idle"
      BY <2>5, Going, IdleIsWork DEF WaitForService, WorkInv, Step
    <3>2. QED
      BY <2>5, <3>1 DEF WaitForService, MqttAt, WorkInv, actionVars, Numbers, Step, frameVars
  <2>6. CASE WaitForFuture
    <3>1. mqtt.request \in Nat
      BY DEF WorkInv, Work
    <3>2. CASE Asking = "undeclared"
      <4>1. mqtt' \in Work /\ mqtt'.at = "dead" /\ mqtt'.request = mqtt.request
        BY <2>6, <3>2, Going DEF WaitForFuture, WorkInv, Step
      <4>2. QED
        BY <2>6, <3>2, <4>1
           DEF WaitForFuture, MqttAt, WorkInv, actionVars, Numbers, Step, frameVars
    <3>3. CASE Asking # "undeclared"
      <4>1. answers' \in Seq(Seq(Reply)) /\ Len(answers') = Len(answers)
        BY <2>6, <3>1, <3>3, AnswerOne DEF WaitForFuture, WorkInv, Reply
      <4>2. QED
        BY <2>6, <3>3, <4>1, IdleIsWork DEF WaitForFuture, WorkInv, actionVars, Numbers, frameVars
    <3>4. QED
      BY <3>2, <3>3
  <2>7. CASE HandleFrameRequest
    <3>1. handled' \in 1..Len(requests) /\ requests[handled'] = "frame" /\ mqtt.at = "idle"
      BY <2>7, Taking DEF HandleFrameRequest
    <3>2. CASE topicHandle = 0
      <4>1. mqtt' \in Work /\ mqtt'.at = "subscribe" /\ mqtt'.request = handled'
        BY <2>7, <3>2, Taking DEF HandleFrameRequest, Step
      <4>2. QED
        BY <2>7, <3>1, <3>2, <4>1 DEF HandleFrameRequest, WorkInv, actionVars, Numbers, frameVars
    <3>3. CASE topicHandle # 0
      <4>1. answers' \in Seq(Seq(Reply)) /\ Len(answers') = Len(answers)
        BY <2>7, <3>1, <3>3, AnswerOne DEF HandleFrameRequest, WorkInv, Reply
      <4>2. QED
        BY <2>7, <3>1, <3>3, <4>1 DEF HandleFrameRequest, WorkInv, actionVars, Numbers, frameVars
    <3>4. QED
      BY <3>2, <3>3
  <2>8. CASE CreateSubscription
    <3>1. mqtt' \in Work /\ mqtt'.at = "remember" /\ mqtt'.request = mqtt.request
      BY <2>8, Going DEF CreateSubscription, WorkInv, Step
    <3>2. subscriptions' \subseteq Nat
      BY <2>8 DEF CreateSubscription, WorkInv, Work
    <3>3. QED
      BY <2>8, <3>1, <3>2 DEF CreateSubscription, MqttAt, WorkInv, actionVars, Numbers, Step
  <2>9. CASE RememberSubscription
    BY <2>9, IdleIsWork DEF RememberSubscription, WorkInv, actionVars, Numbers, frameVars
  <2>10. CASE HandleRunRequest
    <3>1. /\ handled' \in 1..Len(requests) /\ requests[handled'] = "run"
          /\ mqtt' \in Work /\ mqtt'.at = "waitForServer" /\ mqtt'.request = handled'
      BY <2>10, Taking DEF HandleRunRequest, Step
    <3>2. QED
      BY <2>10, <3>1 DEF HandleRunRequest, WorkInv, Numbers, frameVars
  <2>11. CASE WaitForServer
    <3>1. mqtt' \in Work /\ mqtt'.at = "sendGoal" /\ mqtt'.request = mqtt.request
      BY <2>11, Going DEF WaitForServer, WorkInv, Step
    <3>2. QED
      BY <2>11, <3>1 DEF WaitForServer, MqttAt, WorkInv, actionVars, Numbers, Step, frameVars
  <2>12. CASE SendGoal
    <3>1. /\ mqtt' \in Work /\ mqtt'.at \in {"idle", "dead"}
          /\ mqtt'.at = "dead" => mqtt'.request = mqtt.request
      BY <2>12, Going, IdleIsWork DEF SendGoal, WorkInv, Step
    <3>2. mqtt.request \in 1..handled /\ requests[mqtt.request] = "run"
      BY <2>12 DEF SendGoal, MqttAt, WorkInv, Step
    <3>3. /\ asked' \in [Goals -> Nat]
          /\ \A g \in Goals : asked'[g] = asked[g] \/ asked'[g] = mqtt.request
      <4>1. mqtt.request \in Nat /\ asked \in [Goals -> Nat]
        BY DEF WorkInv, Work
      <4>2. CASE actionClient \in live
        BY <2>12, <4>1, <4>2 DEF SendGoal
      <4>3. CASE actionClient \notin live
        BY <2>12, <4>1, <4>3 DEF SendGoal
      <4>4. QED
        BY <4>2, <4>3
    <3>4. mqtt.request \in Numbers(requests)
      BY <3>2, LenProperties DEF WorkInv, Numbers, frameVars
    <3>5. \A g \in Goals : asked'[g] # 0 =>
            asked'[g] \in Numbers(requests) /\ requests[asked'[g]] = "run"
      BY <3>2, <3>3, <3>4, Zenon DEF WorkInv
    <3>6. UNCHANGED <<requests, handled, answers, goalHandle, subscriptions>>
      BY <2>12 DEF SendGoal, frameVars
    <3>7. QED
      BY <3>1, <3>2, <3>3, <3>5, <3>6 DEF WorkInv, Numbers, frameVars
  <2>13. CASE HandleAbortRequest
    <3>1. handled' \in 1..Len(requests) /\ mqtt.at = "idle"
      BY <2>13, Taking DEF HandleAbortRequest
    <3>2. CASE actionClient = 0 \/ goalHandle = 0
      <4>1. answers' \in Seq(Seq(Reply)) /\ Len(answers') = Len(answers)
        BY <2>13, <3>1, <3>2, AnswerOne DEF HandleAbortRequest, WorkInv, Reply
      <4>2. QED
        BY <2>13, <3>1, <3>2, <4>1 DEF HandleAbortRequest, WorkInv, actionVars, Numbers, frameVars
    <3>3. CASE ~ (actionClient = 0 \/ goalHandle = 0)
      <4>1. mqtt' \in Work /\ mqtt'.at = "cancel" /\ mqtt'.request = handled'
        BY <2>13, <3>1, <3>3 DEF HandleAbortRequest, WorkInv, Work, Step
      <4>2. QED
        BY <2>13, <3>1, <3>3, <4>1 DEF HandleAbortRequest, WorkInv, actionVars, Numbers, frameVars
    <3>4. QED
      BY <3>2, <3>3
  <2>14. CASE CancelGoal
    <3>1. /\ mqtt' \in Work /\ mqtt'.at \in {"idle", "dead"}
          /\ mqtt'.at = "dead" => mqtt'.request = mqtt.request
      BY <2>14, Going, IdleIsWork DEF CancelGoal, WorkInv, Step
    <3>2. QED
      BY <2>14, <3>1 DEF CancelGoal, MqttAt, WorkInv, Numbers, frameVars
  <2>15. CASE FutureDone
    BY <2>15, WorkUntouched DEF FutureDone, actionVars, frameVars
  <2>16. ASSUME NEW g \in Goals, GoalResponse(g) PROVE WorkInv'
    BY <2>16 DEF GoalResponse, WorkInv, Numbers, Goals, frameVars
  <2>17. ASSUME NEW g \in Goals, Result(g) PROVE WorkInv'
    <3>1. asked[g] \in Nat /\ goals[g].state \in Reply
      BY <2>17 DEF Result, WorkInv, Reply
    <3>2. answers' \in Seq(Seq(Reply)) /\ Len(answers') = Len(answers)
      BY <2>17, <3>1, AnswerOne DEF Result, WorkInv
    <3>3. QED
      BY <2>17, <3>2 DEF Result, WorkInv, Numbers, frameVars
  <2>18. CASE DropClient
    BY <2>18 DEF DropClient, HandleAfterResult, WorkInv, Numbers, frameVars
  <2>19. ASSUME NEW n \in subscriptions, ImageCallback(n) PROVE WorkInv'
    <3>1. UNCHANGED <<requests, handled, mqtt, goalHandle, asked>>
      BY <2>19 DEF ImageCallback, actionVars
    <3>2. subscriptions' \subseteq Nat
      BY <2>19 DEF ImageCallback, WorkInv, frameVars
    <3>3. CASE UNCHANGED answers
      BY <3>1, <3>2, <3>3 DEF WorkInv, Numbers, frameVars
    <3>4. CASE Answer(n, "done")
      <4>1. answers' \in Seq(Seq(Reply)) /\ Len(answers') = Len(answers)
        BY <3>4, AnswerOne DEF WorkInv, Reply
      <4>2. QED
        BY <3>1, <3>2, <4>1 DEF WorkInv, Numbers, frameVars
    <3>5. QED
      BY <2>19, <3>3, <3>4 DEF ImageCallback
  <2>20. CASE UNCHANGED vars
    BY <2>20, WorkUntouched DEF vars, actionVars, frameVars
  <2>21. QED
    BY <2>1, <2>2, <2>3, <2>4, <2>5, <2>6, <2>7, <2>8, <2>9, <2>10, <2>11, <2>12, <2>13, <2>14,
       <2>15, <2>16, <2>17, <2>18, <2>19, <2>20, <2>22 DEF Next, MqttThread, Executor, Frames
<1>3. QED
  BY <1>1, <1>2, PTL DEF Spec

-------------------------------------------------------------------------------
\* What FramesOneAtATime says of one step.
FrameStep ==
    \A n \in Numbers(requests) :
        requests[n] = "frame" /\ answers'[n] # answers[n] =>
            /\ answers[n] = <<>>
            /\ answers'[n] = <<"refused">> => \E m \in Unanswered("frame") : m < n

\* Steps that leave the topic and the answers to frame requests alone.
LEMMA NoFrame ==
    ASSUME WorkInv, FrameInv, WorkInv',
           UNCHANGED <<requests, frameVars>>, handled' \in {handled, handled + 1},
           \A n \in Numbers(requests) : requests[n] = "frame" => answers'[n] = answers[n],
           \/ UNCHANGED mqtt
           \/ {mqtt.at, mqtt'.at} \cap {"subscribe", "remember"} = {}
    PROVE  FrameInv' /\ FrameStep
<1>1. FrameStep
  BY DEF FrameStep
<1>2. handled \in Nat /\ Len(requests) \in Nat /\ handled <= Len(requests)
  BY LenProperties DEF WorkInv
<1>3. /\ topicHandle' \in Nat
      /\ \A n \in Numbers(requests)' :
            n > handled' /\ requests'[n] = "frame" => answers'[n] = <<>>
  BY <1>2 DEF FrameInv, frameVars, Numbers
<1>4. mqtt'.at \in {"subscribe", "remember"} => answers'[mqtt'.request] = <<>> /\ topicHandle' = 0
  <2> SUFFICES ASSUME mqtt'.at \in {"subscribe", "remember"}
               PROVE  answers'[mqtt'.request] = <<>> /\ topicHandle' = 0
    OBVIOUS
  <2>1. mqtt' = mqtt
    OBVIOUS
  <2>2. mqtt.request \in 1..handled /\ requests[mqtt.request] = "frame"
    BY <2>1 DEF WorkInv, Step
  <2>3. mqtt.request \in Numbers(requests)
    BY <1>2, <2>2 DEF Numbers
  <2>4. QED
    BY <2>1, <2>2, <2>3 DEF FrameInv, frameVars
<1>5. topicHandle' # 0 => /\ topicHandle' \in 1..handled' /\ requests'[topicHandle'] = "frame"
                          /\ answers'[topicHandle'] = <<>>
  <2> SUFFICES ASSUME topicHandle # 0
               PROVE  /\ topicHandle \in 1..handled' /\ requests[topicHandle] = "frame"
                      /\ answers'[topicHandle] = <<>>
    BY DEF frameVars
  <2>1. topicHandle \in 1..handled' /\ topicHandle \in Numbers(requests)
    BY <1>2 DEF FrameInv, Numbers
  <2>2. QED
    BY <2>1 DEF FrameInv
<1>6. subscriptions' = IF mqtt'.at = "remember" THEN {mqtt'.request}
                       ELSE IF topicHandle' # 0 THEN {topicHandle'} ELSE {}
  BY DEF FrameInv, frameVars
<1>7. QED
  BY <1>1, <1>3, <1>4, <1>5, <1>6 DEF FrameInv

\* A request that is added is not answered yet.
LEMMA FrameRequested ==
    ASSUME WorkInv, FrameInv, WorkInv', NEW kind \in Kind, Request(kind)
    PROVE  FrameInv' /\ FrameStep
<1>1. /\ Len(requests') = Len(requests) + 1 /\ Len(requests) \in Nat
      /\ \A n \in Numbers(requests) : requests'[n] = requests[n] /\ answers'[n] = answers[n]
      /\ answers'[Len(requests) + 1] = <<>>
  BY RequestAdded, LenProperties DEF WorkInv
<1>2. UNCHANGED <<handled, mqtt, frameVars>>
  BY DEF Request
<1>3. handled \in Nat /\ handled <= Len(requests)
  BY LenProperties DEF WorkInv
<1>4. FrameStep
  BY <1>1 DEF FrameStep
<1>5. \A n \in Numbers(requests)' :
         n > handled' /\ requests'[n] = "frame" => answers'[n] = <<>>
  BY <1>1, <1>2 DEF FrameInv, Numbers
<1>6. mqtt'.at \in {"subscribe", "remember"} => answers'[mqtt'.request] = <<>> /\ topicHandle' = 0
  <2> SUFFICES ASSUME mqtt.at \in {"subscribe", "remember"}
               PROVE  answers'[mqtt.request] = <<>> /\ topicHandle = 0
    BY <1>2 DEF frameVars
  <2>1. mqtt.request \in Numbers(requests)
    BY <1>1, <1>3 DEF WorkInv, Step, Numbers
  <2>2. QED
    BY <1>1, <2>1 DEF FrameInv
<1>7. topicHandle' # 0 => /\ topicHandle' \in 1..handled' /\ requests'[topicHandle'] = "frame"
                          /\ answers'[topicHandle'] = <<>>
  <2> SUFFICES ASSUME topicHandle # 0
               PROVE  /\ topicHandle \in 1..handled /\ requests'[topicHandle] = "frame"
                      /\ answers'[topicHandle] = <<>>
    BY <1>2 DEF frameVars
  <2>1. topicHandle \in Numbers(requests)
    BY <1>1, <1>3 DEF FrameInv, Numbers
  <2>2. QED
    BY <1>1, <2>1 DEF FrameInv
<1>8. QED
  BY <1>2, <1>4, <1>5, <1>6, <1>7 DEF FrameInv, frameVars

\* A frame request is refused while the topic is taken, by one that came before.
LEMMA FrameHandled ==
    ASSUME WorkInv, FrameInv, WorkInv', HandleFrameRequest
    PROVE  FrameInv' /\ FrameStep
<1>1. /\ handled' = handled + 1 /\ handled' \in 1..Len(requests)
      /\ requests[handled'] = "frame" /\ mqtt.at = "idle"
  BY Taking DEF HandleFrameRequest
<1>2. handled \in Nat /\ Len(requests) \in Nat /\ UNCHANGED <<requests, frameVars>>
  BY LenProperties DEF WorkInv, HandleFrameRequest
<1>3. handled' \in Numbers(requests) /\ answers[handled'] = <<>>
  BY <1>1, <1>2 DEF FrameInv, Numbers
<1>4. CASE topicHandle = 0
  <2>1. mqtt'.at = "subscribe" /\ mqtt'.request = handled' /\ UNCHANGED answers
    BY <1>4, Taking DEF HandleFrameRequest, Step
  <2>2. \A n \in Numbers(requests)' :
           n > handled' /\ requests'[n] = "frame" => answers'[n] = <<>>
    BY <1>1, <1>2, <2>1 DEF FrameInv, Numbers
  <2>3. answers'[mqtt'.request] = <<>>
    BY <1>3, <2>1
  <2>4. QED
    BY <1>1, <1>2, <1>4, <2>1, <2>2, <2>3 DEF FrameInv, FrameStep, frameVars
<1>5. CASE topicHandle # 0
  <2>1. Answer(handled', "refused") /\ UNCHANGED mqtt
    BY <1>5 DEF HandleFrameRequest
  <2>2. handled' \in Nat
    BY <1>1, <1>2
  <2>3. \A n \in Numbers(requests) : n # handled' => answers'[n] = answers[n]
    BY <2>1, <2>2, AnswerOne DEF WorkInv, Reply, Numbers
  <2>4. topicHandle \in 1..handled /\ requests[topicHandle] = "frame" /\ answers[topicHandle] = <<>>
    BY <1>5 DEF FrameInv
  <2>5. topicHandle \in Unanswered("frame") /\ topicHandle < handled'
    BY <1>1, <1>2, <2>4 DEF Unanswered, Numbers
  <2>6. FrameStep
    BY <1>3, <2>3, <2>5 DEF FrameStep
  <2>7. answers'[topicHandle] = <<>>
    BY <1>1, <1>2, <2>3, <2>4 DEF Numbers
  <2>8. \A n \in Numbers(requests)' :
           n > handled' /\ requests'[n] = "frame" => answers'[n] = <<>>
    BY <1>1, <1>2, <2>3 DEF FrameInv, Numbers
  <2>9. topicHandle \in 1..handled'
    BY <1>1, <1>2, <2>4
  <2>10. QED
    BY <1>1, <1>2, <1>5, <2>1, <2>4, <2>6, <2>7, <2>8, <2>9 DEF FrameInv, frameVars
<1>6. QED
  BY <1>4, <1>5

\* The subscription, and what remembers it, are the taken request's.
LEMMA FrameSubscribed ==
    ASSUME WorkInv, FrameInv, WorkInv', CreateSubscription \/ RememberSubscription
    PROVE  FrameInv' /\ FrameStep
<1>1. UNCHANGED <<requests, handled, answers>> /\ FrameStep
  BY DEF CreateSubscription, RememberSubscription, FrameStep
<1>2. mqtt.request \in 1..handled /\ requests[mqtt.request] = "frame"
  BY DEF WorkInv, CreateSubscription, RememberSubscription, MqttAt, Step
<1>3. CASE CreateSubscription
  <2>1. mqtt.at = "subscribe" /\ mqtt'.at = "remember" /\ mqtt'.request = mqtt.request
    BY <1>3, Going DEF CreateSubscription, MqttAt, WorkInv, Step
  <2>2. subscriptions = {} /\ subscriptions' = {mqtt.request} /\ UNCHANGED topicHandle
    BY <1>3, <2>1 DEF CreateSubscription, FrameInv
  <2>3. QED
    BY <1>1, <2>1, <2>2 DEF FrameInv, Numbers
<1>4. CASE RememberSubscription
  <2>1. mqtt.at = "remember" /\ mqtt'.at = "idle" /\ topicHandle' = mqtt.request
    BY <1>4, IdleIsWork DEF RememberSubscription, MqttAt
  <2>2. subscriptions' = {mqtt.request} /\ answers[mqtt.request] = <<>> /\ mqtt.request # 0
    BY <1>2, <1>4, <2>1 DEF RememberSubscription, FrameInv, WorkInv
  <2>3. mqtt.request \in Nat
    BY DEF WorkInv, Work
  <2>4. QED
    BY <1>1, <1>2, <2>1, <2>2, <2>3 DEF FrameInv, Numbers
<1>5. QED
  BY <1>3, <1>4

\* The frame that comes is for the one request that waits, and frees the topic.
LEMMA FrameCame ==
    ASSUME WorkInv, FrameInv, WorkInv', NEW n \in subscriptions, ImageCallback(n)
    PROVE  FrameInv' /\ FrameStep
<1>1. UNCHANGED <<requests, handled, mqtt>>
  BY DEF ImageCallback
<1>2. CASE UNCHANGED <<answers, frameVars>>
  BY <1>1, <1>2, NoFrame
<1>3. CASE /\ topicHandle # 0 /\ topicHandle' = 0 /\ Answer(n, "done")
           /\ subscriptions' = subscriptions \ {topicHandle}
  <2>1. mqtt.at \notin {"subscribe", "remember"} /\ subscriptions = {topicHandle} /\ n = topicHandle
    BY <1>3 DEF FrameInv
  <2>2. n \in 1..handled /\ n \in Nat /\ n \in Numbers(requests)
    BY <1>3, <2>1, LenProperties DEF FrameInv, WorkInv, Numbers
  <2>3. answers[n] = <<>>
    BY <1>3, <2>1 DEF FrameInv
  <2>4. /\ \A m \in Numbers(requests) : m # n => answers'[m] = answers[m]
        /\ answers'[n] = Append(<<>>, "done")
    <3>1. /\ \A m \in 1..Len(answers) : m # n => answers'[m] = answers[m]
          /\ n \in 1..Len(answers) => answers'[n] = Append(answers[n], "done")
      BY <1>3, <2>2, AnswerOne DEF WorkInv, Reply
    <3>2. Numbers(requests) = 1..Len(answers)
      BY DEF WorkInv, Numbers
    <3>3. answers'[n] = Append(answers[n], "done")
      BY <2>2, <3>1, <3>2
    <3>4. QED
      BY <2>3, <3>1, <3>2, <3>3
  <2>5. answers'[n] # <<"refused">>
    BY <2>4
  <2>6. FrameStep
    BY <2>3, <2>4, <2>5 DEF FrameStep
  <2>7. handled \in Nat
    BY LenProperties DEF WorkInv
  <2>8. \A m \in Numbers(requests)' :
           m > handled' /\ requests'[m] = "frame" => answers'[m] = <<>>
    BY <1>1, <2>2, <2>4, <2>7 DEF FrameInv, Numbers
  <2>9. QED
    BY <1>1, <1>3, <2>1, <2>6, <2>8 DEF FrameInv
<1>4. QED
  BY <1>2, <1>3 DEF ImageCallback, TopicAfterFrame

\* Every step keeps the invariant and treats frame requests as promised.
LEMMA StepOfFrames ==
    ASSUME WorkInv, FrameInv, WorkInv', [Next]_vars
    PROVE  FrameInv' /\ FrameStep
<1>1. ASSUME NEW kind \in Kind, Request(kind) PROVE FrameInv' /\ FrameStep
  BY <1>1, FrameRequested
<1>2. CASE HandleFrameRequest
  BY <1>2, FrameHandled
<1>3. CASE CreateSubscription \/ RememberSubscription
  BY <1>3, FrameSubscribed
<1>4. CASE Frames
  BY <1>4, FrameCame DEF Frames
<1>5. CASE CameraDies \/ CameraServes \/ FutureDone \/ DropClient \/ UNCHANGED vars
  <2>1. UNCHANGED <<requests, handled, answers, mqtt, frameVars>>
    BY <1>5 DEF CameraDies, CameraServes, FutureDone, DropClient, vars
  <2>2. QED
    BY <2>1, NoFrame
<1>6. ASSUME NEW g \in Goals, GoalResponse(g) PROVE FrameInv' /\ FrameStep
  <2>1. UNCHANGED <<requests, handled, answers, mqtt, frameVars>>
    BY <1>6 DEF GoalResponse
  <2>2. QED
    BY <2>1, NoFrame
<1>7. ASSUME NEW g \in Goals, Result(g) PROVE FrameInv' /\ FrameStep
  <2>1. asked[g] \in Nat /\ goals[g].state \in Reply /\ Answer(asked[g], goals[g].state)
    BY <1>7 DEF Result, WorkInv, Reply
  <2>2. \A n \in Numbers(requests) : n # asked[g] => answers'[n] = answers[n]
    BY <2>1, AnswerOne DEF WorkInv, Numbers
  <2>3. \A n \in Numbers(requests) : requests[n] = "frame" => answers'[n] = answers[n]
    <3>1. asked[g] # 0 => requests[asked[g]] = "run"
      BY DEF WorkInv
    <3>2. 0 \notin Numbers(requests)
      BY DEF Numbers
    <3>3. "run" # "frame"
      OBVIOUS
    <3>4. QED
      BY <2>2, <3>1, <3>2, <3>3, Zenon
  <2>4. UNCHANGED <<requests, handled, mqtt, frameVars>>
    BY <1>7 DEF Result
  <2>5. QED
    BY <2>3, <2>4, NoFrame
<1>8. CASE WaitForFuture
  <2>1. mqtt.request \in Nat /\ requests[mqtt.request] # "frame" /\ mqtt.at = "waitForFuture"
    BY <1>8 DEF WaitForFuture, MqttAt, WorkInv, Work, ServiceKind
  <2>2. \A n \in Numbers(requests) : n # mqtt.request => answers'[n] = answers[n]
    BY <1>8, <2>1, AnswerOne DEF WaitForFuture, WorkInv, Reply, Numbers
  <2>3. mqtt'.at \in {"idle", "dead"} /\ UNCHANGED <<requests, handled, frameVars>>
    BY <1>8, Going, IdleIsWork DEF WaitForFuture, WorkInv, Step
  <2>4. QED
    BY <2>1, <2>2, <2>3, NoFrame
<1>9. CASE AnswerDirectly
  <2>1. /\ handled' = handled + 1 /\ handled' \in Nat /\ requests[handled'] = "direct"
        /\ Answer(handled', "done") /\ UNCHANGED <<requests, mqtt, frameVars>>
    BY <1>9, Taking DEF AnswerDirectly
  <2>2. \A n \in Numbers(requests) : n # handled' => answers'[n] = answers[n]
    BY <2>1, AnswerOne DEF WorkInv, Reply, Numbers
  <2>3. QED
    BY <2>1, <2>2, NoFrame
<1>10. CASE HandleAbortRequest
  <2>1. /\ handled' = handled + 1 /\ handled' \in Nat /\ requests[handled'] = "abort"
        /\ mqtt.at = "idle" /\ UNCHANGED <<requests, frameVars>>
    BY <1>10, Taking DEF HandleAbortRequest
  <2>2. CASE Answer(handled', "tooEarly") /\ UNCHANGED mqtt
    <3>1. \A n \in Numbers(requests) : n # handled' => answers'[n] = answers[n]
      BY <2>1, <2>2, AnswerOne DEF WorkInv, Reply, Numbers
    <3>2. QED
      BY <2>1, <2>2, <3>1, NoFrame
  <2>3. CASE mqtt'.at = "cancel" /\ UNCHANGED answers
    BY <2>1, <2>3, NoFrame
  <2>4. QED
    BY <1>10, <2>2, <2>3 DEF HandleAbortRequest
<1>11. CASE HandleServiceRequest \/ ReadMalformedRequest \/ HandleRunRequest
  <2>1. /\ handled' = handled + 1 /\ mqtt.at = "idle"
        /\ mqtt'.at \in {"waitForService", "dead", "waitForServer"}
    BY <1>11, Taking DEF HandleServiceRequest, ReadMalformedRequest, HandleRunRequest, Step
  <2>2. UNCHANGED <<requests, answers, frameVars>>
    BY <1>11 DEF HandleServiceRequest, ReadMalformedRequest, HandleRunRequest
  <2>3. QED
    BY <2>1, <2>2, NoFrame
<1>12. CASE WaitForService \/ WaitForServer \/ SendGoal \/ CancelGoal
  <2>1. /\ mqtt.at \in {"waitForService", "waitForServer", "sendGoal", "cancel"}
        /\ mqtt'.at \in {"waitForFuture", "idle", "sendGoal", "dead"}
    BY <1>12, Going, IdleIsWork
       DEF WaitForService, WaitForServer, SendGoal, CancelGoal, MqttAt, WorkInv, Step
  <2>2. UNCHANGED <<requests, handled, answers, frameVars>>
    BY <1>12 DEF WaitForService, WaitForServer, SendGoal, CancelGoal
  <2>3. QED
    BY <2>1, <2>2, NoFrame
<1>13. QED
  BY <1>1, <1>2, <1>3, <1>4, <1>5, <1>6, <1>7, <1>8, <1>9, <1>10, <1>11, <1>12
     DEF Next, MqttThread, Executor

\* A topic is subscribed for one frame request at a time.
THEOREM FrameInvariant == Spec => []FrameInv
<1>1. Init => FrameInv
  BY IdleIsWork DEF Init, FrameInv, Numbers
<1>2. WorkInv /\ WorkInv' /\ FrameInv /\ [Next]_vars => FrameInv'
  BY StepOfFrames
<1>3. QED
  BY <1>1, <1>2, WorkInvariant, PTL DEF Spec

\* A frame request is answered once, and refused only while an earlier one waits for
\* its frame, however the two threads of the bridge meet.
THEOREM FramesAreAnsweredOneAtATime == Spec => FramesOneAtATime
<1>1. WorkInv /\ WorkInv' /\ FrameInv /\ [Next]_vars => [FrameStep]_vars
  BY StepOfFrames
<1>2. Spec => [][FrameStep]_vars
  BY <1>1, WorkInvariant, FrameInvariant, PTL DEF Spec
<1>3. QED
  BY <1>2 DEF FramesOneAtATime, FrameStep
-------------------------------------------------------------------------------
\* With patient users and threads that leave each other's steps alone there is one
\* client at a time, for the one run that has no answer yet: it is there until the
\* goal's result has come, and the goal handle is that of its goal.  The topic of a
\* subscription is known before a frame can come.
CalmInv ==
    setup.calm /\ setup.patient =>
        /\ executor # "crashed" /\ (mqtt.at = "dead" => requests[mqtt.request] \in Raises)
        /\ clients \in Nat /\ actionClient \in {0, clients} /\ goalHandle \in {0, actionClient}
        /\ live = {actionClient} \ {0}
        /\ \A m, n \in Unanswered("run") : m = n
        /\ \A n \in Numbers(requests) : requests[n] = "run" /\ n > handled => answers[n] = <<>>
        /\ executor = "dropping" => actionClient # 0
        /\ actionClient # 0 /\ executor # "dropping" => \E n \in Unanswered("run") : n <= handled
        /\ mqtt.at \in {"waitForServer", "sendGoal"} =>
              /\ actionClient # 0 /\ executor # "dropping"
              /\ \A g \in Goals : g = actionClient => asked[g] = 0
        /\ mqtt.at = "cancel" => /\ actionClient # 0 /\ executor # "dropping"
                                 /\ mqtt.goal = actionClient
        /\ \A g \in Goals : /\ goals[g].state # "none" => asked[g] # 0
                            /\ asked[g] # 0 => g <= clients /\ asked[g] <= handled
        /\ topicHandle # 0 => topicKnown

\* The camera runs only goals that were sent to it.
LEMMA GoalsWereSent ==
    ASSUME CalibrationTypeOK, GoalsHaveThreads, CameraServes,
           \A g \in Goals : goals[g].state # "none" => asked[g] # 0
    PROVE  \A g \in Goals : goals'[g].state # "none" => asked[g] # 0
<1>1. CASE UNCHANGED goals
  BY <1>1
<1>2. ASSUME NEW g \in Goals, asked[g] # 0,
             \A f \in Goals : f # g => goals'[f] = goals[f]
      PROVE  \A f \in Goals : goals'[f].state # "none" => asked[f] # 0
  BY <1>2
<1>3. ASSUME NEW g \in Goals,
             \/ asked[g] # 0 /\ HandleGoal(g)
             \/ g \in cancels /\ goals[g].state = "executing" /\ HandleCancel(g)
             \/ ExecuteEnds(g)
             \/ \E p \in {50, 100} : Progress(g, p)
      PROVE  asked[g] # 0 /\ \A f \in Goals : f # g => goals'[f] = goals[f]
  <2>1. goals[g].thread = "running" => goals[g].state # "none"
    BY DEF GoalsHaveThreads
  <2>2. asked[g] # 0
    BY <1>3, <2>1 DEF ExecuteEnds, Progress
  <2>3. \A f \in Goals : f # g => goals'[f] = goals[f]
    BY <1>3 DEF HandleGoal, HandleCancel, ExecuteEnds, Progress, CalibrationTypeOK
  <2>4. QED
    BY <2>2, <2>3
<1>4. QED
  BY <1>1, <1>2, <1>3 DEF CameraServes

\* A step that touches neither clients nor the answers to runs.
LEMMA ClientsLeft ==
    ASSUME WorkInv, CalmInv,
           UNCHANGED <<setup, requests, clients, live, actionClient, goalHandle, asked>>,
           \/ UNCHANGED executor
           \/ executor' = "idle" /\ executor # "dropping",
           handled' = handled \/ handled' = handled + 1,
           \A n \in Numbers(requests) : requests[n] = "run" => answers'[n] = answers[n],
           \/ UNCHANGED mqtt
           \/ mqtt'.at = "dead" /\ requests[mqtt'.request] \in Raises
           \/ mqtt'.at \notin {"dead", "waitForServer", "sendGoal", "cancel"}
           \/ mqtt.at = "waitForServer" /\ mqtt'.at = "sendGoal",
           \A g \in Goals : goals'[g].state # "none" => asked[g] # 0,
           topicHandle' # 0 => topicKnown'
    PROVE  CalmInv'
<1> SUFFICES ASSUME setup.calm, setup.patient PROVE CalmInv'
  BY DEF CalmInv
<1>1. Unanswered("run")' = Unanswered("run")
  BY DEF Unanswered, Numbers
<1>2. handled \in Nat /\ handled' \in Nat /\ handled <= handled'
  BY LenProperties DEF WorkInv
<1>3. \A n \in Numbers(requests) : n \in Nat
  BY DEF Numbers
<1>4. \A n \in Numbers(requests) : requests[n] = "run" /\ n > handled' => answers'[n] = <<>>
  BY <1>2, <1>3 DEF CalmInv
<1>5. \A n \in Unanswered("run") : n <= handled => n <= handled'
  BY <1>2, <1>3 DEF Unanswered
<1>6. \A g \in Goals : asked[g] # 0 => g <= clients /\ asked[g] <= handled'
  BY <1>2 DEF CalmInv, WorkInv
<1>7. QED
  BY <1>1, <1>4, <1>5, <1>6 DEF CalmInv, Numbers

\* Users who wait ask for a run only when no other one is without an answer.
LEMMA RunRequested ==
    ASSUME WorkInv, CalmInv, NEW kind \in Kind, Request(kind)
    PROVE  CalmInv'
<1> SUFFICES ASSUME setup.calm, setup.patient PROVE CalmInv'
  BY DEF CalmInv, Request
<1> DEFINE new == Len(requests) + 1
<1>1. /\ Len(requests) \in Nat /\ Len(requests') = new
      /\ \A n \in Numbers(requests) : requests'[n] = requests[n] /\ answers'[n] = answers[n]
      /\ answers'[new] = <<>> /\ requests'[new] = kind
  <2>1. /\ requests \in Seq(Kind) /\ requests' = Append(requests, kind)
        /\ Len(answers) = Len(requests)
    BY DEF WorkInv, Request
  <2>2. Len(requests) \in Nat /\ requests'[new] = kind
    BY <2>1, LenProperties, AppendProperties
  <2>3. QED
    BY <2>1, <2>2, RequestAdded
<1>2. UNCHANGED <<setup, handled, mqtt, executor, actionVars, frameVars>>
  BY DEF Request
<1>3. /\ Numbers(requests)' = Numbers(requests) \cup {new}
      /\ \A n \in Numbers(requests) : n \in Nat /\ n # new
  BY <1>1 DEF Numbers
<1>4. Unanswered("run")' = IF kind = "run" THEN Unanswered("run") \cup {new} ELSE Unanswered("run")
  BY <1>1, <1>3 DEF Unanswered
<1>5. kind = "run" => Unanswered("run") = {}
  BY DEF Request
<1>6. \A m, n \in Unanswered("run")' : m = n
  BY <1>4, <1>5 DEF CalmInv
<1>7. \A n \in Numbers(requests)' : requests'[n] = "run" /\ n > handled => answers'[n] = <<>>
  BY <1>1, <1>3 DEF CalmInv
<1>8. Unanswered("run") \subseteq Unanswered("run")'
  BY <1>4
<1>9. mqtt.at = "dead" => requests'[mqtt.request] \in Raises
  <2>1. mqtt.at = "dead" => mqtt.request \in Numbers(requests)
    BY <1>1 DEF WorkInv, Numbers
  <2>2. QED
    BY <1>1, <2>1 DEF CalmInv
<1>10. QED
  BY <1>2, <1>6, <1>7, <1>8, <1>9 DEF CalmInv, actionVars, frameVars

\* A run gets a client when the last one is gone.
LEMMA RunHandled ==
    ASSUME WorkInv, CalmInv, HandleRunRequest
    PROVE  CalmInv'
<1> SUFFICES ASSUME setup.calm, setup.patient PROVE CalmInv'
  BY DEF CalmInv, HandleRunRequest
<1>1. /\ handled' = handled + 1 /\ handled' \in 1..Len(requests) /\ requests[handled'] = "run"
      /\ mqtt'.at = "waitForServer" /\ handled \in Nat
  BY Taking, LenProperties DEF HandleRunRequest, Step, WorkInv
<1>2. /\ UNCHANGED <<setup, requests, answers, executor, goals, goalHandle, asked, frameVars>>
      /\ clients' = clients + 1 /\ actionClient' = clients' /\ live' = live \cup {clients'}
  BY DEF HandleRunRequest
<1>3. executor # "dropping" /\ executor # "crashed"
  BY DEF HandleRunRequest, Take, CalmInv
<1>4. handled' \in Unanswered("run") /\ ~ handled' <= handled
  BY <1>1 DEF Unanswered, CalmInv, Numbers
<1>5. actionClient = 0
  <2>1. ASSUME NEW n \in Unanswered("run"), n <= handled PROVE FALSE
    BY <1>4, <2>1 DEF CalmInv
  <2>2. QED
    BY <1>3, <2>1 DEF CalmInv
<1>6. clients \in Nat /\ clients' \in Nat /\ clients' # 0 /\ live = {} /\ goalHandle = 0
  BY <1>2, <1>5 DEF CalmInv
<1>7. \A g \in Goals : /\ asked[g] # 0 => g <= clients' /\ asked[g] <= handled'
                       /\ g = clients' => asked[g] = 0
  <2>1. PICK c \in Nat : c = clients
    BY <1>6
  <2>2. PICK h \in Nat : h = handled
    BY <1>1
  <2>3. \A g \in Goals : asked[g] # 0 => g <= c /\ asked[g] <= h
    BY <2>1, <2>2 DEF CalmInv
  <2>4. \A g \in Goals : g \in Nat /\ asked[g] \in Nat
    BY DEF WorkInv, Goals
  <2>5. \A g \in Goals : /\ asked[g] # 0 => g <= c + 1 /\ asked[g] <= h + 1
                         /\ g = c + 1 => asked[g] = 0
    BY <2>3, <2>4
  <2>6. clients' = c + 1 /\ handled' = h + 1
    BY <1>1, <1>2, <2>1, <2>2
  <2>7. QED
    BY <2>5, <2>6
<1>8. Unanswered("run")' = Unanswered("run") /\ handled' \in Unanswered("run")'
  BY <1>2, <1>4 DEF Unanswered, Numbers
<1>9. \A n \in Numbers(requests) : requests[n] = "run" /\ n > handled' => answers[n] = <<>>
  BY <1>1 DEF CalmInv, Numbers
<1>10. \E n \in Unanswered("run")' : n <= handled'
  BY <1>1, <1>8
<1>11. QED
  BY <1>1, <1>2, <1>3, <1>6, <1>7, <1>8, <1>9, <1>10 DEF CalmInv, frameVars, Numbers

\* The goal is sent with the client that its run created.
LEMMA GoalSent ==
    ASSUME WorkInv, CalmInv, SendGoal
    PROVE  CalmInv'
<1> SUFFICES ASSUME setup.calm, setup.patient PROVE CalmInv'
  BY DEF CalmInv, SendGoal
<1>1. mqtt.at = "sendGoal" /\ actionClient # 0 /\ executor # "dropping" /\ actionClient = clients
  BY DEF SendGoal, MqttAt, CalmInv
<1>2. /\ actionClient \in live
      /\ UNCHANGED <<setup, requests, handled, answers, executor, goals, clients, live, actionClient,
                     goalHandle, frameVars>>
      /\ asked' = [asked EXCEPT ![actionClient] = mqtt.request] /\ mqtt'.at = "idle"
  BY <1>1, IdleIsWork DEF SendGoal, CalmInv
<1>3. mqtt.request # 0 /\ mqtt.request <= handled /\ asked \in [Goals -> Nat]
  BY <1>1 DEF WorkInv, Step
<1>4. \A g \in Goals : asked'[g] = IF g = actionClient THEN mqtt.request ELSE asked[g]
  BY <1>2, <1>3
<1>5. \A g \in Goals : /\ goals[g].state # "none" => asked'[g] # 0
                       /\ asked'[g] # 0 => g <= clients /\ asked'[g] <= handled
  BY <1>1, <1>3, <1>4 DEF CalmInv
<1>6. Unanswered("run")' = Unanswered("run")
  BY <1>2 DEF Unanswered, Numbers
<1>7. QED
  BY <1>2, <1>5, <1>6 DEF CalmInv, Numbers, frameVars

\* A goal is canceled with its own client, which is there until the result has come.
LEMMA GoalCanceled ==
    ASSUME WorkInv, CalmInv, HandleAbortRequest \/ CancelGoal
    PROVE  CalmInv'
<1> SUFFICES ASSUME setup.calm, setup.patient PROVE CalmInv'
  BY DEF CalmInv, HandleAbortRequest, CancelGoal
<1>1. CASE HandleAbortRequest
  <2>1. /\ handled' = handled + 1 /\ handled' \in Nat /\ requests[handled'] = "abort"
        /\ mqtt.at = "idle"
    BY <1>1, Taking DEF HandleAbortRequest
  <2>2. UNCHANGED <<setup, requests, executor, actionVars, frameVars>>
    BY <1>1 DEF HandleAbortRequest
  <2>3. CASE Answer(handled', "tooEarly") /\ UNCHANGED mqtt
    <3>1. \A n \in Numbers(requests) : n # handled' => answers'[n] = answers[n]
      BY <2>1, <2>3, AnswerOne DEF WorkInv, Reply, Numbers
    <3>2. QED
      BY <2>1, <2>2, <2>3, <3>1, ClientsLeft DEF actionVars, frameVars, CalmInv
  <2>4. CASE /\ actionClient # 0 /\ goalHandle # 0 /\ UNCHANGED answers
             /\ mqtt' = [at |-> "cancel", request |-> handled', goal |-> goalHandle]
    <3>1. executor # "dropping"
      BY <1>1 DEF HandleAbortRequest, Take
    <3>2. mqtt'.at = "cancel" /\ mqtt'.goal = actionClient
      BY <2>4 DEF CalmInv
    <3>3. Unanswered("run")' = Unanswered("run")
      BY <2>2, <2>4 DEF Unanswered, Numbers
    <3>4. handled \in Nat /\ \A n \in Numbers(requests) : n \in Nat
      BY LenProperties DEF WorkInv, Numbers
    <3>5. \A n \in Numbers(requests) : requests[n] = "run" /\ n > handled' => answers'[n] = <<>>
      BY <2>1, <2>4, <3>4 DEF CalmInv
    <3>6. \A n \in Unanswered("run") : n <= handled => n <= handled'
      BY <2>1, <3>4 DEF Unanswered
    <3>7. \E n \in Unanswered("run")' : n <= handled'
      BY <2>4, <3>1, <3>3, <3>6 DEF CalmInv
    <3>8. \A g \in Goals : asked[g] # 0 => g <= clients /\ asked[g] <= handled'
      BY <2>1, <3>4 DEF CalmInv, WorkInv
    <3>9. QED
      BY <2>2, <2>4, <3>1, <3>2, <3>3, <3>5, <3>7, <3>8 DEF CalmInv, Numbers, frameVars, actionVars
  <2>5. QED
    BY <1>1, <2>3, <2>4 DEF HandleAbortRequest
<1>2. CASE CancelGoal
  <2>1. mqtt.goal \in live
    BY <1>2 DEF CancelGoal, MqttAt, CalmInv
  <2>2. /\ UNCHANGED <<setup, requests, handled, answers, executor, goals, clients, live, actionClient,
                       goalHandle, asked, frameVars>>
        /\ mqtt'.at = "idle"
    BY <1>2, <2>1, IdleIsWork DEF CancelGoal
  <2>3. QED
    BY <2>2, ClientsLeft DEF CalmInv, frameVars
<1>3. QED
  BY <1>1, <1>2

\* The bridge hears that a goal was accepted from the client there is.
LEMMA GoalAnswered ==
    ASSUME WorkInv, CalmInv, NEW g \in Goals, GoalResponse(g)
    PROVE  CalmInv'
<1> SUFFICES ASSUME setup.calm, setup.patient PROVE CalmInv'
  BY DEF CalmInv, GoalResponse
<1>1. /\ UNCHANGED <<setup, requests, handled, answers, mqtt, executor, goals, clients, live,
                     actionClient, asked, frameVars>>
      /\ goalHandle' = g /\ g \in live
  BY DEF GoalResponse
<1>2. g = actionClient
  BY <1>1 DEF CalmInv
<1>3. Unanswered("run")' = Unanswered("run")
  BY <1>1 DEF Unanswered, Numbers
<1>4. QED
  BY <1>1, <1>2, <1>3 DEF CalmInv, Numbers, frameVars

\* A result answers the run; the client is the one to destroy.
LEMMA GoalReported ==
    ASSUME WorkInv, CalmInv, NEW g \in Goals, Result(g)
    PROVE  CalmInv'
<1> SUFFICES ASSUME setup.calm, setup.patient PROVE CalmInv'
  BY DEF CalmInv, Result
<1>1. /\ UNCHANGED <<setup, requests, handled, mqtt, goals, clients, live, actionClient, goalHandle,
                     asked, frameVars>>
      /\ executor' = "dropping" /\ g \in live /\ Answer(asked[g], goals[g].state)
      /\ goals[g].state \in Ended
      /\ mqtt.at \in {"idle", "dead", "waitForService", "waitForFuture", "waitForServer"}
  BY DEF Result, ExecutorRuns
<1>2. g = actionClient /\ actionClient # 0
  BY <1>1 DEF CalmInv
<1>3. asked[g] # 0
  BY <1>1 DEF CalmInv, Ended
<1>4. mqtt.at \notin {"waitForServer", "sendGoal", "cancel"}
  BY <1>1, <1>2, <1>3 DEF CalmInv
<1>5. asked[g] \in Numbers(requests) /\ goals[g].state \in Reply
  BY <1>1, <1>3 DEF WorkInv, Reply
<1>6. /\ \A n \in Numbers(requests) : n # asked[g] => answers'[n] = answers[n]
      /\ answers'[asked[g]] = Append(answers[asked[g]], goals[g].state)
      /\ answers[asked[g]] \in Seq(Reply)
  <2>1. /\ answers \in Seq(Seq(Reply)) /\ Len(answers) = Len(requests)
        /\ asked[g] \in 1..Len(requests) /\ asked[g] \in Nat
    BY <1>5 DEF WorkInv, Numbers
  <2>2. Numbers(requests) = 1..Len(answers) /\ Answer(asked[g], goals[g].state)
        /\ asked[g] \in Nat /\ goals[g].state \in Reply
    <3>1. Answer(asked[g], goals[g].state) /\ goals[g].state \in Reply
      BY <1>1, <1>5
    <3>2. Numbers(requests) = 1..Len(answers)
      BY <2>1 DEF Numbers
    <3>3. asked[g] \in Nat
      BY <2>1
    <3>4. QED
      BY <3>1, <3>2, <3>3
  <2>3. /\ \A n \in Numbers(requests) : n # asked[g] => answers'[n] = answers[n]
        /\ answers'[asked[g]] = Append(answers[asked[g]], goals[g].state)
    <3>1. /\ \A m \in 1..Len(answers) : m # asked[g] => answers'[m] = answers[m]
          /\ asked[g] \in 1..Len(answers)
                => answers'[asked[g]] = Append(answers[asked[g]], goals[g].state)
      BY ONLY <2>1, <2>2, AnswerOne
    <3>2. QED
      BY ONLY <2>1, <2>2, <3>1
  <2>4. answers[asked[g]] \in Seq(Reply)
    BY <2>1, ElementOfSeq
  <2>5. QED
    BY <2>3, <2>4
<1>7. answers'[asked[g]] # <<>>
  BY <1>5, <1>6, AppendProperties
<1>8. Unanswered("run")' \subseteq Unanswered("run")
  <2>1. Numbers(requests)' = Numbers(requests) /\ requests' = requests
    BY <1>1 DEF Numbers
  <2>2. \A n \in Numbers(requests) : answers'[n] = <<>> => answers[n] = <<>>
    BY <1>6, <1>7
  <2>3. QED
    BY <2>1, <2>2 DEF Unanswered
<1>9. asked[g] <= handled
  BY <1>3 DEF CalmInv
<1>10. \A n \in Numbers(requests) : requests[n] = "run" /\ n > handled => answers'[n] = <<>>
  <2>1. handled \in Nat /\ \A n \in Numbers(requests) : n \in Nat
    BY LenProperties DEF WorkInv, Numbers
  <2>2. \A n \in Numbers(requests) : n > handled => n # asked[g]
    BY <1>5, <1>9, <2>1
  <2>3. QED
    BY <1>6, <2>2 DEF CalmInv
<1>11. QED
  BY <1>1, <1>2, <1>4, <1>8, <1>10 DEF CalmInv, Numbers, frameVars

\* The client that is destroyed is there, and the handle of its goal goes with it.
LEMMA ClientDropped ==
    ASSUME WorkInv, CalmInv, DropClient
    PROVE  CalmInv'
<1> SUFFICES ASSUME setup.calm, setup.patient PROVE CalmInv'
  BY DEF CalmInv, DropClient
<1>1. executor = "dropping" /\ actionClient # 0 /\ live = {actionClient}
  BY DEF DropClient, CalmInv
<1>2. /\ UNCHANGED <<setup, requests, handled, answers, mqtt, goals, clients, asked, frameVars>>
      /\ actionClient' = 0 /\ goalHandle' = 0 /\ live' = {} /\ executor' = "idle"
  BY <1>1 DEF DropClient, HandleAfterResult
<1>3. mqtt.at \notin {"waitForServer", "sendGoal", "cancel"}
  BY <1>1 DEF CalmInv
<1>4. Unanswered("run")' = Unanswered("run")
  BY <1>2 DEF Unanswered, Numbers
<1>5. QED
  BY <1>2, <1>3, <1>4 DEF CalmInv, Numbers, frameVars

\* Every step of a calm bridge with patient users keeps the invariant.
LEMMA StepOfClients ==
    ASSUME WorkInv, FrameInv, CalmInv, CalibrationTypeOK, GoalsHaveThreads, [Next]_vars
    PROVE  CalmInv'
<1> SUFFICES ASSUME setup.calm, setup.patient PROVE CalmInv'
  <2>1. setup' = setup
    BY DEF Next, vars, Request, CameraDies, CameraServes, MqttThread, Executor, Frames,
           AnswerDirectly, ReadMalformedRequest, HandleServiceRequest, WaitForService,
           WaitForFuture, HandleFrameRequest, CreateSubscription, RememberSubscription, HandleRunRequest, WaitForServer, SendGoal,
           HandleAbortRequest, CancelGoal, FutureDone, DropClient, GoalResponse, Result,
           ImageCallback
  <2>2. QED
    BY <2>1 DEF CalmInv
<1>1. /\ \A g \in Goals : goals[g].state # "none" => asked[g] # 0
      /\ topicHandle # 0 => topicKnown
  BY DEF CalmInv
<1>2. ASSUME NEW kind \in Kind, Request(kind) PROVE CalmInv'
  BY <1>2, RunRequested
<1>3. CASE HandleRunRequest
  BY <1>3, RunHandled
<1>4. CASE SendGoal
  BY <1>4, GoalSent
<1>5. CASE HandleAbortRequest \/ CancelGoal
  BY <1>5, GoalCanceled
<1>6. ASSUME NEW g \in Goals, GoalResponse(g) \/ Result(g) PROVE CalmInv'
  BY <1>6, GoalAnswered, GoalReported
<1>7. CASE DropClient
  BY <1>7, ClientDropped
<1>8. CASE CameraServes
  <2>1. \A g \in Goals : goals'[g].state # "none" => asked[g] # 0
    BY <1>1, <1>8, GoalsWereSent
  <2>2. UNCHANGED <<setup, requests, handled, answers, mqtt, executor, clients, live, actionClient,
                    goalHandle, asked, frameVars>>
    BY <1>8 DEF CameraServes
  <2>3. QED
    BY <1>1, <2>1, <2>2, ClientsLeft DEF frameVars
<1>9. CASE CameraDies \/ FutureDone \/ UNCHANGED vars
  <2>1. UNCHANGED <<setup, requests, handled, answers, mqtt, executor, actionVars, frameVars>>
    BY <1>9 DEF CameraDies, FutureDone, vars
  <2>2. QED
    BY <1>1, <2>1, ClientsLeft DEF actionVars, frameVars
<1>10. CASE HandleServiceRequest \/ HandleFrameRequest
  <2>1. /\ handled' = handled + 1 /\ mqtt.at = "idle" /\ handled' \in Nat
        /\ mqtt'.at \in {"idle", "waitForService", "subscribe"}
    BY <1>10, Taking DEF HandleServiceRequest, HandleFrameRequest, Step
  <2>2. UNCHANGED <<setup, requests, executor, actionVars, frameVars>>
    BY <1>10 DEF HandleServiceRequest, HandleFrameRequest
  <2>3. \A n \in Numbers(requests) : requests[n] = "run" => answers'[n] = answers[n]
    <3>1. CASE UNCHANGED answers
      BY <3>1
    <3>2. CASE Answer(handled', "refused") /\ Take("frame")
      <4>1. requests[handled'] = "frame" /\ "frame" # "run"
        BY <3>2, Taking
      <4>2. \A n \in Numbers(requests) : n # handled' => answers'[n] = answers[n]
        BY <2>1, <3>2, AnswerOne DEF WorkInv, Reply, Numbers
      <4>3. QED
        BY <4>1, <4>2, Zenon
    <3>3. QED
      BY <1>10, <3>1, <3>2 DEF HandleServiceRequest, HandleFrameRequest
  <2>4. QED
    BY <1>1, <2>1, <2>2, <2>3, ClientsLeft DEF actionVars, frameVars
<1>11. CASE AnswerDirectly
  <2>1. /\ handled' = handled + 1 /\ handled' \in Nat /\ requests[handled'] = "direct"
        /\ Answer(handled', "done") /\ "direct" # "run"
        /\ UNCHANGED <<setup, requests, mqtt, executor, actionVars, frameVars>>
    BY <1>11, Taking DEF AnswerDirectly
  <2>2. \A n \in Numbers(requests) : n # handled' => answers'[n] = answers[n]
    BY <2>1, AnswerOne DEF WorkInv, Reply, Numbers
  <2>3. \A n \in Numbers(requests) : requests[n] = "run" => answers'[n] = answers[n]
    BY <2>1, <2>2, Zenon
  <2>4. QED
    BY <1>1, <2>1, <2>3, ClientsLeft DEF actionVars, frameVars
<1>17. CASE ReadMalformedRequest
  <2>1. /\ handled' = handled + 1 /\ requests[handled'] = "malformed"
        /\ mqtt'.at = "dead" /\ mqtt'.request = handled'
        /\ UNCHANGED <<setup, requests, answers, executor, actionVars, frameVars>>
    BY <1>17, Taking DEF ReadMalformedRequest, Step
  <2>2. requests[mqtt'.request] \in Raises
    BY <2>1 DEF Raises
  <2>3. QED
    BY <1>1, <2>1, <2>2, ClientsLeft DEF actionVars, frameVars
<1>12. CASE WaitForFuture
  <2>1. /\ mqtt.request \in Nat /\ requests[mqtt.request] # "run"
    BY <1>12 DEF WaitForFuture, MqttAt, WorkInv, Work, ServiceKind
  <2>2. \A n \in Numbers(requests) : n # mqtt.request => answers'[n] = answers[n]
    BY <1>12, <2>1, AnswerOne DEF WaitForFuture, WorkInv, Reply, Numbers
  <2>3. \A n \in Numbers(requests) : requests[n] = "run" => answers'[n] = answers[n]
    BY <2>1, <2>2, Zenon
  <2>4. /\ UNCHANGED <<setup, requests, handled, executor, actionVars, frameVars>>
        /\ \/ mqtt'.at = "idle"
           \/ mqtt'.at = "dead" /\ requests[mqtt'.request] \in Raises
    BY <1>12, Going, IdleIsWork DEF WaitForFuture, WorkInv, Step, Asking, Raises
  <2>5. QED
    BY <1>1, <2>3, <2>4, ClientsLeft DEF actionVars, frameVars
<1>13. CASE WaitForService \/ CreateSubscription \/ WaitForServer
  <2>1. \/ mqtt'.at \in {"waitForFuture", "remember", "idle"}
        \/ mqtt'.at = "dead" /\ requests[mqtt'.request] \in Raises
        \/ mqtt.at = "waitForServer" /\ mqtt'.at = "sendGoal"
    BY <1>13, Going, IdleIsWork
       DEF WaitForService, CreateSubscription, WaitForServer, MqttAt, WorkInv, Step, Asking, Raises
  <2>2. UNCHANGED <<setup, requests, handled, answers, executor, actionVars, topicHandle, topicKnown>>
    BY <1>13 DEF WaitForService, CreateSubscription, WaitForServer, frameVars
  <2>3. QED
    BY <1>1, <2>1, <2>2, ClientsLeft DEF actionVars
<1>14. CASE RememberSubscription
  BY <1>1, <1>14, ClientsLeft, IdleIsWork DEF RememberSubscription, actionVars
<1>15. ASSUME NEW n \in subscriptions, ImageCallback(n) PROVE CalmInv'
  <2>1. /\ UNCHANGED <<setup, requests, handled, mqtt, actionVars>>
        /\ mqtt.at # "remember" /\ mqtt.at # "subscribe"
    BY <1>15 DEF ImageCallback, ExecutorRuns
  <2>2. topicHandle # 0 /\ n = topicHandle /\ topicKnown
    BY <1>1, <2>1 DEF FrameInv
  <2>3. /\ requests[n] = "frame" /\ "frame" # "run" /\ n \in Nat
        /\ topicHandle' = 0 /\ UNCHANGED executor /\ Answer(n, "done")
    BY <1>15, <2>2 DEF FrameInv, ImageCallback, TopicAfterFrame
  <2>4. \A m \in Numbers(requests) : m # n => answers'[m] = answers[m]
    BY <2>3, AnswerOne DEF WorkInv, Reply, Numbers
  <2>5. \A m \in Numbers(requests) : requests[m] = "run" => answers'[m] = answers[m]
    BY <2>3, <2>4, Zenon
  <2>6. QED
    BY <1>1, <2>1, <2>3, <2>5, ClientsLeft DEF actionVars
<1>16. QED
  BY <1>2, <1>3, <1>4, <1>5, <1>6, <1>7, <1>8, <1>9, <1>10, <1>11, <1>12, <1>13, <1>14, <1>15,
     <1>17 DEF Next, MqttThread, Executor, Frames

\* With patient users and calm threads there is one client at a time, which outlives
\* its goal.
THEOREM CalmInvariant == Spec => []CalmInv
<1>1. Init => CalmInv
  <2> SUFFICES ASSUME Init PROVE CalmInv
    OBVIOUS
  <2>1. /\ Numbers(requests) = {} /\ mqtt.at = "idle" /\ executor = "idle" /\ live = {}
        /\ clients = 0 /\ actionClient = 0 /\ goalHandle = 0 /\ topicHandle = 0
    BY IdleIsWork DEF Init, Numbers
  <2>2. \A g \in Goals : goals[g].state = "none" /\ asked[g] = 0
    BY DEF Init, CalibrationInit
  <2>3. Unanswered("run") = {}
    BY <2>1 DEF Unanswered
  <2>4. /\ live = {actionClient} \ {0} /\ clients \in Nat
        /\ actionClient \in {0, clients} /\ goalHandle \in {0, actionClient}
    BY <2>1
  <2>5. /\ executor \notin {"crashed", "dropping"}
        /\ mqtt.at \notin {"dead", "waitForServer", "sendGoal", "cancel"}
    BY <2>1
  <2>6. /\ \A m, n \in Unanswered("run") : m = n
        /\ \A n \in Numbers(requests) : requests[n] = "run" /\ n > handled => answers[n] = <<>>
    BY <2>1, <2>3
  <2>7. /\ \A g \in Goals : /\ goals[g].state # "none" => asked[g] # 0
                            /\ asked[g] # 0 => g <= clients /\ asked[g] <= handled
        /\ topicHandle # 0 => topicKnown
    BY <2>1, <2>2
  <2>8. QED
    BY <2>1, <2>4, <2>5, <2>6, <2>7 DEF CalmInv
<1>2. WorkInv /\ FrameInv /\ CalmInv /\ CalibrationTypeOK /\ GoalsHaveThreads /\ [Next]_vars
      => CalmInv'
  BY StepOfClients
<1>3. Spec => []CalibrationTypeOK /\ [](GoalsHaveThreads /\ GoalsEndAsTheyRan)
  BY BridgeUsesTheAction, CalibrationTypeCorrect, GoalsEndWithTheirThreads
<1>4. QED
  BY <1>1, <1>2, <1>3, WorkInvariant, FrameInvariant, PTL DEF Spec

\* Users who wait for a calibration before they ask for the next bring neither thread of
\* the bridge down, for every number of requests, goals and frames, but by a request
\* whose own handler raises.
THEOREM PatientUsersAreSafe == Spec => []BridgeSurvives
<1>1. CalmInv => BridgeSurvives
  BY DEF CalmInv, BridgeSurvives
<1>2. QED
  BY <1>1, CalmInvariant, PTL
===============================================================================
