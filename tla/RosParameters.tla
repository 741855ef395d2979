--------------------------- MODULE RosParameters ---------------------------
(***************************************************************************)
(* The dynamic parameters of the RealSense wrapper.  Each parameter lives  *)
(* twice: in the ROS parameter server, and in a variable of the program or *)
(* an option of the device.  A set request calls a function that brings    *)
(* the value to the program.  A value that the program does not take is    *)
(* reverted: because the server cannot be changed from within its own      *)
(* callback, the function queues the old value, and the update thread sets *)
(* it later, with a mark that keeps the callback from calling the function.*)
(*                                                                         *)
(* One parameter stands for each kind of function:                         *)
(*   profile      the profile, format, rate and QoS of a stream: checked   *)
(*                against what the device supports, and reverted if it is  *)
(*                not; value 3 is not supported                            *)
(*   enable       setParamT and enable_<stream>: taken as it is            *)
(*   gain         an option of the device, which may refuse it by throwing *)
(*   sequence_id  selects a bank of gain; queues that gain's new value     *)
(*   right        an edge of the region of interest, cut to the image,     *)
(*                which is 2 wide                                          *)
(* Value 0 is a value of a wrong type: all parameters are declared with    *)
(* dynamic typing, so it reaches the function, whose get_value throws.     *)
(* Given at launch it stays in the server, and no function is registered   *)
(* for the parameter: users' values reach the server only.                 *)
(***************************************************************************)
EXTENDS Integers, SequencesExt

CONSTANTS Refuses,     \* options the device may refuse
          MaxRemovals, \* bound: parameters removed
          Settings     \* the settings to start with

Param == {"profile", "enable", "gain", "sequence_id", "right"}
Option == {"gain", "sequence_id"}
Mistyped == 0
NotGiven == 4

\* Values given at launch; an option outside its range is not declared at all.
Launch == {launch \in [Param -> 0..NotGiven] : \A p \in Option : launch[p] # 3}

\* The parameters the device has, what is given for them at launch, whether users
\* also set two parameters atomically, whether users and devices wait for pending
\* reverts, and how many requests users make (bound).
Setting == [used : SUBSET Param, launch : Launch, groups : BOOLEAN, patient : BOOLEAN,
            sets : Nat]

ASSUME RosParametersAssumption ==
    /\ Refuses \subseteq Option
    /\ MaxRemovals \in Nat
    /\ \A setting \in Settings : setting \in Setting

VARIABLES
    setup,      \* the setting, which nothing changes
    declared,   \* parameters declared in the server
    functions,  \* _param_functions: those with a function
    shown,      \* their values in the server
    program,    \* the program's variables and the device's gains
    queue,      \* _update_functions_v
    marks,      \* self_set_parameters
    update,     \* the update thread, and the value it is about to set
    running,    \* _is_running
    terminated, \* the process died of an uncaught exception or a bad access
    sets, removals

userVars == <<sets, removals>>
vars == <<setup, declared, functions, shown, program, queue, marks, update, running, terminated, userVars>>

Width == 2
FromDevice == 0  \* queued by set_sensor_parameter_to_ros: read when it is run

\* The value of parameter p in the program.
InProgram(p) == IF p = "gain" THEN program.gains[program.sequence_id] ELSE program[p]

Idle == [at |-> "waiting", name |-> "profile", value |-> 0]

Init ==
    /\ setup \in Settings
    /\ declared = {} /\ functions = {} /\ shown = [p \in Param |-> 1]
    /\ program = [profile |-> 1, enable |-> 1, sequence_id |-> 1, right |-> Width - 1,
                  gains |-> <<1, 1>>]
    /\ queue = <<>> /\ marks = <<>> /\ update = Idle
    /\ running = TRUE /\ terminated = FALSE
    /\ sets = 0 /\ removals = 0

----------------------------------------------------------------------------
\* The functions.  A call maps a state of the callback to the next one:
\* shown is what get_parameter returns meanwhile, ok whether no function has
\* thrown, overflow whether one has called itself without end.

CallState == [shown |-> shown, program |-> program, queue |-> queue, marks |-> marks,
              ok |-> TRUE, overflow |-> FALSE]

Thrown(st) == [st EXCEPT !.ok = FALSE]

\* queueSetRosValue and pushUpdateFunctions
Queued(st, name, value) == [st EXCEPT !.queue = Append(@, [name |-> name, value |-> value])]

\* Mutant: the variable is assigned before the value is checked.
CheckedLate(st, v) == Queued([st EXCEPT !.program.profile = v], "profile", st.program.profile)
Checked(st, v) ==
    IF v \in {1, 2} THEN [st EXCEPT !.program.profile = v]
                    ELSE Queued(st, "profile", st.program.profile)

SetOption(st, v, refused) ==
    IF "gain" \in refused THEN Thrown(st)
    ELSE [st EXCEPT !.program.gains[st.program.sequence_id] = v]

\* SAFE_SET_OPTION catches the refusal.
\* Mutant: the gain of the other bank is not brought to the server.
SetSequenceIdOnly(st, v, refused) ==
    IF "sequence_id" \in refused THEN st ELSE [st EXCEPT !.program.sequence_id = v]
SetSequenceId(st, v, refused) ==
    Queued(IF "sequence_id" \in refused THEN st ELSE [st EXCEPT !.program.sequence_id = v],
           "gain", FromDevice)

\* An edge beyond the image is cut by setParamValue, which finds no name for
\* the variable, and the edges are registered again: that sets the variable to
\* the server's value.  If that one lies beyond the image too, its function
\* registers the edges again, and so on.
SetRoi(st, v) ==
    IF v <= Width THEN [st EXCEPT !.program.right = v]
    ELSE IF st.shown["right"] <= Width THEN [st EXCEPT !.program.right = st.shown["right"]]
    ELSE [st EXCEPT !.overflow = TRUE]

Call(st, p, v, refused) ==
    IF v = Mistyped THEN Thrown(st)
    ELSE CASE p = "profile"     -> Checked(st, v)
           [] p = "enable"      -> [st EXCEPT !.program.enable = v]
           [] p = "gain"        -> SetOption(st, v, refused)
           [] p = "sequence_id" -> SetSequenceId(st, v, refused)
           [] p = "right"       -> SetRoi(st, v)

\* The callback for one parameter of a request: a mark replaces the call, and
\* nothing is done, also to a mark, for a parameter without a function.
\* Mutant: the mark is not erased.
CallbackKeepsMark(st, p, v, refused) ==
    IF p \notin functions \/ Contains(st.marks, p) THEN st ELSE Call(st, p, v, refused)
Callback(st, p, v, refused) ==
    IF p \notin functions THEN st
    ELSE IF Contains(st.marks, p) THEN [st EXCEPT !.marks = RemoveFirst(@, p)]
    ELSE Call(st, p, v, refused)

----------------------------------------------------------------------------
\* Requests of users; the server handles one at a time.

Quiet == queue = <<>> /\ update.at = "waiting"
Inputs(p) == IF p \in {"profile", "right"} THEN 0..3 ELSE 0..2

Requests ==
    LET Single == {<<x>> : x \in UNION {{p} \X Inputs(p) : p \in declared}}
        Pairs == {<<x[1], y[1]>> : x, y \in Single}
    IN Single \cup (IF setup.groups THEN {r \in Pairs : r[1][1] # r[2][1]} ELSE {})

\* The functions of all parameters are called, also after one has thrown.
AfterCallbacks(request, refused) ==
    LET after[i \in 0..Len(request)] ==
            IF i = 0 THEN CallState
            ELSE Callback(after[i - 1], request[i][1], request[i][2], refused)
    IN after[Len(request)]

\* set_parameters_atomically: then all values are taken by the server or none.
SetParameters(request, refused) ==
    LET st == AfterCallbacks(request, refused)
        Set(p) == \E i \in 1..Len(request) : request[i][1] = p
        Value(p) == request[CHOOSE i \in 1..Len(request) : request[i][1] = p][2]
    IN /\ program' = st.program /\ queue' = st.queue /\ marks' = st.marks
       /\ shown' = IF st.ok THEN [p \in Param |-> IF Set(p) THEN Value(p) ELSE shown[p]]
                            ELSE shown
       /\ terminated' = st.overflow

UserSets ==
    /\ running /\ ~ terminated /\ sets < setup.sets
    /\ setup.patient => Quiet
    /\ \E request \in Requests, refused \in SUBSET Refuses : SetParameters(request, refused)
    /\ sets' = sets + 1
    /\ UNCHANGED <<setup, declared, functions, update, running, removals>>

----------------------------------------------------------------------------
\* A device comes and goes: its parameters are declared and removed.

Initial(p) == IF p \in Option THEN InProgram(p) ELSE 1
Fresh(p) == IF p \in Option THEN program ELSE [program EXCEPT ![p] = Initial(p)]

\* What a value given at launch does.  A sequence_id is set as any option first;
\* the function that queues the gain is registered afterwards, and called only if
\* the device has refused.
AtLaunch(st, p, v, refused) ==
    IF p = "sequence_id" /\ p \notin refused
    THEN [st EXCEPT !.program.sequence_id = v]
    ELSE Call(st, p, v, refused)

Declare(p) ==
    /\ running /\ ~ terminated /\ p \in setup.used \ declared
    /\ setup.patient => Quiet
    /\ declared' = declared \cup {p}
    /\ UNCHANGED <<setup, marks, update, running, userVars>>

\* setParam: the value given at launch goes through the function as well; what
\* that throws is caught.
DeclareParam(p) ==
    /\ Declare(p) /\ setup.launch[p] # Mistyped
    /\ functions' = functions \cup {p}
    /\ LET value == IF setup.launch[p] = NotGiven THEN Initial(p) ELSE setup.launch[p]
           st0 == [CallState EXCEPT !.shown[p] = value, !.program = Fresh(p)]
       IN \E refused \in SUBSET Refuses :
          LET st == IF value = Initial(p) THEN st0 ELSE AtLaunch(st0, p, value, refused)
          IN /\ shown' = st.shown /\ program' = st.program /\ queue' = st.queue
             /\ terminated' = st.overflow

\* The value given at launch is of a wrong type: declare_parameter takes it and
\* throws, and setParam returns the initial value without registering a function.
DeclareMistyped(p) ==
    /\ Declare(p) /\ setup.launch[p] = Mistyped
    /\ shown' = [shown EXCEPT ![p] = Mistyped]
    /\ program' = Fresh(p)
    /\ UNCHANGED <<functions, queue, terminated>>

RemoveParam(p) ==
    /\ running /\ ~ terminated /\ p \in declared /\ removals < MaxRemovals
    /\ setup.patient => Quiet
    /\ declared' = declared \ {p} /\ functions' = functions \ {p}
    /\ removals' = removals + 1
    /\ UNCHANGED <<setup, shown, program, queue, marks, update, running, terminated, sets>>

----------------------------------------------------------------------------
\* monitor_update_functions, the update thread.

\* The thread waits for a push for at most a second, and pushes may go unseen.
TakeFunction ==
    /\ ~ terminated /\ update.at = "waiting" /\ queue # <<>>
    /\ LET f == Head(queue) IN
       update' = [at |-> "taken", name |-> f.name,
                  value |-> IF f.value = FromDevice THEN InProgram(f.name) ELSE f.value]
    /\ UNCHANGED <<setup, declared, functions, shown, program, queue, marks, running,
                   terminated, userVars>>

\* setRosParamValue
PushMark ==
    /\ ~ terminated /\ update.at = "taken"
    /\ marks' = Append(marks, update.name)
    /\ update' = [update EXCEPT !.at = "marked"]
    /\ UNCHANGED <<setup, declared, functions, shown, program, queue, running, terminated,
                   userVars>>

\* The value is read as one of the type that the server shows.
ReadType ==
    /\ ~ terminated /\ update.at = "marked" /\ update.name \in declared
    /\ update' = [update EXCEPT !.at = "typed",
                                !.value = IF shown[update.name] = Mistyped THEN Mistyped ELSE @]
    /\ UNCHANGED <<setup, declared, functions, shown, program, queue, marks, running,
                   terminated, userVars>>

\* The parameter is gone: get_parameter or set_parameter throws in the thread.
NotDeclared ==
    /\ ~ terminated /\ update.at \in {"marked", "typed"} /\ update.name \notin declared
    /\ terminated' = TRUE
    /\ UNCHANGED <<setup, declared, functions, shown, program, queue, marks, update, running,
                   userVars>>

\* A failed request takes back the newest mark; there may be none any more.
Finished(st) ==
    /\ program' = st.program
    /\ queue' = Tail(st.queue)
    /\ shown' = IF st.ok THEN [shown EXCEPT ![update.name] = update.value] ELSE shown
    /\ marks' = IF st.ok \/ st.marks = <<>> THEN st.marks ELSE Front(st.marks)
    /\ terminated' = (st.overflow \/ (~ st.ok /\ st.marks = <<>>))
    /\ update' = Idle
    /\ UNCHANGED <<setup, declared, functions, running, userVars>>

SetRosParamValue ==
    /\ ~ terminated /\ update.at = "typed" /\ update.name \in declared
    /\ \E refused \in SUBSET Refuses :
          Finished(Callback(CallState, update.name, update.value, refused))

\* A type that the switch does not have: no request is made.
TypeNotImplemented ==
    /\ ~ terminated /\ update.at = "typed" /\ update.name \in declared
    /\ update.value = Mistyped
    /\ Finished(Thrown(CallState))

\* An int, say, read as a string.
BadCast ==
    /\ ~ terminated /\ update.at = "typed" /\ update.value = Mistyped
    /\ terminated' = TRUE
    /\ UNCHANGED <<setup, declared, functions, shown, program, queue, marks, update, running,
                   userVars>>

\* The loop's conditions after a destructor has begun.
EndThread ==
    /\ ~ terminated /\ update.at = "waiting"
    /\ ~ running /\ queue = <<>>
    /\ update' = [Idle EXCEPT !.at = "ended"]
    /\ UNCHANGED <<setup, declared, functions, shown, program, queue, marks, running,
                   terminated, userVars>>

\* ~Parameters: it does not notify the thread.
StopRunning ==
    /\ running /\ ~ terminated
    /\ running' = FALSE
    /\ UNCHANGED <<setup, declared, functions, shown, program, queue, marks, update,
                   terminated, userVars>>

Join ==
    /\ ~ running /\ update.at = "ended" /\ functions # {}
    /\ declared' = declared \ functions /\ functions' = {}
    /\ UNCHANGED <<setup, shown, program, queue, marks, update, running, terminated, userVars>>

UpdateThread ==
    \/ TakeFunction \/ PushMark \/ ReadType \/ NotDeclared
    \/ SetRosParamValue \/ TypeNotImplemented \/ BadCast \/ EndThread

Next ==
    \/ UserSets
    \/ \E p \in Param : DeclareParam(p) \/ DeclareMistyped(p) \/ RemoveParam(p)
    \/ UpdateThread \/ StopRunning \/ Join

Spec == Init /\ [][Next]_vars
\* The thread runs, and a destructor goes on; nothing makes users set values.
FairSpec == Spec /\ WF_vars(UpdateThread) /\ WF_vars(Join)

----------------------------------------------------------------------------
\* The types of all variables.
Entry == [name : Param, value : 0..3]
TypeOK ==
    /\ setup \in Settings
    /\ declared \subseteq setup.used /\ functions \subseteq declared
    /\ shown \in [Param -> 0..3]
    /\ program \in [profile : 0..3, enable : 0..3, sequence_id : 1..2, right : 0..3,
                    gains : [1..2 -> 1..2]]
    /\ queue \in Seq(Entry) /\ marks \in Seq(Param)
    /\ update \in [at : {"waiting", "taken", "marked", "typed", "ended"}, name : Param,
                  value : 0..3]
    /\ running \in BOOLEAN /\ terminated \in BOOLEAN
    /\ sets \in 0..setup.sets /\ removals \in 0..MaxRemovals

\* No value of a request, a launch or a revert, in any order, brings a profile
\* to the program that the device does not support or an edge beyond the image.
ProgramValid == program.profile \in {1, 2} /\ program.right <= Width

\* "Used to automatically update param based on its parallel ros parameter"
\* (dynamic_params.cpp:170): once nothing is pending, the server shows what the
\* program has, for the parameters that have a function.
ParameterFollowsProgram ==
    Quiet /\ ~ terminated => \A p \in functions : shown[p] = InProgram(p)

\* The same for users who wait for pending reverts, one parameter at a time, unless
\* the program cuts a value (the region of interest), swallows a refusal (that of a
\* sequence_id, and of an option given at launch), or does not show the gain again
\* (for a sequence_id given at launch) or cannot (for a gain of a wrong type).
Orderly ==
    /\ setup.patient /\ ~ setup.groups /\ "right" \notin setup.used
    /\ "sequence_id" \notin Refuses /\ \A p \in Refuses : setup.launch[p] = NotGiven
    /\ setup.launch["sequence_id"] = NotGiven /\ setup.launch["gain"] # Mistyped
PatientUsersSee == Orderly => ParameterFollowsProgram

\* "If invalid they are reverted" (profile_manager.cpp:53), as long as the parameter has
\* a function; and the gain, whose marks would stay behind and stand in for the mark of
\* the profile.
RefusedIsReverted ==
    (/\ setup.launch["gain"] # Mistyped
     /\ "profile" \in functions /\ shown["profile"] \notin {1, 2}) ~>
        (terminated \/ "profile" \notin functions \/ shown["profile"] \in {1, 2})

=============================================================================
