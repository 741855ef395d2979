-------------------------- MODULE CameraNodeProofs --------------------------
(***************************************************************************)
(* Proofs about a camera's node.  The first part is about the dynamic      *)
(* parameters (RosParameters), for every number of requests and removals,  *)
(* whatever users set and devices refuse, and wherever the update thread   *)
(* is: the program never takes a value it does not support, no revert of a *)
(* refused one is lost, and users who wait for pending reverts see what    *)
(* the program has.  The second part is                                    *)
(* about the united IMU topic (SyncedImu), for every number of samples and *)
(* changes and any video sensors: each sample of the gyroscope gives one   *)
(* message with the newest acceleration, in order.                         *)
(***************************************************************************)
EXTENDS RosParameters, SyncedImu, SequenceTheorems, WellFoundedInduction, TLAPS

\* What the functions queue: a supported profile to revert to, or the gain to show.
Revert == {[name |-> "profile", value |-> v] : v \in {1, 2}}
          \cup {[name |-> "gain", value |-> FromDevice]}
Program == [profile : {1, 2}, enable : 0..3, sequence_id : {1, 2}, right : 0..Width,
            gains : [{1, 2} -> {1, 2}]]
Update == [at : {"waiting", "taken", "marked", "typed", "ended"}, name : Param, value : 0..3]
AtWork == {"taken", "marked", "typed"}

\* The types; the program's profile is supported and its edge is in the image; a parameter
\* has a function unless a value of a wrong type was given for it at launch; the update
\* thread sets a supported profile or a gain, which is still at the head of the queue, or
\* what it reads of it as a value of a wrong type.
TypeInv ==
    /\ setup \in Settings
    /\ declared \subseteq setup.used /\ functions \subseteq declared
    /\ shown \in [Param -> 0..3]
    /\ program \in Program /\ queue \in Seq(Revert) /\ marks \in Seq(Param)
    /\ update \in Update
    /\ running \in BOOLEAN /\ terminated \in BOOLEAN
    /\ sets \in 0..setup.sets /\ removals \in 0..MaxRemovals
    /\ \A p \in functions : setup.launch[p] # Mistyped
    /\ update.at # "ended" => \A p \in declared : setup.launch[p] # Mistyped => p \in functions
    /\ update.at \in AtWork =>
          /\ queue # <<>> /\ update.name \in {"profile", "gain"}
          /\ update.value \in {1, 2} \/ (update.at = "typed" /\ update.value = Mistyped)

\* In an orderly setting at most one revert is pending, with the value that the
\* program has, and of a parameter with a function; the update thread's mark is the only
\* one; no parameter with a function shows a value of a wrong type, and one that does not
\* show what the program has is the one that is pending.
OrderInv ==
    Orderly =>
        /\ marks = IF update.at \in {"marked", "typed"} THEN <<update.name>> ELSE <<>>
        /\ Len(queue) <= 1
        /\ queue # <<>> => /\ queue[1].value \in {FromDevice, InProgram(queue[1].name)}
                           /\ setup.launch[queue[1].name] # Mistyped
        /\ update.at \in AtWork =>
              /\ queue # <<>> /\ update.name = queue[1].name
              /\ update.value = InProgram(update.name)
        /\ \A p \in functions :
              /\ shown[p] = InProgram(p) \/ (queue # <<>> /\ queue[1].name = p)
              /\ shown[p] # Mistyped

-------------------------------------------------------------------------------
\* Marks.

\* The first of some places is one of them.
LEMMA FirstPlace ==
    ASSUME NEW n \in Nat, NEW places \in SUBSET (1..n), places # {}
    PROVE  Min(places) \in places
<1>1. places \subseteq Nat /\ places # {}
  OBVIOUS
<1>2. \E i \in places : \A j \in places : <<j, i>> \notin OpToRel(<, Nat)
  BY <1>1, NatLessThanWellFounded, WFMin
<1>3. \E i \in places : \A j \in places : ~ (j < i)
  BY <1>1, <1>2 DEF OpToRel
<1>4. \E i \in places : \A j \in places : i <= j
  BY <1>1, <1>3
<1>5. QED
  BY <1>4 DEF Min

\* Erasing a mark leaves marks.
LEMMA MarkErased ==
    ASSUME NEW s \in Seq(Param), NEW p \in Param
    PROVE  /\ RemoveFirst(s, p) \in Seq(Param)
           /\ s = <<p>> => RemoveFirst(s, p) = <<>>
<1>1. Len(s) \in Nat
  BY LenProperties
<1>2. CASE ~ \E i \in 1..Len(s) : s[i] = p
  <2>1. RemoveFirst(s, p) = s
    BY <1>2 DEF RemoveFirst
  <2>2. QED
    BY <1>2, <2>1
<1>3. CASE \E i \in 1..Len(s) : s[i] = p
  <2> DEFINE places == {i \in 1..Len(s) : s[i] = p}
             k == Min(places)
  <2>1. RemoveFirst(s, p) = RemoveAt(s, k)
    BY <1>3 DEF RemoveFirst, SelectInSeq
  <2>2. k \in 1..Len(s)
    <3>1. places # {}
      BY <1>3
    <3>2. QED
      BY <1>1, <3>1, FirstPlace
  <2> HIDE DEF k
  <2>3. /\ \A i \in 1..(k - 1) : s[i] \in Param
        /\ \A i \in (k + 1)..Len(s) : s[i] \in Param
    BY <1>1, <2>2, ElementOfSeq
  <2>4. SubSeq(s, 1, k - 1) \in Seq(Param) /\ SubSeq(s, k + 1, Len(s)) \in Seq(Param)
    BY <1>1, <2>2, <2>3, SubSeqProperties
  <2>5. RemoveAt(s, k) \in Seq(Param)
    BY <2>4, ConcatProperties DEF RemoveAt
  <2>6. ASSUME s = <<p>> PROVE RemoveAt(s, k) = <<>>
    <3>1. Len(s) = 1 /\ k = 1
      BY <2>2, <2>6
    <3>2. SubSeq(s, 1, k - 1) = <<>> /\ SubSeq(s, k + 1, Len(s)) = <<>>
      BY <3>1, SubSeqEmpty
    <3>3. QED
      BY <3>2, EmptySeq, ConcatEmptySeq DEF RemoveAt
  <2>7. QED
    BY <2>1, <2>5, <2>6
<1>4. QED
  BY <1>2, <1>3

\* Taking the newest mark off leaves marks.
LEMMA FrontTyped ==
    ASSUME NEW s \in Seq(Param), s # <<>>
    PROVE  /\ Front(s) \in Seq(Param)
           /\ Len(s) = 1 => Front(s) = <<>>
<1>1. PICK n \in Nat : n = Len(s) /\ n # 0
  BY LenProperties, EmptySeq
<1>2. \A i \in 1..(n - 1) : s[i] \in Param
  BY <1>1, ElementOfSeq
<1>3. SubSeq(s, 1, n - 1) \in Seq(Param)
  BY <1>1, <1>2, SubSeqProperties
<1>4. n = 1 => SubSeq(s, 1, n - 1) = <<>>
  BY SubSeqEmpty
<1>5. QED
  BY <1>1, <1>3, <1>4 DEF Front

-------------------------------------------------------------------------------
\* The functions.
State == [shown : [Param -> 0..3], program : Program, queue : Seq(Revert), marks : Seq(Param),
          ok : BOOLEAN, overflow : BOOLEAN]

\* The values that a request, a launch or a revert can have.
Value(p) == IF p \in Option THEN 0..2 ELSE 0..3

\* What the program becomes by one assignment.
LEMMA Assigned ==
    ASSUME NEW st \in State
    PROVE  /\ \A v \in {1, 2} : [st EXCEPT !.program.profile = v] \in State
           /\ \A v \in 0..3 : [st EXCEPT !.program.enable = v] \in State
           /\ \A v \in {1, 2} : [st EXCEPT !.program.sequence_id = v] \in State
           /\ \A v \in 0..Width : [st EXCEPT !.program.right = v] \in State
           /\ \A v \in {1, 2} : [st EXCEPT !.program.gains[st.program.sequence_id] = v] \in State
           /\ Thrown(st) \in State /\ [st EXCEPT !.overflow = TRUE] \in State
<1>1. \A v \in {1, 2} : [st EXCEPT !.program.profile = v] \in State
  BY DEF State, Program
<1>2. \A v \in 0..3 : [st EXCEPT !.program.enable = v] \in State
  BY DEF State, Program
<1>3. \A v \in {1, 2} : [st EXCEPT !.program.sequence_id = v] \in State
  BY DEF State, Program
<1>4. \A v \in 0..Width : [st EXCEPT !.program.right = v] \in State
  BY DEF State, Program
<1>5. \A v \in {1, 2} : [st EXCEPT !.program.gains[st.program.sequence_id] = v] \in State
  BY DEF State, Program
<1>6. Thrown(st) \in State /\ [st EXCEPT !.overflow = TRUE] \in State
  BY DEF State, Thrown
<1>7. QED
  BY <1>1, <1>2, <1>3, <1>4, <1>5, <1>6

\* A revert is queued at the end.
LEMMA QueuedAtEnd ==
    ASSUME NEW st \in State, NEW name, NEW value, [name |-> name, value |-> value] \in Revert
    PROVE  /\ Queued(st, name, value) \in State
           /\ Queued(st, name, value).queue = Append(st.queue, [name |-> name, value |-> value])
<1>1. Append(st.queue, [name |-> name, value |-> value]) \in Seq(Revert)
  BY AppendProperties DEF State
<1>2. QED
  BY <1>1 DEF State, Queued

\* Which function is called.
LEMMA Functions ==
    ASSUME NEW st, NEW v, NEW refused
    PROVE  /\ \A p \in Param : v = Mistyped => Call(st, p, v, refused) = Thrown(st)
           /\ v # Mistyped =>
                /\ Call(st, "profile", v, refused) = Checked(st, v)
                /\ Call(st, "enable", v, refused) = [st EXCEPT !.program.enable = v]
                /\ Call(st, "gain", v, refused) = SetOption(st, v, refused)
                /\ Call(st, "sequence_id", v, refused) = SetSequenceId(st, v, refused)
                /\ Call(st, "right", v, refused) = SetRoi(st, v)
<1>1. \A p \in Param : v = Mistyped => Call(st, p, v, refused) = Thrown(st)
  BY DEF Call
<1>2. v # Mistyped => Call(st, "profile", v, refused) = Checked(st, v)
  BY DEF Call
<1>3. v # Mistyped => Call(st, "enable", v, refused) = [st EXCEPT !.program.enable = v]
  BY DEF Call
<1>4. v # Mistyped => Call(st, "gain", v, refused) = SetOption(st, v, refused)
  BY DEF Call
<1>5. v # Mistyped => Call(st, "sequence_id", v, refused) = SetSequenceId(st, v, refused)
  BY DEF Call
<1>6. v # Mistyped => Call(st, "right", v, refused) = SetRoi(st, v)
  BY DEF Call
<1>7. QED
  BY <1>1, <1>2, <1>3, <1>4, <1>5, <1>6

\* A function assigns what the program supports, whatever it is given.
LEMMA CallTyped ==
    ASSUME NEW st \in State, NEW p \in Param, NEW v \in Value(p), NEW refused
    PROVE  Call(st, p, v, refused) \in State
<1>1. CASE v = Mistyped
  <2>1. Call(st, p, v, refused) = Thrown(st)
    BY <1>1 DEF Call
  <2>2. QED
    BY <2>1, Assigned
<1>2. CASE v # Mistyped /\ p = "profile"
  <2>1. v \in 0..3
    BY <1>2 DEF Value
  <2>2. CASE v \in {1, 2}
    <3>1. Call(st, p, v, refused) = [st EXCEPT !.program.profile = v]
      BY <1>2, <2>2, Functions DEF Checked
    <3>2. QED
      BY <2>2, <3>1, Assigned
  <2>3. CASE v \notin {1, 2}
    <3>1. [name |-> "profile", value |-> st.program.profile] \in Revert
      BY DEF State, Program, Revert
    <3>2. Call(st, p, v, refused) = Queued(st, "profile", st.program.profile)
      BY <1>2, <2>3, Functions DEF Checked
    <3>3. QED
      BY <3>1, <3>2, QueuedAtEnd
  <2>4. QED
    BY <2>2, <2>3
<1>3. CASE v # Mistyped /\ p = "enable"
  <2>1. v \in 0..3
    BY <1>3 DEF Value
  <2>2. Call(st, p, v, refused) = [st EXCEPT !.program.enable = v]
    BY <1>3, Functions
  <2>3. QED
    BY <2>1, <2>2, Assigned
<1>4. CASE v # Mistyped /\ p = "gain"
  <2>1. v \in {1, 2}
    BY <1>4 DEF Value, Mistyped, Option
  <2>2. \/ Call(st, p, v, refused) = Thrown(st)
        \/ Call(st, p, v, refused) = [st EXCEPT !.program.gains[st.program.sequence_id] = v]
    BY <1>4, Functions DEF SetOption
  <2>3. [st EXCEPT !.program.gains[st.program.sequence_id] = v] \in State /\ Thrown(st) \in State
    BY <2>1, Assigned
  <2>4. QED
    BY <2>2, <2>3
<1>5. CASE v # Mistyped /\ p = "sequence_id"
  <2> DEFINE set == IF "sequence_id" \in refused THEN st
                    ELSE [st EXCEPT !.program.sequence_id = v]
  <2>1. v \in {1, 2}
    BY <1>5 DEF Value, Mistyped, Option
  <2>2. set \in State
    <3>1. [st EXCEPT !.program.sequence_id = v] \in State
      BY <2>1, Assigned
    <3>2. QED
      BY <3>1
  <2>3. Call(st, p, v, refused) = Queued(set, "gain", FromDevice)
    <3>1. Call(st, p, v, refused) = SetSequenceId(st, v, refused)
      BY <1>5, Functions
    <3>2. SetSequenceId(st, v, refused) = Queued(set, "gain", FromDevice)
      BY DEF SetSequenceId
    <3>3. QED
      BY <3>1, <3>2
  <2> HIDE DEF set
  <2>4. [name |-> "gain", value |-> FromDevice] \in Revert
    BY DEF Revert
  <2>5. QED
    BY <2>2, <2>3, <2>4, QueuedAtEnd
<1>6. CASE v # Mistyped /\ p = "right"
  <2>1. v \in 0..3 /\ st.shown["right"] \in 0..3
    BY <1>6 DEF Value, State, Param
  <2>2. v <= Width => v \in 0..Width
    BY <2>1 DEF Width
  <2>3. st.shown["right"] <= Width => st.shown["right"] \in 0..Width
    BY <2>1 DEF Width
  <2>4. \/ v <= Width /\ Call(st, p, v, refused) = [st EXCEPT !.program.right = v]
        \/ /\ st.shown["right"] <= Width
           /\ Call(st, p, v, refused) = [st EXCEPT !.program.right = st.shown["right"]]
        \/ Call(st, p, v, refused) = [st EXCEPT !.overflow = TRUE]
    BY <1>6, Functions DEF SetRoi
  <2>5. \A w \in 0..Width : [st EXCEPT !.program.right = w] \in State
    BY Assigned
  <2>6. QED
    BY <2>2, <2>3, <2>4, <2>5, Assigned
<1>7. QED
  BY <1>1, <1>2, <1>3, <1>4, <1>5, <1>6 DEF Param

\* A function queues one revert or nothing.
LEMMA CallQueues ==
    ASSUME NEW st \in State, NEW p \in Param, NEW v \in Value(p), NEW refused
    PROVE  \/ Call(st, p, v, refused).queue = st.queue
           \/ \E e \in Revert : Call(st, p, v, refused).queue = Append(st.queue, e)
<1> DEFINE c == Call(st, p, v, refused)
           Goal == c.queue = st.queue \/ \E e \in Revert : c.queue = Append(st.queue, e)
<1>1. ASSUME v = Mistyped PROVE Goal
  <2>1. c = [st EXCEPT !.ok = FALSE]
    BY <1>1 DEF Call, Thrown
  <2> HIDE DEF c
  <2>2. QED
    BY <2>1 DEF State
<1>2. ASSUME v # Mistyped /\ p = "profile" PROVE Goal
  <2> DEFINE e == [name |-> "profile", value |-> st.program.profile]
  <2>1. e \in Revert
    BY DEF State, Program, Revert
  <2>2. c = [st EXCEPT !.program.profile = v] \/ c = Queued(st, "profile", st.program.profile)
    BY <1>2, Functions DEF Checked
  <2>3. Queued(st, "profile", st.program.profile).queue = Append(st.queue, e)
    BY <2>1, QueuedAtEnd
  <2> HIDE DEF c, e
  <2>4. [st EXCEPT !.program.profile = v].queue = st.queue
    BY DEF State
  <2>5. QED
    BY <2>1, <2>2, <2>3, <2>4
<1>3. ASSUME v # Mistyped /\ p = "enable" PROVE Goal
  <2>1. c = [st EXCEPT !.program.enable = v]
    BY <1>3, Functions
  <2> HIDE DEF c
  <2>2. QED
    BY <2>1 DEF State
<1>4. ASSUME v # Mistyped /\ p = "gain" PROVE Goal
  <2>1. c = Thrown(st) \/ c = [st EXCEPT !.program.gains[st.program.sequence_id] = v]
    BY <1>4, Functions DEF SetOption
  <2> HIDE DEF c
  <2>2. QED
    BY <2>1 DEF State, Thrown
<1>5. ASSUME v # Mistyped /\ p = "sequence_id" PROVE Goal
  <2> DEFINE set == IF "sequence_id" \in refused THEN st
                    ELSE [st EXCEPT !.program.sequence_id = v]
             e == [name |-> "gain", value |-> FromDevice]
  <2>1. v \in {1, 2}
    BY <1>5 DEF Value, Mistyped, Option
  <2>2. set \in State /\ set.queue = st.queue
    <3>1. [st EXCEPT !.program.sequence_id = v] \in State
      BY <2>1, Assigned
    <3>2. [st EXCEPT !.program.sequence_id = v].queue = st.queue
      BY DEF State
    <3>3. QED
      BY <3>1, <3>2
  <2>3. c = SetSequenceId(st, v, refused)
    BY <1>5, Functions
  <2>4. SetSequenceId(st, v, refused) = Queued(set, "gain", FromDevice)
    BY DEF SetSequenceId
  <2> HIDE DEF c, set
  <2>5. e \in Revert
    BY DEF Revert
  <2>6. Queued(set, "gain", FromDevice).queue = Append(set.queue, e)
    BY <2>2, <2>5, QueuedAtEnd
  <2>7. QED
    BY <2>2, <2>3, <2>4, <2>5, <2>6
<1>6. ASSUME v # Mistyped /\ p = "right" PROVE Goal
  <2>1. \/ c = [st EXCEPT !.program.right = v]
        \/ c = [st EXCEPT !.program.right = st.shown["right"]]
        \/ c = [st EXCEPT !.overflow = TRUE]
    BY <1>6, Functions DEF SetRoi
  <2> HIDE DEF c
  <2>2. QED
    BY <2>1 DEF State
<1>7. Goal
  BY <1>1, <1>2, <1>3, <1>4, <1>5, <1>6 DEF Param
<1>8. QED
  BY <1>7

\* A function leaves a revert in the queue if one was there.
LEMMA StillPending ==
    ASSUME NEW st \in State, NEW p \in Param, NEW v \in Value(p), NEW refused,
           st.queue # <<>>
    PROVE  Callback(st, p, v, refused).queue # <<>>
<1>1. \A e \in Revert : Append(st.queue, e) # <<>>
  BY AppendProperties DEF State
<1>2. Call(st, p, v, refused).queue # <<>>
  BY <1>1, CallQueues
<1>3. [st EXCEPT !.marks = RemoveFirst(@, p)].queue = st.queue
  BY DEF State
<1>4. QED
  BY <1>2, <1>3 DEF Callback

\* The value of a parameter in a program, and what a queue has to revert.
Has(prog, p) == IF p = "gain" THEN prog.gains[prog.sequence_id] ELSE prog[p]
Pending(q, p) == q # <<>> /\ q[1].name = p

\* With nothing pending and no refusal swallowed, a function that does not throw
\* brings its value to the program or queues a revert to the program's one, and
\* changes no other parameter but one whose change it queues.
LEMMA CallBrings ==
    ASSUME NEW st \in State, NEW p \in Param \ {"right"}, NEW v \in Value(p), NEW refused,
           st.queue = <<>>, st.ok, "sequence_id" \notin refused
    PROVE  LET c == Call(st, p, v, refused) IN
           /\ Len(c.queue) <= 1
           /\ c.queue # <<>> => /\ c.queue[1].value \in {FromDevice, Has(c.program, c.queue[1].name)}
                                /\ c.queue[1].name \in {p, "gain"}
           /\ \A x \in Param : x # p => Has(c.program, x) = Has(st.program, x) \/ Pending(c.queue, x)
           /\ c.ok => Has(c.program, p) = v \/ Pending(c.queue, p)
           /\ ~ c.ok => c.program = st.program /\ c.queue = <<>>
           /\ c.ok => v # Mistyped
           /\ c.marks = st.marks /\ c.shown = st.shown
<1> DEFINE c == Call(st, p, v, refused)
           Goal == /\ Len(c.queue) <= 1
                   /\ c.queue # <<>> =>
                        /\ c.queue[1].value \in {FromDevice, Has(c.program, c.queue[1].name)}
                        /\ c.queue[1].name \in {p, "gain"}
                   /\ \A x \in Param : x # p =>
                        Has(c.program, x) = Has(st.program, x) \/ Pending(c.queue, x)
                   /\ c.ok => Has(c.program, p) = v \/ Pending(c.queue, p)
                   /\ ~ c.ok => c.program = st.program /\ c.queue = <<>>
                   /\ c.ok => v # Mistyped
                   /\ c.marks = st.marks /\ c.shown = st.shown
<1>1. ASSUME v = Mistyped PROVE Goal
  <2>1. c = [st EXCEPT !.ok = FALSE]
    BY <1>1 DEF Call, Thrown
  <2> HIDE DEF c
  <2>2. /\ c.ok = FALSE /\ c.program = st.program /\ c.queue = <<>>
        /\ c.marks = st.marks /\ c.shown = st.shown
    BY <2>1 DEF State
  <2>3. QED
    BY <2>2
<1>2. ASSUME v # Mistyped /\ p = "profile" PROVE Goal
  <2>1. CASE v \in {1, 2}
    <3>1. c = [st EXCEPT !.program.profile = v]
      BY <1>2, <2>1, Functions DEF Checked
    <3> HIDE DEF c
    <3>2. /\ c.ok /\ c.queue = <<>> /\ c.marks = st.marks /\ c.shown = st.shown
          /\ c.program = [st.program EXCEPT !.profile = v]
      BY <3>1 DEF State
    <3>3. Has(c.program, "profile") = v
      BY <3>2 DEF State, Program, Has
    <3>4. \A x \in Param : x # p => Has(c.program, x) = Has(st.program, x)
      BY <1>2, <3>2 DEF State, Program, Has, Param
    <3>5. QED
      BY <1>2, <3>2, <3>3, <3>4
  <2>2. CASE v \notin {1, 2}
    <3> DEFINE old == st.program.profile
    <3>1. [name |-> "profile", value |-> old] \in Revert
      BY DEF State, Program, Revert
    <3>2. c = Queued(st, "profile", old)
      BY <1>2, <2>2, Functions DEF Checked
    <3> HIDE DEF c
    <3>3. c.queue = <<[name |-> "profile", value |-> old]>>
      BY <3>1, <3>2, QueuedAtEnd
    <3>4. /\ c.ok /\ c.program = st.program /\ c.marks = st.marks /\ c.shown = st.shown
      BY <3>2 DEF State, Queued
    <3>5. /\ c.queue[1].name = "profile" /\ c.queue[1].value = old /\ Len(c.queue) = 1
          /\ c.queue # <<>> /\ Has(c.program, "profile") = old
      BY <3>3, <3>4 DEF Has
    <3>6. QED
      BY <1>2, <3>4, <3>5 DEF Pending
  <2>3. QED
    BY <2>1, <2>2
<1>3. ASSUME v # Mistyped /\ p = "enable" PROVE Goal
  <2>1. c = [st EXCEPT !.program.enable = v]
    BY <1>3, Functions
  <2> HIDE DEF c
  <2>2. /\ c.ok /\ c.queue = <<>> /\ c.marks = st.marks /\ c.shown = st.shown
        /\ c.program = [st.program EXCEPT !.enable = v]
    BY <2>1 DEF State
  <2>3. Has(c.program, "enable") = v
    BY <2>2 DEF State, Program, Has
  <2>4. \A x \in Param : x # p => Has(c.program, x) = Has(st.program, x)
    BY <1>3, <2>2 DEF State, Program, Has, Param
  <2>5. QED
    BY <1>3, <2>2, <2>3, <2>4
<1>4. ASSUME v # Mistyped /\ p = "gain" PROVE Goal
  <2>1. CASE "gain" \in refused
    <3>1. c = [st EXCEPT !.ok = FALSE]
      BY <1>4, <2>1, Functions DEF SetOption, Thrown
    <3> HIDE DEF c
    <3>2. /\ c.ok = FALSE /\ c.program = st.program /\ c.queue = <<>>
          /\ c.marks = st.marks /\ c.shown = st.shown
      BY <3>1 DEF State
    <3>3. QED
      BY <3>2
  <2>2. CASE "gain" \notin refused
    <3>1. c = [st EXCEPT !.program.gains[st.program.sequence_id] = v]
      BY <1>4, <2>2, Functions DEF SetOption
    <3> HIDE DEF c
    <3>2. /\ c.ok /\ c.queue = <<>> /\ c.marks = st.marks /\ c.shown = st.shown
          /\ c.program = [st.program EXCEPT !.gains[st.program.sequence_id] = v]
      BY <3>1 DEF State
    <3>3. Has(c.program, "gain") = v
      BY <3>2 DEF State, Program, Has
    <3>4. \A x \in Param : x # p => Has(c.program, x) = Has(st.program, x)
      BY <1>4, <3>2 DEF State, Program, Has, Param
    <3>5. QED
      BY <1>4, <3>2, <3>3, <3>4
  <2>3. QED
    BY <2>1, <2>2
<1>5. ASSUME v # Mistyped /\ p = "sequence_id" PROVE Goal
  <2> DEFINE set == [st EXCEPT !.program.sequence_id = v]
  <2>1. v \in {1, 2}
    BY <1>5 DEF Value, Mistyped, Option
  <2>2. set \in State
    <3>1. [st EXCEPT !.program.sequence_id = v] \in State
      BY <2>1, Assigned
    <3>2. QED
      BY <3>1
  <2>3. c = Queued(set, "gain", FromDevice)
    <3>1. c = SetSequenceId(st, v, refused)
      BY <1>5, Functions
    <3>2. SetSequenceId(st, v, refused) =
             Queued(IF "sequence_id" \in refused THEN st ELSE set, "gain", FromDevice)
      BY DEF SetSequenceId
    <3>3. (IF "sequence_id" \in refused THEN st ELSE set) = set
      OBVIOUS
    <3>4. QED
      BY <3>1, <3>2, <3>3
  <2>4. /\ set.ok /\ set.queue = <<>> /\ set.marks = st.marks /\ set.shown = st.shown
        /\ set.program = [st.program EXCEPT !.sequence_id = v]
    BY DEF State
  <2> HIDE DEF c, set
  <2>5. [name |-> "gain", value |-> FromDevice] \in Revert
    BY DEF Revert
  <2>6. c.queue = <<[name |-> "gain", value |-> FromDevice]>>
    BY <2>2, <2>3, <2>4, <2>5, QueuedAtEnd
  <2>7. /\ c.ok /\ c.program = set.program /\ c.marks = st.marks /\ c.shown = st.shown
    BY <2>2, <2>3, <2>4 DEF State, Queued
  <2>8. Has(c.program, "sequence_id") = v
    BY <2>4, <2>7 DEF State, Program, Has
  <2>9. \A x \in Param \ {"gain"} : x # p => Has(c.program, x) = Has(st.program, x)
    BY <1>5, <2>4, <2>7 DEF State, Program, Has, Param
  <2>10. /\ c.queue[1].name = "gain" /\ c.queue[1].value = FromDevice /\ Len(c.queue) = 1
         /\ c.queue # <<>>
    BY <2>6
  <2>11. QED
    BY <1>5, <2>7, <2>8, <2>9, <2>10 DEF Pending
<1>6. Goal
  BY <1>1, <1>2, <1>3, <1>4, <1>5 DEF Param
<1>7. QED
  BY <1>6

-------------------------------------------------------------------------------
\* Requests.

\* The callback of one parameter erases its mark or calls its function.
LEMMA CallbackTyped ==
    ASSUME NEW st \in State, NEW p \in Param, NEW v \in Value(p), NEW refused
    PROVE  Callback(st, p, v, refused) \in State
<1>1. RemoveFirst(st.marks, p) \in Seq(Param)
  BY MarkErased DEF State
<1>2. [st EXCEPT !.marks = RemoveFirst(@, p)] \in State
  BY <1>1 DEF State
<1>3. QED
  BY <1>2, CallTyped DEF Callback

\* A request has one or two parameters, each with a value that it can have.
LEMMA RequestsAreSmall ==
    ASSUME TypeInv, NEW request \in Requests
    PROVE  /\ Len(request) \in {1, 2}
           /\ \A i \in 1..Len(request) :
                /\ request[i][1] \in declared /\ request[i][1] \in Param
                /\ request[i][2] \in Value(request[i][1])
           /\ ~ setup.groups => Len(request) = 1
<1> DEFINE Single == {<<x>> : x \in UNION {{p} \X Inputs(p) : p \in declared}}
           Pairs == {<<x[1], y[1]>> : x, y \in Single}
<1>1. declared \subseteq Param
  BY RosParametersAssumption DEF TypeInv, Setting
<1>2. \A p \in declared : Inputs(p) \subseteq Value(p)
  BY <1>1 DEF Inputs, Value, Param, Option
<1>3. ASSUME NEW r \in Single
      PROVE  /\ Len(r) = 1 /\ r[1][1] \in declared /\ r[1][1] \in Param
             /\ r[1][2] \in Value(r[1][1])
  <2>1. PICK p \in declared : \E v \in Inputs(p) : r = <<<<p, v>>>>
    OBVIOUS
  <2>2. PICK v \in Inputs(p) : r = <<<<p, v>>>>
    BY <2>1
  <2>3. Len(r) = 1 /\ r[1][1] = p /\ r[1][2] = v
    BY <2>2
  <2>4. QED
    BY <1>1, <1>2, <2>3
<1>4. request \in Single \/ (setup.groups /\ request \in Pairs)
  BY DEF Requests
<1>5. CASE request \in Single
  <2>1. /\ Len(request) = 1 /\ request[1][1] \in declared /\ request[1][1] \in Param
        /\ request[1][2] \in Value(request[1][1])
    BY <1>3, <1>5
  <2> HIDE DEF Single
  <2>2. QED
    BY <2>1
<1>6. CASE setup.groups /\ request \in Pairs
  <2>1. PICK x \in Single, y \in Single : request = <<x[1], y[1]>>
    BY <1>6
  <2> HIDE DEF Single
  <2>2. Len(request) = 2 /\ request[1] = x[1] /\ request[2] = y[1]
    BY <2>1
  <2>3. /\ x[1][1] \in declared /\ x[1][1] \in Param /\ x[1][2] \in Value(x[1][1])
        /\ y[1][1] \in declared /\ y[1][1] \in Param /\ y[1][2] \in Value(y[1][1])
    BY <1>3
  <2>4. QED
    BY <1>6, <2>2, <2>3
<1>7. QED
  BY <1>4, <1>5, <1>6

\* The loop of the callback, unrolled for one and for two parameters.
LEMMA LoopUnrolled ==
    ASSUME NEW request, NEW refused, Len(request) \in {1, 2}
    PROVE  LET first == Callback(CallState, request[1][1], request[1][2], refused) IN
           AfterCallbacks(request, refused) =
              IF Len(request) = 1 THEN first
              ELSE Callback(first, request[2][1], request[2][2], refused)
<1> DEFINE Next1(s, i) == Callback(s, request[i][1], request[i][2], refused)
           start == CallState
           first == Next1(start, 1)
           Loop(f) == f = [i \in 0..Len(request) |->
                             IF i = 0 THEN start ELSE Next1(f[i - 1], i)]
           after == CHOOSE f : Loop(f)
<1>1. AfterCallbacks(request, refused) = after[Len(request)]
  BY DEF AfterCallbacks
<1> HIDE DEF Next1, start
<1>2. \E f : Loop(f)
  <2> DEFINE g == [i \in 0..Len(request) |->
                     IF i = 0 THEN start ELSE IF i = 1 THEN first ELSE Next1(first, 2)]
  <2>1. \A i \in 0..Len(request) : g[i] = IF i = 0 THEN start ELSE Next1(g[i - 1], i)
    <3> HIDE DEF first, g
    <3>0. \A n \in {1, 2} : n \in Nat /\ \A i \in 0..n : i \in {0, 1, 2}
      OBVIOUS
    <3>1. Len(request) \in Nat /\ \A i \in 0..Len(request) : i \in {0, 1, 2}
      BY <3>0
    <3> USE DEF g
    <3>2. \A i \in 0..Len(request) : i - 1 \in 0..Len(request) \/ i = 0
      BY <3>1
    <3>3. \A i \in 0..Len(request) :
             g[i] = IF i = 0 THEN start ELSE IF i = 1 THEN first ELSE Next1(first, 2)
      OBVIOUS
    <3> HIDE DEF g
    <3>4. g[0] = start /\ (1 \in 0..Len(request) => g[1] = first)
      BY <3>1, <3>3
    <3>5. first = Next1(start, 1)
      BY DEF first
    <3>6. QED
      BY <3>1, <3>3, <3>4, <3>5
  <2>2. g = [i \in 0..Len(request) |-> IF i = 0 THEN start ELSE Next1(g[i - 1], i)]
    BY <2>1
  <2>3. QED
    BY <2>2
<1>3. Loop(after)
  BY <1>2
<1> HIDE DEF after
<1>4. \A i \in 0..Len(request) : after[i] = IF i = 0 THEN start ELSE Next1(after[i - 1], i)
  BY <1>3
<1>5. after[0] = start /\ after[1] = first
  BY <1>4
<1>6. Len(request) = 2 => after[2] = Next1(first, 2)
  BY <1>4, <1>5
<1>7. after[Len(request)] = IF Len(request) = 1 THEN first ELSE Next1(first, 2)
  BY <1>5, <1>6
<1>8. QED
  BY <1>1, <1>7 DEF Next1, start

-------------------------------------------------------------------------------
\* The types, and what the update thread sets.

\* A callback starts in a state of the callbacks.
LEMMA StartTyped ==
    ASSUME TypeInv
    PROVE  CallState \in State /\ CallState.queue = queue /\ CallState.marks = marks
BY DEF TypeInv, CallState, State

\* The callbacks of a request end in one, and take no revert off the queue.
LEMMA RequestTyped ==
    ASSUME TypeInv, NEW request \in Requests, NEW refused
    PROVE  /\ AfterCallbacks(request, refused) \in State
           /\ queue # <<>> => AfterCallbacks(request, refused).queue # <<>>
<1> DEFINE p1 == request[1][1]
           v1 == request[1][2]
           p2 == request[2][1]
           v2 == request[2][2]
           first == Callback(CallState, p1, v1, refused)
           second == Callback(first, p2, v2, refused)
<1>1. CallState \in State /\ CallState.queue = queue
  BY StartTyped
<1>2. /\ Len(request) \in {1, 2}
      /\ p1 \in Param /\ v1 \in Value(p1)
      /\ Len(request) = 2 => p2 \in Param /\ v2 \in Value(p2)
  <2>1. /\ Len(request) \in {1, 2}
        /\ \A i \in 1..Len(request) :
              request[i][1] \in Param /\ request[i][2] \in Value(request[i][1])
    BY RequestsAreSmall
  <2>2. \A n \in {1, 2} : 1 \in 1..n /\ (n = 2 => 2 \in 1..n)
    OBVIOUS
  <2>3. 1 \in 1..Len(request) /\ (Len(request) = 2 => 2 \in 1..Len(request))
    BY <2>1, <2>2
  <2>4. QED
    BY <2>1, <2>3
<1>3. AfterCallbacks(request, refused) = IF Len(request) = 1 THEN first ELSE second
  BY <1>2, LoopUnrolled
<1> HIDE DEF p1, v1, p2, v2
<1>4. first \in State /\ (queue # <<>> => first.queue # <<>>)
  BY <1>1, <1>2, CallbackTyped, StillPending
<1> HIDE DEF first
<1>5. Len(request) = 2 => second \in State /\ (first.queue # <<>> => second.queue # <<>>)
  BY <1>2, <1>4, CallbackTyped, StillPending
<1> HIDE DEF second
<1>6. QED
  BY <1>2, <1>3, <1>4, <1>5

\* What a function leaves of the program and the queue keeps the types.
LEMMA UserSetsTyped ==
    ASSUME TypeInv, UserSets
    PROVE  TypeInv'
<1>1. PICK request \in Requests, refused \in SUBSET Refuses : SetParameters(request, refused)
  BY DEF UserSets
<1> DEFINE st == AfterCallbacks(request, refused)
           Set(p) == \E i \in 1..Len(request) : request[i][1] = p
           Chosen(p) == request[CHOOSE i \in 1..Len(request) : request[i][1] = p][2]
<1>2. st \in State /\ (queue # <<>> => st.queue # <<>>)
  BY RequestTyped
<1>3. /\ program' = st.program /\ queue' = st.queue /\ marks' = st.marks
      /\ shown' = IF st.ok THEN [p \in Param |-> IF Set(p) THEN Chosen(p) ELSE shown[p]]
                           ELSE shown
      /\ terminated' = st.overflow
  BY <1>1 DEF SetParameters
<1>4. \A p \in Param : Set(p) => Chosen(p) \in 0..3
  BY RequestsAreSmall DEF Value
<1> HIDE DEF st, Set, Chosen
<1>5. shown' \in [Param -> 0..3]
  BY <1>3, <1>4 DEF TypeInv
<1>6. sets' \in 0..setup.sets
  BY RosParametersAssumption DEF UserSets, TypeInv, Setting
<1>7. QED
  BY <1>2, <1>3, <1>5, <1>6 DEF UserSets, TypeInv, State

\* The program with a parameter's initial value is one that it supports.
LEMMA FreshTyped ==
    ASSUME TypeInv, NEW p \in Param
    PROVE  Fresh(p) \in Program /\ Initial(p) \in {1, 2}
<1>1. program \in Program
  BY DEF TypeInv
<1>2. CASE p \in Option
  BY <1>1, <1>2 DEF Fresh, Initial, InProgram, Program, Option
<1>3. CASE p \notin Option
  <2>1. Initial(p) = 1 /\ p \in {"profile", "enable", "right"}
    BY <1>3 DEF Initial, Param, Option
  <2>2. [program EXCEPT ![p] = 1] \in Program
    <3>1. CASE p = "profile"
      BY <1>1, <3>1 DEF Program
    <3>2. CASE p = "enable"
      BY <1>1, <3>2 DEF Program
    <3>3. CASE p = "right"
      BY <1>1, <3>3 DEF Program, Width
    <3>4. QED
      BY <2>1, <3>1, <3>2, <3>3
  <2>3. QED
    BY <1>3, <2>1, <2>2 DEF Fresh
<1>4. QED
  BY <1>2, <1>3

\* The value that a parameter is declared with, when it is of the right type.
Launched(p) == IF setup.launch[p] = NotGiven THEN Initial(p) ELSE setup.launch[p]

LEMMA LaunchedTyped ==
    ASSUME TypeInv, NEW p \in Param, setup.launch[p] # Mistyped
    PROVE  Launched(p) \in Value(p) /\ Launched(p) \in 0..3 /\ Launched(p) # Mistyped
<1>1. setup.launch \in Launch
  BY RosParametersAssumption DEF TypeInv, Setting
<1>2. setup.launch[p] \in 0..4 /\ (p \in Option => setup.launch[p] # 3)
  BY <1>1 DEF Launch, NotGiven
<1>3. Initial(p) \in {1, 2}
  BY FreshTyped
<1>4. setup.launch[p] # NotGiven => setup.launch[p] \in 0..3
  BY <1>2 DEF NotGiven
<1> HIDE DEF Launched
<1>5. Launched(p) = Initial(p) \/ (setup.launch[p] # NotGiven /\ Launched(p) = setup.launch[p])
  BY DEF Launched
<1>6. Launched(p) \in 0..3 /\ Launched(p) # Mistyped /\ (p \in Option => Launched(p) # 3)
  BY <1>2, <1>3, <1>4, <1>5 DEF Mistyped
<1>7. QED
  BY <1>6 DEF Value

\* A value given at launch goes to the function, or selects a bank.
LEMMA AtLaunchCalls ==
    ASSUME NEW st, NEW p \in Param, NEW v, NEW refused
    PROVE  \/ AtLaunch(st, p, v, refused) = Call(st, p, v, refused)
           \/ /\ p = "sequence_id"
              /\ AtLaunch(st, p, v, refused) = [st EXCEPT !.program.sequence_id = v]
BY DEF AtLaunch

\* What the declaration of a parameter does.
Declared(p, refused) ==
    LET st0 == [CallState EXCEPT !.shown[p] = Launched(p), !.program = Fresh(p)] IN
    IF Launched(p) = Initial(p) THEN st0 ELSE AtLaunch(st0, p, Launched(p), refused)

LEMMA DeclaresIt ==
    ASSUME NEW p \in Param, DeclareParam(p)
    PROVE  \E refused \in SUBSET Refuses :
              /\ shown' = Declared(p, refused).shown /\ program' = Declared(p, refused).program
              /\ queue' = Declared(p, refused).queue
              /\ terminated' = Declared(p, refused).overflow
BY DEF DeclareParam, Declared, Launched

\* A parameter is declared with the program's value or one given at launch.
LEMMA DeclareTyped ==
    ASSUME TypeInv, NEW p \in Param, DeclareParam(p)
    PROVE  TypeInv'
<1>1. PICK refused \in SUBSET Refuses :
         /\ shown' = Declared(p, refused).shown /\ program' = Declared(p, refused).program
         /\ queue' = Declared(p, refused).queue
         /\ terminated' = Declared(p, refused).overflow
  BY DeclaresIt
<1> DEFINE value == Launched(p)
           st0 == [CallState EXCEPT !.shown[p] = value, !.program = Fresh(p)]
           st == Declared(p, refused)
<1>2. setup.launch[p] # Mistyped
  BY DEF DeclareParam
<1>3. value \in Value(p) /\ value \in 0..3 /\ value # Mistyped
  BY <1>2, LaunchedTyped
<1>4. st0 \in State /\ st0.queue = queue
  <2> HIDE DEF value
  <2>1. Fresh(p) \in Program
    BY FreshTyped
  <2>2. QED
    BY <1>3, <2>1, StartTyped DEF State
<1>5. \/ st = st0 \/ st = Call(st0, p, value, refused)
      \/ p = "sequence_id" /\ st = [st0 EXCEPT !.program.sequence_id = value]
  <2>1. st = IF value = Initial(p) THEN st0 ELSE AtLaunch(st0, p, value, refused)
    BY DEF Declared
  <2> HIDE DEF st, st0, value
  <2>2. \/ AtLaunch(st0, p, value, refused) = Call(st0, p, value, refused)
        \/ /\ p = "sequence_id"
           /\ AtLaunch(st0, p, value, refused) = [st0 EXCEPT !.program.sequence_id = value]
    BY AtLaunchCalls
  <2>3. QED
    BY <2>1, <2>2
<1> HIDE DEF value, st0, st
<1>6. p = "sequence_id" => value \in {1, 2}
  BY <1>3 DEF Value, Mistyped, Option
<1>7. st \in State
  <2>1. CASE st = st0 \/ st = Call(st0, p, value, refused)
    BY <1>3, <1>4, <2>1, CallTyped
  <2>2. CASE p = "sequence_id" /\ st = [st0 EXCEPT !.program.sequence_id = value]
    <3>1. value \in {1, 2}
      BY <1>6, <2>2
    <3>2. [st0 EXCEPT !.program.sequence_id = value] \in State
      BY <1>4, <3>1, Assigned
    <3>3. QED
      BY <2>2, <3>2
  <2>3. QED
    BY <1>5, <2>1, <2>2
<1>8. st.queue = queue \/ \E e \in Revert : st.queue = Append(queue, e)
  <2>1. CASE st = st0
    BY <1>4, <2>1
  <2>2. CASE st = Call(st0, p, value, refused)
    BY <1>3, <1>4, <2>2, CallQueues
  <2>3. CASE st = [st0 EXCEPT !.program.sequence_id = value]
    BY <1>4, <2>3 DEF State
  <2>4. QED
    BY <1>5, <2>1, <2>2, <2>3
<1>9. queue # <<>> => queue' # <<>>
  BY <1>1, <1>8, AppendProperties DEF TypeInv, st
<1>10. /\ shown' = st.shown /\ program' = st.program /\ queue' = st.queue
       /\ terminated' = st.overflow
  BY <1>1 DEF st
<1>11. /\ shown' \in [Param -> 0..3] /\ program' \in Program /\ queue' \in Seq(Revert)
       /\ terminated' \in BOOLEAN
  BY <1>7, <1>10 DEF State
<1>12. /\ UNCHANGED <<setup, marks, update, running, sets, removals>>
       /\ declared' = declared \cup {p} /\ functions' = functions \cup {p} /\ p \in setup.used
  BY DEF DeclareParam, Declare, userVars
<1>13. QED
  BY <1>2, <1>9, <1>11, <1>12 DEF TypeInv

\* With a value of a wrong type it has the initial value and no function.
LEMMA DeclareMistypedTyped ==
    ASSUME TypeInv, NEW p \in Param, DeclareMistyped(p)
    PROVE  TypeInv'
<1>1. shown' \in [Param -> 0..3] /\ program' \in Program
  BY FreshTyped DEF DeclareMistyped, TypeInv, Mistyped
<1>2. /\ UNCHANGED <<setup, marks, update, running, sets, removals, functions, queue, terminated>>
      /\ declared' = declared \cup {p} /\ p \in setup.used /\ setup.launch[p] = Mistyped
  BY DEF DeclareMistyped, Declare, userVars
<1>3. QED
  BY <1>1, <1>2 DEF TypeInv

\* The thread takes the head of the queue, and reads the gain when it is to show it.
LEMMA TakeTyped ==
    ASSUME TypeInv, TakeFunction
    PROVE  TypeInv'
<1> DEFINE f == Head(queue)
           value == IF f.value = FromDevice THEN InProgram(f.name) ELSE f.value
<1>1. f \in Revert /\ queue # <<>>
  BY HeadTailProperties DEF TypeInv, TakeFunction
<1>2. update' = [at |-> "taken", name |-> f.name, value |-> value]
  BY DEF TakeFunction
<1> HIDE DEF f
<1>3. f.name \in {"profile", "gain"} /\ value \in {1, 2}
  <2>1. program.gains[program.sequence_id] \in {1, 2}
    BY DEF TypeInv, Program
  <2>2. CASE \E v \in {1, 2} : f = [name |-> "profile", value |-> v]
    BY <2>2 DEF FromDevice
  <2>3. CASE f = [name |-> "gain", value |-> FromDevice]
    <3>1. f.name = "gain" /\ f.value = FromDevice
      BY <2>3
    <3>2. QED
      BY <2>1, <3>1 DEF InProgram
  <2>4. QED
    BY <1>1, <2>2, <2>3 DEF Revert
<1> HIDE DEF value
<1>4. update' \in Update /\ update'.at = "taken" /\ update'.name = f.name
      /\ update'.value = value
  BY <1>2, <1>3 DEF Update, Param
<1>5. QED
  BY <1>1, <1>3, <1>4 DEF TakeFunction, TypeInv, userVars, AtWork

\* The thread pops the queue after its request, or without one.
LEMMA FinishedTyped ==
    ASSUME TypeInv, update.at = "typed", NEW st \in State, st.queue # <<>>, Finished(st)
    PROVE  TypeInv'
<1>1. /\ program' = st.program
      /\ queue' = Tail(st.queue)
      /\ shown' = IF st.ok THEN [shown EXCEPT ![update.name] = update.value] ELSE shown
      /\ marks' = IF st.ok \/ st.marks = <<>> THEN st.marks ELSE Front(st.marks)
      /\ terminated' = (st.overflow \/ (~ st.ok /\ st.marks = <<>>))
      /\ update' = Idle
      /\ UNCHANGED <<setup, declared, functions, running, sets, removals>>
  BY DEF Finished, userVars
<1>2. update.name \in Param /\ update.value \in 0..3
  BY DEF TypeInv, Update
<1>3. queue' \in Seq(Revert)
  BY <1>1, HeadTailProperties DEF State
<1>4. marks' \in Seq(Param)
  <2>1. st.marks # <<>> => Front(st.marks) \in Seq(Param)
    BY FrontTyped DEF State
  <2>2. QED
    BY <1>1, <2>1 DEF State
<1>5. shown' \in [Param -> 0..3]
  BY <1>1, <1>2 DEF TypeInv
<1>6. terminated' \in BOOLEAN /\ program' \in Program
  BY <1>1 DEF State
<1>7. update' \in Update /\ update'.at = "waiting"
  BY <1>1 DEF Idle, Update, Param
<1>8. QED
  BY <1>1, <1>3, <1>4, <1>5, <1>6, <1>7 DEF TypeInv, AtWork

\* The thread sets the value by a request of its own.
LEMMA SetRosParamValueTyped ==
    ASSUME TypeInv, SetRosParamValue \/ TypeNotImplemented
    PROVE  TypeInv'
<1>1. /\ CallState \in State /\ CallState.queue = queue /\ queue # <<>> /\ update.at = "typed"
      /\ update.name \in {"profile", "gain"} /\ update.value \in 0..2
  BY StartTyped DEF SetRosParamValue, TypeNotImplemented, TypeInv, AtWork, Mistyped
<1>2. update.name \in Param /\ update.value \in Value(update.name)
  BY <1>1 DEF Param, Value
<1>3. CASE SetRosParamValue
  <2>1. PICK refused \in SUBSET Refuses :
           Finished(Callback(CallState, update.name, update.value, refused))
    BY <1>3 DEF SetRosParamValue
  <2> DEFINE st == Callback(CallState, update.name, update.value, refused)
  <2>2. st \in State /\ st.queue # <<>>
    BY <1>1, <1>2, CallbackTyped, StillPending
  <2> HIDE DEF st
  <2>3. Finished(st)
    BY <2>1 DEF st
  <2>4. QED
    BY <1>1, <2>2, <2>3, FinishedTyped
<1>4. CASE TypeNotImplemented
  <2>1. Thrown(CallState) \in State /\ Thrown(CallState).queue = queue
    BY <1>1, Assigned DEF Thrown, State
  <2>2. Finished(Thrown(CallState))
    BY <1>4 DEF TypeNotImplemented
  <2>3. QED
    BY <1>1, <2>1, <2>2, FinishedTyped
<1>5. QED
  BY <1>3, <1>4

\* The initial state.
LEMMA InitTyped == Init => TypeInv
<1> SUFFICES ASSUME Init PROVE TypeInv
  OBVIOUS
<1>1. program \in Program
  BY DEF Init, Program, Width
<1>2. shown \in [Param -> 0..3]
  BY DEF Init
<1>3. update \in Update /\ update.at = "waiting"
  BY DEF Init, Idle, Update, Param
<1>4. sets \in 0..setup.sets /\ removals \in 0..MaxRemovals
  BY RosParametersAssumption DEF Init, Setting
<1>5. queue \in Seq(Revert) /\ marks \in Seq(Param)
  BY EmptySeq DEF Init
<1>6. running \in BOOLEAN /\ terminated \in BOOLEAN /\ declared \subseteq setup.used
      /\ setup \in Settings /\ declared = {} /\ functions = {}
  BY DEF Init
<1>7. QED
  BY <1>1, <1>2, <1>3, <1>4, <1>5, <1>6 DEF TypeInv, AtWork

\* The other steps call no function.
LEMMA OtherStepsTyped ==
    ASSUME TypeInv,
           \/ \E p \in Param : RemoveParam(p)
           \/ PushMark \/ ReadType \/ NotDeclared \/ BadCast
           \/ EndThread \/ StopRunning \/ Join
           \/ UNCHANGED vars
    PROVE  TypeInv'
<1>1. CASE \E p \in Param : RemoveParam(p)
  <2>1. PICK p \in Param : RemoveParam(p)
    BY <1>1
  <2>2. removals' \in 0..MaxRemovals
    BY <2>1, RosParametersAssumption DEF RemoveParam, TypeInv
  <2>3. /\ declared' = declared \ {p} /\ functions' = functions \ {p}
        /\ UNCHANGED <<setup, shown, program, queue, marks, update, running, terminated, sets>>
    BY <2>1 DEF RemoveParam
  <2>4. QED
    BY <2>2, <2>3 DEF TypeInv
<1>2. CASE PushMark
  <2>1. update.name \in Param /\ update.at = "taken"
    BY <1>2 DEF PushMark, TypeInv, Update
  <2>2. marks' \in Seq(Param)
    BY <1>2, <2>1, AppendProperties DEF PushMark, TypeInv
  <2>3. /\ update' \in Update /\ update'.name = update.name /\ update'.value = update.value
    BY <1>2 DEF PushMark, TypeInv, Update
  <2>4. QED
    BY <1>2, <2>1, <2>2, <2>3 DEF PushMark, TypeInv, userVars, AtWork
<1>3. CASE NotDeclared \/ BadCast
  BY <1>3 DEF NotDeclared, BadCast, TypeInv, userVars
<1>4. CASE EndThread
  <2>1. update' \in Update /\ update'.at = "ended"
    BY <1>4 DEF EndThread, Idle, Update, Param
  <2>2. QED
    BY <1>4, <2>1 DEF EndThread, TypeInv, userVars, AtWork
<1>5. CASE StopRunning
  BY <1>5 DEF StopRunning, TypeInv, userVars
<1>6. CASE Join
  BY <1>6 DEF Join, TypeInv, userVars, AtWork
<1>7. CASE UNCHANGED vars
  BY <1>7 DEF vars, TypeInv, userVars
<1>8. CASE ReadType
  <2> DEFINE value == IF shown[update.name] = Mistyped THEN Mistyped ELSE update.value
  <2>1. /\ update.at = "marked" /\ update' = [update EXCEPT !.at = "typed", !.value = value]
        /\ UNCHANGED <<setup, declared, functions, shown, program, queue, marks, running,
                       terminated, sets, removals>>
    BY <1>8 DEF ReadType, userVars
  <2>2. value = Mistyped \/ value = update.value
    OBVIOUS
  <2> HIDE DEF value
  <2>3. update.value \in {1, 2} /\ queue # <<>> /\ update.name \in {"profile", "gain"}
    BY <2>1 DEF TypeInv, AtWork
  <2>4. value \in 0..3
    BY <2>2, <2>3 DEF Mistyped
  <2>5. update' \in Update /\ update'.at = "typed" /\ update'.value = value
        /\ update'.name = update.name
    BY <2>1, <2>4 DEF TypeInv, Update
  <2>6. QED
    BY <2>1, <2>2, <2>3, <2>5 DEF TypeInv, AtWork
<1>9. QED
  BY <1>1, <1>2, <1>3, <1>4, <1>5, <1>6, <1>7, <1>8

\* TypeInv is inductive.
LEMMA StepTyped == TypeInv /\ [Next]_vars => TypeInv'
<1> SUFFICES ASSUME TypeInv, [Next]_vars PROVE TypeInv'
  OBVIOUS
<1>1. CASE UserSets
  BY <1>1, UserSetsTyped
<1>2. ASSUME NEW p \in Param, DeclareParam(p) \/ DeclareMistyped(p) PROVE TypeInv'
  BY <1>2, DeclareTyped, DeclareMistypedTyped
<1>3. CASE TakeFunction
  BY <1>3, TakeTyped
<1>4. CASE SetRosParamValue \/ TypeNotImplemented
  BY <1>4, SetRosParamValueTyped
<1>5. CASE \/ \E p \in Param : RemoveParam(p)
           \/ PushMark \/ ReadType \/ NotDeclared \/ BadCast
           \/ EndThread \/ StopRunning \/ Join
           \/ UNCHANGED vars
  BY <1>5, OtherStepsTyped
<1>6. QED
  BY <1>1, <1>2, <1>3, <1>4, <1>5 DEF Next, UpdateThread

\* Types of the state in every setting, whatever is refused.
THEOREM ParametersTyped == Spec => []TypeInv
<1>1. Init => TypeInv
  BY InitTyped
<1>2. TypeInv /\ [Next]_vars => TypeInv'
  BY StepTyped
<1>3. QED
  BY <1>1, <1>2, PTL DEF Spec

\* TypeOK in every setting.
THEOREM ParametersTypeOK == Spec => []TypeOK
<1>1. ASSUME TypeInv PROVE TypeOK
  <2>1. Revert \subseteq Entry
    BY DEF Revert, Entry, Param, FromDevice
  <2>2. queue \in Seq(Entry)
    <3>1. /\ queue \in Seq(Revert)
      BY <1>1 DEF TypeInv
    <3>2. QED
      BY <2>1, <3>1, SeqMonotonic
  <2>3. program \in [profile : 0..3, enable : 0..3, sequence_id : 1..2, right : 0..3,
                     gains : [1..2 -> 1..2]]
    <3>1. {1, 2} = 1..2 /\ {1, 2} \subseteq 0..3 /\ 0..Width \subseteq 0..3
      BY DEF Width
    <3>2. QED
      BY <1>1, <3>1 DEF TypeInv, Program
  <2>4. QED
    BY <1>1, <2>2, <2>3 DEF TypeInv, TypeOK, Update
<1>2. QED
  BY <1>1, ParametersTyped, PTL

\* ProgramValid, for every order of requests, launches, reverts and refusals.
THEOREM ProgramStaysValid == Spec => []ProgramValid
<1>1. TypeInv => ProgramValid
  BY DEF TypeInv, Program, ProgramValid, Width
<1>2. QED
  BY <1>1, ParametersTyped, PTL

-------------------------------------------------------------------------------
\* Users who wait.

\* Nobody but a refusing device makes a function throw on a value of the right type.
LEMMA TakenUnlessRefused ==
    ASSUME NEW st \in State, NEW p \in Param, NEW v \in Value(p), NEW refused,
           st.ok, v # Mistyped, p \notin refused
    PROVE  Call(st, p, v, refused).ok
<1>1. CASE p = "profile"
  <2>1. Call(st, p, v, refused) = Checked(st, v)
    BY <1>1, Functions
  <2>2. Checked(st, v).ok
    BY DEF Checked, Queued, State
  <2>3. QED
    BY <2>1, <2>2
<1>2. CASE p = "enable"
  BY <1>2, Functions DEF State
<1>3. CASE p = "gain"
  BY <1>3, Functions DEF SetOption, State
<1>4. CASE p = "sequence_id"
  <2>1. Call(st, p, v, refused) = SetSequenceId(st, v, refused)
    BY <1>4, Functions
  <2>2. SetSequenceId(st, v, refused).ok
    BY <1>4 DEF SetSequenceId, Queued, State
  <2>3. QED
    BY <2>1, <2>2
<1>5. CASE p = "right"
  <2>1. Call(st, p, v, refused) = SetRoi(st, v)
    BY <1>5, Functions
  <2>2. SetRoi(st, v).ok
    BY DEF SetRoi, State
  <2>3. QED
    BY <2>1, <2>2
<1>6. QED
  BY <1>1, <1>2, <1>3, <1>4, <1>5 DEF Param

\* When an orderly user acts, nothing is pending and nothing marked.
LEMMA QuietIsSettled ==
    ASSUME TypeInv, OrderInv, Orderly, Quiet
    PROVE  /\ queue = <<>> /\ marks = <<>> /\ update.at = "waiting"
           /\ \A p \in functions : shown[p] = Has(program, p) /\ shown[p] # Mistyped
BY DEF OrderInv, Quiet, InProgram, Has

\* The program's other variables stay when a parameter is declared, and it has its initial
\* value.
LEMMA FreshKeeps ==
    ASSUME TypeInv, NEW p \in Param
    PROVE  /\ Has(Fresh(p), p) = Initial(p)
           /\ \A x \in Param : x # p => Has(Fresh(p), x) = Has(program, x)
<1>1. program \in Program
  BY DEF TypeInv
<1>2. CASE p \in Option
  BY <1>1, <1>2 DEF Initial, InProgram, Has, Fresh
<1>3. CASE p \notin Option
  <2> DEFINE fresh == Fresh(p)
  <2>1. fresh = [program EXCEPT ![p] = 1] /\ Initial(p) = 1 /\ p \in {"profile", "enable", "right"}
    BY <1>3 DEF Initial, Fresh, Param, Option
  <2> DEFINE Goal(f) == /\ Has(f, p) = Initial(p)
                        /\ \A x \in Param : x # p => Has(f, x) = Has(program, x)
  <2> HIDE DEF fresh
  <2>2. ASSUME p = "profile" PROVE Goal(fresh)
    <3>1. /\ fresh.profile = 1 /\ fresh.enable = program.enable /\ fresh.right = program.right
          /\ fresh.sequence_id = program.sequence_id /\ fresh.gains = program.gains
      BY <1>1, <2>1, <2>2 DEF Program
    <3>2. QED
      BY <2>1, <2>2, <3>1 DEF Has, Param
  <2>3. ASSUME p = "enable" PROVE Goal(fresh)
    <3>1. /\ fresh.enable = 1 /\ fresh.profile = program.profile /\ fresh.right = program.right
          /\ fresh.sequence_id = program.sequence_id /\ fresh.gains = program.gains
      BY <1>1, <2>1, <2>3 DEF Program
    <3>2. QED
      BY <2>1, <2>3, <3>1 DEF Has, Param
  <2>4. ASSUME p = "right" PROVE Goal(fresh)
    <3>1. /\ fresh.right = 1 /\ fresh.profile = program.profile /\ fresh.enable = program.enable
          /\ fresh.sequence_id = program.sequence_id /\ fresh.gains = program.gains
      BY <1>1, <2>1, <2>4 DEF Program
    <3>2. QED
      BY <2>1, <2>4, <3>1 DEF Has, Param
  <2>5. Goal(fresh)
    BY <2>1, <2>2, <2>3, <2>4
  <2>6. QED
    BY <2>5 DEF fresh
<1>4. QED
  BY <1>2, <1>3

\* A request of an orderly user leaves one revert pending, or none.
LEMMA UserSetsInOrder ==
    ASSUME TypeInv, OrderInv, Orderly, UserSets
    PROVE  OrderInv'
<1>1. PICK request \in Requests, refused \in SUBSET Refuses : SetParameters(request, refused)
  BY DEF UserSets
<1>2. Quiet
  BY DEF UserSets, Orderly
<1>3. /\ queue = <<>> /\ marks = <<>> /\ update.at = "waiting"
      /\ \A x \in functions : shown[x] = Has(program, x) /\ shown[x] # Mistyped
  BY <1>2, QuietIsSettled
<1> DEFINE p == request[1][1]
           v == request[1][2]
           st == Callback(CallState, p, v, refused)
           Set(x) == \E i \in 1..Len(request) : request[i][1] = x
           Chosen(x) == request[CHOOSE i \in 1..Len(request) : request[i][1] = x][2]
<1>4. Len(request) = 1 /\ p \in Param \ {"right"} /\ v \in Value(p)
  <2>1. Len(request) = 1 /\ 1 \in 1..Len(request)
    BY RequestsAreSmall DEF Orderly
  <2>2. p \in declared /\ p \in Param /\ v \in Value(p)
    BY <2>1, RequestsAreSmall
  <2>3. "right" \notin declared
    BY DEF Orderly, TypeInv
  <2>4. QED
    BY <2>1, <2>2, <2>3
<1>5. AfterCallbacks(request, refused) = st
  BY <1>4, LoopUnrolled
<1>6. /\ program' = st.program /\ queue' = st.queue /\ marks' = st.marks
      /\ shown' = IF st.ok THEN [x \in Param |-> IF Set(x) THEN Chosen(x) ELSE shown[x]]
                           ELSE shown
  <2> HIDE DEF st
  <2>1. QED
    BY <1>1, <1>5 DEF SetParameters
<1>7. \A x \in Param : (Set(x) <=> x = p) /\ Chosen(p) = v
  BY <1>4
<1> HIDE DEF p, v, Set, Chosen
<1>8. CallState \in State /\ CallState.queue = <<>> /\ CallState.ok
      /\ CallState.marks = <<>> /\ CallState.shown = shown /\ CallState.program = program
  BY <1>3, StartTyped DEF CallState
<1>9. "sequence_id" \notin refused
  BY DEF Orderly
<1>10. /\ Len(st.queue) <= 1
       /\ st.queue # <<>> => /\ st.queue[1].value \in {FromDevice, Has(st.program, st.queue[1].name)}
                             /\ setup.launch[st.queue[1].name] # Mistyped
       /\ \A x \in Param : x # p => Has(st.program, x) = Has(program, x) \/ Pending(st.queue, x)
       /\ p \in functions /\ st.ok =>
             v # Mistyped /\ (Has(st.program, p) = v \/ Pending(st.queue, p))
       /\ ~ st.ok => st.program = program /\ st.queue = <<>>
       /\ st.marks = <<>>
  <2>1. CASE p \notin functions
    <3>1. st = CallState
      BY <2>1 DEF Callback
    <3>2. QED
      BY <1>8, <2>1, <3>1
  <2>2. CASE p \in functions
    <3> DEFINE c == Call(CallState, p, v, refused)
    <3>1. ~ Contains(CallState.marks, p)
      BY <1>8 DEF Contains
    <3>2. st = c
      BY <2>2, <3>1 DEF Callback
    <3>3. /\ Len(c.queue) <= 1
          /\ c.queue # <<>> => /\ c.queue[1].value \in {FromDevice, Has(c.program, c.queue[1].name)}
                               /\ c.queue[1].name \in {p, "gain"}
          /\ \A x \in Param : x # p => Has(c.program, x) = Has(program, x) \/ Pending(c.queue, x)
          /\ c.ok => Has(c.program, p) = v \/ Pending(c.queue, p)
          /\ c.ok => v # Mistyped
          /\ ~ c.ok => c.program = program /\ c.queue = <<>>
          /\ c.marks = <<>>
      BY <1>4, <1>8, <1>9, CallBrings
    <3> HIDE DEF st, c
    <3>4. setup.launch[p] # Mistyped /\ setup.launch["gain"] # Mistyped
      BY <2>2 DEF TypeInv, Orderly
    <3>5. QED
      BY <3>2, <3>3, <3>4
  <2>3. QED
    BY <2>1, <2>2
<1> HIDE DEF st
<1>11. functions \subseteq Param
  BY RosParametersAssumption DEF TypeInv, Setting
<1>12. ASSUME NEW x \in functions
       PROVE  (shown'[x] = Has(program', x) \/ Pending(queue', x)) /\ shown'[x] # Mistyped
  <2>1. CASE ~ st.ok
    BY <1>3, <1>6, <1>10, <2>1
  <2>2. CASE st.ok /\ x = p
    <3>1. shown'[x] = v
      BY <1>6, <1>7, <1>11, <2>2
    <3>2. QED
      BY <1>6, <1>10, <2>2, <3>1
  <2>3. CASE st.ok /\ x # p
    <3>1. shown'[x] = Has(program, x) /\ shown'[x] # Mistyped
      BY <1>3, <1>6, <1>7, <1>11, <2>3
    <3>2. QED
      BY <1>6, <1>10, <1>11, <2>3, <3>1
  <2>4. QED
    BY <2>1, <2>2, <2>3
<1>13. functions' = functions /\ update' = update /\ setup' = setup
  BY DEF UserSets
<1>14. QED
  BY <1>3, <1>6, <1>10, <1>12, <1>13 DEF OrderInv, InProgram, Has, Pending, AtWork

\* So does a value given at launch, which no device refuses in an orderly setting.
LEMMA DeclareInOrder ==
    ASSUME TypeInv, OrderInv, Orderly, NEW p \in Param, DeclareParam(p)
    PROVE  OrderInv'
<1>1. PICK refused \in SUBSET Refuses :
         /\ shown' = Declared(p, refused).shown /\ program' = Declared(p, refused).program
         /\ queue' = Declared(p, refused).queue
  BY DeclaresIt
<1> DEFINE value == Launched(p)
           fresh == Fresh(p)
           st0 == [CallState EXCEPT !.shown[p] = value, !.program = fresh]
           st == Declared(p, refused)
<1>2. Quiet /\ p # "right" /\ p \notin declared /\ setup.launch[p] # Mistyped
  BY DEF DeclareParam, Declare, Orderly
<1>3. /\ queue = <<>> /\ marks = <<>> /\ update.at = "waiting"
      /\ \A x \in functions : shown[x] = Has(program, x) /\ shown[x] # Mistyped
  BY <1>2, QuietIsSettled
<1>4. value \in Value(p) /\ value \in 0..3 /\ value # Mistyped
  BY <1>2, LaunchedTyped
<1>5. /\ fresh \in Program /\ Has(fresh, p) = Initial(p)
      /\ \A x \in Param : x # p => Has(fresh, x) = Has(program, x)
  BY FreshTyped, FreshKeeps
<1>6. value # Initial(p) => p \notin refused /\ p # "sequence_id"
  BY DEF Orderly, Launched
<1>7. st = IF value = Initial(p) THEN st0 ELSE AtLaunch(st0, p, value, refused)
  BY DEF Declared
<1> HIDE DEF value, fresh, st
<1>8. st0 \in State /\ st0.queue = <<>> /\ st0.ok /\ st0.program = fresh
      /\ st0.shown = [shown EXCEPT ![p] = value]
  BY <1>3, <1>4, <1>5, StartTyped DEF State, CallState
<1> HIDE DEF st0
<1>9. /\ Len(st.queue) <= 1
      /\ st.queue # <<>> => /\ st.queue[1].value \in {FromDevice, Has(st.program, st.queue[1].name)}
                            /\ st.queue[1].name \in {p, "gain"}
      /\ \A x \in Param : x # p => Has(st.program, x) = Has(fresh, x) \/ Pending(st.queue, x)
      /\ Has(st.program, p) = value \/ Pending(st.queue, p)
      /\ st.shown = st0.shown
  <2>1. CASE value = Initial(p)
    BY <1>5, <1>7, <1>8, <2>1
  <2>2. CASE value # Initial(p)
    <3> DEFINE c == Call(st0, p, value, refused)
    <3>1. p \in Param \ {"right"} /\ "sequence_id" \notin refused
      BY <1>2 DEF Orderly
    <3>2. c.ok
      BY <1>4, <1>6, <1>8, <2>2, TakenUnlessRefused
    <3>3. /\ Len(c.queue) <= 1
          /\ c.queue # <<>> => /\ c.queue[1].value \in {FromDevice, Has(c.program, c.queue[1].name)}
                               /\ c.queue[1].name \in {p, "gain"}
          /\ \A x \in Param : x # p => Has(c.program, x) = Has(fresh, x) \/ Pending(c.queue, x)
          /\ c.ok => Has(c.program, p) = value \/ Pending(c.queue, p)
          /\ c.shown = st0.shown
      BY <1>4, <1>8, <3>1, CallBrings
    <3>4. st = c
      BY <1>6, <1>7, <2>2 DEF AtLaunch
    <3> HIDE DEF c
    <3>5. QED
      BY <3>2, <3>3, <3>4
  <2>3. QED
    BY <2>1, <2>2
<1>10. shown' = st.shown /\ program' = st.program /\ queue' = st.queue
  BY <1>1 DEF st
<1>11. /\ functions' = functions \cup {p} /\ update' = update /\ marks' = marks
       /\ setup' = setup
  BY DEF DeclareParam, Declare
<1>12. functions \subseteq Param /\ p \notin functions /\ setup.launch["gain"] # Mistyped
  BY <1>2, RosParametersAssumption DEF TypeInv, Setting, Orderly
<1>13. ASSUME NEW x \in functions'
       PROVE  (shown'[x] = Has(program', x) \/ Pending(queue', x)) /\ shown'[x] # Mistyped
  <2>1. CASE x = p
    <3>1. shown'[x] = value
      BY <1>8, <1>9, <1>10, <2>1 DEF TypeInv
    <3>2. QED
      BY <1>4, <1>9, <1>10, <2>1, <3>1
  <2>2. CASE x # p
    <3>1. x \in functions /\ x \in Param
      BY <1>11, <1>12, <2>2
    <3>2. shown'[x] = Has(program, x) /\ shown'[x] # Mistyped
      BY <1>3, <1>8, <1>9, <1>10, <2>2, <3>1 DEF TypeInv
    <3>3. QED
      BY <1>5, <1>9, <1>10, <2>2, <3>1, <3>2
  <2>3. QED
    BY <2>1, <2>2
<1>14. QED
  BY <1>2, <1>3, <1>9, <1>10, <1>11, <1>12, <1>13 DEF OrderInv, InProgram, Has, Pending, AtWork

\* The thread takes the one revert that is pending, with the value the program has.
LEMMA TakeInOrder ==
    ASSUME TypeInv, OrderInv, Orderly, TakeFunction
    PROVE  OrderInv'
<1>1. queue # <<>> /\ Head(queue) = queue[1] /\ update.at = "waiting"
  BY DEF TakeFunction
<1> DEFINE f == queue[1]
           value == IF f.value = FromDevice THEN InProgram(f.name) ELSE f.value
<1>2. value = InProgram(f.name)
  BY <1>1 DEF OrderInv
<1>3. update' = [at |-> "taken", name |-> f.name, value |-> value]
  BY <1>1 DEF TakeFunction
<1> HIDE DEF value
<1>4. update'.at = "taken" /\ update'.name = queue[1].name /\ update'.value = value
  BY <1>3
<1>5. InProgram(f.name)' = InProgram(f.name)
  BY DEF TakeFunction, InProgram
<1>6. QED
  BY <1>1, <1>2, <1>4, <1>5 DEF TakeFunction, OrderInv, InProgram, AtWork

\* The mark of the thread is the only one.
LEMMA PushInOrder ==
    ASSUME TypeInv, OrderInv, Orderly, PushMark
    PROVE  OrderInv'
<1>1. update.at = "taken" /\ marks = <<>>
  BY DEF PushMark, OrderInv
<1>2. update' = [update EXCEPT !.at = "marked"]
  BY DEF PushMark
<1>3. update'.at = "marked" /\ update'.name = update.name /\ update'.value = update.value
  BY <1>2 DEF TypeInv, Update
<1>4. marks' = <<update'.name>>
  BY <1>1, <1>3 DEF PushMark
<1>5. QED
  BY <1>1, <1>3, <1>4 DEF PushMark, OrderInv, InProgram, AtWork

\* The thread's request finds its mark: no function is called, and the server shows
\* what the program has.
LEMMA SetInOrder ==
    ASSUME TypeInv, OrderInv, Orderly, SetRosParamValue
    PROVE  OrderInv'
<1>1. PICK refused \in SUBSET Refuses :
         Finished(Callback(CallState, update.name, update.value, refused))
  BY DEF SetRosParamValue
<1> DEFINE p == update.name
           v == update.value
           st == Callback(CallState, p, v, refused)
<1>2. /\ update.at = "typed" /\ marks = <<p>> /\ p \in Param
      /\ queue # <<>> /\ Len(queue) <= 1 /\ p = queue[1].name /\ v = InProgram(p)
      /\ \A x \in functions : shown[x] = InProgram(x) \/ queue[1].name = x
      /\ p \in functions /\ v # Mistyped /\ \A x \in functions : shown[x] # Mistyped
  <2>1. update.at = "typed" /\ p \in declared
    BY DEF SetRosParamValue
  <2>2. /\ marks = <<p>> /\ p \in Param
        /\ queue # <<>> /\ Len(queue) <= 1 /\ p = queue[1].name /\ v = InProgram(p)
        /\ \A x \in functions :
              (shown[x] = InProgram(x) \/ queue[1].name = x) /\ shown[x] # Mistyped
        /\ setup.launch[queue[1].name] # Mistyped
    BY <2>1 DEF OrderInv, TypeInv, Update, AtWork
  <2>3. p \in functions
    BY <2>1, <2>2 DEF TypeInv
  <2>4. v # Mistyped
    <3>1. p \in {"profile", "gain"} /\ program \in Program
      BY <2>1 DEF TypeInv, AtWork
    <3>2. InProgram(p) \in {1, 2}
      BY <3>1 DEF InProgram, Program
    <3>3. QED
      BY <2>2, <3>2 DEF Mistyped
  <2>5. QED
    BY <2>1, <2>2, <2>3, <2>4
<1>3. Contains(marks, p) /\ RemoveFirst(marks, p) = <<>>
  <2>1. marks \in Seq(Param) /\ Len(marks) = 1 /\ marks[1] = p
    BY <1>2 DEF TypeInv
  <2>2. 1 \in 1..Len(marks)
    BY <2>1
  <2>3. QED
    BY <1>2, <2>1, <2>2, MarkErased DEF Contains
<1> HIDE DEF p, v
<1>4. st = [CallState EXCEPT !.marks = RemoveFirst(@, p)]
  BY <1>2, <1>3 DEF Callback, CallState
<1>5. st.program = program /\ st.queue = queue /\ st.marks = <<>> /\ st.ok
  <2> HIDE DEF st
  <2>1. QED
    BY <1>3, <1>4 DEF CallState
<1>6. /\ program' = st.program /\ queue' = Tail(st.queue)
      /\ shown' = IF st.ok THEN [shown EXCEPT ![p] = v] ELSE shown
      /\ marks' = IF st.ok \/ st.marks = <<>> THEN st.marks ELSE Front(st.marks)
      /\ update' = Idle /\ functions' = functions
  <2> HIDE DEF st
  <2>1. Finished(st)
    BY <1>1 DEF st, p, v
  <2>2. QED
    BY <2>1 DEF Finished, p, v
<1> HIDE DEF st
<1>7. program' = program /\ shown' = [shown EXCEPT ![p] = v] /\ marks' = <<>>
  BY <1>5, <1>6
<1>8. queue' = <<>>
  <2>1. PICK n \in Nat : n = Len(queue) /\ n # 0
    BY <1>2, LenProperties, EmptySeq DEF TypeInv
  <2>2. n = 1
    BY <1>2, <2>1
  <2>3. queue \in Seq(Revert) /\ Len(queue) - 1 = 0
    BY <2>1, <2>2 DEF TypeInv
  <2>4. Tail(queue) \in Seq(Revert) /\ Len(Tail(queue)) = Len(queue) - 1
    BY <1>2, <2>3, HeadTailProperties
  <2>5. QED
    BY <1>5, <1>6, <2>3, <2>4, EmptySeq
<1>9. update'.at = "waiting" /\ functions' = functions
  BY <1>6 DEF Idle
<1>10. \A x \in functions : shown'[x] = InProgram(x) /\ shown'[x] # Mistyped
  <2>1. functions \subseteq Param /\ shown \in [Param -> 0..3]
    BY RosParametersAssumption DEF TypeInv, Setting
  <2>2. QED
    BY <1>2, <1>7, <2>1
<1>11. QED
  BY <1>7, <1>8, <1>9, <1>10 DEF OrderInv, InProgram, AtWork

\* The thread reads the type of a value that the server shows rightly typed.
LEMMA ReadInOrder ==
    ASSUME TypeInv, OrderInv, Orderly, ReadType
    PROVE  OrderInv'
<1>1. /\ update.at = "marked" /\ update.name \in declared
      /\ update' = [update EXCEPT !.at = "typed",
            !.value = IF shown[update.name] = Mistyped THEN Mistyped ELSE update.value]
      /\ UNCHANGED <<setup, functions, shown, program, queue, marks>>
  BY DEF ReadType
<1>2. update.name \in functions
  BY <1>1 DEF TypeInv, OrderInv, AtWork
<1>3. shown[update.name] # Mistyped
  BY <1>2 DEF OrderInv
<1>4. update'.at = "typed" /\ update'.name = update.name /\ update'.value = update.value
  BY <1>1, <1>3 DEF TypeInv, Update
<1>5. QED
  BY <1>1, <1>4 DEF OrderInv, InProgram, AtWork

\* It never finds another type.
LEMMA ReadsItsType ==
    ASSUME TypeInv, OrderInv, Orderly, update.at = "typed"
    PROVE  update.value # Mistyped
<1>1. update.name \in {"profile", "gain"} /\ program \in Program
  BY DEF TypeInv, AtWork
<1>2. InProgram(update.name) \in {1, 2}
  BY <1>1 DEF InProgram, Program
<1>3. QED
  BY <1>2 DEF OrderInv, AtWork, Mistyped

\* The other steps queue nothing and show nothing.
LEMMA OtherStepsInOrder ==
    ASSUME TypeInv, OrderInv, Orderly,
           \/ \E p \in Param : RemoveParam(p) \/ DeclareMistyped(p)
           \/ NotDeclared \/ BadCast \/ TypeNotImplemented
           \/ EndThread \/ StopRunning \/ Join
           \/ UNCHANGED vars
    PROVE  OrderInv'
<1>1. ASSUME NEW p \in Param, RemoveParam(p) PROVE OrderInv'
  <2>1. /\ functions' = functions \ {p}
        /\ UNCHANGED <<setup, shown, program, queue, marks, update>>
    BY <1>1 DEF RemoveParam
  <2>2. QED
    BY <2>1 DEF OrderInv, InProgram
<1>2. CASE NotDeclared
  BY <1>2 DEF NotDeclared, OrderInv, InProgram
<1>3. CASE EndThread
  <2>1. update'.at = "ended" /\ update.at = "waiting"
    BY <1>3 DEF EndThread, Idle
  <2>2. QED
    BY <1>3, <2>1 DEF EndThread, OrderInv, InProgram, AtWork
<1>4. CASE StopRunning
  BY <1>4 DEF StopRunning, OrderInv, InProgram
<1>5. CASE Join
  BY <1>5 DEF Join, OrderInv, InProgram
<1>6. CASE UNCHANGED vars
  BY <1>6 DEF vars, OrderInv, InProgram
<1>7. CASE BadCast \/ TypeNotImplemented
  BY <1>7, ReadsItsType DEF BadCast, TypeNotImplemented
<1>8. ASSUME NEW p \in Param, DeclareMistyped(p) PROVE OrderInv'
  <2>1. /\ UNCHANGED <<setup, functions, queue, marks, update>>
        /\ shown' = [shown EXCEPT ![p] = Mistyped] /\ program' = Fresh(p)
        /\ p \notin declared /\ Quiet /\ setup.launch[p] = Mistyped
    BY <1>8 DEF DeclareMistyped, Declare, Orderly
  <2>2. /\ queue = <<>> /\ marks = <<>> /\ update.at = "waiting"
        /\ \A x \in functions : shown[x] = Has(program, x) /\ shown[x] # Mistyped
    BY <2>1, QuietIsSettled
  <2>3. functions \subseteq Param /\ functions \subseteq declared /\ shown \in [Param -> 0..3]
    BY RosParametersAssumption DEF TypeInv, Setting
  <2>4. p \notin functions
    BY <2>1, <2>3
  <2>5. \A x \in functions : shown'[x] = shown[x]
    BY <2>1, <2>3, <2>4
  <2>6. \A x \in functions : Has(program', x) = Has(program, x)
    BY <2>1, <2>3, <2>4, FreshKeeps
  <2>7. QED
    BY <2>1, <2>2, <2>5, <2>6 DEF OrderInv, InProgram, Has, AtWork
<1>9. QED
  BY <1>1, <1>2, <1>3, <1>4, <1>5, <1>6, <1>7, <1>8

\* No step changes the setting.
LEMMA SetupStays == [Next]_vars => setup' = setup
BY DEF Next, UpdateThread, vars, UserSets, DeclareParam, DeclareMistyped, Declare, RemoveParam,
       TakeFunction, PushMark, ReadType, NotDeclared, SetRosParamValue, TypeNotImplemented, BadCast,
       Finished, EndThread, StopRunning, Join

\* OrderInv, relative to TypeInv.
LEMMA StepInOrder == TypeInv /\ OrderInv /\ [Next]_vars => OrderInv'
<1> SUFFICES ASSUME TypeInv, OrderInv, [Next]_vars PROVE OrderInv'
  OBVIOUS
<1>1. CASE ~ Orderly
  <2>1. setup' = setup
    BY SetupStays
  <2>2. ~ Orderly'
    BY <1>1, <2>1 DEF Orderly
  <2>3. QED
    BY <2>2 DEF OrderInv
<1>2. CASE Orderly
  <2>1. CASE UserSets
    BY <1>2, <2>1, UserSetsInOrder
  <2>2. ASSUME NEW p \in Param, DeclareParam(p) PROVE OrderInv'
    BY <1>2, <2>2, DeclareInOrder
  <2>3. CASE TakeFunction
    BY <1>2, <2>3, TakeInOrder
  <2>4. CASE PushMark
    BY <1>2, <2>4, PushInOrder
  <2>5. CASE SetRosParamValue \/ ReadType
    BY <1>2, <2>5, SetInOrder, ReadInOrder
  <2>6. CASE \/ \E p \in Param : RemoveParam(p) \/ DeclareMistyped(p)
             \/ NotDeclared \/ BadCast \/ TypeNotImplemented
             \/ EndThread \/ StopRunning \/ Join
             \/ UNCHANGED vars
    BY <1>2, <2>6, OtherStepsInOrder
  <2>7. QED
    BY <2>1, <2>2, <2>3, <2>4, <2>5, <2>6 DEF Next, UpdateThread
<1>3. QED
  BY <1>1, <1>2

\* The reverts of users who wait: one at a time, and to the value the program has.
THEOREM RevertsInOrder == Spec => []OrderInv
<1>1. Init => OrderInv
  <2>1. Idle.at = "waiting"
    BY DEF Idle
  <2>2. QED
    BY <2>1 DEF Init, OrderInv, AtWork
<1>2. TypeInv /\ OrderInv /\ [Next]_vars => OrderInv'
  BY StepInOrder
<1>3. QED
  BY <1>1, <1>2, ParametersTyped, PTL DEF Spec

\* PatientUsersSee, for any number of requests and removals, and refusals of the gain
\* at any of them.
THEOREM PatientUsersSeeTheProgram == Spec => []PatientUsersSee
<1>1. OrderInv => PatientUsersSee
  BY DEF OrderInv, PatientUsersSee, ParameterFollowsProgram, Quiet
<1>2. QED
  BY <1>1, RevertsInOrder, PTL

-------------------------------------------------------------------------------
\* What is refused is to be reverted.

\* A revert of the profile is in the queue.
ProfilePending(q) == \E k \in 1..Len(q) : q[k].name = "profile"

\* While the program runs, the server shows a profile that has a function and that the
\* program cannot have only while its revert is in the queue.
RefusedIsPending ==
    setup.launch["gain"] # Mistyped /\ ~ terminated
       /\ "profile" \in functions /\ shown["profile"] \notin {1, 2} =>
          ProfilePending(queue)

\* The thread's mark, which may stand for the call that would queue the revert, is there
\* only while the thread is about to set the head of the queue.  A value of a wrong type
\* reaches the server only in place of that mark, and is then read as the type of what the
\* thread is about to set.
RefusedInv ==
    /\ marks = <<>> \/ (update.at \in {"marked", "typed"} /\ marks = <<update.name>>)
    /\ update.at \in AtWork => queue[1].name = update.name
    /\ "profile" \in functions /\ shown["profile"] \notin {1, 2} => ProfilePending(queue)
    /\ "profile" \in functions /\ shown["profile"] = Mistyped =>
          update.at \in {"marked", "typed"} /\ update.name = "profile" /\ marks = <<>>
    /\ update.at = "typed" /\ update.name = "profile" /\ update.value = Mistyped => marks = <<>>

\* The launch gives neither of the values that are queued with a wrong type.
TypedLaunch == setup.launch["gain"] # Mistyped /\ setup.launch["profile"] # Mistyped
PendingInv == TypedLaunch /\ ~ terminated => RefusedInv

\* A queue that is not empty has a first revert.
LEMMA HeadIsFirst ==
    ASSUME NEW q \in Seq(Revert), q # <<>>
    PROVE  1 \in 1..Len(q) /\ Head(q) = q[1] /\ q[1] \in Revert
<1>1. PICK n \in Nat : n = Len(q)
  BY LenProperties
<1>2. n # 0
  BY <1>1, EmptySeq
<1>3. 1 \in 1..n
  BY <1>2
<1>4. QED
  BY <1>1, <1>2, <1>3, ElementOfSeq, HeadTailProperties

\* The thread's mark for a profile is there only while the revert is at the head of the queue.
LEMMA MarkIsPending ==
    ASSUME TypeInv, RefusedInv
    PROVE  marks = <<"profile">> => ProfilePending(queue)
<1> SUFFICES ASSUME marks = <<"profile">> PROVE ProfilePending(queue)
  OBVIOUS
<1>1. update.at \in AtWork /\ <<update.name>> = <<"profile">>
  BY DEF RefusedInv, AtWork
<1>2. update.name = "profile"
  BY <1>1
<1>3. queue # <<>> /\ queue[1].name = "profile"
  BY <1>1, <1>2 DEF RefusedInv, TypeInv
<1>4. 1 \in 1..Len(queue)
  BY <1>3, HeadIsFirst DEF TypeInv
<1>5. QED
  BY <1>3, <1>4 DEF ProfilePending

\* A revert that is queued leaves the others where they are.
LEMMA AppendKeeps ==
    ASSUME NEW q \in Seq(Revert), NEW e \in Revert
    PROVE  /\ ProfilePending(q) => ProfilePending(Append(q, e))
           /\ e.name = "profile" => ProfilePending(Append(q, e))
           /\ q # <<>> => Append(q, e) # <<>> /\ Append(q, e)[1] = q[1]
<1>1. PICK n \in Nat : n = Len(q)
  BY LenProperties
<1>2. /\ Len(Append(q, e)) = n + 1 /\ Append(q, e)[n + 1] = e
      /\ \A k \in 1..n : Append(q, e)[k] = q[k]
  BY <1>1, AppendProperties
<1>3. \A k \in 1..n : k \in 1..(n + 1)
  OBVIOUS
<1>4. n + 1 \in 1..(n + 1) /\ n + 1 # 0
  OBVIOUS
<1>5. q # <<>> => 1 \in 1..n
  BY <1>1, EmptySeq
<1>6. Append(q, e) # <<>>
  BY <1>2, <1>4, EmptySeq
<1>7. QED
  BY <1>1, <1>2, <1>3, <1>4, <1>5, <1>6 DEF ProfilePending

\* A function queues at the end, marks nothing, and queues a revert of a profile that it
\* does not take.
LEMMA CallReverts ==
    ASSUME NEW st \in State, NEW p \in Param, NEW v \in Value(p), NEW refused
    PROVE  LET c == Call(st, p, v, refused) IN
           /\ ProfilePending(st.queue) => ProfilePending(c.queue)
           /\ st.queue # <<>> => c.queue # <<>> /\ c.queue[1] = st.queue[1]
           /\ c.marks = st.marks /\ c.shown = st.shown
           /\ ~ st.ok => ~ c.ok
           /\ p = "profile" /\ v = 3 => ProfilePending(c.queue)
           /\ p = "profile" /\ v \in {1, 2} /\ st.ok => c.ok
           /\ v = Mistyped => ~ c.ok
<1> DEFINE c == Call(st, p, v, refused)
<1>1. /\ ProfilePending(st.queue) => ProfilePending(c.queue)
      /\ st.queue # <<>> => c.queue # <<>> /\ c.queue[1] = st.queue[1]
  <2>1. c.queue = st.queue \/ \E e \in Revert : c.queue = Append(st.queue, e)
    BY CallQueues
  <2>2. st.queue \in Seq(Revert)
    BY DEF State
  <2> HIDE DEF c
  <2>3. QED
    BY <2>1, <2>2, AppendKeeps
<1>2. /\ c.marks = st.marks /\ c.shown = st.shown
      /\ ~ st.ok => ~ c.ok
  <2> DEFINE Rest(d) == d.marks = st.marks /\ d.shown = st.shown /\ (~ st.ok => ~ d.ok)
  <2>1. /\ \A w : Rest([st EXCEPT !.program.profile = w]) /\ Rest([st EXCEPT !.program.enable = w])
        /\ \A w : Rest([st EXCEPT !.program.right = w])
        /\ \A w : Rest([st EXCEPT !.program.gains[st.program.sequence_id] = w])
        /\ Rest(Thrown(st)) /\ Rest([st EXCEPT !.overflow = TRUE]) /\ Rest(st)
    BY DEF State, Thrown
  <2>2. \A w : Rest([st EXCEPT !.program.sequence_id = w])
    BY DEF State
  <2>3. \A w : Rest(Queued(st, "profile", w))
    BY DEF State, Queued
  <2>4. \A w : Rest(Queued([st EXCEPT !.program.sequence_id = w], "gain", FromDevice))
    BY DEF State, Queued
  <2>5. Rest(Queued(st, "gain", FromDevice))
    BY DEF State, Queued
  <2> HIDE DEF Rest
  <2>6. Rest(Checked(st, v))
    BY <2>1, <2>3 DEF Checked
  <2>7. Rest(SetOption(st, v, refused))
    BY <2>1 DEF SetOption
  <2>8. Rest(SetSequenceId(st, v, refused))
    BY <2>4, <2>5 DEF SetSequenceId
  <2>9. Rest(SetRoi(st, v))
    BY <2>1 DEF SetRoi
  <2>10. Rest(c)
    <3>1. CASE v = Mistyped
      <4>1. c = Thrown(st)
        BY <3>1, Functions
      <4> HIDE DEF c
      <4>2. QED
        BY <2>1, <4>1
    <3>2. CASE v # Mistyped
      <4>1. c \in {Checked(st, v), [st EXCEPT !.program.enable = v], SetOption(st, v, refused),
                   SetSequenceId(st, v, refused), SetRoi(st, v)}
        BY <3>2, Functions DEF Param
      <4> HIDE DEF c
      <4>2. QED
        BY <2>1, <2>6, <2>7, <2>8, <2>9, <4>1
    <3>3. QED
      BY <3>1, <3>2
  <2> HIDE DEF c
  <2>11. QED
    BY <2>10 DEF Rest
<1>3. ASSUME p = "profile", v = 3 PROVE ProfilePending(c.queue)
  <2>1. c = Queued(st, "profile", st.program.profile)
    BY <1>3, Functions DEF Checked, Mistyped
  <2>2. st.program.profile \in {1, 2} /\ st.queue \in Seq(Revert)
    BY DEF State, Program
  <2>3. [name |-> "profile", value |-> st.program.profile] \in Revert
    BY <2>2 DEF Revert
  <2>4. c.queue = Append(st.queue, [name |-> "profile", value |-> st.program.profile])
    BY <2>1, <2>3, QueuedAtEnd
  <2> HIDE DEF c
  <2>5. QED
    BY <2>2, <2>3, <2>4, AppendKeeps
<1>4. ASSUME p = "profile", v \in {1, 2}, st.ok PROVE c.ok
  <2>1. c = [st EXCEPT !.program.profile = v]
    BY <1>4, Functions DEF Checked, Mistyped
  <2> HIDE DEF c
  <2>2. QED
    BY <1>4, <2>1 DEF State
<1>5. ASSUME v = Mistyped PROVE ~ c.ok
  <2>1. c = Thrown(st)
    BY <1>5, Functions
  <2> HIDE DEF c
  <2>2. QED
    BY <2>1 DEF State, Thrown
<1> HIDE DEF c
<1>6. /\ p = "profile" /\ v = 3 => ProfilePending(c.queue)
      /\ p = "profile" /\ v \in {1, 2} /\ st.ok => c.ok
      /\ v = Mistyped => ~ c.ok
  BY <1>3, <1>4, <1>5
<1>7. QED
  BY <1>1, <1>2, <1>6 DEF c

\* The same of a callback, which erases a mark instead of the call; there is one at most.
LEMMA CallbackReverts ==
    ASSUME NEW st \in State, NEW p \in Param, NEW v \in Value(p), NEW refused,
           NEW m \in Param, st.marks \in {<<>>, <<m>>}
    PROVE  LET c == Callback(st, p, v, refused) IN
           /\ ProfilePending(st.queue) => ProfilePending(c.queue)
           /\ st.queue # <<>> => c.queue # <<>> /\ c.queue[1] = st.queue[1]
           /\ c.marks \in {<<>>, st.marks}
           /\ p = m /\ p \in functions => c.marks = <<>>
           /\ ~ st.ok => ~ c.ok
           /\ p = "profile" /\ p \in functions /\ v \notin {1, 2} /\ c.ok
              /\ st.marks # <<"profile">> => ProfilePending(c.queue)
           /\ p \in functions /\ v = Mistyped /\ c.ok => st.marks = <<p>> /\ c.marks = <<>>
<1> DEFINE c == Callback(st, p, v, refused)
<1>1. ~ Contains(<<>>, p)
  BY EmptySeq DEF Contains
<1>2. ASSUME Contains(<<m>>, p) PROVE p = m
  BY <1>2 DEF Contains
<1>3. Contains(<<p>>, p)
  BY DEF Contains
<1>0. CASE p \notin functions
  BY <1>0 DEF Callback
<1>4. CASE p \in functions /\ Contains(st.marks, p)
  <2>1. p = m /\ st.marks = <<p>>
    BY <1>1, <1>2, <1>4
  <2>2. RemoveFirst(st.marks, p) = <<>>
    BY <2>1, MarkErased DEF State
  <2>3. c = [st EXCEPT !.marks = RemoveFirst(@, p)]
    BY <1>4 DEF Callback
  <2>4. c.queue = st.queue /\ c.ok = st.ok /\ c.marks = <<>>
    BY <2>2, <2>3 DEF State
  <2> HIDE DEF c
  <2>5. QED
    BY <2>1, <2>4 DEF c
<1>5. CASE p \in functions /\ ~ Contains(st.marks, p)
  <2>1. c = Call(st, p, v, refused)
    BY <1>5 DEF Callback
  <2>2. p = m => st.marks = <<>>
    BY <1>3, <1>5
  <2>3. v \notin {1, 2} => v = 3 \/ v = Mistyped
    BY DEF Value, Mistyped
  <2> HIDE DEF c
  <2>4. QED
    BY <2>1, <2>2, <2>3, CallReverts DEF c
<1>6. QED
  BY <1>0, <1>4, <1>5

\* The same of the callbacks of a request, for all of its parameters.
LEMMA RequestReverts ==
    ASSUME TypeInv, RefusedInv, NEW request \in Requests, NEW refused
    PROVE  LET st == AfterCallbacks(request, refused) IN
           /\ ProfilePending(queue) => ProfilePending(st.queue)
           /\ queue # <<>> => st.queue # <<>> /\ st.queue[1] = queue[1]
           /\ st.marks \in {<<>>, marks}
           /\ \A i \in 1..Len(request) :
                 request[i][1] = "profile" /\ "profile" \in functions /\ st.ok
                    /\ request[i][2] \notin {1, 2} =>
                    /\ ProfilePending(st.queue)
                    /\ request[i][2] = Mistyped => marks = <<"profile">> /\ st.marks = <<>>
<1> DEFINE p1 == request[1][1]
           v1 == request[1][2]
           p2 == request[2][1]
           v2 == request[2][2]
           first == Callback(CallState, p1, v1, refused)
           second == Callback(first, p2, v2, refused)
           st == AfterCallbacks(request, refused)
           m == update.name
<1>1. /\ CallState \in State /\ CallState.queue = queue /\ CallState.marks = marks
  BY StartTyped
<1>2. m \in Param
  BY DEF TypeInv, Update
<1>3. marks \in {<<>>, <<m>>}
  BY DEF RefusedInv
<1>4. /\ Len(request) \in {1, 2}
      /\ \A i \in 1..Len(request) :
            request[i][1] \in Param /\ request[i][2] \in Value(request[i][1])
  BY RequestsAreSmall
<1>5. \A n \in {1, 2} : 1 \in 1..n /\ (n = 2 => 2 \in 1..n) /\ \A i \in 1..n : i = 1 \/ (n = 2 /\ i = 2)
  OBVIOUS
<1>6. /\ p1 \in Param /\ v1 \in Value(p1)
      /\ Len(request) = 2 => p2 \in Param /\ v2 \in Value(p2)
      /\ \A i \in 1..Len(request) : i = 1 \/ (Len(request) = 2 /\ i = 2)
  BY <1>4, <1>5
<1>7. st = IF Len(request) = 1 THEN first ELSE second
  BY <1>4, LoopUnrolled
<1>9. marks = <<"profile">> => ProfilePending(queue)
  BY MarkIsPending
<1> HIDE DEF p1, v1, p2, v2, m
<1> DEFINE Bad(p, v) == p = "profile" /\ p \in functions /\ v \notin {1, 2}
<1>8. /\ ProfilePending(queue) => ProfilePending(first.queue)
      /\ queue # <<>> => first.queue # <<>> /\ first.queue[1] = queue[1]
      /\ first.marks \in {<<>>, marks}
      /\ Bad(p1, v1) /\ first.ok /\ marks # <<"profile">> => ProfilePending(first.queue)
      /\ Bad(p1, v1) /\ first.ok /\ v1 = Mistyped => marks = <<"profile">> /\ first.marks = <<>>
  <2>1. /\ CallState.marks \in {<<>>, <<m>>} /\ m \in Param /\ CallState \in State
        /\ p1 \in Param /\ v1 \in Value(p1)
    BY <1>1, <1>2, <1>3, <1>6
  <2>2. /\ ProfilePending(CallState.queue) => ProfilePending(first.queue)
        /\ CallState.queue # <<>> => first.queue # <<>> /\ first.queue[1] = CallState.queue[1]
        /\ first.marks \in {<<>>, CallState.marks}
        /\ p1 = "profile" /\ p1 \in functions /\ v1 \notin {1, 2} /\ first.ok
           /\ CallState.marks # <<"profile">> => ProfilePending(first.queue)
        /\ p1 \in functions /\ v1 = Mistyped /\ first.ok =>
              CallState.marks = <<p1>> /\ first.marks = <<>>
    BY <2>1, CallbackReverts
  <2> HIDE DEF first
  <2>3. QED
    BY <1>1, <2>2
<1> HIDE DEF first
<1>10. /\ ProfilePending(queue) => ProfilePending(first.queue)
       /\ queue # <<>> => first.queue # <<>> /\ first.queue[1] = queue[1]
       /\ first.marks \in {<<>>, marks}
       /\ Bad(p1, v1) /\ first.ok =>
             /\ ProfilePending(first.queue)
             /\ v1 = Mistyped => marks = <<"profile">> /\ first.marks = <<>>
  BY <1>8, <1>9
<1>11. first \in State
  BY <1>1, <1>6, CallbackTyped DEF first
<1>12. first.marks \in {<<>>, <<m>>}
  BY <1>3, <1>10
<1>13. ASSUME Len(request) = 2
       PROVE  /\ ProfilePending(first.queue) => ProfilePending(second.queue)
              /\ first.queue # <<>> => second.queue # <<>> /\ second.queue[1] = first.queue[1]
              /\ second.marks \in {<<>>, first.marks}
              /\ ~ first.ok => ~ second.ok
              /\ Bad(p2, v2) /\ second.ok /\ first.marks # <<"profile">> =>
                    ProfilePending(second.queue)
              /\ Bad(p2, v2) /\ second.ok /\ v2 = Mistyped =>
                    first.marks = <<"profile">> /\ second.marks = <<>>
  BY <1>2, <1>6, <1>11, <1>12, <1>13, CallbackReverts
<1>14. first.ok \in BOOLEAN
  BY <1>11 DEF State
<1>18. <<>> # <<"profile">>
  OBVIOUS
<1> DEFINE Reverts(p, v, s) ==
              Bad(p, v) /\ s.ok =>
                 /\ ProfilePending(s.queue)
                 /\ v = Mistyped => marks = <<"profile">> /\ s.marks = <<>>
           Goal(s) ==
              /\ ProfilePending(queue) => ProfilePending(s.queue)
              /\ queue # <<>> => s.queue # <<>> /\ s.queue[1] = queue[1]
              /\ s.marks \in {<<>>, marks}
              /\ \A i \in 1..Len(request) : Reverts(request[i][1], request[i][2], s)
<1> HIDE DEF second, st
<1>15. CASE Len(request) = 1
  <2>1. st = first /\ \A i \in 1..Len(request) : i = 1
    BY <1>6, <1>7, <1>15
  <2>2. \A i \in 1..Len(request) : request[i][1] = p1 /\ request[i][2] = v1
    BY <2>1 DEF p1, v1
  <2>3. Goal(st)
    BY <1>10, <2>1, <2>2
  <2>4. QED
    BY <2>3 DEF st
<1>16. CASE Len(request) = 2
  <2>1. st = second
    BY <1>7, <1>16
  <2>2. /\ ProfilePending(queue) => ProfilePending(st.queue)
        /\ queue # <<>> => st.queue # <<>> /\ st.queue[1] = queue[1]
        /\ st.marks \in {<<>>, marks}
    BY <1>10, <1>13, <1>16, <2>1
  <2>3. Reverts(p1, v1, st)
    BY <1>10, <1>13, <1>16, <2>1
  <2>4. first.marks = <<"profile">> => marks = <<"profile">> /\ ProfilePending(first.queue)
    BY <1>9, <1>10, <1>18
  <2>5. Reverts(p2, v2, st)
    BY <1>13, <1>16, <2>1, <2>4
  <2>6. \A i \in 1..Len(request) :
           \/ request[i][1] = p1 /\ request[i][2] = v1
           \/ request[i][1] = p2 /\ request[i][2] = v2
    BY <1>6 DEF p1, v1, p2, v2
  <2>7. \A i \in 1..Len(request) : Reverts(request[i][1], request[i][2], st)
    <3> HIDE DEF Reverts
    <3>1. QED
      BY <2>3, <2>5, <2>6
  <2>8. Goal(st)
    BY <2>2, <2>7
  <2>9. QED
    BY <2>8 DEF st
<1>17. QED
  BY <1>4, <1>15, <1>16 DEF st

\* What the head of the queue is about is not the others' business.
LEMMA TailKeeps ==
    ASSUME NEW q \in Seq(Revert), q # <<>>, q[1].name # "profile", ProfilePending(q)
    PROVE  ProfilePending(Tail(q))
<1>1. PICK n \in Nat : n = Len(q)
  BY LenProperties
<1>2. PICK k \in 1..n : q[k].name = "profile"
  BY <1>1 DEF ProfilePending
<1>3. Len(Tail(q)) = n - 1 /\ \A i \in 1..(n - 1) : Tail(q)[i] = q[i + 1]
  BY <1>1, HeadTailProperties
<1>4. k # 1
  BY <1>2
<1>5. k - 1 \in 1..(n - 1) /\ (k - 1) + 1 = k
  BY <1>4
<1>6. Tail(q)[k - 1] = q[k]
  BY <1>3, <1>5
<1>7. QED
  BY <1>2, <1>3, <1>5, <1>6 DEF ProfilePending

\* A request leaves a revert for the profile that it makes the server show.
LEMMA UserSetsReverts ==
    ASSUME TypeInv, RefusedInv, UserSets
    PROVE  RefusedInv'
<1>1. PICK request \in Requests, refused \in SUBSET Refuses : SetParameters(request, refused)
  BY DEF UserSets
<1> DEFINE st == AfterCallbacks(request, refused)
           Set(p) == \E i \in 1..Len(request) : request[i][1] = p
           Chosen(p) == request[CHOOSE i \in 1..Len(request) : request[i][1] = p][2]
<1>2. /\ ProfilePending(queue) => ProfilePending(st.queue)
      /\ queue # <<>> => st.queue # <<>> /\ st.queue[1] = queue[1]
      /\ st.marks \in {<<>>, marks}
      /\ \A i \in 1..Len(request) :
            request[i][1] = "profile" /\ "profile" \in functions /\ st.ok
               /\ request[i][2] \notin {1, 2} =>
               /\ ProfilePending(st.queue)
               /\ request[i][2] = Mistyped => marks = <<"profile">> /\ st.marks = <<>>
  BY RequestReverts
<1>3. /\ queue' = st.queue /\ marks' = st.marks
      /\ shown' = IF st.ok THEN [p \in Param |-> IF Set(p) THEN Chosen(p) ELSE shown[p]]
                           ELSE shown
  BY <1>1 DEF SetParameters
<1>4. Set("profile") =>
         \E i \in 1..Len(request) : request[i][1] = "profile" /\ Chosen("profile") = request[i][2]
  OBVIOUS
<1> HIDE DEF st, Set, Chosen
<1>5. shown'["profile"] = IF st.ok /\ Set("profile") THEN Chosen("profile") ELSE shown["profile"]
  BY <1>3 DEF Param
<1>6. functions' = functions /\ update' = update
  BY DEF UserSets
<1>7. marks' = <<>> \/ (update'.at \in {"marked", "typed"} /\ marks' = <<update'.name>>)
  BY <1>2, <1>3, <1>6 DEF RefusedInv
<1>8. update'.at \in AtWork => queue'[1].name = update'.name
  BY <1>2, <1>3, <1>6 DEF RefusedInv, TypeInv
<1>9. ASSUME "profile" \in functions', shown'["profile"] \notin {1, 2}
      PROVE  /\ ProfilePending(queue')
             /\ shown'["profile"] = Mistyped =>
                   /\ update'.at \in {"marked", "typed"} /\ update'.name = "profile"
                   /\ marks' = <<>>
  <2>1. CASE st.ok /\ Set("profile")
    <3>1. PICK i \in 1..Len(request) : request[i][1] = "profile" /\ Chosen("profile") = request[i][2]
      BY <1>4, <2>1
    <3>2. /\ ProfilePending(st.queue)
          /\ shown'["profile"] = Mistyped => marks = <<"profile">> /\ st.marks = <<>>
      BY <1>2, <1>5, <1>6, <1>9, <2>1, <3>1
    <3>3. marks = <<"profile">> => update.at \in {"marked", "typed"} /\ update.name = "profile"
      BY DEF RefusedInv
    <3>4. QED
      BY <1>3, <1>6, <3>2, <3>3
  <2>2. CASE ~ (st.ok /\ Set("profile"))
    <3>1. "profile" \in functions /\ shown["profile"] \notin {1, 2}
          /\ shown'["profile"] = shown["profile"]
      BY <1>5, <1>6, <1>9, <2>2
    <3>2. QED
      BY <1>2, <1>3, <1>6, <3>1 DEF RefusedInv
  <2>3. QED
    BY <2>1, <2>2
<1>10. update'.at = "typed" /\ update'.name = "profile" /\ update'.value = Mistyped => marks' = <<>>
  BY <1>2, <1>3, <1>6 DEF RefusedInv
<1>11. QED
  BY <1>7, <1>8, <1>9, <1>10 DEF RefusedInv, ProfilePending, AtWork, Mistyped

\* A profile given at launch that the device does not support is to be reverted as well.
LEMMA DeclareReverts ==
    ASSUME TypeInv, RefusedInv, NEW p \in Param, DeclareParam(p)
    PROVE  RefusedInv'
<1>1. PICK refused \in SUBSET Refuses :
         /\ shown' = Declared(p, refused).shown /\ program' = Declared(p, refused).program
         /\ queue' = Declared(p, refused).queue
         /\ terminated' = Declared(p, refused).overflow
  BY DeclaresIt
<1> DEFINE value == Launched(p)
           st0 == [CallState EXCEPT !.shown[p] = value, !.program = Fresh(p)]
           st == Declared(p, refused)
<1>2. setup.launch[p] # Mistyped
  BY DEF DeclareParam
<1>3. value \in Value(p) /\ value \in 0..3 /\ value # Mistyped
  BY <1>2, LaunchedTyped
<1>4. Fresh(p) \in Program
  BY FreshTyped
<1>5. /\ st0 \in State /\ st0.queue = queue /\ st0.shown = [shown EXCEPT ![p] = value]
  <2> HIDE DEF value
  <2>1. CallState \in State /\ CallState.queue = queue /\ CallState.shown = shown
    BY StartTyped DEF CallState
  <2>2. QED
    BY <1>3, <1>4, <2>1 DEF State
<1>6. \/ st = st0 /\ value = Initial(p)
      \/ st = Call(st0, p, value, refused)
      \/ p = "sequence_id" /\ st = [st0 EXCEPT !.program.sequence_id = value]
  <2>1. st = IF value = Initial(p) THEN st0 ELSE AtLaunch(st0, p, value, refused)
    BY DEF Declared
  <2> HIDE DEF st, st0, value
  <2>2. \/ AtLaunch(st0, p, value, refused) = Call(st0, p, value, refused)
        \/ /\ p = "sequence_id"
           /\ AtLaunch(st0, p, value, refused) = [st0 EXCEPT !.program.sequence_id = value]
    BY AtLaunchCalls
  <2>3. QED
    BY <2>1, <2>2
<1>7. p = "profile" => Initial(p) = 1
  BY DEF Initial, Option
<1> HIDE DEF value, st0, st
<1>8. /\ ProfilePending(queue) => ProfilePending(st.queue)
      /\ queue # <<>> => st.queue # <<>> /\ st.queue[1] = queue[1]
      /\ st.shown = [shown EXCEPT ![p] = value]
      /\ p = "profile" /\ value = 3 => ProfilePending(st.queue)
  <2>1. CASE st = st0 /\ value = Initial(p)
    BY <1>5, <1>7, <2>1
  <2>2. CASE st = Call(st0, p, value, refused)
    BY <1>3, <1>5, <2>2, CallReverts
  <2>3. CASE p = "sequence_id" /\ st = [st0 EXCEPT !.program.sequence_id = value]
    <3>1. st.queue = st0.queue /\ st.shown = st0.shown
      BY <1>5, <2>3 DEF State
    <3>2. QED
      BY <1>5, <2>3, <3>1
  <2>4. QED
    BY <1>6, <2>1, <2>2, <2>3
<1>9. shown' = st.shown /\ queue' = st.queue
  BY <1>1 DEF st
<1>10. functions' = functions \cup {p} /\ update' = update /\ marks' = marks
  BY DEF DeclareParam, Declare
<1>11. update'.at \in AtWork => queue'[1].name = update'.name
  BY <1>8, <1>9, <1>10 DEF RefusedInv, TypeInv
<1>12. shown'["profile"] = IF p = "profile" THEN value ELSE shown["profile"]
  BY <1>8, <1>9 DEF TypeInv, Param
<1>13. ASSUME "profile" \in functions', shown'["profile"] \notin {1, 2}
       PROVE  /\ ProfilePending(queue')
              /\ shown'["profile"] = Mistyped =>
                    /\ update'.at \in {"marked", "typed"} /\ update'.name = "profile"
                    /\ marks' = <<>>
  <2>1. CASE p = "profile"
    <3>1. value = 3 /\ shown'["profile"] = 3
      BY <1>3, <1>12, <1>13, <2>1 DEF Mistyped
    <3>2. QED
      BY <1>8, <1>9, <2>1, <3>1 DEF Mistyped
  <2>2. CASE p # "profile"
    <3>1. "profile" \in functions /\ shown["profile"] \notin {1, 2}
          /\ shown'["profile"] = shown["profile"]
      BY <1>10, <1>12, <1>13, <2>2
    <3>2. QED
      BY <1>8, <1>9, <1>10, <3>1 DEF RefusedInv
  <2>3. QED
    BY <2>1, <2>2
<1>14. /\ marks' = <<>> \/ (update'.at \in {"marked", "typed"} /\ marks' = <<update'.name>>)
       /\ update'.at = "typed" /\ update'.name = "profile" /\ update'.value = Mistyped => marks' = <<>>
  BY <1>10 DEF RefusedInv
<1>15. QED
  BY <1>11, <1>13, <1>14 DEF RefusedInv, ProfilePending, AtWork, Mistyped

\* The front of one mark is none.
LEMMA FrontOfOne == \A p \in Param : Front(<<p>>) = <<>>
  BY DEF Front

\* The thread pops no revert of a profile but the one that it has set.
LEMMA SetReverts ==
    ASSUME TypeInv, RefusedInv, TypedLaunch, SetRosParamValue, ~ terminated'
    PROVE  RefusedInv'
<1>1. PICK refused \in SUBSET Refuses :
         Finished(Callback(CallState, update.name, update.value, refused))
  BY DEF SetRosParamValue
<1> DEFINE p == update.name
           v == update.value
           st == Callback(CallState, p, v, refused)
<1>2. /\ queue # <<>> /\ p \in {"profile", "gain"}
      /\ v \in {1, 2} \/ v = Mistyped
      /\ queue[1].name = p /\ marks \in {<<>>, <<p>>}
      /\ p = "profile" /\ v = Mistyped => marks = <<>>
  BY DEF SetRosParamValue, TypeInv, RefusedInv, AtWork
<1>3. p \in functions /\ p \in {"profile", "gain"}
  BY DEF SetRosParamValue, TypeInv, TypedLaunch, AtWork
<1>4. /\ queue' = Tail(st.queue) /\ update' = Idle /\ functions' = functions
      /\ shown' = IF st.ok THEN [shown EXCEPT ![p] = v] ELSE shown
      /\ marks' = IF st.ok \/ st.marks = <<>> THEN st.marks ELSE Front(st.marks)
      /\ terminated' = (st.overflow \/ (~ st.ok /\ st.marks = <<>>))
  BY <1>1 DEF Finished
<1>5. "profile" \in functions /\ shown["profile"] = Mistyped => p = "profile"
  BY DEF RefusedInv
<1> HIDE DEF p, v
<1>6. p \in Param /\ v \in Value(p)
  BY <1>2, <1>3 DEF Param, Value, Mistyped
<1>7. CallState \in State /\ CallState.queue = queue /\ CallState.marks = marks /\ CallState.ok
  BY StartTyped DEF CallState
<1>8. /\ ProfilePending(queue) => ProfilePending(st.queue)
      /\ st.queue # <<>> /\ st.queue[1] = queue[1]
      /\ st.marks = <<>>
      /\ v = Mistyped /\ st.ok => marks = <<p>>
  BY <1>2, <1>3, <1>6, <1>7, CallbackReverts
<1>9. st \in State
  BY <1>6, <1>7, CallbackTyped
<1> HIDE DEF st
<1>10. marks' = <<>> /\ st.ok
  BY <1>4, <1>8
<1>11. <<>> # <<p>>
  OBVIOUS
<1>12. p = "profile" => v \in {1, 2}
  BY <1>2, <1>8, <1>10, <1>11
<1>13. p # "profile" => shown'["profile"] = shown["profile"]
  BY <1>4 DEF TypeInv, Param
<1>14. p = "profile" => shown'["profile"] = v
  BY <1>4, <1>10 DEF TypeInv, Param
<1>15. ASSUME "profile" \in functions', shown'["profile"] \notin {1, 2}
       PROVE  ProfilePending(queue') /\ shown'["profile"] # Mistyped
  <2>1. /\ p # "profile" /\ "profile" \in functions /\ shown["profile"] \notin {1, 2}
        /\ shown'["profile"] = shown["profile"]
    BY <1>4, <1>12, <1>13, <1>14, <1>15
  <2>2. ProfilePending(st.queue) /\ st.queue[1].name # "profile"
    BY <1>2, <1>8, <2>1 DEF RefusedInv
  <2>3. st.queue \in Seq(Revert)
    BY <1>9 DEF State
  <2>4. QED
    BY <1>4, <1>5, <1>8, <2>1, <2>2, <2>3, TailKeeps
<1>16. update'.at = "waiting"
  BY <1>4 DEF Idle
<1>17. QED
  BY <1>10, <1>15, <1>16 DEF RefusedInv, ProfilePending, AtWork, Mistyped

\* A request that is not made pops the gain's entry, or the process dies.
LEMMA NotImplementedReverts ==
    ASSUME TypeInv, RefusedInv, TypedLaunch, TypeNotImplemented, ~ terminated'
    PROVE  RefusedInv'
<1> DEFINE st == Thrown(CallState)
           p == update.name
<1>1. Finished(st) /\ update.at = "typed" /\ update.value = Mistyped
  BY DEF TypeNotImplemented
<1>2. st.queue = queue /\ st.marks = marks /\ ~ st.ok
  BY DEF Thrown, CallState
<1>3. /\ queue' = Tail(queue) /\ update' = Idle /\ functions' = functions /\ shown' = shown
      /\ marks # <<>> /\ marks' = Front(marks)
  BY <1>1, <1>2 DEF Finished
<1>4. marks = <<p>> /\ queue # <<>> /\ queue[1].name = p /\ p \in Param
  BY <1>1, <1>3 DEF RefusedInv, TypeInv, AtWork, Update
<1>5. p # "profile"
  BY <1>1, <1>3 DEF RefusedInv
<1>6. marks' = <<>>
  BY <1>3, <1>4, FrontOfOne
<1>7. ASSUME "profile" \in functions, shown["profile"] \notin {1, 2}
      PROVE  ProfilePending(queue') /\ shown["profile"] # Mistyped
  <2>1. ProfilePending(queue) /\ shown["profile"] # Mistyped
    BY <1>5, <1>7 DEF RefusedInv
  <2>2. queue \in Seq(Revert)
    BY DEF TypeInv
  <2>3. QED
    BY <1>3, <1>4, <1>5, <2>1, <2>2, TailKeeps
<1>8. QED
  BY <1>3, <1>6, <1>7 DEF RefusedInv, Idle, ProfilePending, AtWork, Mistyped

\* The thread finds a profile of a wrong type only without its mark.
LEMMA ReadReverts ==
    ASSUME TypeInv, RefusedInv, TypedLaunch, ReadType
    PROVE  RefusedInv'
<1>1. /\ update.at = "marked" /\ update.name \in declared
      /\ update' = [update EXCEPT !.at = "typed",
                       !.value = IF shown[update.name] = Mistyped THEN Mistyped ELSE @]
      /\ UNCHANGED <<functions, shown, queue, marks>>
  BY DEF ReadType
<1>2. update.value # Mistyped /\ update \in Update
  BY <1>1 DEF TypeInv, AtWork, Mistyped
<1>3. /\ update'.at = "typed" /\ update'.name = update.name
      /\ update'.value = Mistyped => shown[update.name] = Mistyped
  BY <1>1, <1>2 DEF Update
<1>4. update.name = "profile" => "profile" \in functions
  BY <1>1 DEF TypeInv, TypedLaunch
<1>5. update'.name = "profile" /\ update'.value = Mistyped => marks' = <<>>
  BY <1>1, <1>3, <1>4 DEF RefusedInv
<1>6. QED
  BY <1>1, <1>3, <1>5 DEF RefusedInv, ProfilePending, AtWork, Mistyped

\* The other steps take no revert off the queue and show no value of the profile.
LEMMA OtherStepsRevert ==
    ASSUME TypeInv, RefusedInv, TypedLaunch, ~ terminated',
           \/ \E p \in Param : RemoveParam(p) \/ DeclareMistyped(p)
           \/ TakeFunction \/ PushMark \/ NotDeclared \/ BadCast \/ EndThread \/ StopRunning
           \/ Join \/ UNCHANGED vars
    PROVE  RefusedInv'
<1>1. CASE \E p \in Param : RemoveParam(p)
  <2>1. /\ functions' \subseteq functions
        /\ UNCHANGED <<shown, queue, marks, update>>
    BY <1>1 DEF RemoveParam
  <2>2. QED
    BY <2>1 DEF RefusedInv, ProfilePending
<1>2. CASE \E p \in Param : DeclareMistyped(p)
  <2>1. PICK p \in Param : DeclareMistyped(p)
    BY <1>2
  <2>2. p # "profile" /\ shown' = [shown EXCEPT ![p] = Mistyped]
    BY <2>1 DEF DeclareMistyped, TypedLaunch
  <2>3. UNCHANGED <<functions, queue, marks, update>>
    BY <2>1 DEF DeclareMistyped, Declare
  <2>4. shown'["profile"] = shown["profile"]
    BY <2>2 DEF TypeInv, Param
  <2>5. QED
    BY <2>3, <2>4 DEF RefusedInv, ProfilePending
<1>3. CASE TakeFunction
  <2>1. queue # <<>> /\ queue' = queue /\ marks' = marks /\ functions' = functions /\ shown' = shown
    BY <1>3 DEF TakeFunction
  <2>2. update'.at = "taken" /\ update'.name = Head(queue).name
    BY <1>3 DEF TakeFunction
  <2>3. Head(queue) = queue[1]
    BY <2>1, HeadIsFirst DEF TypeInv
  <2>4. marks = <<>> /\ ~ ("profile" \in functions /\ shown["profile"] = Mistyped)
    BY <1>3 DEF TakeFunction, RefusedInv
  <2>5. QED
    BY <2>1, <2>2, <2>3, <2>4 DEF RefusedInv, ProfilePending
<1>4. CASE PushMark
  <2>1. marks = <<>> /\ ~ ("profile" \in functions /\ shown["profile"] = Mistyped)
    BY <1>4 DEF PushMark, RefusedInv
  <2>2. marks' = <<update.name>>
    BY <1>4, <2>1 DEF PushMark
  <2>3. /\ update'.at = "marked" /\ update'.name = update.name /\ update.at = "taken"
        /\ queue' = queue /\ functions' = functions /\ shown' = shown
    BY <1>4 DEF PushMark, TypeInv, Update
  <2>4. QED
    BY <2>1, <2>2, <2>3 DEF RefusedInv, ProfilePending, AtWork
<1>5. CASE NotDeclared \/ BadCast
  BY <1>5 DEF NotDeclared, BadCast
<1>6. CASE EndThread
  <2>1. /\ update'.at = "ended" /\ marks = <<>>
        /\ ~ ("profile" \in functions /\ shown["profile"] = Mistyped)
        /\ UNCHANGED <<functions, shown, queue, marks>>
    BY <1>6 DEF EndThread, Idle, RefusedInv
  <2>2. QED
    BY <2>1 DEF RefusedInv, ProfilePending, AtWork
<1>7. CASE StopRunning
  BY <1>7 DEF StopRunning, RefusedInv, ProfilePending
<1>8. CASE Join
  BY <1>8 DEF Join, RefusedInv
<1>9. CASE UNCHANGED vars
  BY <1>9 DEF vars, RefusedInv, ProfilePending
<1>10. QED
  BY <1>1, <1>2, <1>3, <1>4, <1>5, <1>6, <1>7, <1>8, <1>9

\* What a refused profile owes the server, the safety that RefusedIsReverted rests on:
\* unless the gain is given with a wrong type at launch, and until the process dies, no order
\* of requests, marks, removals and reverts, whoever sets parameters meanwhile, loses the
\* revert of a profile that has a function, that the server shows and that the device does
\* not support or that is of a wrong type.
THEOREM RefusedProfilesHaveReverts == Spec => []RefusedIsPending
<1>1. Init => PendingInv
  BY DEF Init, Idle, RefusedInv, PendingInv, AtWork
<1>2. TypeInv /\ PendingInv /\ [Next]_vars => PendingInv'
  <2> SUFFICES ASSUME TypeInv, PendingInv, [Next]_vars, TypedLaunch', ~ terminated'
               PROVE  RefusedInv'
    BY DEF PendingInv
  <2>1. TypedLaunch
    BY SetupStays DEF TypedLaunch
  <2>2. ~ terminated
    BY DEF Next, UpdateThread, vars, UserSets, DeclareParam, DeclareMistyped, Declare, RemoveParam,
           TakeFunction, PushMark, ReadType, NotDeclared, SetRosParamValue, TypeNotImplemented,
           BadCast, EndThread, StopRunning, Join
  <2>3. RefusedInv
    BY <2>1, <2>2 DEF PendingInv
  <2>4. CASE UserSets
    BY <2>3, <2>4, UserSetsReverts
  <2>5. ASSUME NEW p \in Param, DeclareParam(p) PROVE RefusedInv'
    BY <2>3, <2>5, DeclareReverts
  <2>6. CASE SetRosParamValue
    BY <2>1, <2>3, <2>6, SetReverts
  <2>7. CASE TypeNotImplemented
    BY <2>1, <2>3, <2>7, NotImplementedReverts
  <2>8. CASE ReadType
    BY <2>1, <2>3, <2>8, ReadReverts
  <2>9. CASE \/ \E p \in Param : RemoveParam(p) \/ DeclareMistyped(p)
             \/ TakeFunction \/ PushMark \/ NotDeclared \/ BadCast \/ EndThread \/ StopRunning
             \/ Join \/ UNCHANGED vars
    BY <2>1, <2>3, <2>9, OtherStepsRevert
  <2>10. QED
    BY <2>4, <2>5, <2>6, <2>7, <2>8, <2>9 DEF Next, UpdateThread
<1>3. TypeInv /\ PendingInv => RefusedIsPending
  BY DEF TypeInv, PendingInv, TypedLaunch, RefusedInv, RefusedIsPending
<1>4. QED
  BY <1>1, <1>2, <1>3, ParametersTyped, PTL DEF Spec

(***************************************************************************)
(* The united IMU topic.                                                   *)
(***************************************************************************)

\* The sample of stream s has not been united yet.
Waits(s) == callback[s].at \in {"waiting", "testing"}

\* The acceleration that is copied is the newest one; what went out and the message at hand
\* are what was called for, in order, with samples of the past; and a sample that waits is
\* newer than those before it of its stream.
ImuInv ==
    /\ ImuTypeOK
    /\ \A s \in Stream : callback[s].at # "idle" => callback[s].time # 0
    /\ accelData = lastAccel /\ published \o imuMsgs = due
    /\ callback["gyro"].at # "publishing" => imuMsgs = <<>>
    /\ \A i, j \in 1..Len(due) :
          i < j => due[i].gyro < due[j].gyro /\ due[i].accel <= due[j].accel
    /\ \A i \in 1..Len(due) : due[i].gyro <= now /\ due[i].accel <= lastAccel
    /\ lastAccel <= now
    /\ Waits("gyro") => \A i \in 1..Len(due) : due[i].gyro < callback["gyro"].time
    /\ Waits("accel") => lastAccel <= callback["accel"].time
    /\ \A s \in Stream : callback[s].time <= now

\* The history is of messages, with a length that is a number.
LEMMA DueIsCounted ==
    ASSUME ImuTypeOK
    PROVE  Len(due) \in Nat /\ \A i \in 1..Len(due) : due[i].gyro \in Nat /\ due[i].accel \in Nat
<1>1. due \in Seq(Message)
  BY DEF ImuTypeOK
<1>2. Len(due) \in Nat /\ \A i \in 1..Len(due) : due[i] \in Message
  BY <1>1, LenProperties, ElementOfSeq
<1>3. QED
  BY <1>2, SyncedImuAssumption DEF Message

LEMMA ImuStarts == ImuInit => ImuInv
<1> SUFFICES ASSUME ImuInit PROVE ImuInv
  OBVIOUS
<1>1. /\ due = <<>> /\ published = <<>> /\ imuMsgs = <<>> /\ Len(due) = 0
      /\ <<>> \in Seq(Message) /\ published \o imuMsgs = due
  BY EmptySeq, ConcatEmptySeq DEF ImuInit
<1>2. \A s \in Stream : callback[s] = NoSample
  BY DEF ImuInit
<1>3. NoSample \in SampleCallback /\ NoSample.at = "idle" /\ NoSample.time = 0
  BY SyncedImuAssumption DEF NoSample, SampleCallback
<1>4. ImuTypeOK
  <2>1. callback \in [Stream -> SampleCallback]
    BY <1>3 DEF ImuInit
  <2>2. video \in [VideoThread -> {"idle", "pausing", "processing", "resuming"}]
    BY DEF ImuInit
  <2>3. /\ unite \in {"none", "copy", "linear"} /\ subscribed \in BOOLEAN
        /\ streams \subseteq Stream /\ publisher \in BOOLEAN
        /\ monitor = "idle" /\ mutex = "free" /\ crashed \in BOOLEAN
        /\ accelData = 0 /\ lastAccel = 0 /\ now = 0 /\ imuChanges = 0
    BY DEF ImuInit
  <2>4. 0 \in 0..MaxEvents /\ 0 \in 0..MaxChanges
    BY SyncedImuAssumption
  <2>5. imuMsgs \in Seq(Message) /\ published \in Seq(Message) /\ due \in Seq(Message)
    BY <1>1
  <2>6. QED
    BY <2>1, <2>2, <2>3, <2>4, <2>5 DEF ImuTypeOK
<1>5. "gyro" \in Stream /\ "accel" \in Stream
  BY DEF Stream
<1>6. accelData = lastAccel /\ lastAccel = 0 /\ now = 0
  BY DEF ImuInit
<1>7. QED
  BY <1>1, <1>2, <1>3, <1>4, <1>5, <1>6 DEF ImuInv, Waits

\* A sample arrives: it is the newest one.
LEMMA ArrivalKeeps ==
    ASSUME ImuInv, NEW s \in Stream, SampleArrives(s)
    PROVE  ImuInv'
<1>1. /\ now \in Nat /\ now < MaxEvents /\ now' = now + 1 /\ callback[s].at = "idle"
      /\ UNCHANGED <<unite, subscribed, streams, publisher, monitor, mutex, accelData, imuMsgs, video,
                     crashed, published, lastAccel, due, imuChanges>>
  BY DEF SampleArrives, monitorVars, historyVars, ImuInv, ImuTypeOK
<1>2. /\ callback' \in [Stream -> SampleCallback] /\ now' \in 0..MaxEvents
      /\ \A x \in Stream : callback'[x] = callback[x]
            \/ (x = s /\ callback'[x] = [at |-> "waiting", time |-> now + 1])
  <2>1. [at |-> "waiting", time |-> now + 1] \in SampleCallback
    BY <1>1, SyncedImuAssumption DEF SampleCallback
  <2>2. callback \in [Stream -> SampleCallback]
    BY DEF ImuInv, ImuTypeOK
  <2>3. callback' = callback \/ callback' = [callback EXCEPT ![s] = [at |-> "waiting", time |-> now + 1]]
    BY DEF SampleArrives
  <2>4. QED
    BY <1>1, <2>1, <2>2, <2>3, SyncedImuAssumption
<1>3. ImuTypeOK'
  BY <1>1, <1>2 DEF ImuInv, ImuTypeOK
<1>4. /\ Len(due) \in Nat
      /\ \A i \in 1..Len(due) : due[i].gyro \in Nat /\ due[i].accel \in Nat
      /\ lastAccel \in Nat /\ \A x \in Stream : callback[x].time \in Nat
  BY DueIsCounted DEF ImuInv, ImuTypeOK, SampleCallback
<1>5. "gyro" \in Stream /\ "accel" \in Stream
  BY DEF Stream
<1>6. \A x \in Stream : /\ callback'[x].at # "idle" => callback'[x].time # 0
                        /\ callback'[x].time <= now'
  <2> TAKE x \in Stream
  <2>1. CASE callback'[x] = callback[x]
    BY <1>1, <1>4, <2>1 DEF ImuInv
  <2>2. CASE callback'[x] = [at |-> "waiting", time |-> now + 1]
    BY <1>1, <2>2
  <2>3. QED
    BY <1>2, <2>1, <2>2
<1>7. callback'["gyro"].at # "publishing" => imuMsgs = <<>>
  <2>1. CASE callback'["gyro"] = callback["gyro"]
    BY <2>1 DEF ImuInv
  <2>2. CASE "gyro" = s
    BY <1>1, <2>2 DEF ImuInv
  <2>3. QED
    BY <1>2, <1>5, <2>1, <2>2
<1>8. Waits("gyro")' => \A i \in 1..Len(due) : due[i].gyro < callback'["gyro"].time
  <2>1. CASE callback'["gyro"] = callback["gyro"]
    BY <2>1 DEF ImuInv, Waits
  <2>2. CASE callback'["gyro"] = [at |-> "waiting", time |-> now + 1]
    BY <1>1, <1>4, <2>2 DEF ImuInv
  <2>3. QED
    BY <1>2, <1>5, <2>1, <2>2
<1>9. Waits("accel")' => lastAccel <= callback'["accel"].time
  <2>1. CASE callback'["accel"] = callback["accel"]
    BY <2>1 DEF ImuInv, Waits
  <2>2. CASE callback'["accel"] = [at |-> "waiting", time |-> now + 1]
    BY <1>1, <1>4, <2>2 DEF ImuInv
  <2>3. QED
    BY <1>2, <1>5, <2>1, <2>2
<1>10. /\ \A i \in 1..Len(due) : due[i].gyro <= now + 1 /\ due[i].accel <= lastAccel
       /\ lastAccel <= now + 1
  BY <1>1, <1>4 DEF ImuInv
<1>11. QED
  BY <1>1, <1>3, <1>6, <1>7, <1>8, <1>9, <1>10 DEF ImuInv

\* Steps of a callback that unite nothing.
LEMMA MovesKeep ==
    ASSUME ImuInv, NEW s \in Stream, NEW c \in SampleCallback, callback' = [callback EXCEPT ![s] = c],
           c.time \in {0, callback[s].time}, c.at # "idle" => c.time = callback[s].time,
           c.at # "idle" => callback[s].at # "idle", c.at # "publishing",
           c.at \in {"waiting", "testing"} => Waits(s),
           s = "gyro" => imuMsgs' = <<>>, s = "accel" => imuMsgs' = imuMsgs,
           mutex' \in Stream \cup {"free"},
           published' \in Seq(Message), published' \o imuMsgs' = due,
           UNCHANGED <<unite, subscribed, streams, publisher, monitor, accelData, video, crashed,
                       lastAccel, due, now, imuChanges>>
    PROVE  ImuInv'
<1>1. /\ callback \in [Stream -> SampleCallback] /\ imuMsgs \in Seq(Message) /\ <<>> \in Seq(Message)
      /\ now \in Nat
  BY EmptySeq DEF ImuInv, ImuTypeOK
<1>2. "gyro" \in Stream /\ "accel" \in Stream /\ s \in {"accel", "gyro"}
  BY DEF Stream
<1>3. /\ callback' \in [Stream -> SampleCallback] /\ imuMsgs' \in Seq(Message)
      /\ \A x \in Stream : callback'[x] = IF x = s THEN c ELSE callback[x]
  BY <1>1, <1>2
<1>4. ImuTypeOK'
  BY <1>3 DEF ImuInv, ImuTypeOK
<1>5. \A x \in Stream : /\ callback'[x].at # "idle" => callback'[x].time # 0
                        /\ callback'[x].time <= now'
  BY <1>1, <1>3 DEF ImuInv, SampleCallback
<1>6. callback'["gyro"].at # "publishing" => imuMsgs' = <<>>
  BY <1>2, <1>3 DEF ImuInv
<1>7. /\ Waits("gyro")' => \A i \in 1..Len(due) : due[i].gyro < callback'["gyro"].time
      /\ Waits("accel")' => lastAccel <= callback'["accel"].time
  BY <1>2, <1>3 DEF ImuInv, Waits
<1>8. QED
  BY <1>4, <1>5, <1>6, <1>7 DEF ImuInv

LEMMA CallbackMovesKeep ==
    ASSUME ImuInv, NEW s \in Stream, TakeMutex(s) \/ DropSample(s) \/ Unlock(s)
    PROVE  ImuInv'
<1> DEFINE c == IF TakeMutex(s) THEN [callback[s] EXCEPT !.at = "testing"]
                ELSE IF DropSample(s) THEN [callback[s] EXCEPT !.at = "leaving"] ELSE NoSample
<1>1. /\ callback \in [Stream -> SampleCallback] /\ mutex \in Stream \cup {"free"}
      /\ published \in Seq(Message) /\ published \o imuMsgs = due
  BY DEF ImuInv, ImuTypeOK
<1>2. /\ callback[s].at \in {"waiting", "testing", "leaving"}
      /\ UNCHANGED <<unite, subscribed, streams, publisher, monitor, accelData, imuMsgs, video,
                     crashed, published, lastAccel, due, now, imuChanges>>
      /\ mutex' \in Stream \cup {"free"}
  BY <1>1 DEF TakeMutex, DropSample, Unlock, monitorVars, historyVars, boundVars
<1>3. s = "gyro" => imuMsgs = <<>>
  BY <1>2 DEF ImuInv
<1>4. callback' = [callback EXCEPT ![s] = c]
  <2>1. CASE TakeMutex(s)
    BY <1>1, <2>1 DEF TakeMutex
  <2>2. CASE ~ TakeMutex(s) /\ DropSample(s)
    BY <1>1, <2>2 DEF DropSample, Skip, Leaving
  <2>3. CASE ~ TakeMutex(s) /\ ~ DropSample(s)
    BY <2>3 DEF Unlock
  <2>4. QED
    BY <2>1, <2>2, <2>3
<1>5. /\ c \in SampleCallback /\ c.time \in {0, callback[s].time} /\ c.at # "publishing"
      /\ c.at # "idle" => c.time = callback[s].time
      /\ c.at = "testing" => callback[s].at = "waiting"
      /\ c.at # "waiting"
  BY <1>1, SyncedImuAssumption DEF SampleCallback, NoSample, TakeMutex
<1> HIDE DEF c
<1>6. c.at \in {"waiting", "testing"} => Waits(s)
  BY <1>5 DEF Waits
<1>7. QED
  BY <1>1, <1>2, <1>3, <1>4, <1>5, <1>6, MovesKeep

\* A callback publishes its message: it leaves the hand and goes out.
LEMMA PublishKeepsOrder ==
    ASSUME ImuInv, Publish
    PROVE  ImuInv'
<1> DEFINE c == [callback["gyro"] EXCEPT !.at = "leaving"]
<1>1. /\ callback \in [Stream -> SampleCallback] /\ mutex \in Stream \cup {"free"}
      /\ published \in Seq(Message) /\ imuMsgs \in Seq(Message) /\ published \o imuMsgs = due
  BY DEF ImuInv, ImuTypeOK
<1>2. /\ callback["gyro"].at = "publishing" /\ published' = due /\ imuMsgs' = <<>>
      /\ UNCHANGED <<unite, subscribed, streams, publisher, monitor, accelData, mutex, video,
                     crashed, lastAccel, due, now, imuChanges>>
  BY <1>1 DEF Publish, monitorVars, boundVars
<1>3. published' \in Seq(Message) /\ published' \o imuMsgs' = due
  BY <1>2, ConcatEmptySeq DEF ImuInv, ImuTypeOK
<1>4. "gyro" \in Stream
  BY DEF Stream
<1>5. callback' = [callback EXCEPT !["gyro"] = c]
  BY <1>1, <1>4 DEF Publish
<1>6. c \in SampleCallback /\ c.time = callback["gyro"].time /\ c.at = "leaving"
  BY <1>1, <1>4 DEF SampleCallback
<1> HIDE DEF c
<1>7. QED
  BY <1>1, <1>2, <1>3, <1>4, <1>5, <1>6, MovesKeep

\* An acceleration becomes the newest one.
LEMMA AccelKeeps ==
    ASSUME ImuInv, UniteSample("accel")
    PROVE  ImuInv'
<1> DEFINE t == callback["accel"].time
<1>1. /\ callback \in [Stream -> SampleCallback] /\ "accel" \in Stream /\ "gyro" \in Stream
      /\ callback["accel"].at = "testing" /\ now \in Nat /\ lastAccel \in Nat
  BY DEF UniteSample, ImuInv, ImuTypeOK, Stream
<1>2. /\ callback' = [callback EXCEPT !["accel"].at = "leaving"] /\ accelData' = t
      /\ lastAccel' = t /\ due' = due
      /\ UNCHANGED <<unite, subscribed, streams, publisher, monitor, imuMsgs, mutex, video,
                     crashed, published, now, imuChanges>>
  BY DEF UniteSample, FillImuDataCopy, Store, Leaving, Recorded, monitorVars, boundVars
<1>3. /\ t \in 0..MaxEvents /\ t # 0 /\ t <= now /\ lastAccel <= t
  BY <1>1 DEF ImuInv, Waits, SampleCallback
<1>4. /\ callback' \in [Stream -> SampleCallback] /\ callback'["gyro"] = callback["gyro"]
      /\ callback'["accel"].at = "leaving" /\ callback'["accel"].time = t
  BY <1>1, <1>2 DEF SampleCallback
<1>5. \A s \in Stream : callback'[s].at # "idle" => callback'[s].time # 0
  BY <1>3, <1>4 DEF ImuInv, Stream
<1>6. \A s \in Stream : callback'[s].time <= now'
  BY <1>1, <1>2, <1>3, <1>4 DEF ImuInv, Stream
<1>7. ImuTypeOK'
  BY <1>2, <1>3, <1>4 DEF ImuInv, ImuTypeOK
<1>8. \A i \in 1..Len(due) : due[i].gyro <= now /\ due[i].accel <= t
  BY <1>1, <1>3, DueIsCounted DEF ImuInv
<1>9. ~ Waits("accel")' /\ (Waits("gyro")' => \A i \in 1..Len(due) : due[i].gyro < callback'["gyro"].time)
  BY <1>4 DEF ImuInv, Waits
<1>10. QED
  BY <1>2, <1>3, <1>4, <1>5, <1>6, <1>7, <1>8, <1>9 DEF ImuInv

\* A sample of the gyroscope is united with the newest acceleration, or there is none.
LEMMA GyroKeeps ==
    ASSUME ImuInv, UniteSample("gyro")
    PROVE  ImuInv'
<1> DEFINE t == callback["gyro"].time
           m == [gyro |-> t, accel |-> lastAccel]
<1>1. /\ callback \in [Stream -> SampleCallback] /\ "accel" \in Stream /\ "gyro" \in Stream
      /\ callback["gyro"].at = "testing" /\ now \in Nat /\ lastAccel \in 0..MaxEvents
      /\ accelData = lastAccel /\ imuMsgs = <<>> /\ due \in Seq(Message)
      /\ published \in Seq(Message) /\ published \o imuMsgs = due
  BY DEF UniteSample, ImuInv, ImuTypeOK, Stream
<1>2. due = published
  BY <1>1, ConcatEmptySeq
<1>3. /\ t \in 1..MaxEvents /\ t <= now /\ \A i \in 1..Len(due) : due[i].gyro < t
  BY <1>1, SyncedImuAssumption DEF ImuInv, Waits, SampleCallback
<1>4. /\ lastAccel' = lastAccel /\ accelData' = accelData
      /\ UNCHANGED <<unite, subscribed, streams, publisher, monitor, mutex, video,
                     crashed, published, now, imuChanges>>
  BY DEF UniteSample, FillImuDataCopy, Recorded, monitorVars, boundVars
<1>5. CASE lastAccel = 0
  <2>1. callback' = [callback EXCEPT !["gyro"].at = "leaving"] /\ imuMsgs' = imuMsgs /\ due' = due
    BY <1>1, <1>5 DEF UniteSample, FillImuDataCopy, Leaving, Recorded
  <2> DEFINE c == [callback["gyro"] EXCEPT !.at = "leaving"]
  <2>2. callback' = [callback EXCEPT !["gyro"] = c]
    BY <1>1, <2>1
  <2>3. c \in SampleCallback /\ c.time = callback["gyro"].time /\ c.at = "leaving"
    BY <1>1 DEF SampleCallback
  <2> HIDE DEF c
  <2>4. mutex' \in Stream \cup {"free"}
    BY <1>4 DEF ImuInv, ImuTypeOK
  <2>5. QED
    BY <1>1, <1>4, <2>1, <2>2, <2>3, <2>4, MovesKeep
<1>6. CASE lastAccel # 0
  <2>1. /\ callback' = [callback EXCEPT !["gyro"].at = "publishing"] /\ imuMsgs' = <<m>>
        /\ due' = Append(due, m)
    BY <1>1, <1>6 DEF UniteSample, FillImuDataCopy, Recorded
  <2>2. m \in Message
    BY <1>1, <1>3, <1>6 DEF Message
  <2>3. m.gyro = t /\ m.accel = lastAccel
    OBVIOUS
  <2> HIDE DEF t, m
  <2>4. PICK n \in Nat : n = Len(due)
    BY <1>1, LenProperties
  <2>5. PICK d : d = Append(due, m)
    OBVIOUS
  <2>6. /\ d \in Seq(Message) /\ Len(d) = n + 1 /\ d[n + 1] = m /\ \A i \in 1..n : d[i] = due[i]
    BY <1>1, <2>2, <2>4, <2>5, AppendProperties
  <2>7. due' = d /\ published \o <<m>> = d /\ <<m>> \in Seq(Message)
    <3>1. Append(published, m) = published \o <<m>>
      BY <1>1, <2>2, AppendIsConcat
    <3>2. QED
      BY <1>2, <2>1, <2>2, <2>5, <3>1
  <2>8. \A i \in 1..n : /\ due[i].gyro \in Nat /\ due[i].accel \in Nat
                        /\ due[i].gyro < t /\ due[i].gyro <= now /\ due[i].accel <= lastAccel
    BY <1>3, <2>4, DueIsCounted DEF ImuInv
  <2>9. \A i \in 1..(n + 1) : i \in 1..n \/ i = n + 1
    OBVIOUS
  <2>10. \A i \in 1..(n + 1) : d[i].gyro <= now /\ d[i].accel <= lastAccel
    BY <1>1, <1>3, <2>3, <2>6, <2>8, <2>9
  <2>11. \A i, j \in 1..(n + 1) : i < j => d[i].gyro < d[j].gyro /\ d[i].accel <= d[j].accel
    <3> SUFFICES ASSUME NEW i \in 1..(n + 1), NEW j \in 1..(n + 1), i < j
                 PROVE  d[i].gyro < d[j].gyro /\ d[i].accel <= d[j].accel
      OBVIOUS
    <3>1. i \in 1..n /\ d[i] = due[i]
      BY <2>6
    <3>2. CASE j = n + 1
      BY <2>3, <2>6, <2>8, <3>1, <3>2
    <3>3. CASE j \in 1..n
      BY <2>4, <2>6, <3>1, <3>3 DEF ImuInv
    <3>4. QED
      BY <2>9, <3>2, <3>3
  <2>12. /\ callback' \in [Stream -> SampleCallback] /\ callback'["accel"] = callback["accel"]
         /\ callback'["gyro"].at = "publishing" /\ callback'["gyro"].time = t
    BY <1>1, <2>1 DEF SampleCallback, t
  <2>13. \A s \in Stream : callback'[s].at # "idle" => callback'[s].time # 0
    BY <1>3, <2>12 DEF ImuInv, Stream
  <2>14. \A s \in Stream : callback'[s].time <= now'
    BY <1>3, <1>4, <2>12 DEF ImuInv, Stream
  <2>15. ImuTypeOK'
    BY <1>4, <2>1, <2>6, <2>7, <2>12 DEF ImuInv, ImuTypeOK
  <2>16. ~ Waits("gyro")' /\ (Waits("accel")' => lastAccel <= callback'["accel"].time)
    BY <2>12 DEF ImuInv, Waits
  <2>17. QED
    BY <1>1, <1>4, <2>1, <2>6, <2>7, <2>10, <2>11, <2>12, <2>13, <2>14, <2>15, <2>16 DEF ImuInv
<1>7. QED
  BY <1>5, <1>6

\* The other threads touch no sample.
LEMMA OthersKeep ==
    ASSUME ImuInv,
           \/ SetUnite \/ Subscribe
           \/ StopMotionSensor \/ StopPublishers \/ StartPublishers \/ UpdateVideoSensor
           \/ \E v \in VideoThread : FrameArrives(v) \/ VideoStep(v)
           \/ UNCHANGED imuVars
    PROVE  ImuInv'
<1>1. /\ UNCHANGED <<callback, mutex, accelData, imuMsgs, published, lastAccel, due, now>>
      /\ imuChanges' = imuChanges \/ (imuChanges < MaxChanges /\ imuChanges' = imuChanges + 1)
  BY DEF SetUnite, Subscribe, StopMotionSensor, StopPublishers, StartPublishers, UpdateVideoSensor,
         FrameArrives, VideoStep, CallPause, FrameProcessed, CallResume, Moves, Change, historyVars,
         boundVars, imuVars
<1>2. /\ unite' \in {"none", "copy", "linear"} /\ subscribed' \in BOOLEAN
      /\ streams' \subseteq Stream /\ publisher' \in BOOLEAN
      /\ monitor' \in {"idle", "stopped", "closed"} /\ crashed' \in BOOLEAN
      /\ video' \in [VideoThread -> {"idle", "pausing", "processing", "resuming"}]
  <2>1. CASE SetUnite \/ Subscribe \/ UNCHANGED imuVars
    BY <2>1 DEF SetUnite, Subscribe, monitorVars, imuVars, ImuInv, ImuTypeOK
  <2>2. CASE StopMotionSensor \/ StopPublishers \/ StartPublishers \/ UpdateVideoSensor
    <3>1. UNCHANGED <<unite, subscribed, video>>
      BY <2>2 DEF StopMotionSensor, StopPublishers, StartPublishers, UpdateVideoSensor
    <3>2. crashed' \in BOOLEAN
      BY <2>2 DEF StopMotionSensor, StopPublishers, StartPublishers, UpdateVideoSensor, Dropped,
                  InUse, ImuInv, ImuTypeOK
    <3>3. streams' \subseteq Stream /\ publisher' \in BOOLEAN
      BY <2>2 DEF StopMotionSensor, StopPublishers, StartPublishers, UpdateVideoSensor,
                  MakesPublisher, ImuInv, ImuTypeOK
    <3>4. monitor' \in {"idle", "stopped", "closed"}
      BY <2>2 DEF StopMotionSensor, StopPublishers, StartPublishers, UpdateVideoSensor,
                  ImuInv, ImuTypeOK
    <3>5. QED
      BY <3>1, <3>2, <3>3, <3>4 DEF ImuInv, ImuTypeOK
  <2>3. CASE \E v \in VideoThread : FrameArrives(v) \/ VideoStep(v)
    <3>1. PICK v \in VideoThread : FrameArrives(v) \/ VideoStep(v)
      BY <2>3
    <3>2. \E place \in {"idle", "pausing", "processing", "resuming"} : Moves(v, place)
      BY <3>1 DEF FrameArrives, VideoStep, CallPause, FrameProcessed, CallResume
    <3>3. crashed' = crashed \/ crashed' = ~ publisher
      BY <3>1 DEF FrameArrives, VideoStep, CallPause, FrameProcessed, CallResume
    <3>4. QED
      BY <3>2, <3>3 DEF Moves, monitorVars, ImuInv, ImuTypeOK
  <2>4. QED
    BY <2>1, <2>2, <2>3
<1>3. imuChanges' \in 0..MaxChanges
  BY <1>1, SyncedImuAssumption DEF ImuInv, ImuTypeOK
<1>4. ImuTypeOK'
  BY <1>1, <1>2, <1>3 DEF ImuInv, ImuTypeOK
<1>5. QED
  BY <1>1, <1>4 DEF ImuInv, Waits

\* The invariant, for every number of samples and changes and any video sensors.
THEOREM NewestIsCopied == ImuSpec => []ImuInv
<1>1. ImuInit => ImuInv
  BY ImuStarts
<1>2. ImuInv /\ [ImuNext]_imuVars => ImuInv'
  <2> SUFFICES ASSUME ImuInv, [ImuNext]_imuVars PROVE ImuInv'
    OBVIOUS
  <2>1. ASSUME NEW s \in Stream, SampleArrives(s) PROVE ImuInv'
    BY <2>1, ArrivalKeeps
  <2>2. ASSUME NEW s \in Stream, SampleStep(s) PROVE ImuInv'
    <3>1. CASE TakeMutex(s) \/ DropSample(s) \/ Unlock(s)
      BY <3>1, CallbackMovesKeep
    <3>2. CASE UniteSample(s)
      BY <3>2, AccelKeeps, GyroKeeps DEF Stream
    <3>3. CASE Publish
      BY <3>3, PublishKeepsOrder
    <3>4. QED
      BY <2>2, <3>1, <3>2, <3>3 DEF SampleStep
  <2>3. CASE \/ SetUnite \/ Subscribe
             \/ StopMotionSensor \/ StopPublishers \/ StartPublishers \/ UpdateVideoSensor
             \/ \E v \in VideoThread : FrameArrives(v) \/ VideoStep(v)
             \/ UNCHANGED imuVars
    BY <2>3, OthersKeep
  <2>4. QED
    BY <2>1, <2>2, <2>3 DEF ImuNext
<1>3. QED
  BY <1>1, <1>2, PTL DEF ImuSpec

\* ImuTypeOK, for every number of samples and changes and any video sensors.
THEOREM ImuTypesAreKept == ImuSpec => []ImuTypeOK
<1>1. ImuInv => ImuTypeOK
  BY DEF ImuInv
<1>2. QED
  BY <1>1, NewestIsCopied, PTL

\* OneMessagePerGyro, for every number of samples and changes and any video sensors: the
\* newest acceleration, in every order of the two streams' threads.
THEOREM GyrosGiveTheirMessages == ImuSpec => []OneMessagePerGyro
<1>1. ImuInv => OneMessagePerGyro
  BY DEF ImuInv, OneMessagePerGyro
<1>2. QED
  BY <1>1, NewestIsCopied, PTL

=============================================================================
