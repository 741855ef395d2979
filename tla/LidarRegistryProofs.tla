------------------------ MODULE LidarRegistryProofs -------------------------
(***************************************************************************)
(* Proofs about the registration and configuration of lidars, for every    *)
(* set of lidars, size of the table and configuration file, and however    *)
(* announcements, answers and repetitions interleave.                      *)
(***************************************************************************)
EXTENDS LidarRegistry, SequenceTheorems, TLAPS

Config == [handle : Handle, options : SUBSET Option]

\* Types, with what is left of the configurations.
TypeInv ==
    /\ TypeOK
    /\ todo \in Seq(Config)

\* Each lidar has a slot of its own, options are sent to lidars with a slot, and a
\* slot that is free holds nothing.
SlotInv ==
    /\ \A h \in Registered : index[h] \in used
    /\ \A g, h \in Registered : index[g] = index[h] => g = h
    /\ \A h \in Handle, o \in Option : flight[<<h, o>>] > 0 => h \in Registered
    /\ \A s \in Slot \ used : setBits[s] = {} /\ s \notin sampling

\* While configurations are registered no lidar has been announced.
StartInv ==
    todo # <<>> =>
        /\ sampling = {} /\ changing = NoChange
        /\ \A t \in Target : flight[t] = 0
        /\ \A h \in Registered : device[index[h]].handle = h

\* The options of a lidar whose announcement sends them, up to the place reached, and
\* of one that has a command on its way or counts as sampling, are pending or accepted.
Pending(h) == setBits[index[h]]
Covered(h, o) == o \in device[index[h]].options => o \in Pending(h) \cup accepted[h]
ToBeSent(h, o) == changing.handle = h /\ \E i \in changing.at..4 : o = OptionOrder[i]
SendingInv ==
    \A h \in Registered : \A o \in Option :
        /\ changing.handle = h => ToBeSent(h, o) \/ Covered(h, o)
        /\ (\E p \in Option : flight[<<h, p>>] > 0) => ToBeSent(h, o) \/ Covered(h, o)

\* A slot's handle is that of its lidar, a listed lidar got its slot from the file, and
\* topics are named when the table is complete.
NameInv ==
    /\ \A s \in Slot : device[s].handle # NoHandle =>
          device[s].handle \in Registered /\ index[device[s].handle] = s
    /\ \A h \in Registered : Listed(h) => device[index[h]].handle = h
    /\ \A i \in 1..Len(setup.configs) :
          \/ setup.configs[i].handle \in Registered
          \/ Slot \subseteq used
          \/ \E j \in 1..Len(todo) : todo[j] = setup.configs[i]
    /\ \A s \in Slot : topic[s] # "none" => todo = <<>> /\ topic[s] = device[s].handle
-------------------------------------------------------------------------------
\* The options are the four in the order in which they are sent.
LEMMA OptionsInOrder ==
    /\ Len(OptionOrder) = 4
    /\ \A i \in 1..4 : OptionOrder[i] \in Option
    /\ \A o \in Option : \E i \in 1..4 : o = OptionOrder[i]
    /\ Option \subseteq Command
    /\ \A o \in Option : o # "attitude" /\ o # "work_mode" /\ o # "imu"
<1>1. Len(OptionOrder) = 4
  BY DEF OptionOrder
<1>2. Option = {OptionOrder[i] : i \in 1..4}
  BY <1>1 DEF Option
<1>3. \A i \in 1..4 : OptionOrder[i] \in {"data_type", "scan_pattern", "blind_spot", "dual_emit"}
  BY DEF OptionOrder
<1>4. QED
  BY <1>1, <1>2, <1>3 DEF Command

\* Sending adds one command to each target.
LEMMA Sending ==
    ASSUME NEW calls \in [Target -> Nat], NEW targets
    PROVE  /\ Send(calls, targets) \in [Target -> Nat]
           /\ \A t \in Target : Send(calls, targets)[t] =
                                  IF t \in targets THEN calls[t] + 1 ELSE calls[t]
  BY DEF Send

\* An answer takes one command away.
LEMMA Answering ==
    ASSUME flight \in [Target -> Nat], NEW t \in Target, Answered(t)
    PROVE  /\ flight' \in [Target -> Nat] /\ flight[t] > 0
           /\ flight'[t] = flight[t] - 1
           /\ \A u \in Target : u # t => flight'[u] = flight[u]
  BY DEF Answered

\* A command that is sent again is on its way as before.
LEMMA Resending ==
    ASSUME flight \in [Target -> Nat], NEW t \in Target, Resent(t)
    PROVE  flight' = flight
<1> DEFINE less == [flight EXCEPT ![t] = @ - 1]
<1>1. flight[t] > 0 /\ flight' = Send(less, {t})
  BY DEF Resent
<1>2. less \in [Target -> Nat]
  BY <1>1
<1>3. /\ flight' \in [Target -> Nat]
      /\ \A u \in Target : flight'[u] = IF u = t THEN less[u] + 1 ELSE less[u]
  <2>1. /\ Send(less, {t}) \in [Target -> Nat]
        /\ \A u \in Target : Send(less, {t})[u] = IF u \in {t} THEN less[u] + 1 ELSE less[u]
    BY <1>2, Sending
  <2> HIDE DEF less
  <2>2. QED
    BY <1>1, <2>1
<1>4. \A u \in Target : flight'[u] = flight[u]
  <2>1. \A u \in Target : less[u] = IF u = t THEN flight[t] - 1 ELSE flight[u]
    OBVIOUS
  <2> HIDE DEF less
  <2>2. flight[t] \in Nat
    OBVIOUS
  <2>3. QED
    BY <1>3, <2>1, <2>2
<1>5. QED
  BY <1>3, <1>4

\* A lidar keeps its slot or gets a free one.
LEMMA Registering ==
    ASSUME TypeInv, SlotInv, NEW h \in Handle, NEW s \in Slot, GetFreeIndex(h, s)
    PROVE  /\ Registered' = Registered \cup {h} /\ index' \in [Registered' -> Slot]
           /\ index'[h] = s /\ \A k \in Registered : index'[k] = index[k]
           /\ used \subseteq used' /\ used' \subseteq Slot
           /\ \A k \in Registered' : index'[k] \in used'
           /\ \A g, k \in Registered' : index'[g] = index'[k] => g = k
           /\ h \notin Registered => s \notin used
<1>1. /\ index \in [Registered -> Slot] /\ Registered \subseteq Handle /\ used \subseteq Slot
      /\ \A k \in Registered : index[k] \in used
      /\ \A g, k \in Registered : index[g] = index[k] => g = k
  BY DEF TypeInv, TypeOK, SlotInv
<1>2. CASE h \in Registered
  BY <1>1, <1>2 DEF GetFreeIndex, tableVars, Registered
<1>3. CASE h \notin Registered
  <2>1. /\ index' = [k \in Registered \cup {h} |-> IF k = h THEN s ELSE index[k]]
        /\ used' = used \cup {s} /\ s \notin used
    BY <1>3 DEF GetFreeIndex
  <2>2. Registered' = Registered \cup {h}
    BY <2>1 DEF Registered
  <2>3. index' \in [Registered' -> Slot] /\ index'[h] = s /\ \A k \in Registered : index'[k] = index[k]
    BY <1>1, <1>3, <2>1, <2>2
  <2>4. QED
    BY <1>1, <1>3, <2>1, <2>2, <2>3
<1>4. QED
  BY <1>2, <1>3

\* What answers do that leave the options to be sent, and the bits, alone.
AnswerLeft ==
    /\ UNCHANGED <<setup, todo, tableVars, device, setBits, sampling, topic, changing, changes,
                   accepted, streamed>>
    /\ flight' \in [Target -> Nat] /\ \A t \in Target : flight'[t] <= flight[t]
    /\ refused' \in [Handle -> SUBSET Option] /\ normal' \subseteq Handle
    /\ \A h \in Handle, o \in Option :
          /\ refused[h] \subseteq refused'[h]
          /\ flight'[<<h, o>>] = flight[<<h, o>>] \/ o \in refused'[h]

\* A stuttering step leaves all commands as they are.
LEMMA NothingAnswered ==
    ASSUME TypeInv, UNCHANGED vars
    PROVE  AnswerLeft
<1>1. /\ flight \in [Target -> Nat] /\ refused \in [Handle -> SUBSET Option] /\ normal \subseteq Handle
  BY DEF TypeInv, TypeOK
<1>2. UNCHANGED <<setup, todo, tableVars, device, setBits, sampling, topic, changing, changes,
                  accepted, streamed, flight, refused, normal>>
  BY DEF vars, historyVars
<1>3. \A t \in Target : flight'[t] <= flight[t]
  BY <1>1, <1>2
<1>4. QED
  BY <1>1, <1>2, <1>3 DEF AnswerLeft

\* The answers that are only counted, repeated or reported.
LEMMA AnswersCounted ==
    ASSUME TypeInv, NEW h \in Handle \cup {NoHandle}, NEW c \in Command \ Option, Answered(<<h, c>>),
           UNCHANGED <<setup, todo, tableVars, device, setBits, sampling, topic, changing,
                       changes, accepted, refused, streamed>>,
           normal' \subseteq Handle
    PROVE  AnswerLeft
<1>1. flight \in [Target -> Nat] /\ refused \in [Handle -> SUBSET Option] /\ <<h, c>> \in Target
  BY DEF TypeInv, TypeOK, Target
<1>2. /\ flight' \in [Target -> Nat] /\ flight'[<<h, c>>] = flight[<<h, c>>] - 1
      /\ \A u \in Target : u # <<h, c>> => flight'[u] = flight[u]
  BY <1>1, Answering
<1>3. \A t \in Target : flight'[t] <= flight[t]
  BY <1>1, <1>2
<1>4. \A g \in Handle, o \in Option : flight'[<<g, o>>] = flight[<<g, o>>]
  BY <1>2, OptionsInOrder DEF Target
<1>5. QED
  BY <1>1, <1>2, <1>3, <1>4 DEF AnswerLeft

\* A command that is refused is remembered as refused.
LEMMA AnswersRefused ==
    ASSUME TypeInv, NEW h \in Handle, NEW o \in Option, OptionRefused(h, o)
    PROVE  AnswerLeft
<1>1. /\ flight \in [Target -> Nat] /\ refused \in [Handle -> SUBSET Option] /\ <<h, o>> \in Target
      /\ normal \subseteq Handle
  BY OptionsInOrder DEF TypeInv, TypeOK, Target
<1>2. /\ flight' \in [Target -> Nat] /\ flight'[<<h, o>>] = flight[<<h, o>>] - 1
      /\ \A u \in Target : u # <<h, o>> => flight'[u] = flight[u]
  BY <1>1, Answering DEF OptionRefused
<1>3. \A t \in Target : flight'[t] <= flight[t]
  BY <1>1, <1>2
<1>4. /\ refused' = [refused EXCEPT ![h] = @ \cup {o}]
      /\ UNCHANGED <<setup, todo, tableVars, device, setBits, sampling, topic, changing,
                     changes, accepted, normal, streamed>>
  BY DEF OptionRefused
<1>5. \A g \in Handle, p \in Option :
         /\ refused[g] \subseteq refused'[g]
         /\ flight'[<<g, p>>] = flight[<<g, p>>] \/ p \in refused'[g]
  <2> TAKE g \in Handle, p \in Option
  <2>1. CASE g = h /\ p = o
    BY <1>1, <1>4, <2>1
  <2>2. CASE ~ (g = h /\ p = o)
    <3>1. <<g, p>> \in Target /\ <<g, p>> # <<h, o>>
      BY <2>2, OptionsInOrder DEF Target
    <3>2. QED
      BY <1>1, <1>2, <1>4, <3>1
  <2>3. QED
    BY <2>1, <2>2
<1>6. refused' \in [Handle -> SUBSET Option]
  BY <1>1, <1>4
<1>7. QED
  BY <1>1, <1>2, <1>3, <1>4, <1>5, <1>6 DEF AnswerLeft

\* The kinds of steps that the invariants tell apart.
LEMMA Steps ==
    ASSUME TypeInv, [Next]_vars
    PROVE  \/ Register \/ SendOption \/ FinishAnnouncement \/ AnswerLeft
           \/ \E h \in Handle : AnnounceNew(h) \/ AnnounceKnown(h) \/ StoragePointData(h)
           \/ \E h \in Handle, o \in Option : OptionSucceeds(h, o)
           \/ \E s \in Slot : GetCurrentPublisher(s)
<1>1. flight \in [Target -> Nat] /\ normal \subseteq Handle
  BY DEF TypeInv, TypeOK
<1>2. ASSUME NEW h \in Handle, NEW o \in Option, OptionTimesOut(h, o) PROVE AnswerLeft
  <2>1. <<h, o>> \in Target
    BY OptionsInOrder DEF Target
  <2>2. UNCHANGED flight
    BY <1>1, <1>2, <2>1, Resending DEF OptionTimesOut
  <2>3. QED
    BY <1>2, <2>2, NothingAnswered DEF OptionTimesOut, vars
<1>3. ASSUME NEW h \in Handle, NEW o \in Option, OptionRefused(h, o) PROVE AnswerLeft
  BY <1>3, AnswersRefused
<1>4. "attitude" \in Command \ Option /\ "work_mode" \in Command \ Option /\ "imu" \in Command \ Option
  BY OptionsInOrder DEF Command
<1>5. ASSUME NEW h \in Handle \cup {NoHandle}, SetAttitude(h) PROVE AnswerLeft
  <2>1. <<h, "attitude">> \in Target
    BY <1>4 DEF Target
  <2>2. UNCHANGED <<setup, todo, tableVars, device, setBits, sampling, topic, changing, changes,
                    historyVars>>
    BY <1>5 DEF SetAttitude
  <2>3. CASE Answered(<<h, "attitude">>)
    BY <1>1, <1>4, <2>2, <2>3, AnswersCounted DEF historyVars
  <2>4. CASE Resent(<<h, "attitude">>)
    BY <1>1, <2>1, <2>2, <2>4, Resending, NothingAnswered DEF vars
  <2>5. QED
    BY <1>5, <2>3, <2>4 DEF SetAttitude
<1>6. ASSUME NEW h \in Handle, WorkModeSucceeds(h) PROVE AnswerLeft
  BY <1>1, <1>4, <1>6, AnswersCounted DEF WorkModeSucceeds
<1>7. ASSUME NEW h \in Handle, WorkModeFails(h) PROVE AnswerLeft
  <2>1. <<h, "work_mode">> \in Target
    BY <1>4 DEF Target
  <2>2. UNCHANGED flight
    BY <1>1, <1>7, <2>1, Resending DEF WorkModeFails
  <2>3. QED
    BY <1>7, <2>2, NothingAnswered DEF WorkModeFails, vars
<1>8. ASSUME NEW h \in Handle, ImuEnabled(h) PROVE AnswerLeft
  <2>1. <<h, "imu">> \in Target
    BY <1>4 DEF Target
  <2>2. UNCHANGED <<setup, todo, tableVars, device, setBits, sampling, topic, changing, changes,
                    historyVars>>
    BY <1>8 DEF ImuEnabled
  <2>3. CASE Answered(<<h, "imu">>)
    BY <1>1, <1>4, <2>2, <2>3, AnswersCounted DEF historyVars
  <2>4. CASE Resent(<<h, "imu">>)
    BY <1>1, <2>1, <2>2, <2>4, Resending, NothingAnswered DEF vars
  <2>5. QED
    BY <1>8, <2>3, <2>4 DEF ImuEnabled
<1>9. UNCHANGED vars => AnswerLeft
  BY NothingAnswered DEF vars
<1>10. QED
  BY <1>2, <1>3, <1>5, <1>6, <1>7, <1>8, <1>9 DEF Next

-------------------------------------------------------------------------------
\* Types and slots.
Kept == TypeInv' /\ SlotInv'

\* Registering a configuration takes a free slot for it, or none is left.
LEMMA RegisterKeeps ==
    ASSUME TypeInv, SlotInv, Register
    PROVE  /\ Kept /\ Head(todo) \in Config /\ todo # <<>>
           /\ \/ NoFreeIndex(Head(todo).handle) /\ UNCHANGED <<index, used, device>>
              \/ \E s \in Slot : GetFreeIndex(Head(todo).handle, s)
                                 /\ device' = [device EXCEPT ![s] = Head(todo)]
<1> DEFINE config == Head(todo)
<1>1. /\ todo \in Seq(Config) /\ todo # <<>> /\ todo' = Tail(todo)
      /\ UNCHANGED <<setup, setBits, sampling, topic, changing, flight, changes,
                     accepted, refused, normal, streamed>>
  BY DEF Register, TypeInv, historyVars
<1>2. config \in Config /\ todo' \in Seq(Config)
  BY <1>1, HeadTailProperties
<1>3. config.handle \in Handle /\ config \in Device
  BY <1>2 DEF Config, Device
<1>4. CASE NoFreeIndex(config.handle) /\ UNCHANGED <<index, used, device>>
  BY <1>1, <1>2, <1>4 DEF Kept, TypeInv, TypeOK, SlotInv, Registered
<1>5. ASSUME NEW s \in Slot, GetFreeIndex(config.handle, s), device' = [device EXCEPT ![s] = config]
      PROVE  Kept
  <2>1. /\ Registered' = Registered \cup {config.handle} /\ index' \in [Registered' -> Slot]
        /\ used \subseteq used' /\ used' \subseteq Slot
        /\ \A k \in Registered' : index'[k] \in used'
        /\ \A g, k \in Registered' : index'[g] = index'[k] => g = k
    BY <1>3, <1>5, Registering
  <2>2. device' \in [Slot -> Device]
    BY <1>3, <1>5 DEF TypeInv, TypeOK
  <2>3. changing \in [handle : Registered', at : 1..(Len(OptionOrder) + 1)] \cup {NoChange}
    BY <2>1 DEF TypeInv, TypeOK
  <2>4. TypeInv'
    BY <1>1, <1>2, <1>3, <2>1, <2>2, <2>3 DEF TypeInv, TypeOK
  <2>5. SlotInv'
    BY <1>1, <2>1 DEF SlotInv
  <2>6. QED
    BY <2>4, <2>5 DEF Kept
<1>6. \/ NoFreeIndex(config.handle) /\ UNCHANGED <<index, used, device>>
      \/ \E s \in Slot : GetFreeIndex(config.handle, s) /\ device' = [device EXCEPT ![s] = config]
  BY DEF Register, tableVars
<1>7. QED
  BY <1>1, <1>2, <1>4, <1>5, <1>6

\* A lidar that was never seen gets a free slot, or none is left.
LEMMA AnnounceNewKeeps ==
    ASSUME TypeInv, SlotInv, NEW h \in Handle, AnnounceNew(h)
    PROVE  /\ Kept /\ todo = <<>> /\ changing = NoChange /\ h \notin Registered
           /\ UNCHANGED <<setup, todo, device, setBits, sampling, topic, changing, accepted,
                          refused, streamed>>
           /\ \A g \in Handle, o \in Option : flight'[<<g, o>>] = flight[<<g, o>>]
           /\ \/ NoFreeIndex(h) /\ UNCHANGED <<index, used>>
              \/ \E s \in Slot : GetFreeIndex(h, s)
<1>1. /\ todo = <<>> /\ changing = NoChange /\ h \notin Registered
      /\ UNCHANGED <<setup, todo, device, setBits, sampling, topic, changing, accepted,
                     refused, normal, streamed>>
  BY DEF AnnounceNew, Announce, Locked, historyVars
<1>2. changes' \in [Handle -> Nat]
  BY DEF AnnounceNew, Announce, TypeInv, TypeOK
<1>3. flight \in [Target -> Nat]
  BY DEF TypeInv, TypeOK
<1>4. /\ Send(flight, WakeUp(h)) \in [Target -> Nat]
      /\ \A t \in Target : Send(flight, WakeUp(h))[t] =
                             IF t \in WakeUp(h) THEN flight[t] + 1 ELSE flight[t]
  BY <1>3, Sending
<1>5. \A g \in Handle, o \in Option : <<g, o>> \in Target /\ <<g, o>> \notin WakeUp(h)
  BY OptionsInOrder DEF WakeUp, Target
<1>6. /\ flight' \in [Target -> Nat]
      /\ \A g \in Handle, o \in Option : flight'[<<g, o>>] = flight[<<g, o>>]
  <2>1. CASE UNCHANGED flight
    BY <1>3, <2>1
  <2>2. CASE flight' = Send(flight, WakeUp(h))
    BY <1>4, <1>5, <2>2
  <2>3. QED
    BY <2>1, <2>2 DEF AnnounceNew
<1>7. CASE NoFreeIndex(h) /\ UNCHANGED <<index, used>>
  <2>1. TypeInv'
    BY <1>1, <1>2, <1>6, <1>7 DEF TypeInv, TypeOK, Registered
  <2>2. SlotInv'
    BY <1>1, <1>6, <1>7 DEF SlotInv, Registered
  <2>3. QED
    BY <1>1, <1>6, <1>7, <2>1, <2>2 DEF Kept
<1>8. ASSUME NEW s \in Slot, GetFreeIndex(h, s) PROVE Kept
  <2>1. /\ Registered' = Registered \cup {h} /\ index' \in [Registered' -> Slot]
        /\ used \subseteq used' /\ used' \subseteq Slot
        /\ \A k \in Registered' : index'[k] \in used'
        /\ \A g, k \in Registered' : index'[g] = index'[k] => g = k
    BY <1>8, Registering
  <2>2. TypeInv'
    BY <1>1, <1>2, <1>6, <2>1 DEF TypeInv, TypeOK
  <2>3. SlotInv'
    BY <1>1, <1>6, <2>1 DEF SlotInv
  <2>4. QED
    BY <2>2, <2>3 DEF Kept
<1>9. QED
  BY <1>1, <1>6, <1>7, <1>8 DEF AnnounceNew, tableVars

\* A lidar that was seen before keeps its slot and is configured again.
LEMMA AnnounceKnownKeeps ==
    ASSUME TypeInv, SlotInv, NEW h \in Handle, AnnounceKnown(h)
    PROVE  /\ Kept /\ h \in Registered /\ changing' = [handle |-> h, at |-> 1]
           /\ todo = <<>> /\ changing = NoChange
           /\ UNCHANGED <<setup, todo, index, used, device, setBits, sampling, topic, flight,
                          accepted, refused, streamed>>
<1>1. /\ h \in Registered /\ changing' = [handle |-> h, at |-> 1]
      /\ todo = <<>> /\ changing = NoChange
      /\ UNCHANGED <<setup, todo, index, used, device, setBits, sampling, topic, flight,
                     accepted, refused, normal, streamed>>
  BY DEF AnnounceKnown, Announce, Locked, tableVars, historyVars
<1>2. changes' \in [Handle -> Nat]
  BY DEF AnnounceKnown, Announce, TypeInv, TypeOK
<1>3. changing' \in [handle : Registered, at : 1..(Len(OptionOrder) + 1)]
  BY <1>1, OptionsInOrder
<1>4. TypeInv'
  BY <1>1, <1>2, <1>3 DEF TypeInv, TypeOK, Registered
<1>5. SlotInv'
  BY <1>1 DEF SlotInv, Registered
<1>6. QED
  BY <1>1, <1>4, <1>5 DEF Kept

\* The lidar, the place and the slot of the announcement under way.
LEMMA Announced ==
    ASSUME TypeInv, Locked
    PROVE  /\ changing.handle \in Registered /\ changing.handle \in Handle
           /\ changing.at \in 1..5 /\ index[changing.handle] \in Slot
<1>1. changing \in [handle : Registered, at : 1..5]
  BY OptionsInOrder DEF TypeInv, TypeOK, Locked
<1>2. Registered \subseteq Handle /\ index \in [Registered -> Slot]
  BY DEF TypeInv, TypeOK
<1>3. QED
  BY <1>1, <1>2

\* Sending an option marks it as pending in the slot of the lidar, or skips it.
LEMMA SendOptionKeeps ==
    ASSUME TypeInv, SlotInv, SendOption
    PROVE  LET h == changing.handle
               s == index[h]
               o == OptionOrder[changing.at] IN
           /\ Kept /\ Locked /\ changing.at \in 1..4 /\ o \in Option
           /\ changing'.handle = h /\ changing'.at = changing.at + 1
           /\ UNCHANGED <<setup, todo, index, used, device, sampling, topic, accepted, refused,
                          streamed>>
           /\ \/ /\ o \in device[s].options
                 /\ setBits' = [setBits EXCEPT ![s] = @ \cup {o}]
                 /\ flight'[<<h, o>>] > 0
              \/ o \notin device[s].options /\ UNCHANGED <<setBits, flight>>
           /\ \A g \in Handle, p \in Option :
                 g # h \/ p # o => flight'[<<g, p>>] = flight[<<g, p>>]
<1> DEFINE h == changing.handle
           s == index[h]
           o == OptionOrder[changing.at]
<1>1. /\ Locked /\ changing.at \in 1..4
      /\ h \in Registered /\ h \in Handle /\ s \in Slot
  BY Announced, OptionsInOrder DEF SendOption
<1>2. o \in Option /\ <<h, o>> \in Target
  BY <1>1, OptionsInOrder DEF Target
<1>3. changing' = [changing EXCEPT !.at = @ + 1]
  BY DEF SendOption
<1>4. changing \in [handle : Registered, at : 1..5]
  BY <1>1, OptionsInOrder DEF TypeInv, TypeOK, Locked
<1>5. /\ changing' \in [handle : Registered, at : 1..5]
      /\ changing'.handle = h /\ changing'.at = changing.at + 1
  BY <1>1, <1>3, <1>4
<1>6. UNCHANGED <<setup, todo, index, used, device, sampling, topic, changes, accepted, refused,
                  normal, streamed>>
  BY DEF SendOption, tableVars, historyVars
<1>7. flight \in [Target -> Nat] /\ setBits \in [Slot -> SUBSET Option]
  BY DEF TypeInv, TypeOK
<1>8. \/ /\ o \in device[s].options
         /\ setBits' = [setBits EXCEPT ![s] = @ \cup {o}]
         /\ flight' = Send(flight, {<<h, o>>})
      \/ o \notin device[s].options /\ UNCHANGED <<setBits, flight>>
  BY DEF SendOption
<1>9. /\ Send(flight, {<<h, o>>}) \in [Target -> Nat]
      /\ \A t \in Target : Send(flight, {<<h, o>>})[t] =
                             IF t \in {<<h, o>>} THEN flight[t] + 1 ELSE flight[t]
  BY <1>7, Sending
<1>10. \A g \in Handle, p \in Option : <<g, p>> \in Target
  BY OptionsInOrder DEF Target
<1> HIDE DEF h, s, o
<1>11. /\ flight' \in [Target -> Nat] /\ setBits' \in [Slot -> SUBSET Option]
       /\ \A r \in Slot : r # s => setBits'[r] = setBits[r]
       /\ o \in device[s].options => flight'[<<h, o>>] > 0
       /\ \A g \in Handle, p \in Option :
             g # h \/ p # o => flight'[<<g, p>>] = flight[<<g, p>>]
  <2>1. CASE o \notin device[s].options
    BY <1>7, <1>8, <2>1
  <2>2. CASE o \in device[s].options
    <3>1. setBits' = [setBits EXCEPT ![s] = @ \cup {o}] /\ flight' = Send(flight, {<<h, o>>})
      BY <1>8, <2>2
    <3>2. \A t \in Target : flight'[t] = IF t \in {<<h, o>>} THEN flight[t] + 1 ELSE flight[t]
      BY <1>9, <3>1
    <3>3. flight'[<<h, o>>] > 0
      BY <1>2, <1>7, <3>2
    <3>4. \A g \in Handle, p \in Option :
             g # h \/ p # o => flight'[<<g, p>>] = flight[<<g, p>>]
      BY <1>10, <3>2
    <3>5. setBits' \in [Slot -> SUBSET Option] /\ \A r \in Slot : r # s => setBits'[r] = setBits[r]
      BY <1>1, <1>2, <1>7, <3>1
    <3>6. QED
      BY <1>9, <3>1, <3>3, <3>4, <3>5
  <2>3. QED
    BY <2>1, <2>2
<1>12. TypeInv'
  BY <1>5, <1>6, <1>11, OptionsInOrder DEF TypeInv, TypeOK, Registered
<1>13. SlotInv'
  <2>1. s \in used
    BY <1>1 DEF SlotInv, s
  <2>2. \A g \in Handle, p \in Option : flight'[<<g, p>>] > 0 => g \in Registered
    BY <1>1, <1>11 DEF SlotInv
  <2>3. QED
    BY <1>6, <1>11, <2>1, <2>2 DEF SlotInv, Registered
<1>14. QED
  BY <1>1, <1>2, <1>5, <1>6, <1>8, <1>11, <1>12, <1>13 DEF Kept, h, s, o

\* The announcement ends with the command that starts sampling.
LEMMA FinishAnnouncementKeeps ==
    ASSUME TypeInv, SlotInv, FinishAnnouncement
    PROVE  /\ Kept /\ Locked /\ changing.at = 5 /\ changing' = NoChange
           /\ UNCHANGED <<setup, todo, index, used, device, setBits, sampling, topic, accepted,
                          refused, streamed>>
           /\ \A g \in Handle, o \in Option : flight'[<<g, o>>] = flight[<<g, o>>]
<1> DEFINE h == changing.handle
           targets == WakeUp(h) \cup {<<device[index[h]].handle, "attitude">>}
<1>1. /\ Locked /\ changing.at = 5 /\ changing' = NoChange
      /\ flight' = Send(flight, targets)
      /\ UNCHANGED <<setup, todo, index, used, device, setBits, sampling, topic, changes, accepted,
                     refused, normal, streamed>>
  BY Announced, OptionsInOrder DEF FinishAnnouncement, tableVars, historyVars
<1>2. flight \in [Target -> Nat]
  BY DEF TypeInv, TypeOK
<1>3. \A g \in Handle, o \in Option : <<g, o>> \in Target /\ <<g, o>> \notin targets
  BY OptionsInOrder DEF WakeUp, Target
<1> HIDE DEF targets
<1>4. /\ flight' \in [Target -> Nat]
      /\ \A t \in Target : flight'[t] = IF t \in targets THEN flight[t] + 1 ELSE flight[t]
  BY <1>1, <1>2, Sending
<1>5. \A g \in Handle, o \in Option : flight'[<<g, o>>] = flight[<<g, o>>]
  BY <1>3, <1>4
<1>6. TypeInv'
  BY <1>1, <1>4 DEF TypeInv, TypeOK, Registered
<1>7. SlotInv'
  BY <1>1, <1>5 DEF SlotInv, Registered
<1>8. QED
  BY <1>1, <1>5, <1>6, <1>7 DEF Kept

\* An option that is accepted is no longer pending in the slot of its lidar.
LEMMA OptionSucceedsKeeps ==
    ASSUME TypeInv, SlotInv, NEW h \in Handle, NEW o \in Option, OptionSucceeds(h, o)
    PROVE  /\ Kept /\ ~ Locked /\ h \in Registered /\ index[h] \in Slot
           /\ UNCHANGED <<setup, todo, index, used, device, topic, changing, refused, streamed>>
           /\ flight[<<h, o>>] > 0
           /\ \A t \in Target : flight'[t] <= flight[t]
           /\ \A t \in Target : t # <<h, o>> => flight'[t] = flight[t]
           /\ setBits'[index[h]] = setBits[index[h]] \ {o}
           /\ \A r \in Slot : r # index[h] => setBits'[r] = setBits[r]
           /\ sampling' = IF setBits'[index[h]] = {} THEN sampling \cup {index[h]} ELSE sampling
           /\ accepted'[h] = accepted[h] \cup {o}
           /\ \A g \in Handle : g # h => accepted'[g] = accepted[g]
<1> DEFINE s == index[h]
<1>1. /\ ~ Locked /\ Answered(<<h, o>>)
      /\ setBits' = [setBits EXCEPT ![s] = setBits[s] \ {o}]
      /\ sampling' = IF setBits[s] \ {o} = {} THEN sampling \cup {s} ELSE sampling
      /\ accepted' = [accepted EXCEPT ![h] = @ \cup {o}]
      /\ UNCHANGED <<setup, todo, index, used, device, topic, changing, changes, refused,
                     normal, streamed>>
  BY DEF OptionSucceeds, CallbackLock, tableVars
<1>2. flight \in [Target -> Nat] /\ setBits \in [Slot -> SUBSET Option]
      /\ accepted \in [Handle -> SUBSET Option] /\ sampling \subseteq Slot
      /\ \A g \in Handle, p \in Option : <<g, p>> \in Target
  BY OptionsInOrder DEF TypeInv, TypeOK, Target
<1>3. /\ flight' \in [Target -> Nat] /\ flight[<<h, o>>] > 0
      /\ flight'[<<h, o>>] = flight[<<h, o>>] - 1
      /\ \A u \in Target : u # <<h, o>> => flight'[u] = flight[u]
  BY <1>1, <1>2, Answering
<1>4. h \in Registered /\ s \in Slot /\ s \in used
  BY <1>3 DEF SlotInv, TypeInv, TypeOK
<1> HIDE DEF s
<1>5. /\ \A t \in Target : flight'[t] <= flight[t]
      /\ \A t \in Target : t # <<h, o>> => flight'[t] = flight[t]
  BY <1>2, <1>3
<1>6. /\ setBits' \in [Slot -> SUBSET Option]
      /\ setBits'[s] = setBits[s] \ {o} /\ \A r \in Slot : r # s => setBits'[r] = setBits[r]
  BY <1>1, <1>2, <1>4
<1>7. /\ accepted' \in [Handle -> SUBSET Option]
      /\ accepted'[h] = accepted[h] \cup {o}
      /\ \A g \in Handle : g # h => accepted'[g] = accepted[g]
  BY <1>1, <1>2
<1>8. /\ sampling' = IF setBits'[s] = {} THEN sampling \cup {s} ELSE sampling
      /\ sampling' \subseteq Slot
  BY <1>1, <1>2, <1>4, <1>6
<1>9. TypeInv'
  BY <1>1, <1>3, <1>6, <1>7, <1>8 DEF TypeInv, TypeOK, Registered
<1>10. SlotInv'
  <2>1. \A g \in Handle, p \in Option : flight'[<<g, p>>] > 0 => g \in Registered
    BY <1>2, <1>4, <1>5 DEF SlotInv
  <2>2. \A r \in Slot \ used : setBits'[r] = {} /\ r \notin sampling'
    BY <1>4, <1>6, <1>8 DEF SlotInv
  <2>3. QED
    BY <1>1, <2>1, <2>2 DEF SlotInv, Registered
<1>11. QED
  BY <1>1, <1>3, <1>4, <1>5, <1>6, <1>7, <1>8, <1>9, <1>10 DEF Kept, s

\* A command that is refused or repeated changes no slot.
LEMMA AnswerLeftKeeps ==
    ASSUME TypeInv, SlotInv, AnswerLeft
    PROVE  Kept
<1>1. TypeInv'
  BY DEF TypeInv, TypeOK, AnswerLeft, tableVars, Registered
<1>2. \A h \in Handle, o \in Option : flight'[<<h, o>>] > 0 => h \in Registered
  <2> SUFFICES ASSUME NEW h \in Handle, NEW o \in Option, flight'[<<h, o>>] > 0
               PROVE  h \in Registered
    OBVIOUS
  <2>1. <<h, o>> \in Target
    BY OptionsInOrder DEF Target
  <2>2. flight'[<<h, o>>] <= flight[<<h, o>>] /\ flight'[<<h, o>>] \in Nat /\ flight[<<h, o>>] \in Nat
    BY <2>1 DEF AnswerLeft, TypeInv, TypeOK
  <2>3. QED
    BY <2>2 DEF SlotInv
<1>3. SlotInv'
  BY <1>2 DEF SlotInv, AnswerLeft, tableVars, Registered
<1>4. QED
  BY <1>1, <1>3 DEF Kept

\* The first point cloud of a lidar marks its slot as sampling.
LEMMA StoragePointDataKeeps ==
    ASSUME TypeInv, SlotInv, NEW h \in Handle, StoragePointData(h)
    PROVE  /\ Kept /\ todo = <<>> /\ h \in Registered
           /\ UNCHANGED <<setup, todo, index, used, device, setBits, topic, changing, flight,
                          accepted, refused>>
           /\ sampling' = sampling \cup {index[h]} /\ streamed' = streamed \cup {index[h]}
<1>1. /\ todo = <<>> /\ h \in Registered
      /\ UNCHANGED <<setup, todo, index, used, device, setBits, topic, changing, flight,
                     changes, accepted, refused, normal>>
      /\ sampling' = sampling \cup {index[h]} /\ streamed' = streamed \cup {index[h]}
  BY DEF StoragePointData, tableVars
<1>2. index[h] \in Slot /\ index[h] \in used
  BY <1>1 DEF TypeInv, TypeOK, SlotInv
<1>3. TypeInv'
  BY <1>1, <1>2 DEF TypeInv, TypeOK, Registered
<1>4. SlotInv'
  BY <1>1, <1>2 DEF SlotInv, Registered
<1>5. QED
  BY <1>1, <1>3, <1>4 DEF Kept

\* The first publication of a slot fixes its topic.
LEMMA GetCurrentPublisherKeeps ==
    ASSUME TypeInv, SlotInv, NEW s \in Slot, GetCurrentPublisher(s)
    PROVE  /\ Kept /\ s \in sampling
           /\ UNCHANGED <<setup, todo, index, used, device, setBits, sampling, changing, flight,
                          accepted, refused, streamed>>
           /\ topic' = [topic EXCEPT ![s] = device[s].handle]
<1>1. /\ s \in sampling
      /\ UNCHANGED <<setup, todo, index, used, device, setBits, sampling, changing, flight,
                     changes, accepted, refused, normal, streamed>>
      /\ topic' = [topic EXCEPT ![s] = device[s].handle]
  BY DEF GetCurrentPublisher, tableVars, historyVars
<1>2. device[s].handle \in Handle \cup {NoHandle}
  BY DEF TypeInv, TypeOK, Device
<1>3. TypeInv'
  BY <1>1, <1>2 DEF TypeInv, TypeOK, Registered
<1>4. SlotInv'
  BY <1>1 DEF SlotInv, Registered
<1>5. QED
  BY <1>1, <1>3, <1>4 DEF Kept

\* Before the first configuration is registered no slot is taken.
LEMMA InitKept ==
    ASSUME Init
    PROVE  TypeInv /\ SlotInv
<1>1. setup \in Settings /\ setup \in Setting /\ todo = setup.configs
  BY RegistryAssumption DEF Init
<1>2. todo \in Seq(Config)
  BY <1>1 DEF Setting, Config
<1>3. index = <<>> /\ DOMAIN index = {} /\ index \in [{} -> Slot]
  <2>1. index = <<>>
    BY DEF Init
  <2>2. index \in Seq(Slot) /\ Len(index) = 0
    BY <2>1
  <2>3. DOMAIN index = {}
    BY <2>2, LenProperties
  <2>4. QED
    BY <2>1, <2>3
<1>4. NoChange \in {NoChange} /\ ZeroDevice \in Device
  BY DEF ZeroDevice, Device
<1>5. TypeOK
  <2>1. device \in [Slot -> Device] /\ setBits \in [Slot -> SUBSET Option]
        /\ topic \in [Slot -> Handle \cup {NoHandle, "none"}] /\ flight \in [Target -> Nat]
    BY <1>4 DEF Init
  <2>2. /\ changes \in [Handle -> Nat] /\ accepted \in [Handle -> SUBSET Option]
        /\ refused \in [Handle -> SUBSET Option]
    BY DEF Init
  <2>3. QED
    BY <1>1, <1>3, <2>1, <2>2 DEF Init, TypeOK, Registered
<1>6. \A h \in Handle, o \in Option : <<h, o>> \in Target
  BY OptionsInOrder DEF Target
<1>7. SlotInv
  BY <1>3, <1>6 DEF Init, SlotInv, Registered
<1>8. QED
  BY <1>2, <1>5, <1>7 DEF TypeInv

\* Every step keeps the types and the slots.
LEMMA StepKept ==
    ASSUME TypeInv, SlotInv, [Next]_vars
    PROVE  Kept
  BY Steps, RegisterKeeps, SendOptionKeeps, FinishAnnouncementKeeps, AnswerLeftKeeps,
     AnnounceNewKeeps, AnnounceKnownKeeps, StoragePointDataKeeps, OptionSucceedsKeeps,
     GetCurrentPublisherKeeps

\* Types and slots are right in every state.
LEMMA SlotsKept == Spec => [](TypeInv /\ SlotInv)
<1>1. Init => TypeInv /\ SlotInv
  BY InitKept
<1>2. TypeInv /\ SlotInv /\ [Next]_vars => (TypeInv /\ SlotInv)'
  BY StepKept DEF Kept
<1>3. QED
  BY <1>1, <1>2, PTL DEF Spec

\* Every variable keeps its type.
THEOREM RegistryTypeCorrect == Spec => []TypeOK
<1>1. TypeInv => TypeOK
  BY DEF TypeInv
<1>2. QED
  BY <1>1, SlotsKept, PTL

\* CacheIndex never gives two lidars the same slot, and a slot that it has not given
\* away neither waits for an option nor counts as sampling.
THEOREM OneSlotPerLidar == Spec => []SlotInv
<1>1. TypeInv /\ SlotInv => SlotInv
  OBVIOUS
<1>2. QED
  BY <1>1, SlotsKept, PTL

-------------------------------------------------------------------------------
\* An option that is pending has a command on its way or was refused.

\* Every step keeps a command on its way for a pending option, or its refusal.
LEMMA PendingKept ==
    ASSUME TypeInv, SlotInv, PendingIsInFlight, [Next]_vars
    PROVE  PendingIsInFlight'
<1>1. /\ Registered \subseteq Handle /\ \A h \in Registered : index[h] \in Slot
      /\ setBits \in [Slot -> SUBSET Option]
  BY DEF TypeInv, TypeOK
<1>2. \A g, h \in Registered : index[g] = index[h] => g = h
  BY DEF SlotInv
<1>3. ASSUME NEW h \in Handle, NEW s \in Slot, GetFreeIndex(h, s),
             UNCHANGED <<setBits, refused>>,
             \A g \in Handle, o \in Option : flight'[<<g, o>>] = flight[<<g, o>>]
      PROVE  PendingIsInFlight'
  <2>1. /\ Registered' = Registered \cup {h} /\ index'[h] = s
        /\ \A k \in Registered : index'[k] = index[k]
        /\ h \notin Registered => s \notin used
    BY <1>3, Registering
  <2>2. h \notin Registered => setBits[s] = {}
    BY <2>1 DEF SlotInv
  <2> SUFFICES ASSUME NEW g \in Registered', NEW p \in setBits'[index'[g]]
               PROVE  flight'[<<g, p>>] > 0 \/ p \in refused'[g]
    BY DEF PendingIsInFlight
  <2>3. g \in Registered /\ index'[g] = index[g] /\ p \in setBits[index[g]]
    BY <1>3, <2>1, <2>2
  <2>4. g \in Handle /\ p \in Option
    BY <1>1, <2>3
  <2>5. QED
    BY <1>3, <2>3, <2>4 DEF PendingIsInFlight
<1>4. ASSUME UNCHANGED <<index, setBits, refused>>,
             \A g \in Handle, o \in Option : flight'[<<g, o>>] = flight[<<g, o>>]
      PROVE  PendingIsInFlight'
  BY <1>1, <1>4 DEF PendingIsInFlight, Registered
<1>5. CASE Register
  <2>1. Head(todo).handle \in Handle
    BY <1>5, RegisterKeeps DEF Config
  <2>2. UNCHANGED <<setBits, refused, flight>>
    BY <1>5 DEF Register, historyVars
  <2>3. QED
    BY <1>3, <1>4, <1>5, <2>1, <2>2, RegisterKeeps
<1>6. CASE SendOption
  <2> DEFINE h == changing.handle
             s == index[h]
             o == OptionOrder[changing.at]
  <2>1. /\ o \in Option /\ UNCHANGED <<index, refused>>
        /\ \/ /\ setBits' = [setBits EXCEPT ![s] = @ \cup {o}]
              /\ flight'[<<h, o>>] > 0
           \/ UNCHANGED <<setBits, flight>>
        /\ \A g \in Handle, p \in Option :
              g # h \/ p # o => flight'[<<g, p>>] = flight[<<g, p>>]
    BY <1>6, SendOptionKeeps
  <2>2. h \in Registered /\ s \in Slot
    BY <1>6, Announced DEF SendOption
  <2> HIDE DEF o
  <2>3. CASE UNCHANGED <<setBits, flight>>
    BY <1>4, <2>1, <2>3
  <2>4. CASE /\ setBits' = [setBits EXCEPT ![s] = @ \cup {o}]
             /\ flight'[<<h, o>>] > 0
    <3> SUFFICES ASSUME NEW g \in Registered, NEW p \in setBits'[index[g]]
                 PROVE  flight'[<<g, p>>] > 0 \/ p \in refused[g]
      BY <2>1 DEF PendingIsInFlight, Registered
    <3>1. CASE g = h /\ p = o
      BY <2>4, <3>1
    <3>2. CASE ~ (g = h /\ p = o)
      <4>1. p \in setBits[index[g]] /\ p \in Option /\ g \in Handle
        BY <1>1, <1>2, <2>1, <2>2, <2>4, <3>2
      <4>2. flight'[<<g, p>>] = flight[<<g, p>>]
        BY <2>1, <3>2, <4>1
      <4>3. QED
        BY <4>1, <4>2 DEF PendingIsInFlight
    <3>3. QED
      BY <3>1, <3>2
  <2>5. QED
    BY <2>1, <2>3, <2>4
<1>7. CASE FinishAnnouncement
  BY <1>4, <1>7, FinishAnnouncementKeeps
<1>8. CASE AnswerLeft
  <2> SUFFICES ASSUME NEW g \in Registered, NEW p \in setBits[index[g]]
               PROVE  flight'[<<g, p>>] > 0 \/ p \in refused'[g]
    BY <1>8 DEF AnswerLeft, PendingIsInFlight, tableVars, Registered
  <2>1. g \in Handle /\ p \in Option
    BY <1>1
  <2>2. refused[g] \subseteq refused'[g] /\ (flight'[<<g, p>>] = flight[<<g, p>>] \/ p \in refused'[g])
    BY <1>8, <2>1 DEF AnswerLeft
  <2>3. QED
    BY <2>2 DEF PendingIsInFlight
<1>9. ASSUME NEW h \in Handle, AnnounceNew(h) PROVE PendingIsInFlight'
  BY <1>3, <1>4, <1>9, AnnounceNewKeeps
<1>10. ASSUME NEW h \in Handle, AnnounceKnown(h) \/ StoragePointData(h) PROVE PendingIsInFlight'
  BY <1>4, <1>10, AnnounceKnownKeeps, StoragePointDataKeeps
<1>11. ASSUME NEW h \in Handle, NEW o \in Option, OptionSucceeds(h, o) PROVE PendingIsInFlight'
  <2> DEFINE s == index[h]
  <2>1. h \in Registered /\ s \in Slot /\ UNCHANGED <<index, refused>>
    BY <1>11, OptionSucceedsKeeps
  <2>2. /\ setBits'[s] = setBits[s] \ {o}
        /\ \A r \in Slot : r # s => setBits'[r] = setBits[r]
    BY <1>11, OptionSucceedsKeeps
  <2>3. \A t \in Target : t # <<h, o>> => flight'[t] = flight[t]
    BY <1>11, OptionSucceedsKeeps
  <2> SUFFICES ASSUME NEW g \in Registered, NEW p \in setBits'[index[g]]
               PROVE  flight'[<<g, p>>] > 0 \/ p \in refused[g]
    BY <2>1 DEF PendingIsInFlight, Registered
  <2>4. p \in setBits[index[g]] /\ (g # h \/ p # o) /\ p \in Option /\ g \in Handle
    BY <1>1, <2>1, <2>2
  <2>5. <<g, p>> \in Target /\ <<g, p>> # <<h, o>>
    BY <2>4, OptionsInOrder DEF Target
  <2>6. QED
    BY <2>1, <2>3, <2>4, <2>5 DEF PendingIsInFlight
<1>12. ASSUME NEW s \in Slot, GetCurrentPublisher(s) PROVE PendingIsInFlight'
  BY <1>4, <1>12, GetCurrentPublisherKeeps
<1>13. QED
  BY <1>5, <1>6, <1>7, <1>8, <1>9, <1>10, <1>11, <1>12, Steps

\* No bit of set_bits stays behind: whatever order answers, repetitions and announcements
\* come in, an option that has not been accepted is still on its way or was refused.
THEOREM PendingNeverLost == Spec => []PendingIsInFlight
<1>1. Init => PendingIsInFlight
  BY InitKept DEF Init, PendingIsInFlight, TypeInv, TypeOK
<1>2. TypeInv /\ SlotInv /\ PendingIsInFlight /\ [Next]_vars => PendingIsInFlight'
  BY PendingKept
<1>3. QED
  BY <1>1, <1>2, SlotsKept, PTL DEF Spec

-------------------------------------------------------------------------------
\* Nothing is announced, sent or sampled while configurations are registered.

\* Every step keeps the lidars quiet while configurations are registered.
LEMMA StartKept ==
    ASSUME TypeInv, SlotInv, StartInv, [Next]_vars
    PROVE  StartInv'
<1>1. flight \in [Target -> Nat] /\ NoHandle \notin Handle /\ Registered \subseteq Handle
  BY RegistryAssumption DEF TypeInv, TypeOK
<1>2. CASE Register
  <2> DEFINE config == Head(todo)
  <2>1. /\ todo # <<>> /\ config.handle \in Handle /\ SlotInv' /\ TypeInv'
        /\ \/ UNCHANGED <<index, device>>
           \/ \E s \in Slot : GetFreeIndex(config.handle, s)
                              /\ device' = [device EXCEPT ![s] = config]
    BY <1>2, RegisterKeeps DEF Config, Kept
  <2>2. UNCHANGED <<sampling, changing, flight>>
    BY <1>2 DEF Register
  <2>3. ASSUME NEW s \in Slot, GetFreeIndex(config.handle, s), device' = [device EXCEPT ![s] = config],
               NEW h \in Registered'
        PROVE  device'[index'[h]].handle = h
    <3>1. /\ Registered' = Registered \cup {config.handle} /\ index'[config.handle] = s
          /\ \A k \in Registered : index'[k] = index[k]
          /\ \A g, k \in Registered' : index'[g] = index'[k] => g = k
      BY <2>1, <2>3, Registering
    <3>2. device \in [Slot -> Device]
      BY DEF TypeInv, TypeOK
    <3>3. CASE h = config.handle
      BY <2>3, <3>1, <3>2, <3>3
    <3>4. CASE h # config.handle
      <4>1. h \in Registered /\ index'[h] # s /\ index'[h] = index[h] /\ index[h] \in Slot
        BY <2>3, <3>1, <3>4 DEF TypeInv, TypeOK
      <4>2. device'[index'[h]] = device[index[h]]
        BY <2>3, <3>2, <4>1
      <4>3. QED
        BY <2>1, <4>1, <4>2 DEF StartInv
    <3>5. QED
      BY <3>3, <3>4
  <2>4. UNCHANGED <<index, device>> => \A h \in Registered' : device'[index'[h]].handle = h
    BY <2>1 DEF StartInv, Registered
  <2>5. QED
    BY <2>1, <2>2, <2>3, <2>4 DEF StartInv
<1>3. CASE UNCHANGED todo /\ todo = <<>>
  BY <1>3 DEF StartInv
<1>4. ASSUME todo # <<>>
      PROVE  changing = NoChange /\ sampling = {} /\ \A t \in Target : flight[t] = 0
  BY <1>4 DEF StartInv
<1>5. CASE SendOption
  BY <1>3, <1>4, <1>5 DEF SendOption, Locked
<1>6. CASE FinishAnnouncement
  BY <1>3, <1>4, <1>6 DEF FinishAnnouncement, Locked
<1>7. CASE AnswerLeft
  <2>1. UNCHANGED <<todo, sampling, changing, index, device>>
    BY <1>7 DEF AnswerLeft, tableVars
  <2>2. todo # <<>> => \A t \in Target : flight'[t] = 0
    BY <1>1, <1>4, <1>7 DEF AnswerLeft
  <2>3. QED
    BY <2>1, <2>2 DEF StartInv, Registered
<1>8. ASSUME NEW h \in Handle, AnnounceNew(h) \/ AnnounceKnown(h) \/ StoragePointData(h)
      PROVE  StartInv'
  BY <1>3, <1>8 DEF AnnounceNew, AnnounceKnown, StoragePointData, Announce
<1>9. ASSUME NEW h \in Handle, NEW o \in Option, OptionSucceeds(h, o) PROVE StartInv'
  <2>1. flight[<<h, o>>] > 0 /\ UNCHANGED todo /\ <<h, o>> \in Target
    BY <1>9, OptionsInOrder DEF OptionSucceeds, Answered, Target
  <2>2. todo = <<>>
    BY <1>4, <2>1
  <2>3. QED
    BY <1>3, <2>1, <2>2
<1>10. ASSUME NEW s \in Slot, GetCurrentPublisher(s) PROVE StartInv'
  BY <1>3, <1>4, <1>10 DEF GetCurrentPublisher
<1>11. QED
  BY <1>2, <1>5, <1>6, <1>7, <1>8, <1>9, <1>10, Steps

\* Lidars are quiet while configurations are registered, in every state.
LEMMA StartsQuiet == Spec => [](TypeInv /\ SlotInv /\ StartInv)
<1>1. Init => StartInv
  BY InitKept DEF Init, StartInv, TypeInv, TypeOK, SlotInv
<1>2. TypeInv /\ SlotInv /\ StartInv /\ [Next]_vars => StartInv'
  BY StartKept
<1>3. QED
  BY <1>1, <1>2, SlotsKept, PTL DEF Spec

-------------------------------------------------------------------------------
\* A lidar that is configured has accepted its options before it counts as sampling.

\* Every step keeps the order in which options are sent and accepted.
LEMMA SendingKept ==
    ASSUME TypeInv, SlotInv, StartInv, SendingInv, [Next]_vars
    PROVE  SendingInv'
<1>1. /\ NoHandle \notin Handle /\ Registered \subseteq Handle
      /\ \A h \in Registered : index[h] \in Slot
      /\ flight \in [Target -> Nat] /\ setBits \in [Slot -> SUBSET Option]
      /\ \A h \in Handle, o \in Option : <<h, o>> \in Target
  BY RegistryAssumption, OptionsInOrder DEF TypeInv, TypeOK, Target
<1>2. \A g, h \in Registered : index[g] = index[h] => g = h
  BY DEF SlotInv
<1>3. changing = NoChange => \A h \in Handle, o \in Option : ~ ToBeSent(h, o)
  BY <1>1 DEF NoChange, ToBeSent
<1>4. ASSUME NEW h \in Registered, NEW o \in Option, NEW p \in Option,
             changing = NoChange, flight[<<h, p>>] > 0
      PROVE  Covered(h, o)
  BY <1>1, <1>3, <1>4 DEF SendingInv
<1>5. ASSUME UNCHANGED <<index, device, setBits, accepted>>, NEW h \in Registered, NEW o \in Option,
              Covered(h, o)
       PROVE  Covered(h, o)'
  BY <1>5 DEF Covered, Pending
<1>6. CASE Register
  <2>1. /\ changing' = NoChange /\ SlotInv' /\ TypeInv' /\ UNCHANGED flight
        /\ \A t \in Target : flight[t] = 0
    BY <1>6, RegisterKeeps DEF Register, StartInv, Kept
  <2>2. \A h \in Registered' : h \in Handle
    BY <2>1 DEF TypeInv, TypeOK
  <2>3. \A h \in Registered' : changing'.handle # h /\ \A o \in Option : ~ (flight'[<<h, o>>] > 0)
    BY <1>1, <2>1, <2>2 DEF NoChange
  <2>4. QED
    BY <2>3 DEF SendingInv
<1>7. ASSUME NEW h \in Handle, AnnounceNew(h) PROVE SendingInv'
  <2>1. /\ changing = NoChange /\ h \notin Registered
        /\ UNCHANGED <<device, setBits, changing, accepted>>
        /\ \A g \in Handle, o \in Option : flight'[<<g, o>>] = flight[<<g, o>>]
        /\ \A g \in Registered' : g \in Handle
        /\ \A g \in Registered : index'[g] = index[g]
    <3>1. /\ changing = NoChange /\ h \notin Registered /\ Kept
          /\ UNCHANGED <<device, setBits, changing, accepted>>
          /\ UNCHANGED index \/ \E s \in Slot : GetFreeIndex(h, s)
      BY <1>7, AnnounceNewKeeps
    <3>2. \A g \in Handle, o \in Option : flight'[<<g, o>>] = flight[<<g, o>>]
      BY <1>7, AnnounceNewKeeps
    <3>3. \A g \in Registered : index'[g] = index[g]
      BY <3>1, Registering
    <3>4. \A g \in Registered' : g \in Handle
      BY <3>1 DEF Kept, TypeInv, TypeOK
    <3>5. QED
      BY <3>1, <3>2, <3>3, <3>4
  <2> SUFFICES ASSUME NEW g \in Registered', NEW o \in Option, NEW p \in Option,
                      flight'[<<g, p>>] > 0
               PROVE  Covered(g, o)'
    BY <1>1, <2>1 DEF SendingInv, NoChange
  <2>2. g \in Registered /\ flight[<<g, p>>] > 0
    BY <2>1 DEF SlotInv
  <2>3. Covered(g, o)
    BY <1>4, <2>1, <2>2
  <2>4. QED
    BY <2>1, <2>2, <2>3 DEF Covered, Pending
<1>8. ASSUME NEW h \in Handle, AnnounceKnown(h) PROVE SendingInv'
  <2>1. /\ h \in Registered /\ changing' = [handle |-> h, at |-> 1] /\ changing = NoChange
        /\ UNCHANGED <<index, device, setBits, flight, accepted>>
    BY <1>8, AnnounceKnownKeeps
  <2>2. \A o \in Option : ToBeSent(h, o)'
    BY <2>1, OptionsInOrder DEF ToBeSent
  <2>3. \A g \in Registered, o \in Option, p \in Option :
           flight[<<g, p>>] > 0 => Covered(g, o)
    BY <1>4, <2>1
  <2>4. \A g \in Registered, o \in Option, p \in Option :
           flight[<<g, p>>] > 0 => Covered(g, o)'
    BY <1>5, <2>1, <2>3
  <2>5. \A g \in Registered : g # h => changing'.handle # g
    BY <2>1
  <2>6. Registered' = Registered /\ UNCHANGED flight
    BY <2>1 DEF Registered
  <2>7. QED
    BY <2>2, <2>4, <2>5, <2>6 DEF SendingInv
<1>9. CASE SendOption
  <2>1. PICK h \in Registered : h = changing.handle
    BY <1>9, Announced DEF SendOption
  <2> DEFINE s == index[h]
             o == OptionOrder[changing.at]
  <2>2. /\ changing.at \in 1..4 /\ o \in Option
        /\ changing'.handle = h /\ changing'.at = changing.at + 1
        /\ UNCHANGED <<index, device, accepted>>
        /\ \/ /\ o \in device[s].options
              /\ setBits' = [setBits EXCEPT ![s] = @ \cup {o}]
           \/ o \notin device[s].options /\ UNCHANGED setBits
        /\ \A g \in Handle, p \in Option :
              g # h \/ p # o => flight'[<<g, p>>] = flight[<<g, p>>]
    BY <1>9, <2>1, SendOptionKeeps
  <2>3. h \in Registered /\ h \in Handle /\ s \in Slot
    BY <1>1
  <2>4. /\ o \in device[s].options => o \in setBits'[s]
        /\ setBits[s] \subseteq setBits'[s]
        /\ \A r \in Slot : r # s => setBits'[r] = setBits[r]
    BY <1>1, <2>2, <2>3
  <2>5. ASSUME NEW p \in Option PROVE ToBeSent(h, p)' \/ Covered(h, p)'
    <3>1. CASE Covered(h, p)
      BY <2>2, <2>4, <3>1 DEF Covered, Pending
    <3>2. CASE ToBeSent(h, p)
      <4>1. PICK i \in changing.at..4 : p = OptionOrder[i]
        BY <3>2 DEF ToBeSent
      <4>2. CASE i = changing.at
        <5>1. p = o
          BY <4>1, <4>2
        <5>2. QED
          BY <2>2, <2>4, <5>1 DEF Covered, Pending
      <4>3. CASE i # changing.at
        BY <2>2, <4>1, <4>3 DEF ToBeSent
      <4>4. QED
        BY <4>2, <4>3
    <3>3. QED
      BY <2>3, <2>1, <3>1, <3>2 DEF SendingInv
  <2>6. ASSUME NEW g \in Registered, g # h, NEW p \in Option, NEW q \in Option, flight'[<<g, q>>] > 0
        PROVE  Covered(g, p)'
    <3>1. flight[<<g, q>>] > 0 /\ index[g] # s
      BY <1>1, <1>2, <2>2, <2>3, <2>6
    <3>2. Covered(g, p)
      BY <2>6, <2>1, <3>1 DEF SendingInv, ToBeSent
    <3>3. QED
      BY <1>1, <2>2, <2>4, <3>1, <3>2 DEF Covered, Pending
  <2>7. Registered' = Registered /\ \A g \in Registered : g # h => changing'.handle # g
    BY <2>2 DEF Registered
  <2>8. QED
    BY <2>5, <2>6, <2>7 DEF SendingInv
<1>10. CASE FinishAnnouncement
  <2>1. /\ changing.at = 5 /\ changing' = NoChange
        /\ UNCHANGED <<index, device, setBits, accepted>>
        /\ \A g \in Handle, o \in Option : flight'[<<g, o>>] = flight[<<g, o>>]
    BY <1>10, FinishAnnouncementKeeps
  <2>2. \A g \in Registered, o \in Option : ~ ToBeSent(g, o)
    BY <2>1 DEF ToBeSent
  <2>3. \A g \in Registered, o \in Option, p \in Option :
           flight[<<g, p>>] > 0 => Covered(g, o)
    BY <2>2 DEF SendingInv
  <2>4. \A g \in Registered, o \in Option, p \in Option :
           flight'[<<g, p>>] > 0 => Covered(g, o)'
    BY <1>1, <1>5, <2>1, <2>3
  <2>5. Registered' = Registered /\ \A g \in Registered : changing'.handle # g
    BY <1>1, <2>1 DEF Registered, NoChange
  <2>6. QED
    BY <2>4, <2>5 DEF SendingInv
<1>11. ASSUME UNCHANGED <<index, device, setBits, changing, accepted>>,
              \A t \in Target : flight'[t] <= flight[t], flight' \in [Target -> Nat]
       PROVE  SendingInv'
  <2>1. \A g \in Registered, p \in Option : flight'[<<g, p>>] > 0 => flight[<<g, p>>] > 0
    BY <1>1, <1>11
  <2>2. QED
    BY <1>11, <2>1 DEF SendingInv, Covered, ToBeSent, Pending, Registered
<1>12. CASE AnswerLeft
  BY <1>11, <1>12 DEF AnswerLeft, tableVars
<1>13. ASSUME NEW h \in Handle, StoragePointData(h) PROVE SendingInv'
  BY <1>1, <1>11, <1>13, StoragePointDataKeeps
<1>14. ASSUME NEW s \in Slot, GetCurrentPublisher(s) PROVE SendingInv'
  BY <1>1, <1>11, <1>14, GetCurrentPublisherKeeps
<1>15. ASSUME NEW h \in Handle, NEW o \in Option, OptionSucceeds(h, o) PROVE SendingInv'
  <2> DEFINE s == index[h]
  <2>1. changing = NoChange /\ h \in Registered /\ UNCHANGED <<index, device, changing>>
    BY <1>15, OptionSucceedsKeeps DEF Locked
  <2>2. flight[<<h, o>>] > 0 /\ \A t \in Target : t # <<h, o>> => flight'[t] = flight[t]
    BY <1>15, OptionSucceedsKeeps
  <2>3. setBits'[s] = setBits[s] \ {o} /\ \A r \in Slot : r # s => setBits'[r] = setBits[r]
    BY <1>15, OptionSucceedsKeeps
  <2>4. accepted'[h] = accepted[h] \cup {o} /\ \A g \in Handle : g # h => accepted'[g] = accepted[g]
    BY <1>15, OptionSucceedsKeeps
  <2>5. \A p \in Option : Covered(h, p)'
    <3>1. \A p \in Option : Covered(h, p)
      BY <1>4, <2>1, <2>2
    <3>2. QED
      BY <2>1, <2>3, <2>4, <3>1 DEF Covered, Pending
  <2>6. ASSUME NEW g \in Registered, g # h, NEW p \in Option, NEW q \in Option, flight'[<<g, q>>] > 0
        PROVE  Covered(g, p)'
    <3>1. <<g, q>> \in Target /\ <<g, q>> # <<h, o>> /\ index[g] # s /\ index[g] \in Slot
      BY <1>1, <1>2, <2>1, <2>6
    <3>2. Covered(g, p)
      BY <1>4, <2>1, <2>2, <2>6, <3>1
    <3>3. QED
      BY <1>1, <2>1, <2>3, <2>4, <2>6, <3>1, <3>2 DEF Covered, Pending
  <2>7. \A g \in Registered : changing'.handle # g
    BY <1>1, <2>1 DEF NoChange
  <2>8. QED
    BY <2>1, <2>5, <2>6, <2>7 DEF SendingInv, Registered
<1>16. QED
  BY <1>6, <1>7, <1>8, <1>9, <1>10, <1>12, <1>13, <1>14, <1>15, Steps

\* Every step keeps sampling behind the acceptance of all options.
LEMMA ConfiguredKept ==
    ASSUME TypeInv, SlotInv, StartInv, SendingInv, ConfiguredBeforeSampling, [Next]_vars
    PROVE  ConfiguredBeforeSampling'
<1>1. /\ NoHandle \notin Handle /\ Registered \subseteq Handle
      /\ \A h \in Registered : index[h] \in Slot
      /\ flight \in [Target -> Nat] /\ device \in [Slot -> Device]
      /\ setBits \in [Slot -> SUBSET Option]
  BY RegistryAssumption DEF TypeInv, TypeOK
<1>2. \A g, h \in Registered : index[g] = index[h] => g = h
  BY DEF SlotInv
<1>3. ASSUME UNCHANGED <<index, device, sampling, streamed, accepted>>
      PROVE  ConfiguredBeforeSampling'
  BY <1>3 DEF ConfiguredBeforeSampling, Registered
<1>4. CASE Register
  <2>1. UNCHANGED sampling /\ sampling = {}
    BY <1>4 DEF Register, StartInv
  <2>2. QED
    BY <2>1 DEF ConfiguredBeforeSampling
<1>5. CASE SendOption
  BY <1>3, <1>5, SendOptionKeeps
<1>6. CASE FinishAnnouncement
  BY <1>3, <1>6, FinishAnnouncementKeeps
<1>7. CASE AnswerLeft
  BY <1>3, <1>7 DEF AnswerLeft, tableVars
<1>8. ASSUME NEW h \in Handle, AnnounceNew(h) PROVE ConfiguredBeforeSampling'
  <2>1. UNCHANGED <<device, sampling, streamed, accepted>>
        /\ (UNCHANGED index \/ \E s \in Slot : GetFreeIndex(h, s))
    BY <1>8, AnnounceNewKeeps
  <2>2. CASE UNCHANGED index
    BY <1>3, <2>1, <2>2
  <2>3. ASSUME NEW s \in Slot, GetFreeIndex(h, s) PROVE ConfiguredBeforeSampling'
    <3>1. /\ Registered' = Registered \cup {h} /\ index'[h] = s
          /\ \A k \in Registered : index'[k] = index[k]
          /\ h \notin Registered => s \notin used
      BY <2>3, Registering
    <3>2. h \notin Registered => s \notin sampling
      BY <3>1 DEF SlotInv
    <3> SUFFICES ASSUME NEW g \in Registered', index'[g] \in sampling \ streamed
                 PROVE  device[index'[g]].options \subseteq accepted[g]
      BY <2>1 DEF ConfiguredBeforeSampling
    <3>3. g \in Registered /\ index'[g] = index[g]
      BY <3>1, <3>2
    <3>4. QED
      BY <3>3 DEF ConfiguredBeforeSampling
  <2>4. QED
    BY <2>1, <2>2, <2>3
<1>9. ASSUME NEW h \in Handle, AnnounceKnown(h) PROVE ConfiguredBeforeSampling'
  BY <1>3, <1>9, AnnounceKnownKeeps
<1>10. ASSUME NEW h \in Handle, StoragePointData(h) PROVE ConfiguredBeforeSampling'
  <2>1. /\ UNCHANGED <<index, device, accepted>>
        /\ sampling' = sampling \cup {index[h]} /\ streamed' = streamed \cup {index[h]}
    BY <1>10, StoragePointDataKeeps
  <2>2. QED
    BY <2>1 DEF ConfiguredBeforeSampling, Registered
<1>11. ASSUME NEW s \in Slot, GetCurrentPublisher(s) PROVE ConfiguredBeforeSampling'
  BY <1>3, <1>11, GetCurrentPublisherKeeps
<1>12. ASSUME NEW h \in Handle, NEW o \in Option, OptionSucceeds(h, o)
       PROVE  ConfiguredBeforeSampling'
  <2> DEFINE s == index[h]
  <2>1. changing = NoChange /\ h \in Registered /\ s \in Slot /\ flight[<<h, o>>] > 0
        /\ UNCHANGED <<index, device, streamed>>
    BY <1>12, OptionSucceedsKeeps DEF Locked
  <2>2. setBits'[s] = setBits[s] \ {o}
        /\ sampling' = IF setBits'[s] = {} THEN sampling \cup {s} ELSE sampling
    BY <1>12, OptionSucceedsKeeps
  <2>3. accepted'[h] = accepted[h] \cup {o} /\ \A g \in Handle : g # h => accepted'[g] = accepted[g]
    BY <1>12, OptionSucceedsKeeps
  <2>4. \A p \in Option : Covered(h, p)
    <3>1. \A p \in Option : ~ ToBeSent(h, p)
      BY <1>1, <2>1 DEF ToBeSent, NoChange
    <3>2. QED
      BY <2>1, <3>1 DEF SendingInv
  <2>5. setBits'[s] = {} => device[s].options \subseteq accepted'[h]
    <3>1. device[s].options \subseteq Option
      BY <1>1, <2>1 DEF Device
    <3>2. QED
      BY <2>2, <2>3, <2>4, <3>1 DEF Covered, Pending
  <2> SUFFICES ASSUME NEW g \in Registered, index[g] \in sampling' \ streamed
               PROVE  device[index[g]].options \subseteq accepted'[g]
    BY <2>1 DEF ConfiguredBeforeSampling, Registered
  <2>6. CASE index[g] \in sampling
    <3>1. device[index[g]].options \subseteq accepted[g]
      BY <2>6 DEF ConfiguredBeforeSampling
    <3>2. accepted[g] \subseteq accepted'[g]
      BY <1>1, <2>3
    <3>3. QED
      BY <3>1, <3>2
  <2>7. CASE index[g] \notin sampling
    <3>1. setBits'[s] = {} /\ index[g] = s
      BY <2>2, <2>7
    <3>2. g = h
      BY <1>2, <2>1, <3>1
    <3>3. QED
      BY <2>5, <3>1, <3>2
  <2>8. QED
    BY <2>6, <2>7
<1>13. QED
  BY <1>4, <1>5, <1>6, <1>7, <1>8, <1>9, <1>10, <1>11, <1>12, Steps

\* A lidar counts as sampling before its first point cloud only when it has accepted every
\* option of its slot: config_mutex_ keeps the first answers from finding set_bits empty
\* while the announcement is still sending.
THEOREM SamplingAfterConfiguration == Spec => []ConfiguredBeforeSampling
<1>1. Init => SendingInv /\ ConfiguredBeforeSampling
  BY InitKept DEF Init, SendingInv, ConfiguredBeforeSampling, TypeInv, TypeOK, SlotInv
<1>2. /\ TypeInv /\ SlotInv /\ StartInv /\ SendingInv /\ ConfiguredBeforeSampling /\ [Next]_vars
      => SendingInv' /\ ConfiguredBeforeSampling'
  BY SendingKept, ConfiguredKept
<1>3. QED
  BY <1>1, <1>2, StartsQuiet, PTL DEF Spec

-------------------------------------------------------------------------------
\* The names under which lidars publish.

\* Every step keeps each topic with the lidar of its slot.
LEMMA NamesKept ==
    ASSUME TypeInv, SlotInv, StartInv, NameInv, [Next]_vars
    PROVE  NameInv'
<1>1. /\ NoHandle \notin Handle /\ Registered \subseteq Handle
      /\ \A h \in Registered : index[h] \in Slot /\ index[h] \in used
      /\ device \in [Slot -> Device] /\ todo \in Seq(Config)
      /\ topic \in [Slot -> Handle \cup {NoHandle, "none"}]
  BY RegistryAssumption DEF TypeInv, TypeOK, SlotInv
<1>2. ASSUME UNCHANGED <<setup, todo, index, used, device, topic>> PROVE NameInv'
  BY <1>2 DEF NameInv, Registered, Listed, Places
<1>3. CASE Register
  <2> DEFINE config == Head(todo)
  <2>1. /\ todo # <<>> /\ config \in Config /\ todo' = Tail(todo) /\ UNCHANGED <<setup, topic>>
        /\ \/ NoFreeIndex(config.handle) /\ UNCHANGED <<index, used, device>>
           \/ \E s \in Slot : GetFreeIndex(config.handle, s)
                              /\ device' = [device EXCEPT ![s] = config]
    <3>1. todo' = Tail(todo) /\ UNCHANGED <<setup, topic>>
      BY <1>3 DEF Register
    <3>2. QED
      BY <1>3, <3>1, RegisterKeeps
  <2>2. config.handle \in Handle
    BY <2>1 DEF Config
  <2>3. \A s \in Slot : topic'[s] = "none"
    BY <2>1 DEF NameInv
  <2>4. ASSUME NEW i \in 1..Len(setup.configs),
               \E j \in 1..Len(todo) : todo[j] = setup.configs[i]
        PROVE  \/ setup.configs[i] = config
               \/ \E j \in 1..Len(todo') : todo'[j] = setup.configs[i]
    <3>1. PICK j \in 1..Len(todo) : todo[j] = setup.configs[i]
      BY <2>4
    <3>2. CASE j = 1
      BY <1>1, <2>1, <3>1, <3>2
    <3>3. CASE j # 1
      <4>1. Len(todo') = Len(todo) - 1 /\ Len(todo) \in Nat
            /\ \A k \in 1..Len(todo') : todo'[k] = todo[k + 1]
        BY <1>1, <2>1, HeadTailProperties, LenProperties
      <4>2. j - 1 \in 1..Len(todo') /\ (j - 1) + 1 = j
        BY <3>3, <4>1
      <4>3. todo'[j - 1] = todo[j]
        BY <4>1, <4>2
      <4>4. QED
        BY <3>1, <4>2, <4>3
    <3>4. QED
      BY <3>2, <3>3
  <2>5. CASE NoFreeIndex(config.handle) /\ UNCHANGED <<index, used, device>>
    <3>1. Slot \subseteq used' /\ Registered' = Registered
      BY <2>5 DEF NoFreeIndex, Registered
    <3>2. QED
      BY <2>1, <2>3, <2>5, <3>1 DEF NameInv, Listed, Places
  <2>6. ASSUME NEW s \in Slot, GetFreeIndex(config.handle, s), device' = [device EXCEPT ![s] = config]
        PROVE  NameInv'
    <3>1. /\ Registered' = Registered \cup {config.handle} /\ index'[config.handle] = s
          /\ \A k \in Registered : index'[k] = index[k]
          /\ used \subseteq used'
          /\ \A g, k \in Registered' : index'[g] = index'[k] => g = k
      BY <2>2, <2>6, Registering
    <3>2. device'[s].handle = config.handle /\ \A r \in Slot : r # s => device'[r] = device[r]
      BY <1>1, <2>6
    <3> HIDE DEF config
    <3>3. ASSUME NEW r \in Slot, device'[r].handle # NoHandle
          PROVE  device'[r].handle \in Registered' /\ index'[device'[r].handle] = r
      BY <3>1, <3>2, <3>3 DEF NameInv
    <3>4. ASSUME NEW h \in Registered', Listed(h) PROVE device'[index'[h]].handle = h
      <4>1. CASE h = config.handle
        BY <3>1, <3>2, <4>1
      <4>2. CASE h # config.handle
        <5>1. h \in Registered /\ index'[h] = index[h] /\ index[h] # s
          BY <3>1, <4>2
        <5>2. QED
          BY <1>1, <3>2, <3>4, <5>1 DEF NameInv
      <4>3. QED
        BY <4>1, <4>2
    <3>5. ASSUME NEW i \in 1..Len(setup.configs)
          PROVE  \/ setup.configs[i].handle \in Registered'
                 \/ Slot \subseteq used'
                 \/ \E j \in 1..Len(todo') : todo'[j] = setup.configs[i]
      BY <2>4, <3>1 DEF NameInv
    <3>6. QED
      BY <2>1, <2>3, <3>3, <3>4, <3>5 DEF NameInv, Listed, Places
  <2>7. QED
    BY <2>1, <2>5, <2>6
<1>4. ASSUME NEW h \in Handle, AnnounceNew(h) PROVE NameInv'
  <2>1. /\ todo = <<>> /\ h \notin Registered /\ UNCHANGED <<setup, todo, device, topic>>
        /\ UNCHANGED <<index, used>> \/ \E s \in Slot : GetFreeIndex(h, s)
    BY <1>4, AnnounceNewKeeps
  <2>2. ASSUME NEW s \in Slot, GetFreeIndex(h, s) PROVE NameInv'
    <3>1. /\ Registered' = Registered \cup {h} /\ index'[h] = s
          /\ \A k \in Registered : index'[k] = index[k]
          /\ used \subseteq used' /\ s \notin used
      BY <2>1, <2>2, Registering
    <3>2. ~ \E j \in 1..Len(todo) : TRUE
      BY <2>1
    <3>3. ~ Listed(h)
      BY <2>1, <3>1, <3>2 DEF NameInv, Listed, Places
    <3>4. \A r \in Slot : device[r].handle # NoHandle =>
             device[r].handle \in Registered' /\ index'[device[r].handle] = r
      BY <3>1 DEF NameInv
    <3>5. \A k \in Registered' : Listed(k) => device[index'[k]].handle = k
      BY <3>1, <3>3 DEF NameInv
    <3>6. \A i \in 1..Len(setup.configs) :
             setup.configs[i].handle \in Registered' \/ Slot \subseteq used'
      BY <3>1, <3>2 DEF NameInv
    <3>7. \A r \in Slot : topic[r] # "none" => topic[r] = device[r].handle
      BY DEF NameInv
    <3>8. QED
      BY <2>1, <3>4, <3>5, <3>6, <3>7 DEF NameInv, Listed, Places
  <2>3. QED
    BY <1>2, <2>1, <2>2
<1>5. ASSUME NEW h \in Handle, AnnounceKnown(h) \/ StoragePointData(h) PROVE NameInv'
  BY <1>2, <1>5, AnnounceKnownKeeps, StoragePointDataKeeps
<1>6. CASE SendOption
  BY <1>2, <1>6, SendOptionKeeps
<1>7. CASE FinishAnnouncement
  BY <1>2, <1>7, FinishAnnouncementKeeps
<1>8. CASE AnswerLeft
  BY <1>2, <1>8 DEF AnswerLeft, tableVars
<1>9. ASSUME NEW h \in Handle, NEW o \in Option, OptionSucceeds(h, o) PROVE NameInv'
  BY <1>2, <1>9, OptionSucceedsKeeps
<1>10. ASSUME NEW s \in Slot, GetCurrentPublisher(s) PROVE NameInv'
  <2>1. /\ s \in sampling /\ UNCHANGED <<setup, todo, index, used, device>>
        /\ topic' = [topic EXCEPT ![s] = device[s].handle]
    BY <1>10, GetCurrentPublisherKeeps
  <2>2. todo = <<>>
    BY <2>1 DEF StartInv
  <2>3. \A r \in Slot : topic'[r] # "none" => topic'[r] = device[r].handle
    BY <1>1, <2>1 DEF NameInv
  <2>4. QED
    BY <2>1, <2>2, <2>3 DEF NameInv, Registered, Listed, Places
<1>11. QED
  BY <1>3, <1>4, <1>5, <1>6, <1>7, <1>8, <1>9, <1>10, Steps

\* A lidar of the configuration file publishes under its own name, and no other lidar
\* uses that name, whatever lidars outside the file announce themselves.
THEOREM ListedLidarsKeepNames == Spec => []ListedTopics
<1>1. ASSUME Init PROVE NameInv
  <2>1. todo = setup.configs /\ Registered = {}
        /\ \A s \in Slot : device[s].handle = NoHandle /\ topic[s] = "none"
    BY <1>1, InitKept DEF Init, ZeroDevice, TypeInv, TypeOK, Registered
  <2>2. QED
    BY <2>1 DEF NameInv
<1>2. TypeInv /\ SlotInv /\ StartInv /\ NameInv /\ [Next]_vars => NameInv'
  BY NamesKept
<1>3. TypeInv /\ NameInv => ListedTopics
  <2> SUFFICES ASSUME TypeInv, NameInv, NEW h \in Registered, Listed(h), NEW s \in Slot,
                      topic[s] # "none"
               PROVE  topic[s] = h <=> s = index[h]
    BY DEF ListedTopics
  <2>1. topic[s] = device[s].handle /\ device[index[h]].handle = h
    BY DEF NameInv
  <2>2. h # NoHandle
    BY RegistryAssumption DEF TypeInv, TypeOK
  <2>3. QED
    BY <2>1, <2>2 DEF NameInv
<1>4. QED
  BY <1>1, <1>2, <1>3, StartsQuiet, PTL DEF Spec
=============================================================================
