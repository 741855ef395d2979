------------------------ MODULE ProfileMonitorProofs ------------------------
(***************************************************************************)
(* Proofs about ProfileMonitor: a settled node streams exactly what its    *)
(* parameters ask for, however requests interleaved with the updates; what *)
(* the device delivers has its publisher; and a settled node of users who  *)
(* wait has the publishers and the transforms of what streams, no more;    *)
(* and the defaults that the device names are opened.                      *)
(***************************************************************************)
EXTENDS ProfileMonitor, TLAPS, FiniteSetTheorems, SequenceTheorems, NaturalsInduction,
        WellFoundedInduction

Values(s) == {s[n] : n \in 1..Len(s)}

\* Two profiles that the comparison of lists does not tell apart.
Alike(p, q) == [p EXCEPT !.default = TRUE] = [q EXCEPT !.default = TRUE]

\* The profiles at some places of the device's list, each the first of those like it.
AtPlaces(all, s, places) ==
    /\ places \subseteq 1..Len(all)
    /\ Values(s) = {all[n] : n \in places} /\ Len(s) = Cardinality(places)
    /\ \A n \in places, m \in 1..Len(all) : Alike(all[m], all[n]) => n <= m
ChosenFrom(all, s) == s \in Seq(Profile) /\ \E places \in SUBSET (1..Len(all)) : AtPlaces(all, s, places)

----------------------------------------------------------------------------
\* The inductive invariants.

Phase == {"stop", "stopPublishers", "start", "startSensor"}
Update == [by : {"none", "main", "monitor"}, at : Phase, i : 1..(Len(setup.sensors) + 1),
           profiles : Seq(Profile), restart : BOOLEAN]

\* The threads and the run of updateSensors fit together.
ShapeInv ==
    /\ setup \in Settings
    /\ DOMAIN ask = Sensors /\ active \in [Sensors -> Seq(Profile)]
    /\ update \in Update
    /\ update.at \in {"stopPublishers", "startSensor"} => update.i \in Sensors
    /\ update.by = "main" => main = "updating"
    /\ update.by = "monitor" => monitor = "holding"
    /\ changed \in [profile : BOOLEAN, align : BOOLEAN]
    /\ monitor \in {"waiting", "holding", "exited"}
    /\ (monitor = "exited" \/ destructor # "none") => ~ running
    /\ \A i \in Sensors : ChosenFrom(setup.sensors[i], active[i])
    /\ update.at \in {"stopPublishers", "startSensor"} =>
          ChosenFrom(setup.sensors[update.i], update.profiles)

Same(i) == SameProfiles(active[i], Wanted(i))

\* What an update has done for sensor i if nobody asked anything of it since.
Through(i) ==
    /\ \/ update.at = "stop" /\ i < update.i
       \/ update.at = "stopPublishers" /\ i <= update.i
       \/ update.at \in {"start", "startSensor"}
       => Same(i) \/ active[i] = <<>>
    /\ update.at = "startSensor" /\ i = update.i => update.profiles = Wanted(i)
\* ... and if no start failed and no sensor was reset.
Started(i) ==
    /\ update.at \in {"start", "startSensor"} /\ i < update.i => Same(i)
    /\ update.at = "startSensor" /\ i = update.i => Same(i) \/ update.restart

\* An update that has yet to begin will see what is asked for.
Coming ==
    \/ executor = "raiseProfile" \/ main = "setup"
    \/ changed.profile /\ monitor = "waiting"
    \/ monitor = "holding" /\ update.by # "monitor"

AskedInv ==
    \A i \in Sensors \ stale :
        running /\ faults = {} /\ ~ Coming =>
            IF update.by = "none" THEN Same(i) ELSE Through(i) /\ Started(i)

\* While nobody asks during an update and sensors stop, what it did stays right.
PatientInv ==
    setup.patient /\ ("stop" \notin setup.mayFail \/ faults = {}) /\ update.by # "none" =>
        \A i \in Sensors : Through(i) /\ (faults = {} /\ running => Started(i))

Served(i) == Sips(active[i]) \subseteq published.streams
Renewed(i) == update.by # "none" /\ IsVideo(i) /\ changed.align
Guarded ==
    /\ "stop" \notin setup.mayFail
    /\ "align" \notin setup.requests \/ (setup.patient /\ setup.mayFail = {})

PublishersInv ==
    /\ "streams" \in DOMAIN published
    /\ "align" \notin setup.requests => ~ changed.align /\ executor # "raiseAlign"
    /\ Guarded =>
        /\ \A i \in Sensors : Served(i) \/ Renewed(i)
        /\ update.at = "stopPublishers" => active[update.i] = <<>> \/ Renewed(update.i)
        /\ update.at = "startSensor" => Sips(update.profiles) \subseteq published.streams
        /\ \A i \in Sensors :
              \/ update.at = "start" /\ i < update.i
              \/ update.at = "startSensor" /\ i <= update.i
              => Served(i)

\* Nobody raises a flag while an update is to begin or goes on.
FlagsInv ==
    /\ update.by = "none" => update.at = "stop" /\ update.i = 1
    /\ setup.patient /\ executor \in {"raiseProfile", "raiseAlign"} =>
          /\ update.by = "none" /\ monitor # "holding" /\ main = "done"
          /\ ~ changed.profile /\ ~ changed.align

\* For users who wait, what there is for the outside is a function of what streams.
Orderly == setup.patient /\ "unite" \notin setup.requests /\ faults = {} /\ running

\* The publishers of sensor i were taken down and are yet to be made again.
Withdrawn(i) ==
    /\ NeedsRefresh(i)
    /\ \/ update.at \in {"stop", "stopPublishers"} /\ i < update.i
       \/ update.at \in {"start", "startSensor"} /\ i >= update.i

\* The streams of sensor i that have publishers.
Shown(i) ==
    IF update.at \in {"stopPublishers", "startSensor"} /\ i = update.i THEN Sips(update.profiles)
    ELSE IF Withdrawn(i) THEN {} ELSE Sips(active[i])

\* The transforms of some streams.
Frames(sip) ==
    {<<"frame", sip>>}
    \cup {t \in {<<"aligned", sip>>} : sip[1] \notin Motion \cup {"depth"} /\ sip[2] = 1}
FramesOf(streams) == UNION {Frames(sip) : sip \in streams}

Outputs ==
    /\ ~ options.unite
    /\ published.streams = UNION {Shown(i) : i \in Sensors}
    /\ tfs = SetToBag(FramesOf(published.streams))
    /\ \A sip \in published.streams : sip[1] \in {"color", "depth"} => sip[1] \in seen
    /\ update.by = "none" => sentTfs = tfs
    /\ update.at = "stopPublishers" => active[update.i] = <<>> \/ NeedsRefresh(update.i)
OutputsInv == Orderly => Outputs

\* The RGBD publisher follows the options with the next update.
OptionsComing ==
    \/ executor \in {"raiseProfile", "raiseAlign"} \/ main = "setup"
    \/ (changed.profile \/ changed.align) /\ monitor = "waiting"
    \/ monitor = "holding" /\ update.by # "monitor"
HasRgbd ==
    options.rgbd /\ options.align /\ {DEPTH, COLOR} \subseteq published.streams => published.rgbd
RgbdInv ==
    /\ "rgbd" \in DOMAIN published
    /\ Orderly /\ ~ OptionsComing /\ update.by = "none" => HasRgbd

----------------------------------------------------------------------------
\* What addWantedProfiles returns.

\* A set of numbers has a least one: induction over the loop goes by it.
LEMMA LeastNumber ==
    ASSUME NEW S \in SUBSET Nat, S # {}
    PROVE  \E i \in S : \A j \in S : i <= j
<1>1. PICK i \in S : \A j \in S : <<j, i>> \notin OpToRel(<, Nat)
  BY NatLessThanWellFounded, WFMin
<1>2. \A j \in S : ~ (j < i)
  BY <1>1 DEF OpToRel
<1>3. QED
  BY <1>2

\* The loop has a value after each profile of the list.
LEMMA LoopGoesOn ==
    ASSUME NEW all, Len(all) \in Nat, NEW kind, NEW asked
    PROVE  \E f : f = [i \in 0..Len(all) |->
                         IF i = 0 THEN <<>> ELSE AddProfile(f[i - 1], all[i], kind, asked)]
<1> DEFINE Step(s, i) == AddProfile(s, all[i], kind, asked)
           Upto(f, k) == f = [i \in 0..k |-> IF i = 0 THEN <<>> ELSE Step(f[i - 1], i)]
           Stuck == {k \in Nat : ~ \E f : Upto(f, k)}
<1> HIDE DEF Step
<1>1. SUFFICES Stuck = {}
  BY DEF Step
<1>2. SUFFICES ASSUME Stuck # {} PROVE FALSE
  OBVIOUS
<1>3. PICK k \in Stuck : \A j \in Stuck : k <= j
  <2> HIDE DEF Upto
  <2>1. Stuck \in SUBSET Nat
    OBVIOUS
  <2> HIDE DEF Stuck
  <2>2. QED
    BY <1>2, <2>1, LeastNumber
<1>4. CASE k = 0
  <2>1. [i \in 0..0 |-> <<>>] = [i \in 0..0 |->
           IF i = 0 THEN <<>> ELSE Step([j \in 0..0 |-> <<>>][i - 1], i)]
    OBVIOUS
  <2>2. Upto([i \in 0..0 |-> <<>>], 0)
    BY <2>1
  <2> HIDE DEF Upto
  <2>3. QED
    BY <1>3, <1>4, <2>2
<1>5. CASE k # 0
  <2>1. k - 1 \in Nat /\ k - 1 \notin Stuck
    <3>1. k \in Nat
      OBVIOUS
    <3> HIDE DEF Stuck
    <3>2. QED
      BY <1>3, <1>5, <3>1
  <2>2. PICK f : Upto(f, k - 1)
    BY <2>1
  <2> DEFINE g == [i \in 0..k |-> IF i = k THEN Step(f[k - 1], k) ELSE f[i]]
  <2>3. \A i \in 0..(k - 1) : f[i] = IF i = 0 THEN <<>> ELSE Step(f[i - 1], i)
    BY <2>2
  <2>4. \A i \in 0..k : g[i] = IF i = 0 THEN <<>> ELSE Step(g[i - 1], i)
    <3> SUFFICES ASSUME NEW i \in 0..k PROVE g[i] = IF i = 0 THEN <<>> ELSE Step(g[i - 1], i)
      OBVIOUS
    <3>1. i # 0 => i - 1 \in 0..(k - 1) /\ i - 1 \in 0..k /\ i - 1 # k
      BY <1>3
    <3>2. i # 0 => g[i - 1] = f[i - 1]
      BY <3>1
    <3>3. CASE i = k
      BY <1>5, <3>2, <3>3
    <3>4. CASE i # k
      <4>1. i \in 0..(k - 1) /\ g[i] = f[i]
        BY <1>3, <3>4
      <4>2. QED
        BY <2>3, <3>2, <4>1
    <3>5. QED
      BY <3>3, <3>4
  <2>5. g = [i \in 0..k |-> g[i]]
    OBVIOUS
  <2>6. Upto(g, k)
    <3> HIDE DEF g
    <3>1. QED
      BY <2>4, <2>5
  <2>7. QED
    BY <1>3, <2>6
<1>6. QED
  BY <1>4, <1>5

\* The places that fit among the first i of the list, for one kind of stream.
Found(all, kind, asked, i) == {n \in FittingPlaces(all, asked) : n <= i /\ all[n].stream \in kind}
Fits(all, asked, n) == asked.enabled[SipOf(all[n])] /\ IsWantedProfile(all[n], asked)

\* A profile that fits is at a fitting place, or one of its stream is before it.
LEMMA FirstOfStream ==
    ASSUME NEW all, Len(all) \in Nat, NEW asked, NEW i \in 1..Len(all), Fits(all, asked, i)
    PROVE  \E n \in FittingPlaces(all, asked) : n <= i /\ SipOf(all[n]) = SipOf(all[i])
<1> DEFINE S == {n \in 1..Len(all) : Fits(all, asked, n) /\ SipOf(all[n]) = SipOf(all[i])}
<1>1. i \in S /\ S \in SUBSET Nat
  OBVIOUS
<1>2. PICK n \in S : \A m \in S : n <= m
  <2> HIDE DEF S
  <2>1. QED
    BY <1>1, LeastNumber
<1>3. n \in FittingPlaces(all, asked)
  BY <1>2 DEF FittingPlaces, Fits
<1>4. QED
  BY <1>1, <1>2, <1>3

\* One round of the loop adds the place it looks at, if it is one that fits.
LEMMA RoundAdds ==
    ASSUME NEW all \in Seq(Profile), NEW kind, NEW asked, NEW i \in 1..Len(all),
           NEW wanted \in Seq(Profile),
           Values(wanted) = {all[n] : n \in Found(all, kind, asked, i - 1)}
    PROVE  IF i \in Found(all, kind, asked, i)
           THEN /\ Found(all, kind, asked, i) = Found(all, kind, asked, i - 1) \cup {i}
                /\ AddProfile(wanted, all[i], kind, asked) = Append(wanted, all[i])
           ELSE /\ Found(all, kind, asked, i) = Found(all, kind, asked, i - 1)
                /\ AddProfile(wanted, all[i], kind, asked) = wanted
<1> DEFINE p == all[i]
<1>0. Len(all) \in Nat
  BY LenProperties
<1>1. Sips(wanted) = {SipOf(all[n]) : n \in Found(all, kind, asked, i - 1)}
  <2>1. Sips(wanted) = {SipOf(q) : q \in Values(wanted)}
    BY DEF Sips, Values
  <2>2. QED
    BY <2>1
<1>2. FittingPlaces(all, asked) \subseteq 1..Len(all)
  BY DEF FittingPlaces
<1>3. Found(all, kind, asked, i) =
        Found(all, kind, asked, i - 1) \cup ({i} \cap Found(all, kind, asked, i))
  BY <1>0, <1>2 DEF Found
<1>4. CASE i \in Found(all, kind, asked, i)
  <2>1. p.stream \in kind /\ Fits(all, asked, i)
    BY <1>4 DEF Found, FittingPlaces, Fits
  <2>2. SipOf(p) \notin Sips(wanted)
    <3>1. SUFFICES ASSUME NEW n \in Found(all, kind, asked, i - 1), SipOf(all[n]) = SipOf(p)
                   PROVE  FALSE
      BY <1>1
    <3>2. n \in 1..Len(all) /\ n <= i - 1 /\ n \in FittingPlaces(all, asked)
      BY <1>2 DEF Found
    <3>3. i <= n
      BY <1>4, <3>1, <3>2 DEF Found, FittingPlaces
    <3>4. QED
      BY <1>0, <3>2, <3>3
  <2>3. AddProfile(wanted, p, kind, asked) = Append(wanted, p)
    BY <2>1, <2>2 DEF AddProfile, Fits
  <2>4. QED
    BY <1>3, <1>4, <2>3
<1>5. CASE i \notin Found(all, kind, asked, i)
  <2>1. ASSUME p.stream \in kind, Fits(all, asked, i) PROVE SipOf(p) \in Sips(wanted)
    <3>1. PICK n \in FittingPlaces(all, asked) : n <= i /\ SipOf(all[n]) = SipOf(p)
      BY <1>0, <2>1, FirstOfStream
    <3>2. all[n].stream = p.stream
      BY <3>1 DEF SipOf
    <3>3. n \in Found(all, kind, asked, i) /\ n # i
      BY <1>5, <2>1, <3>1, <3>2 DEF Found
    <3>4. n \in Found(all, kind, asked, i - 1)
      BY <1>3, <3>3
    <3>5. QED
      BY <1>1, <3>1, <3>4
  <2>2. AddProfile(wanted, p, kind, asked) = wanted
    BY <2>1 DEF AddProfile, Fits
  <2>3. QED
    BY <1>3, <1>5, <2>2
<1>6. QED
  BY <1>4, <1>5

\* What the loop returns: the profiles at the places that fit.
LEMMA LoopFinds ==
    ASSUME NEW all \in Seq(Profile), NEW kind, NEW asked
    PROVE  LET wanted == AddWantedProfiles(all, kind, asked)
               found == Found(all, kind, asked, Len(all))
           IN /\ wanted \in Seq(Profile) /\ Values(wanted) = {all[n] : n \in found}
              /\ IsFiniteSet(found) /\ Len(wanted) = Cardinality(found)
<1> DEFINE Loop(f) == f = [i \in 0..Len(all) |->
                             IF i = 0 THEN <<>> ELSE AddProfile(f[i - 1], all[i], kind, asked)]
           after == CHOOSE f : Loop(f)
           Places(i) == Found(all, kind, asked, i)
           Good(s, i) == /\ s \in Seq(Profile) /\ Values(s) = {all[n] : n \in Places(i)}
                         /\ IsFiniteSet(Places(i)) /\ Len(s) = Cardinality(Places(i))
           Bad == {i \in 0..Len(all) : ~ Good(after[i], i)}
<1>0. Len(all) \in Nat
  BY LenProperties
<1>1. AddWantedProfiles(all, kind, asked) = after[Len(all)]
  BY DEF AddWantedProfiles
<1>2. Loop(after)
  BY <1>0, LoopGoesOn
<1> HIDE DEF after
<1>3. \A i \in 0..Len(all) : after[i] = IF i = 0 THEN <<>>
                                        ELSE AddProfile(after[i - 1], all[i], kind, asked)
  BY <1>2
<1> HIDE DEF Loop
<1>4. Bad = {}
  <2>1. SUFFICES ASSUME Bad # {} PROVE FALSE
    OBVIOUS
  <2>2. PICK i \in Bad : \A j \in Bad : i <= j
    <3>1. Bad \in SUBSET Nat
      OBVIOUS
    <3> HIDE DEF Bad
    <3>2. QED
      BY <2>1, <3>1, LeastNumber
  <2>3. i \in 0..Len(all) /\ ~ Good(after[i], i)
    BY <2>2
  <2>4. CASE i = 0
    <3>1. Places(0) = {}
      BY <1>0 DEF Found, FittingPlaces
    <3>2. after[0] = <<>>
      BY <1>0, <1>3
    <3>3. Values(<<>>) = {} /\ Len(<<>>) = 0 /\ <<>> \in Seq(Profile)
      BY DEF Values
    <3>4. Good(after[0], 0)
      BY <3>1, <3>2, <3>3, FS_EmptySet
    <3> HIDE DEF Good
    <3>5. QED
      BY <2>3, <2>4, <3>4
  <2>5. CASE i # 0
    <3>1. i \in 1..Len(all) /\ i - 1 \in 0..Len(all) /\ i - 1 \in Nat
      BY <1>0, <2>3, <2>5
    <3>2. Good(after[i - 1], i - 1)
      <4>1. i - 1 \notin Bad
        <5> HIDE DEF Bad
        <5>1. QED
          BY <2>2, <3>1
      <4> HIDE DEF Good
      <4>2. QED
        BY <3>1, <4>1
    <3>3. after[i] = AddProfile(after[i - 1], all[i], kind, asked)
      BY <1>3, <2>3, <2>5
    <3>4. PICK before : before = after[i - 1]
      OBVIOUS
    <3>5. CASE i \in Places(i)
      <4>1. Places(i) = Places(i - 1) \cup {i} /\ after[i] = Append(before, all[i])
        BY <3>1, <3>2, <3>3, <3>4, <3>5, RoundAdds
      <4>2. i \notin Places(i - 1)
        BY <3>1 DEF Found
      <4>3. all[i] \in Profile
        BY <3>1, ElementOfSeq
      <4>4. /\ after[i] \in Seq(Profile) /\ Len(after[i]) = Len(before) + 1
            /\ Values(after[i]) = Values(before) \cup {all[i]}
        <5>1. /\ Append(before, all[i]) \in Seq(Profile)
              /\ Len(Append(before, all[i])) = Len(before) + 1 /\ Len(before) \in Nat
              /\ \A n \in 1..Len(before) : Append(before, all[i])[n] = before[n]
              /\ Append(before, all[i])[Len(before) + 1] = all[i]
          BY <3>2, <3>4, <4>3, AppendProperties, LenProperties
        <5>2. 1..(Len(before) + 1) = 1..Len(before) \cup {Len(before) + 1}
          BY <5>1
        <5>3. QED
          BY <4>1, <5>1, <5>2 DEF Values
      <4>5. Cardinality(Places(i)) = Cardinality(Places(i - 1)) + 1 /\ IsFiniteSet(Places(i))
        <5>1. PICK old : old = Places(i - 1)
          OBVIOUS
        <5>2. IsFiniteSet(old) /\ i \notin old /\ Places(i) = old \cup {i}
          BY <3>2, <4>1, <4>2, <5>1
        <5>3. Cardinality(old \cup {i}) = Cardinality(old) + 1 /\ IsFiniteSet(old \cup {i})
          BY ONLY <5>2, FS_AddElement
        <5>4. QED
          BY ONLY <5>1, <5>2, <5>3
      <4>6. Values(after[i]) = {all[n] : n \in Places(i)}
        BY <3>2, <3>4, <4>1, <4>4
      <4>7. QED
        BY <2>3, <3>2, <3>4, <4>4, <4>5, <4>6
    <3>6. CASE i \notin Places(i)
      <4>1. Places(i) = Places(i - 1) /\ after[i] = before
        BY <3>1, <3>2, <3>3, <3>4, <3>6, RoundAdds
      <4>2. QED
        BY <2>3, <3>2, <3>4, <4>1
    <3>7. QED
      BY <3>5, <3>6
  <2>6. QED
    BY <2>4, <2>5
<1>5. Good(after[Len(all)], Len(all))
  <2> HIDE DEF Good
  <2>1. QED
    BY <1>0, <1>4
<1>6. QED
  BY <1>1, <1>5

\* The values of two lists one after the other.
LEMMA ValuesOfBoth ==
    ASSUME NEW S, NEW s \in Seq(S), NEW t \in Seq(S)
    PROVE  Values(s \o t) = Values(s) \cup Values(t)
<1>1. PICK k \in Nat, l \in Nat : k = Len(s) /\ l = Len(t)
  BY LenProperties
<1>2. /\ Len(s \o t) = k + l
      /\ \A i \in 1..(k + l) : (s \o t)[i] = IF i <= k THEN s[i] ELSE t[i - k]
  BY <1>1, ConcatProperties
<1>3. \A i \in 1..k : i \in 1..(k + l) /\ i <= k
  OBVIOUS
<1>4. \A i \in 1..l : k + i \in 1..(k + l) /\ ~ (k + i <= k) /\ (k + i) - k = i
  OBVIOUS
<1>5. \A i \in 1..(k + l) : (i <= k /\ i \in 1..k) \/ (~ (i <= k) /\ i - k \in 1..l)
  OBVIOUS
<1>6. Values(s) \subseteq Values(s \o t)
  BY <1>1, <1>2, <1>3 DEF Values
<1>7. Values(t) \subseteq Values(s \o t)
  <2>1. \A i \in 1..l : (s \o t)[k + i] = t[i]
    BY <1>2, <1>4
  <2>2. QED
    BY <1>1, <1>2, <1>4, <2>1 DEF Values
<1>8. Values(s \o t) \subseteq Values(s) \cup Values(t)
  BY <1>1, <1>2, <1>5 DEF Values
<1>9. QED
  BY <1>6, <1>7, <1>8

\* What a sensor is to stream: the profiles at all fitting places.
LEMMA WantedFits ==
    ASSUME NEW all \in Seq(Profile), NEW asked
    PROVE  /\ WantedProfiles(all, asked) \in Seq(Profile)
           /\ AtPlaces(all, WantedProfiles(all, asked), FittingPlaces(all, asked))
<1> DEFINE places == FittingPlaces(all, asked)
           video == Found(all, Video, asked, Len(all))
           motion == Found(all, Motion, asked, Len(all))
           v == AddWantedProfiles(all, Video, asked)
           m == AddWantedProfiles(all, Motion, asked)
<1>1. /\ v \in Seq(Profile) /\ Values(v) = {all[n] : n \in video}
      /\ IsFiniteSet(video) /\ Len(v) = Cardinality(video)
  BY LoopFinds
<1>2. /\ m \in Seq(Profile) /\ Values(m) = {all[n] : n \in motion}
      /\ IsFiniteSet(motion) /\ Len(m) = Cardinality(motion)
  BY LoopFinds
<1>3. Len(all) \in Nat /\ \A n \in 1..Len(all) : all[n] \in Profile
  BY LenProperties, ElementOfSeq
<1>4. places \subseteq 1..Len(all)
  BY DEF FittingPlaces
<1>5. video \cup motion = places /\ video \cap motion = {}
  <2>1. \A n \in places : n <= Len(all) /\ all[n].stream \in Stream
    BY <1>3, <1>4 DEF Profile
  <2>2. QED
    BY <2>1 DEF Found, Video
<1>6. Cardinality(places) = Cardinality(video) + Cardinality(motion)
  <2> HIDE DEF places, video, motion, v, m
  <2>1. Cardinality(video \cup motion) =
          Cardinality(video) + Cardinality(motion) - Cardinality(video \cap motion)
    BY <1>1, <1>2, FS_Union
  <2>2. Cardinality(video \cap motion) = 0
    BY <1>5, FS_EmptySet
  <2>3. Cardinality(video) \in Nat /\ Cardinality(motion) \in Nat
    BY <1>1, <1>2, FS_CardinalityType
  <2>4. PICK x \in Nat, y \in Nat : x = Cardinality(video) /\ y = Cardinality(motion)
    BY <2>3
  <2>5. Cardinality(video \cup motion) = x + y
    BY <2>1, <2>2, <2>4
  <2>6. QED
    BY <1>5, <2>4, <2>5
<1>7. /\ v \o m \in Seq(Profile) /\ Len(v \o m) = Len(v) + Len(m)
      /\ Values(v \o m) = Values(v) \cup Values(m)
  <2> HIDE DEF v, m, video, motion
  <2>1. v \in Seq(Profile) /\ m \in Seq(Profile)
    BY <1>1, <1>2
  <2>2. QED
    BY <2>1, ConcatProperties, ValuesOfBoth
<1>8. ASSUME NEW n \in places, NEW k \in 1..Len(all), Alike(all[k], all[n]) PROVE n <= k
  <2>1. all[k] \in Profile /\ all[n] \in Profile
    BY <1>3, <1>4
  <2>2. /\ all[k].stream = all[n].stream /\ all[k].index = all[n].index
        /\ all[k].mode = all[n].mode /\ all[k].format = all[n].format
    BY <1>8, <2>1 DEF Alike, Profile
  <2>3. SipOf(all[k]) = SipOf(all[n]) /\ (Fits(all, asked, n) => Fits(all, asked, k))
    BY <2>2 DEF SipOf, Fits, IsWantedProfile, IsWantedVideo, IsWantedMotion
  <2>4. QED
    BY <2>3 DEF FittingPlaces, Fits
<1>9. WantedProfiles(all, asked) = v \o m
  BY DEF WantedProfiles
<1> HIDE DEF v, m, video, motion, places
<1>10. Values(v \o m) = {all[n] : n \in places}
  BY <1>1, <1>2, <1>5, <1>7
<1>11. AtPlaces(all, v \o m, places)
  BY <1>1, <1>2, <1>4, <1>6, <1>7, <1>8, <1>10 DEF AtPlaces
<1>12. QED
  BY <1>7, <1>9, <1>11 DEF places

\* Lists that the node takes for the same are at the same places.
LEMMA SameAreAtSamePlaces ==
    ASSUME NEW all, Len(all) \in Nat, NEW s, NEW t, NEW P, NEW Q, AtPlaces(all, s, P),
           AtPlaces(all, t, Q), SameProfiles(s, t)
    PROVE  P = Q
<1>1. ASSUME NEW a, NEW b, NEW A, NEW B, AtPlaces(all, a, A), AtPlaces(all, b, B),
             ProfilesIn(a, b)
      PROVE  A \subseteq B
  <2>1. SUFFICES ASSUME NEW n \in A PROVE n \in B
    OBVIOUS
  <2>2. PICK i \in 1..Len(a) : a[i] = all[n]
    BY <1>1 DEF AtPlaces, Values
  <2>3. PICK j \in 1..Len(b) : Alike(all[n], b[j])
    BY <1>1, <2>2 DEF ProfilesIn, Alike
  <2>4. PICK m \in B : b[j] = all[m]
    BY <1>1 DEF AtPlaces, Values
  <2>5. Alike(all[n], all[m]) /\ Alike(all[m], all[n])
    BY <2>3, <2>4 DEF Alike
  <2>6. n \in 1..Len(all) /\ m \in 1..Len(all)
    BY <1>1 DEF AtPlaces
  <2>7. n <= m /\ m <= n
    BY <1>1, <2>5, <2>6 DEF AtPlaces
  <2>8. QED
    BY <2>6, <2>7
<1>2. QED
  BY <1>1 DEF SameProfiles

----------------------------------------------------------------------------
\* Sensors, and lists that are the same.

\* The sensors of a setting list profiles, and no two of them the same stream.
LEMMA SensorProfiles ==
    ASSUME setup \in Settings
    PROVE  /\ Len(setup.sensors) \in Nat
           /\ \A i \in Sensors : setup.sensors[i] \in Seq(Profile) /\ Wanted(i) \in Seq(Profile)
                                 /\ ChosenFrom(setup.sensors[i], Wanted(i))
           /\ \A i, j \in Sensors :
                 i # j => Sips(setup.sensors[i]) \cap Sips(setup.sensors[j]) = {}
<1>1. setup.sensors \in Seq(Seq(Profile) \ {<<>>})
  BY ProfileMonitorAssumption
<1>2. Len(setup.sensors) \in Nat
  BY <1>1, LenProperties
<1>3. ASSUME NEW i \in Sensors
      PROVE  /\ setup.sensors[i] \in Seq(Profile) /\ Wanted(i) \in Seq(Profile)
             /\ ChosenFrom(setup.sensors[i], Wanted(i))
  <2>1. setup.sensors[i] \in Seq(Profile)
    BY <1>1, ElementOfSeq DEF Sensors
  <2>2. /\ Wanted(i) \in Seq(Profile)
        /\ AtPlaces(setup.sensors[i], Wanted(i), FittingPlaces(setup.sensors[i], ask[i]))
    BY <2>1, WantedFits DEF Wanted
  <2>3. FittingPlaces(setup.sensors[i], ask[i]) \in SUBSET (1..Len(setup.sensors[i]))
    BY DEF FittingPlaces
  <2>4. QED
    BY <2>1, <2>2, <2>3 DEF ChosenFrom
<1>4. \A i, j \in Sensors : i # j => Sips(setup.sensors[i]) \cap Sips(setup.sensors[j]) = {}
  BY ProfileMonitorAssumption DEF Sensors
<1>5. QED
  BY <1>2, <1>3, <1>4

\* A sensor that streams nothing streams the profiles at no place.
LEMMA NothingIsChosen ==
    ASSUME NEW all
    PROVE  ChosenFrom(all, <<>>)
<1>1. AtPlaces(all, <<>>, {})
  <2>1. Values(<<>>) = {} /\ Len(<<>>) = 0 /\ Cardinality({}) = 0
    BY FS_EmptySet DEF Values
  <2>2. QED
    BY <2>1 DEF AtPlaces
<1>2. QED
  BY <1>1 DEF ChosenFrom

\* The comparison of lists is reflexive.
LEMMA SameAsItself ==
    ASSUME NEW s
    PROVE  SameProfiles(s, s)
BY DEF SameProfiles, ProfilesIn

\* Lists that are the same have the same streams.
LEMMA SameStreams ==
    ASSUME NEW s \in Seq(Profile), NEW t \in Seq(Profile), SameProfiles(s, t)
    PROVE  Sips(s) = Sips(t)
<1>1. ASSUME NEW a \in Seq(Profile), NEW b \in Seq(Profile), ProfilesIn(a, b)
      PROVE  Sips(a) \subseteq Sips(b)
  <2>1. SUFFICES ASSUME NEW i \in 1..Len(a) PROVE SipOf(a[i]) \in Sips(b)
    BY DEF Sips
  <2>2. PICK j \in 1..Len(b) : Alike(a[i], b[j])
    BY <1>1 DEF ProfilesIn, Alike
  <2>3. a[i] \in Profile /\ b[j] \in Profile
    BY ElementOfSeq
  <2>4. a[i].stream = b[j].stream /\ a[i].index = b[j].index
    BY <2>2, <2>3 DEF Alike, Profile
  <2>5. QED
    BY <2>4 DEF Sips, SipOf
<1>2. QED
  BY <1>1 DEF SameProfiles

\* What is chosen from a list has streams of the list.
LEMMA StreamsOfChosen ==
    ASSUME NEW all, NEW s, ChosenFrom(all, s)
    PROVE  Sips(s) \subseteq Sips(all)
<1>1. PICK places \in SUBSET (1..Len(all)) : AtPlaces(all, s, places)
  BY DEF ChosenFrom
<1>2. \A k \in 1..Len(s) : \E n \in 1..Len(all) : s[k] = all[n]
  BY <1>1 DEF AtPlaces, Values
<1>3. QED
  BY <1>2 DEF Sips

\* A sensor that streams the wanted profiles streams those at the fitting places.
LEMMA SameIsAsAsked ==
    ASSUME ShapeInv, NEW i \in Sensors, Same(i)
    PROVE  LET all == setup.sensors[i]
               places == FittingPlaces(all, ask[i])
           IN /\ {active[i][n] : n \in 1..Len(active[i])} = {all[n] : n \in places}
              /\ Len(active[i]) = Cardinality(places)
<1> DEFINE all == setup.sensors[i]
           fitting == FittingPlaces(all, ask[i])
<1>1. all \in Seq(Profile) /\ Len(all) \in Nat
  BY SensorProfiles, LenProperties DEF ShapeInv
<1>2. AtPlaces(all, Wanted(i), fitting)
  BY <1>1, WantedFits DEF Wanted
<1>3. PICK places \in SUBSET (1..Len(all)) : AtPlaces(all, active[i], places)
  BY DEF ShapeInv, ChosenFrom
<1> HIDE DEF fitting, all
<1>4. places = fitting
  BY <1>1, <1>2, <1>3, SameAreAtSamePlaces DEF Same
<1>5. Values(active[i]) = {all[n] : n \in fitting} /\ Len(active[i]) = Cardinality(fitting)
  BY <1>3, <1>4 DEF AtPlaces
<1>6. QED
  BY <1>5 DEF Values, fitting, all

----------------------------------------------------------------------------
\* The shape of the threads and of the update.

\* A node begins with nothing streamed and no update under way.
LEMMA ShapeInit == Init => ShapeInv
<1> SUFFICES ASSUME Init PROVE ShapeInv
  OBVIOUS
<1>1. setup \in Settings /\ Len(setup.sensors) \in Nat
  BY SensorProfiles DEF Init
<1>2. DOMAIN ask = Sensors /\ active = [i \in Sensors |-> <<>>]
  BY DEF Init
<1>3. active \in [Sensors -> Seq(Profile)]
  BY <1>2
<1>4. update = [by |-> "none", at |-> "stop", i |-> 1, profiles |-> <<>>, restart |-> FALSE]
  BY DEF Init, NoUpdate
<1>5. update \in Update
  <2>1. 1 \in 1..(Len(setup.sensors) + 1) /\ <<>> \in Seq(Profile)
    BY <1>1
  <2>2. QED
    BY <1>4, <2>1 DEF Phase, Update
<1>6. changed \in [profile : BOOLEAN, align : BOOLEAN]
  BY DEF Init
<1>7. \A i \in Sensors : ChosenFrom(setup.sensors[i], active[i])
  BY <1>2, NothingIsChosen
<1>8. QED
  BY <1>1, <1>2, <1>3, <1>4, <1>5, <1>6, <1>7 DEF Init, ShapeInv

\* Sensors that are all to be stopped stream nothing, or what they did.
LEMMA SomeStop ==
    ASSUME ShapeInv, StopAll
    PROVE  /\ active' \in [Sensors -> Seq(Profile)]
           /\ \A j \in Sensors : active'[j] = active[j] \/ active'[j] = <<>>
<1>1. active \in [Sensors -> Seq(Profile)] /\ <<>> \in Seq(Profile)
  BY DEF ShapeInv
<1>2. PICK failing : active' = [j \in Sensors |-> IF j \in failing THEN active[j] ELSE <<>>]
  BY DEF StopAll
<1>3. QED
  BY <1>1, <1>2

\* Everything but the steps of an update and the flags leaves the shape alone.
LEMMA ShapeKept ==
    ASSUME ShapeInv, UNCHANGED <<setup, update>>, DOMAIN ask' = Sensors,
           active' = active \/ StopAll,
           changed' \in [profile : BOOLEAN, align : BOOLEAN],
           main' = main, monitor' = monitor \/ (monitor = "waiting" /\ monitor' = "exited"),
           (monitor' = "exited" \/ destructor' # "none") => ~ running'
    PROVE  ShapeInv'
<1>1. Sensors' = Sensors
  BY DEF Sensors
<1>2. /\ active' \in [Sensors -> Seq(Profile)]
      /\ \A i \in Sensors : ChosenFrom(setup.sensors[i], active'[i])
  <2>1. CASE active' = active
    BY <2>1 DEF ShapeInv
  <2>2. CASE StopAll
    BY <2>2, SomeStop, NothingIsChosen DEF ShapeInv
  <2>3. QED
    BY <2>1, <2>2
<1>3. (update.by = "monitor" => monitor' = "holding") /\ monitor' \in {"waiting", "holding", "exited"}
  BY DEF ShapeInv
<1>4. QED
  BY <1>1, <1>2, <1>3 DEF ShapeInv, Update

\* Between two sensors an update holds no profiles.
LEMMA NextSensorShape ==
    ASSUME ShapeInv, update.i \in Sensors, NEW phase \in Phase
    PROVE  LET next == NextSensor(phase) IN
           /\ next \in Update /\ next.by = update.by /\ next.at = phase /\ next.i = update.i + 1
           /\ next.profiles = <<>> /\ ~ next.restart
<1>1. update.i + 1 \in 1..(Len(setup.sensors) + 1) /\ <<>> \in Seq(Profile)
  BY SensorProfiles DEF Sensors, ShapeInv
<1>2. update \in Update
  BY DEF ShapeInv
<1>3. QED
  BY <1>1, <1>2 DEF NextSensor, Update

\* stopRequiredSensors looks at one sensor: it streams what it did, or nothing.
LEMMA StoppedShape ==
    ASSUME ShapeInv, StopSensor
    PROVE  ShapeInv'
<1> DEFINE i == update.i
<1>1. /\ UNCHANGED <<setup, ask, executor, changed, monitor, main, outputVars, lifeVars, faults>>
      /\ i \in Sensors /\ update.at = "stop" /\ update.by # "none"
      /\ active' = IF IsProfileChanged(i) THEN [active EXCEPT ![i] = <<>>] ELSE active
  BY DEF StopSensor, AtSensor, Stopped
<1>2. Sensors' = Sensors /\ i + 1 \in 1..(Len(setup.sensors) + 1)
  BY <1>1, SensorProfiles DEF Sensors, ShapeInv
<1>3. /\ active' \in [Sensors -> Seq(Profile)]
      /\ \A j \in Sensors : ChosenFrom(setup.sensors[j], active'[j])
  BY <1>1, NothingIsChosen DEF ShapeInv
<1>4. CASE NeedsRefresh(i)
  <2>1. update' = [update EXCEPT !.at = "stopPublishers", !.profiles = active[i],
                                 !.restart = IsProfileChanged(i)]
    BY <1>4 DEF StopSensor
  <2>2. active[i] \in Seq(Profile) /\ ChosenFrom(setup.sensors[i], active[i])
    BY <1>1 DEF ShapeInv
  <2>3. IsProfileChanged(i) \in BOOLEAN
    BY DEF IsProfileChanged
  <2>4. /\ update' \in Update
        /\ update'.by = update.by /\ update'.i = i /\ update'.at = "stopPublishers"
        /\ update'.profiles = active[i]
    BY <2>1, <2>2, <2>3 DEF ShapeInv, Phase, Update
  <2>5. QED
    BY <1>1, <1>2, <1>3, <2>2, <2>4 DEF ShapeInv, lifeVars, Update
<1>5. CASE ~ NeedsRefresh(i)
  <2>1. update' = NextSensor("stop")
    BY <1>5 DEF StopSensor
  <2>2. update' \in Update /\ update'.by = update.by /\ update'.at = "stop"
    BY <1>1, <2>1, NextSensorShape DEF Phase
  <2>3. QED
    BY <1>1, <1>2, <1>3, <2>2 DEF ShapeInv, lifeVars, Update
<1>6. QED
  BY <1>4, <1>5

\* ... and a sensor that does not stop streams what it did.
LEMMA FailedStopShape ==
    ASSUME ShapeInv, StopFails
    PROVE  ShapeInv' /\ update'.by = update.by /\ update.by # "none"
<1> DEFINE i == update.i
<1>1. /\ UNCHANGED <<setup, ask, changed, monitor, main, active, lifeVars>>
      /\ i \in Sensors /\ update.by # "none"
      /\ update' = [update EXCEPT !.at = "stopPublishers", !.profiles = active[i], !.restart = TRUE]
  BY DEF StopFails, AtSensor
<1>2. active[i] \in Seq(Profile) /\ ChosenFrom(setup.sensors[i], active[i]) /\ Sensors' = Sensors
  BY <1>1 DEF ShapeInv, Sensors
<1>3. /\ update' \in Update
      /\ update'.by = update.by /\ update'.i = i /\ update'.at = "stopPublishers"
      /\ update'.profiles = active[i]
  BY <1>1, <1>2 DEF ShapeInv, Phase, Update
<1>4. QED
  BY <1>1, <1>2, <1>3 DEF ShapeInv, lifeVars, Update

\* startPublishers takes over the profiles that are wanted.
LEMMA StartedPublishersShape ==
    ASSUME ShapeInv, StartPublishers
    PROVE  ShapeInv'
<1> DEFINE i == update.i
<1>1. /\ UNCHANGED <<setup, ask, executor, changed, monitor, main, active, lifeVars, faults>>
      /\ i \in Sensors /\ update.at = "start" /\ update.by # "none"
  BY DEF StartPublishers, AtSensor, parameterVars
<1>2. Sensors' = Sensors
  BY <1>1 DEF Sensors
<1>3. CASE NeedsRefresh(i) /\ Wanted(i) # <<>>
  <2>1. update' = [update EXCEPT !.at = "startSensor", !.profiles = Wanted(i),
                                 !.restart = IsProfileChanged(i)]
    BY <1>3 DEF StartPublishers
  <2>2. Wanted(i) \in Seq(Profile) /\ ChosenFrom(setup.sensors[i], Wanted(i))
    BY <1>1, SensorProfiles DEF ShapeInv
  <2>3. IsProfileChanged(i) \in BOOLEAN
    BY DEF IsProfileChanged
  <2>4. /\ update' \in Update /\ update'.by = update.by /\ update'.i = i
        /\ update'.at = "startSensor" /\ update'.profiles = Wanted(i)
    BY <2>1, <2>2, <2>3 DEF ShapeInv, Phase, Update
  <2>5. QED
    BY <1>1, <1>2, <2>2, <2>4 DEF ShapeInv, lifeVars, Update
<1>4. CASE ~ (NeedsRefresh(i) /\ Wanted(i) # <<>>)
  <2>1. update' = NextSensor("start")
    BY <1>4 DEF StartPublishers
  <2>2. update' \in Update /\ update'.by = update.by /\ update'.at = "start"
    BY <1>1, <2>1, NextSensorShape DEF Phase
  <2>3. QED
    BY <1>1, <1>2, <2>2 DEF ShapeInv, lifeVars, Update
<1>5. QED
  BY <1>3, <1>4

\* A started sensor streams the profiles its publishers were made for.
LEMMA StartedShape ==
    ASSUME ShapeInv, StartSensor
    PROVE  ShapeInv'
<1> DEFINE i == update.i
<1>1. /\ UNCHANGED <<setup, ask, executor, changed, monitor, main, lifeVars, faults>>
      /\ i \in Sensors /\ update.at = "startSensor" /\ update.by # "none"
      /\ active' = active \/ active' = [active EXCEPT ![i] = update.profiles]
      /\ update' = NextSensor("start")
  BY DEF StartSensor, AtSensor, parameterVars
<1>2. Sensors' = Sensors
  BY <1>1 DEF Sensors
<1>3. update.profiles \in Seq(Profile) /\ ChosenFrom(setup.sensors[i], update.profiles)
  BY <1>1 DEF ShapeInv, Update
<1>4. /\ active' \in [Sensors -> Seq(Profile)]
      /\ \A j \in Sensors : ChosenFrom(setup.sensors[j], active'[j])
  BY <1>1, <1>3 DEF ShapeInv
<1>5. update' \in Update /\ update'.by = update.by /\ update'.at = "start"
  BY <1>1, NextSensorShape DEF Phase
<1>6. QED
  BY <1>1, <1>2, <1>4, <1>5 DEF ShapeInv, lifeVars, Update

\* The thread of an update goes back to where it waits.
LEMMA EndedShape ==
    ASSUME ShapeInv, EndUpdate, update.by # "none",
           UNCHANGED <<setup, ask, active, destructor, running>>
    PROVE  ShapeInv'
<1>1. update' = [by |-> "none", at |-> "stop", i |-> 1, profiles |-> <<>>, restart |-> FALSE]
  BY DEF EndUpdate, NoUpdate
<1>2. Sensors' = Sensors /\ 1 \in 1..(Len(setup.sensors) + 1) /\ <<>> \in Seq(Profile)
  BY SensorProfiles DEF Sensors, ShapeInv
<1>3. update' \in Update /\ update'.by = "none" /\ update'.at = "stop"
  BY <1>1, <1>2 DEF Update, Phase
<1>4. /\ changed' \in [profile : BOOLEAN, align : BOOLEAN]
      /\ monitor' \in {"waiting", "holding", "exited"}
      /\ monitor' = "exited" => monitor = "exited"
  <2>1. CASE update.by = "monitor"
    <3>1. changed' = FlagsCleared /\ monitor' = "waiting"
      BY <2>1 DEF EndUpdate
    <3>2. FlagsCleared \in [profile : BOOLEAN, align : BOOLEAN]
      BY DEF FlagsCleared
    <3>3. QED
      BY <3>1, <3>2
  <2>2. CASE update.by # "monitor"
    BY <2>2 DEF EndUpdate, ShapeInv
  <2>3. QED
    BY <2>1, <2>2
<1>5. QED
  BY <1>2, <1>3, <1>4 DEF ShapeInv, Update

\* The remaining steps of an update.
LEMMA UpdateShape ==
    ASSUME ShapeInv, UpdateBegins \/ StopPublishers \/ BeginStarting
    PROVE  ShapeInv'
<1>1. CASE UpdateBegins
  <2>1. /\ UNCHANGED <<setup, ask, changed, monitor, active, lifeVars>>
        /\ update.by = "none"
        /\ \/ main = "setup" /\ main' = "updating" /\ BeginUpdate("main")
           \/ monitor = "holding" /\ BeginUpdate("monitor") /\ UNCHANGED main
    BY <1>1 DEF UpdateBegins, parameterVars
  <2>2. Sensors' = Sensors /\ 1 \in 1..(Len(setup.sensors) + 1) /\ <<>> \in Seq(Profile)
    BY <2>1, SensorProfiles DEF Sensors, ShapeInv
  <2>3. /\ update' \in Update /\ update'.at = "stop"
        /\ update'.by = "main" => main' = "updating"
        /\ update'.by = "monitor" => monitor = "holding"
    BY <2>1, <2>2 DEF BeginUpdate, NoUpdate, Update, Phase
  <2>4. QED
    BY <2>1, <2>2, <2>3 DEF ShapeInv, Update, lifeVars
<1>2. CASE StopPublishers
  <2>1. /\ UNCHANGED <<setup, ask, changed, monitor, main, active, lifeVars>>
        /\ update.i \in Sensors /\ update' = NextSensor("stop")
    BY <1>2 DEF StopPublishers, AtSensor, parameterVars
  <2>2. update' \in Update /\ update'.by = update.by /\ update'.at = "stop"
    BY <2>1, NextSensorShape DEF Phase
  <2>3. QED
    BY <2>1, <2>2 DEF ShapeInv, Update, Sensors, lifeVars
<1>3. CASE BeginStarting
  <2>1. /\ UNCHANGED <<setup, ask, changed, monitor, main, active, lifeVars>>
        /\ update' = [update EXCEPT !.at = "start", !.i = 1]
    BY <1>3 DEF BeginStarting, parameterVars
  <2>2. 1 \in 1..(Len(setup.sensors) + 1)
    BY SensorProfiles DEF ShapeInv
  <2>3. update' \in Update /\ update'.by = update.by /\ update'.at = "start"
    BY <2>1, <2>2 DEF ShapeInv, Update, Phase
  <2>4. QED
    BY <2>1, <2>3 DEF ShapeInv, Update, Sensors, lifeVars
<1>4. QED
  BY <1>1, <1>2, <1>3

\* Every step keeps the shape of the threads and of the update.
LEMMA ShapeStep == ShapeInv /\ [Next]_vars => ShapeInv'
<1> SUFFICES ASSUME ShapeInv, [Next]_vars PROVE ShapeInv'
  OBVIOUS
<1>0. /\ DOMAIN ask = Sensors /\ changed \in [profile : BOOLEAN, align : BOOLEAN]
      /\ (monitor = "exited" \/ destructor # "none") => ~ running
  BY DEF ShapeInv
<1>1. ASSUME NEW i \in Sensors, NEW sip \in DOMAIN ask[i].enabled, SetEnable(i, sip)
      PROVE  ShapeInv'
  <2>1. DOMAIN ask' = Sensors
    BY <1>0, <1>1 DEF SetEnable
  <2>2. QED
    BY <1>0, <1>1, <2>1, ShapeKept DEF SetEnable, lifeVars
<1>2. ASSUME NEW i \in Sensors, NEW newAsk, SetProfile(i, newAsk)
      PROVE  ShapeInv'
  <2>1. DOMAIN ask' = Sensors
    BY <1>0, <1>2 DEF SetProfile
  <2>2. QED
    BY <1>0, <1>2, <2>1, ShapeKept DEF SetProfile, lifeVars
<1>3. ASSUME NEW option, SetOption(option) PROVE ShapeInv'
  BY <1>0, <1>3, ShapeKept DEF SetOption, lifeVars
<1>4. ASSUME NEW positive, SetRate(positive) PROVE ShapeInv'
  BY <1>0, <1>4, ShapeKept DEF SetRate, lifeVars
<1>5. CASE RaiseFlag
  <2>1. changed' \in [profile : BOOLEAN, align : BOOLEAN]
    BY <1>0, <1>5 DEF RaiseFlag
  <2>2. QED
    BY <1>0, <1>5, <2>1, ShapeKept DEF RaiseFlag, lifeVars
<1>6. CASE JoinTfThread \/ PublishDynamicTransformsReturns
  BY <1>0, <1>6, ShapeKept DEF JoinTfThread, PublishDynamicTransformsReturns, parameterVars, lifeVars
<1>7. CASE HandleHWReset
  BY <1>0, <1>7, ShapeKept DEF HandleHWReset, parameterVars, lifeVars
<1>8. CASE Destroy
  BY <1>0, <1>8, ShapeKept DEF Destroy, parameterVars
<1>9. CASE DestroyTestsTf \/ DestroyJoinsTf \/ DestroyJoinsMonitor
  BY <1>0, <1>9, ShapeKept DEF DestroyTestsTf, DestroyJoinsTf, DestroyJoinsMonitor, parameterVars
<1>10. CASE DestroyStopsSensors
  BY <1>0, <1>10, ShapeKept DEF DestroyStopsSensors, parameterVars
<1>11. CASE MonitorExits
  BY <1>0, <1>11, ShapeKept DEF MonitorExits, parameterVars, lifeVars
<1>12. CASE MonitorWakes
  <2>1. /\ UNCHANGED <<setup, ask, changed, main, update, active, lifeVars>>
        /\ monitor' = "holding"
    BY <1>12 DEF MonitorWakes, parameterVars
  <2>2. QED
    BY <2>1 DEF ShapeInv, Update, Sensors, lifeVars
<1>13. CASE UpdateBegins \/ StopPublishers \/ BeginStarting
  BY <1>13, UpdateShape
<1>14. CASE StopSensor \/ StopFails
  BY <1>14, StoppedShape, FailedStopShape
<1>15. CASE StartPublishers
  BY <1>15, StartedPublishersShape
<1>16. CASE StartSensor
  BY <1>16, StartedShape
<1>17. CASE StartFails
  BY <1>17, EndedShape DEF StartFails, AtSensor, parameterVars, lifeVars
<1>18. CASE FinishUpdate
  BY <1>18, EndedShape DEF FinishUpdate, parameterVars, lifeVars
<1>19. CASE UNCHANGED vars
  BY <1>0, <1>19, ShapeKept DEF vars, parameterVars, lifeVars
<1>20. QED
  BY <1>1, <1>2, <1>3, <1>4, <1>5, <1>6, <1>7, <1>8, <1>9, <1>10, <1>11, <1>12, <1>13, <1>14,
     <1>15, <1>16, <1>17, <1>18, <1>19
     DEF Next, NodeStep, Callback, Updating, Destructing

----------------------------------------------------------------------------
\* What an update does for each sensor.

\* No step but those of an update and of a request changes what sensor i is to stream
\* or how far the update is; sensors may be reset.
LEMMA SensorKept ==
    ASSUME ShapeInv, NEW i \in Sensors, UNCHANGED <<setup, update>>, ask'[i] = ask[i],
           active' = active \/ StopAll
    PROVE  /\ Through(i) => Through(i)'
           /\ active' = active => Same(i)' = Same(i) /\ Started(i)' = Started(i)
<1>1. Wanted(i)' = Wanted(i)
  BY DEF Wanted
<1>2. CASE active' = active
  BY <1>1, <1>2 DEF Through, Started, Same
<1>3. CASE active' # active /\ StopAll
  <2>1. active'[i] = active[i] \/ active'[i] = <<>>
    BY <1>3, SomeStop
  <2>2. QED
    BY <1>1, <1>3, <2>1 DEF Through, Same
<1>4. QED
  BY <1>2, <1>3

\* stopRequiredSensors and startUpdatedSensors, for one sensor.
LEMMA UpdateGoesOn ==
    ASSUME ShapeInv, NEW i \in Sensors, update.by # "none",
           StopSensor \/ StopPublishers \/ BeginStarting \/ StartPublishers \/ StartSensor,
           Through(i)
    PROVE  Through(i)' /\ (Started(i) => Started(i)')
<1>0. /\ update \in Update /\ active \in [Sensors -> Seq(Profile)]
      /\ update.at \in {"stopPublishers", "startSensor"} => update.i \in Sensors
      /\ i \in Int /\ update.i \in Int /\ i <= Len(setup.sensors)
  BY SensorProfiles DEF ShapeInv, Update, Sensors
<1>1. UNCHANGED <<setup, ask>> /\ Wanted(i)' = Wanted(i)
  BY DEF StopSensor, StopPublishers, BeginStarting, StartPublishers, StartSensor, parameterVars, Wanted
<1>2. CASE StopSensor
  <2>1. /\ update.at = "stop" /\ update.i \in Sensors
        /\ active' = IF IsProfileChanged(update.i) THEN [active EXCEPT ![update.i] = <<>>] ELSE active
    BY <1>2 DEF StopSensor, AtSensor, Stopped
  <2>2. \/ update'.at = "stop" /\ update'.i = update.i + 1
        \/ update'.at = "stopPublishers" /\ update'.i = update.i
    <3>1. CASE NeedsRefresh(update.i)
      BY <1>0, <1>2, <3>1 DEF StopSensor, Update
    <3>2. CASE ~ NeedsRefresh(update.i)
      <4>1. update' = NextSensor("stop")
        BY <1>2, <3>2 DEF StopSensor
      <4>2. update'.at = "stop" /\ update'.i = update.i + 1
        BY <2>1, <4>1, NextSensorShape DEF Phase
      <4>3. QED
        BY <4>2
    <3>3. QED
      BY <3>1, <3>2
  <2>3. CASE i = update.i
    <3>1. Same(i)' \/ active'[i] = <<>>
      BY <1>0, <1>1, <2>1, <2>3 DEF Same, IsProfileChanged
    <3>2. QED
      BY <2>2, <3>1 DEF Through, Started
  <2>4. CASE i # update.i
    <3>1. active'[i] = active[i] /\ Same(i)' = Same(i)
      BY <1>0, <1>1, <2>1, <2>4 DEF Same
    <3>2. (i <= update.i \/ i < update.i + 1) => i < update.i
      BY <1>0, <2>4
    <3>3. QED
      BY <2>1, <2>2, <3>1, <3>2 DEF Through, Started
  <2>5. QED
    BY <2>3, <2>4
<1>3. CASE StopPublishers
  <2>1. /\ update.at = "stopPublishers" /\ update' = NextSensor("stop")
        /\ active' = active
    BY <1>3 DEF StopPublishers, AtSensor
  <2>2. update'.at = "stop" /\ update'.i = update.i + 1
    BY <1>0, <2>1, NextSensorShape DEF Phase
  <2>3. i < update.i + 1 => i <= update.i
    BY <1>0
  <2>4. Same(i)' = Same(i)
    BY <1>1, <2>1 DEF Same
  <2>5. QED
    BY <2>1, <2>2, <2>3, <2>4 DEF Through, Started
<1>4. CASE BeginStarting
  <2>1. /\ update.at = "stop" /\ update.i \notin Sensors /\ active' = active
        /\ update' = [update EXCEPT !.at = "start", !.i = 1]
    BY <1>4 DEF BeginStarting
  <2>2. update'.at = "start" /\ update'.i = 1
    BY <1>0, <2>1 DEF Update
  <2>3. i < update.i
    BY <1>0, <2>1, SensorProfiles DEF Sensors, Update, ShapeInv
  <2>4. Same(i)' = Same(i) /\ ~ (i < 1)
    BY <1>1, <2>1 DEF Same, Sensors
  <2>5. QED
    BY <2>1, <2>2, <2>3, <2>4 DEF Through, Started
<1>5. CASE StartPublishers
  <2>1. update.at = "start" /\ update.i \in Sensors /\ active' = active
    BY <1>5 DEF StartPublishers, AtSensor
  <2>2. Same(i)' = Same(i) /\ (Same(i) \/ active[i] = <<>>)
    BY <1>1, <2>1 DEF Same, Through
  <2>3. CASE NeedsRefresh(update.i) /\ Wanted(update.i) # <<>>
    <3>1. update' = [update EXCEPT !.at = "startSensor", !.profiles = Wanted(update.i),
                                   !.restart = IsProfileChanged(update.i)]
      BY <1>5, <2>3 DEF StartPublishers
    <3>2. /\ update'.at = "startSensor" /\ update'.i = update.i
          /\ update'.profiles = Wanted(update.i) /\ update'.restart = IsProfileChanged(update.i)
      BY <1>0, <3>1 DEF Update
    <3>3. QED
      BY <1>1, <2>1, <2>2, <3>2 DEF Through, Started, IsProfileChanged, Same
  <2>4. CASE ~ (NeedsRefresh(update.i) /\ Wanted(update.i) # <<>>)
    <3>1. update' = NextSensor("start")
      BY <1>5, <2>4 DEF StartPublishers
    <3>2. update'.at = "start" /\ update'.i = update.i + 1
      BY <2>1, <3>1, NextSensorShape DEF Phase
    <3>3. i = update.i => Same(i)
      BY <2>2, <2>4, SameAsItself DEF NeedsRefresh, IsProfileChanged, Same
    <3>4. i < update.i + 1 => i < update.i \/ i = update.i
      BY <1>0
    <3>5. QED
      BY <2>1, <2>2, <3>2, <3>3, <3>4 DEF Through, Started
  <2>5. QED
    BY <2>3, <2>4
<1>6. CASE StartSensor
  <2>1. /\ update.at = "startSensor" /\ update.i \in Sensors /\ update' = NextSensor("start")
        /\ active' = IF update.restart /\ active[update.i] = <<>>
                     THEN [active EXCEPT ![update.i] = update.profiles] ELSE active
    BY <1>6 DEF StartSensor, AtSensor
  <2>2. update'.at = "start" /\ update'.i = update.i + 1
    BY <2>1, NextSensorShape DEF Phase
  <2>3. Same(i) \/ active[i] = <<>>
    BY <2>1 DEF Through
  <2>4. CASE i = update.i
    <3>1. update.profiles = Wanted(i)
      BY <2>1, <2>4 DEF Through
    <3>2. CASE update.restart /\ active[i] = <<>>
      <4>1. active'[i] = Wanted(i)
        BY <1>0, <2>1, <2>4, <3>1, <3>2
      <4>2. Same(i)'
        BY <1>1, <4>1, SameAsItself DEF Same
      <4>3. QED
        BY <2>2, <4>2 DEF Through, Started
    <3>3. CASE ~ (update.restart /\ active[i] = <<>>)
      <4>1. active'[i] = active[i] /\ Same(i)' = Same(i)
        BY <1>1, <2>1, <2>4, <3>3 DEF Same
      <4>2. Started(i) => Same(i)
        BY <2>1, <2>3, <2>4, <3>3 DEF Started
      <4>3. QED
        BY <2>2, <2>3, <4>1, <4>2 DEF Through, Started
    <3>4. QED
      BY <3>2, <3>3
  <2>5. CASE i # update.i
    <3>1. active'[i] = active[i] /\ Same(i)' = Same(i)
      BY <1>0, <1>1, <2>1, <2>5 DEF Same
    <3>2. i < update.i + 1 => i < update.i
      BY <1>0, <2>5
    <3>3. QED
      BY <2>1, <2>2, <2>3, <3>1, <3>2 DEF Through, Started
  <2>6. QED
    BY <2>4, <2>5
<1>7. QED
  BY <1>2, <1>3, <1>4, <1>5, <1>6

\* At the end of an update every sensor was looked at.
LEMMA AllStarted ==
    ASSUME ShapeInv, update.at = "start", update.i \notin Sensors, NEW i \in Sensors, Started(i)
    PROVE  Same(i)
<1>1. i < update.i
  BY SensorProfiles DEF ShapeInv, Update, Sensors
<1>2. QED
  BY <1>1 DEF Started

\* The steps of an update keep its thread, its flags and the mutex.
LEMMA UpdateStepFrame ==
    ASSUME ShapeInv,
           StopSensor \/ StopPublishers \/ BeginStarting \/ StartPublishers \/ StartSensor
    PROVE  /\ update'.by = update.by /\ update.by # "none"
           /\ UNCHANGED <<setup, ask, executor, changed, monitor, main, running, faults>>
<1>0. update \in Update
  BY DEF ShapeInv
<1>1. CASE StopSensor
  <2>1. update.i \in Sensors /\ update.by # "none"
    BY <1>1 DEF StopSensor, AtSensor
  <2>2. update'.by = update.by
    <3>1. CASE NeedsRefresh(update.i)
      BY <1>0, <1>1, <3>1 DEF StopSensor, Update
    <3>2. CASE ~ NeedsRefresh(update.i)
      BY <1>1, <2>1, <3>2, NextSensorShape DEF StopSensor, Phase
    <3>3. QED
      BY <3>1, <3>2
  <2>3. QED
    BY <1>1, <2>1, <2>2 DEF StopSensor, lifeVars
<1>2. CASE StopPublishers
  BY <1>2, NextSensorShape DEF StopPublishers, AtSensor, Phase, parameterVars, lifeVars
<1>3. CASE BeginStarting
  BY <1>0, <1>3 DEF BeginStarting, Update, parameterVars, lifeVars
<1>4. CASE StartPublishers
  <2>1. update.i \in Sensors /\ update.by # "none"
    BY <1>4 DEF StartPublishers, AtSensor
  <2>2. update'.by = update.by
    <3>1. CASE NeedsRefresh(update.i) /\ Wanted(update.i) # <<>>
      BY <1>0, <1>4, <3>1 DEF StartPublishers, Update
    <3>2. CASE ~ (NeedsRefresh(update.i) /\ Wanted(update.i) # <<>>)
      BY <1>4, <2>1, <3>2, NextSensorShape DEF StartPublishers, Phase
    <3>3. QED
      BY <3>1, <3>2
  <2>3. QED
    BY <1>4, <2>1, <2>2 DEF StartPublishers, parameterVars, lifeVars
<1>5. CASE StartSensor
  BY <1>5, NextSensorShape DEF StartSensor, AtSensor, Phase, parameterVars, lifeVars
<1>6. QED
  BY <1>1, <1>2, <1>3, <1>4, <1>5

\* A step outside updates after which no update has yet to see a request.
LEMMA AskedKept ==
    ASSUME ShapeInv, AskedInv, NEW i \in Sensors, i \notin stale, running, faults = {}, ~ Coming,
           UNCHANGED <<setup, update, active>>, ask'[i] = ask[i]
    PROVE  IF update'.by = "none" THEN Same(i)' ELSE Through(i)' /\ Started(i)'
<1>1. Same(i)' = Same(i) /\ Started(i)' = Started(i) /\ (Through(i) => Through(i)')
  BY SensorKept
<1>2. QED
  BY <1>1 DEF AskedInv

\* While a sensor does not stream what is asked, an update is to come or goes on.
LEMMA AskedStep == ShapeInv /\ AskedInv /\ [Next]_vars => AskedInv'
<1> DEFINE Goal(i) == IF update'.by = "none" THEN Same(i)' ELSE Through(i)' /\ Started(i)'
<1>1. SUFFICES ASSUME ShapeInv, AskedInv, [Next]_vars, NEW i \in Sensors, i \notin stale',
                      running', faults' = {}, ~ Coming'
               PROVE  Goal(i)
  <2>1. [Next]_vars => Sensors' = Sensors
    BY DEF Next, NodeStep, vars, Sensors, SetEnable, SetProfile, SetOption, SetRate, Callback, Updating,
           Destructing, RaiseFlag, JoinTfThread, PublishDynamicTransformsReturns, MonitorWakes,
           MonitorExits, UpdateBegins, StopSensor, StopFails, StopPublishers, BeginStarting,
           StartPublishers, StartSensor, StartFails, FinishUpdate, HandleHWReset, Destroy,
           DestroyTestsTf, DestroyJoinsTf, DestroyJoinsMonitor, DestroyStopsSensors
  <2>2. QED
    BY <2>1 DEF AskedInv
<1>0. /\ (monitor = "exited" \/ destructor # "none") => ~ running
      /\ update.by = "monitor" => monitor = "holding"
      /\ update.by = "main" => main = "updating"
      /\ monitor \in {"waiting", "holding", "exited"} /\ update \in Update
      /\ DOMAIN ask = Sensors /\ changed \in [profile : BOOLEAN, align : BOOLEAN]
  BY <1>1 DEF ShapeInv
<1> HIDE DEF Goal
<1> USE <1>1
<1>2. ASSUME i \notin stale, running, faults = {}, ~ Coming, UNCHANGED <<setup, update, active>>,
             ask'[i] = ask[i]
      PROVE  Goal(i)
  BY <1>2, AskedKept DEF Goal
<1>3. ASSUME NEW k \in Sensors, NEW sip \in DOMAIN ask[k].enabled, SetEnable(k, sip)
      PROVE  Goal(i)
  BY <1>3 DEF SetEnable, Coming
<1>4. ASSUME NEW k \in Sensors, NEW newAsk, SetProfile(k, newAsk)
      PROVE  Goal(i)
  <2>1. i \notin stale /\ ask'[i] = ask[i]
    BY <1>0, <1>4 DEF SetProfile
  <2>2. QED
    BY <1>2, <1>4, <2>1 DEF SetProfile, Coming, lifeVars
<1>5. ASSUME NEW option, SetOption(option) PROVE Goal(i)
  BY <1>2, <1>5 DEF SetOption, MayAsk, Coming, lifeVars
<1>6. ASSUME NEW positive, SetRate(positive) PROVE Goal(i)
  <2>1. running
    BY <1>6 DEF SetRate, lifeVars
  <2>2. QED
    BY <1>2, <1>6, <2>1 DEF SetRate, MayAsk, Coming
<1>7. CASE RaiseFlag
  <2>1. CASE executor = "raiseProfile"
    <3>1. changed'.profile /\ monitor' = monitor /\ monitor # "holding" /\ running
      BY <1>0, <1>7, <2>1 DEF RaiseFlag, MutexFree, lifeVars
    <3>2. QED
      BY <1>0, <3>1 DEF Coming
  <2>2. CASE executor = "raiseAlign"
    <3>1. changed'.profile = changed.profile
      BY <1>0, <1>7, <2>2 DEF RaiseFlag
    <3>2. QED
      BY <1>2, <1>7, <2>2, <3>1 DEF RaiseFlag, Coming, lifeVars
  <2>3. QED
    BY <1>7, <2>1, <2>2 DEF RaiseFlag
<1>8. CASE JoinTfThread
  BY <1>2, <1>8 DEF JoinTfThread, Coming, lifeVars
<1>9. CASE PublishDynamicTransformsReturns
  BY <1>2, <1>9 DEF PublishDynamicTransformsReturns, Coming, parameterVars, lifeVars
<1>10. CASE HandleHWReset \/ StartFails \/ StopFails
  BY <1>10 DEF HandleHWReset, StartFails, StopFails
<1>11. CASE Destroy \/ MonitorExits
  BY <1>11 DEF Destroy, MonitorExits, lifeVars
<1>12. CASE Destructing
  BY <1>0, <1>12 DEF Destructing, DestroyTestsTf, DestroyJoinsTf, DestroyJoinsMonitor, DestroyStopsSensors
<1>13. CASE MonitorWakes
  BY <1>0, <1>13 DEF MonitorWakes, Coming
<1>14. CASE UpdateBegins
  <2>1. update'.by # "none" /\ update'.at = "stop" /\ update'.i = 1
    BY <1>14 DEF UpdateBegins, BeginUpdate, NoUpdate
  <2>2. ~ (i < 1)
    BY DEF Sensors
  <2>3. QED
    BY <2>1, <2>2 DEF Goal, Through, Started
<1>15. CASE StopSensor \/ StopPublishers \/ BeginStarting \/ StartPublishers \/ StartSensor
  <2>1. /\ update'.by = update.by /\ update.by # "none"
        /\ UNCHANGED <<setup, ask, executor, changed, monitor, main, running, faults>>
    BY <1>15, UpdateStepFrame
  <2>2. running /\ faults = {} /\ ~ Coming
    BY <2>1 DEF Coming
  <2>3. Through(i) /\ Started(i)
    <3>1. CASE i \notin stale
      BY <2>1, <2>2, <3>1 DEF AskedInv
    <3>2. CASE i \in stale
      <4>1. update.at = "stop" /\ i = update.i
        BY <1>15, <3>2 DEF StopSensor, StopPublishers, BeginStarting, StartPublishers,
                           StartSensor, AtSensor, parameterVars
      <4>2. QED
        BY <4>1 DEF Through, Started, Sensors
    <3>3. QED
      BY <3>1, <3>2
  <2>4. QED
    BY <1>15, <2>1, <2>3, UpdateGoesOn DEF Goal
<1>16. CASE FinishUpdate
  <2>1. /\ UNCHANGED <<setup, ask, executor, stale, active, running, faults>>
        /\ update.by # "none" /\ update.at = "start" /\ update.i \notin Sensors
        /\ update'.by = "none" /\ EndUpdate
    BY <1>16 DEF FinishUpdate, parameterVars, lifeVars, EndUpdate, NoUpdate
  <2>2. ~ Coming
    <3>1. CASE update.by = "monitor"
      BY <1>0, <2>1, <3>1 DEF EndUpdate, Coming
    <3>2. CASE update.by = "main"
      BY <1>0, <2>1, <3>2 DEF EndUpdate, Coming
    <3>3. QED
      BY <1>0, <2>1, <3>1, <3>2 DEF Update
  <2>3. Started(i)
    BY <2>1, <2>2 DEF AskedInv
  <2>4. Same(i)
    BY <2>1, <2>3, AllStarted
  <2>5. QED
    BY <2>1, <2>4 DEF Goal, Same, Wanted
<1>17. CASE UNCHANGED vars
  BY <1>2, <1>17 DEF vars, Coming, parameterVars, lifeVars
<1>18. QED
  BY <1>3, <1>4, <1>5, <1>6, <1>7, <1>8, <1>9, <1>10, <1>11, <1>12, <1>13, <1>14, <1>15, <1>16,
     <1>17 DEF Next, NodeStep, Callback, Updating

\* Patient users ask between updates: what an update did stays right.
LEMMA PatientStep == ShapeInv /\ PatientInv /\ [Next]_vars => PatientInv'
<1>0. SUFFICES ASSUME ShapeInv, PatientInv, [Next]_vars, setup.patient,
                      "stop" \notin setup.mayFail \/ faults' = {}, update'.by # "none",
                      NEW i \in Sensors
               PROVE  Through(i)' /\ (faults' = {} /\ running' => Started(i)')
  <2>1. [Next]_vars => setup' = setup /\ Sensors' = Sensors
    BY DEF Next, NodeStep, vars, Sensors, SetEnable, SetProfile, SetOption, SetRate, Callback, Updating,
           Destructing, RaiseFlag, JoinTfThread, PublishDynamicTransformsReturns, MonitorWakes,
           MonitorExits, UpdateBegins, StopSensor, StopFails, StopPublishers, BeginStarting,
           StartPublishers, StartSensor, StartFails, FinishUpdate, HandleHWReset, Destroy,
           DestroyTestsTf, DestroyJoinsTf, DestroyJoinsMonitor, DestroyStopsSensors
  <2>2. QED
    BY <2>1 DEF PatientInv
<1> DEFINE Goal == Through(i)' /\ (faults' = {} /\ running' => Started(i)')
<1>1. ASSUME UNCHANGED <<setup, ask, update>>,
             active' = active \/ (StopAll /\ ~ running'),
             faults' = {} => faults = {}, running' => running
      PROVE  Goal
  BY <1>0, <1>1, SensorKept DEF PatientInv
<1>2. ASSUME NEW request, MayAsk(request), update' = update PROVE FALSE
  BY <1>0, <1>2 DEF MayAsk, Quiet, NoUpdate
<1>3. ~ \E k \in Sensors : \/ \E sip \in DOMAIN ask[k].enabled : SetEnable(k, sip)
                           \/ \E newAsk \in AfterSomeProfile(setup.sensors[k], ask[k]) :
                                 SetProfile(k, newAsk)
  BY <1>2 DEF SetEnable, SetProfile
<1>4. ~ \E option : SetOption(option)
  BY <1>2 DEF SetOption
<1>5. ~ \E positive : SetRate(positive)
  BY <1>2 DEF SetRate
<1>6. CASE RaiseFlag \/ JoinTfThread \/ PublishDynamicTransformsReturns
  BY <1>1, <1>6 DEF RaiseFlag, JoinTfThread, PublishDynamicTransformsReturns, parameterVars,
     lifeVars
<1>7. CASE HandleHWReset
  <2>1. /\ UNCHANGED <<setup, ask, update>> /\ StopAll
        /\ "reset" \in faults'
    BY <1>7 DEF HandleHWReset, parameterVars
  <2>2. Through(i)'
    BY <1>0, <2>1, SensorKept DEF PatientInv
  <2>3. QED
    BY <2>1, <2>2
<1>8. CASE Destroy \/ Destructing
  <2>1. CASE Destroy \/ DestroyTestsTf \/ DestroyJoinsTf \/ DestroyJoinsMonitor
    BY <1>1, <2>1 DEF Destroy, DestroyTestsTf, DestroyJoinsTf, DestroyJoinsMonitor, parameterVars
  <2>2. CASE DestroyStopsSensors
    <3>1. /\ UNCHANGED <<setup, ask, update, running>> /\ (faults' = {} => faults = {})
          /\ StopAll /\ ~ running
      BY <1>0, <2>2 DEF DestroyStopsSensors, parameterVars, ShapeInv
    <3>2. QED
      BY <1>1, <3>1
  <2>3. QED
    BY <1>8, <2>1, <2>2 DEF Destructing
<1>9. CASE MonitorWakes \/ MonitorExits
  BY <1>1, <1>9 DEF MonitorWakes, MonitorExits, parameterVars, lifeVars
<1>10. CASE UpdateBegins
  <2>1. update'.at = "stop" /\ update'.i = 1 /\ ~ (i < 1)
    BY <1>10 DEF UpdateBegins, BeginUpdate, NoUpdate, Sensors
  <2>2. QED
    BY <2>1 DEF Through, Started
<1>11. CASE StopSensor \/ StopPublishers \/ BeginStarting \/ StartPublishers \/ StartSensor
  <2>1. update.by # "none" /\ UNCHANGED <<running, faults>>
    BY <1>0, <1>11, UpdateStepFrame
  <2>2. Through(i) /\ (faults = {} /\ running => Started(i))
    BY <1>0, <2>1 DEF PatientInv
  <2>3. QED
    BY <1>0, <1>11, <2>1, <2>2, UpdateGoesOn
<1>12. CASE StopFails \/ StartFails \/ FinishUpdate
  BY <1>0, <1>12 DEF StopFails, StartFails, FinishUpdate, EndUpdate, NoUpdate
<1>13. CASE UNCHANGED vars
  BY <1>1, <1>13 DEF vars, parameterVars, lifeVars
<1>14. QED
  BY <1>0, <1>3, <1>4, <1>5, <1>6, <1>7, <1>8, <1>9, <1>10, <1>11, <1>12, <1>13
     DEF Next, NodeStep, Callback, Updating

----------------------------------------------------------------------------
\* Publishers.

\* A sensor that streams nothing needs no publishers.
LEMMA NothingIsServed ==
    Sips(<<>>) = {}
BY DEF Sips

\* Steps outside updates neither start sensors nor end publishers.
LEMMA PublishersKept ==
    ASSUME ShapeInv, PublishersInv, UNCHANGED <<setup, update, published>>,
           active' = active \/ StopAll,
           changed.align => changed'.align,
           "align" \notin setup.requests => ~ changed'.align /\ executor' # "raiseAlign"
    PROVE  PublishersInv'
<1>1. /\ Guarded' = Guarded /\ Sensors' = Sensors
      /\ \A i \in Sensors : Renewed(i) => Renewed(i)'
  BY DEF Guarded, Sensors, Renewed, IsVideo
<1>0. \A i \in Sensors : active'[i] = active[i] \/ active'[i] = <<>>
  BY SomeStop
<1>2. \A i \in Sensors : Served(i) => Served(i)'
  BY <1>0, NothingIsServed DEF Served
<1>3. update.at = "stopPublishers" => update.i \in Sensors
  BY DEF ShapeInv
<1>4. \A i \in Sensors : active[i] = <<>> => active'[i] = <<>>
  BY <1>0
<1>5. QED
  BY <1>1, <1>2, <1>3, <1>4 DEF PublishersInv

\* stopRequiredSensors: a sensor stops before its publishers go.
LEMMA StopSensorServes ==
    ASSUME ShapeInv, PublishersInv, StopSensor
    PROVE  PublishersInv'
<1>0. PICK u \in Sensors : u = update.i
  BY DEF StopSensor, AtSensor
<1>1. /\ UNCHANGED <<setup, ask, executor, changed, published>>
      /\ u = update.i /\ update.at = "stop" /\ update.by # "none"
      /\ active' = IF IsProfileChanged(u) THEN [active EXCEPT ![u] = <<>>] ELSE active
  BY <1>0 DEF StopSensor, AtSensor, Stopped, outputVars
<1>2. update'.by = update.by
  BY UpdateStepFrame
<1>3. /\ Guarded' = Guarded /\ Sensors' = Sensors
      /\ \A i \in Sensors : Renewed(i) => Renewed(i)'
  BY <1>1, <1>2 DEF Guarded, Sensors, Renewed, IsVideo
<1>4. active \in [Sensors -> Seq(Profile)] /\ update \in Update
  BY DEF ShapeInv
<1>5. \A i \in Sensors : Served(i) => Served(i)'
  BY <1>1, <1>4, NothingIsServed DEF Served
<1>6. CASE NeedsRefresh(u)
  <2>1. update'.at = "stopPublishers" /\ update'.i = u
    BY <1>1, <1>4, <1>6 DEF StopSensor, Update
  <2>2. active'[u] = <<>> \/ Renewed(u)'
    <3>1. CASE IsProfileChanged(u)
      BY <1>1, <1>4, <3>1
    <3>2. CASE ~ IsProfileChanged(u)
      <4>1. IsVideo(u) /\ changed.align
        BY <1>6, <3>2 DEF NeedsRefresh
      <4>2. QED
        BY <1>1, <1>3, <4>1 DEF Renewed
    <3>3. QED
      BY <3>1, <3>2
  <2>3. QED
    BY <1>1, <1>3, <1>5, <2>1, <2>2 DEF PublishersInv
<1>7. CASE ~ NeedsRefresh(u)
  <2>1. update'.at = "stop"
    BY <1>1, <1>7, NextSensorShape DEF StopSensor, Phase
  <2>2. QED
    BY <1>1, <1>3, <1>5, <2>1 DEF PublishersInv
<1>8. QED
  BY <1>6, <1>7

\* stopPublishers takes the streams of its own sensor alone.
LEMMA StopPublishersServes ==
    ASSUME ShapeInv, PublishersInv, StopPublishers
    PROVE  PublishersInv'
<1>0. PICK u \in Sensors : u = update.i
  BY DEF StopPublishers, AtSensor
<1>1. /\ UNCHANGED <<setup, ask, executor, changed, active>>
      /\ u = update.i /\ update.at = "stopPublishers" /\ update.by # "none"
      /\ update' = NextSensor("stop")
  BY <1>0 DEF StopPublishers, AtSensor, parameterVars
<1>2. update'.by = update.by /\ update'.at = "stop"
  BY <1>1, NextSensorShape DEF Phase
<1>3. /\ Guarded' = Guarded /\ Sensors' = Sensors
      /\ \A i \in Sensors : Renewed(i) => Renewed(i)'
  BY <1>1, <1>2 DEF Guarded, Sensors, Renewed, IsVideo
<1>4. /\ "streams" \in DOMAIN published'
      /\ published'.streams = published.streams \ Sips(update.profiles)
  BY DEF StopPublishers, SipsOf, PublishersInv
<1>5. Sips(update.profiles) \subseteq Sips(setup.sensors[u])
  BY <1>1, StreamsOfChosen DEF ShapeInv
<1>6. ASSUME NEW i \in Sensors, i # u, Served(i) PROVE Served(i)'
  <2>1. Sips(active[i]) \subseteq Sips(setup.sensors[i])
    BY StreamsOfChosen DEF ShapeInv
  <2>2. Sips(setup.sensors[i]) \cap Sips(setup.sensors[u]) = {}
    BY <1>1, <1>6, SensorProfiles DEF ShapeInv
  <2>3. QED
    BY <1>1, <1>4, <1>5, <1>6, <2>1, <2>2 DEF Served
<1>7. Guarded => Served(u)' \/ Renewed(u)'
  <2>1. Guarded => active[u] = <<>> \/ Renewed(u)
    BY <1>1 DEF PublishersInv
  <2>2. active[u] = <<>> => Served(u)'
    BY <1>1, NothingIsServed DEF Served
  <2>3. QED
    BY <1>1, <1>3, <2>1, <2>2
<1>8. Guarded => \A i \in Sensors : Served(i)' \/ Renewed(i)'
  BY <1>3, <1>6, <1>7 DEF PublishersInv
<1>9. QED
  BY <1>1, <1>2, <1>3, <1>4, <1>8 DEF PublishersInv

\* startPublishers comes before the sensor starts.
LEMMA StartPublishersServes ==
    ASSUME ShapeInv, PatientInv, PublishersInv, StartPublishers
    PROVE  PublishersInv'
<1>0. PICK u \in Sensors : u = update.i
  BY DEF StartPublishers, AtSensor
<1>1. /\ UNCHANGED <<setup, ask, executor, changed, active>>
      /\ u = update.i /\ update.at = "start" /\ update.by # "none"
  BY <1>0 DEF StartPublishers, AtSensor, parameterVars
<1>2. update'.by = update.by
  BY UpdateStepFrame
<1>3. /\ Guarded' = Guarded /\ Sensors' = Sensors
      /\ \A i \in Sensors : Renewed(i) => Renewed(i)'
  BY <1>1, <1>2 DEF Guarded, Sensors, Renewed, IsVideo
<1>4. update \in Update /\ u \in Int /\ Sensors \subseteq Int /\ active[u] \in Seq(Profile)
      /\ Wanted(u) \in Seq(Profile)
  BY <1>1, SensorProfiles DEF ShapeInv, Update, Sensors
<1>5. Guarded => Served(u) \/ Sips(active[u]) = Sips(Wanted(u))
  <2>1. CASE "align" \notin setup.requests
    BY <1>1, <2>1 DEF PublishersInv, Guarded, Renewed
  <2>2. CASE setup.patient /\ "stop" \notin setup.mayFail
    <3>1. Same(u) \/ active[u] = <<>>
      BY <1>1, <2>2 DEF PatientInv, Through
    <3>2. QED
      BY <1>4, <3>1, SameStreams, NothingIsServed DEF Same, Served
  <2>3. QED
    BY <2>1, <2>2 DEF Guarded
<1>6. CASE NeedsRefresh(u) /\ Wanted(u) # <<>>
  <2>1. /\ update'.at = "startSensor" /\ update'.i = u /\ update'.profiles = Wanted(u)
    BY <1>1, <1>4, <1>6 DEF StartPublishers, Update
  <2>2. /\ "streams" \in DOMAIN published'
        /\ published'.streams = published.streams \cup Sips(Wanted(u))
    BY <1>1, <1>6 DEF StartPublishers, SipsOf, PublishersInv
  <2>3. \A i \in Sensors : Served(i) => Served(i)'
    BY <1>1, <2>2 DEF Served
  <2>4. Guarded => Served(u)'
    BY <1>1, <1>5, <2>2, <2>3 DEF Served
  <2>5. ASSUME NEW i \in Sensors, i <= u, Guarded PROVE Served(i)'
    <3>1. i < u \/ i = u
      BY <1>4, <2>5
    <3>2. QED
      BY <1>1, <2>3, <2>4, <2>5, <3>1 DEF PublishersInv
  <2>6. QED
    BY <1>1, <1>3, <2>1, <2>2, <2>3, <2>5 DEF PublishersInv
<1>7. CASE ~ (NeedsRefresh(u) /\ Wanted(u) # <<>>)
  <2>1. update' = NextSensor("start") /\ published' = published
    BY <1>1, <1>7 DEF StartPublishers
  <2>2. update'.at = "start" /\ update'.i = u + 1
    BY <1>1, <2>1, NextSensorShape DEF Phase
  <2>3. \A i \in Sensors : Served(i)' = Served(i)
    BY <1>1, <2>1 DEF Served
  <2>4. Guarded => Served(u)
    <3>1. CASE ~ NeedsRefresh(u)
      BY <1>1, <3>1 DEF PublishersInv, NeedsRefresh, Renewed
    <3>2. CASE Wanted(u) = <<>>
      BY <1>5, <3>2, NothingIsServed DEF Served
    <3>3. QED
      BY <1>7, <3>1, <3>2
  <2>5. ASSUME NEW i \in Sensors, i < u + 1, Guarded PROVE Served(i)'
    <3>1. i < u \/ i = u
      BY <1>4, <2>5
    <3>2. QED
      BY <1>1, <2>3, <2>4, <2>5, <3>1 DEF PublishersInv
  <2>6. QED
    BY <1>1, <1>3, <2>1, <2>2, <2>3, <2>5 DEF PublishersInv
<1>8. QED
  BY <1>6, <1>7

\* A sensor starts with profiles that have their publishers.
LEMMA StartSensorServes ==
    ASSUME ShapeInv, PublishersInv, StartSensor
    PROVE  PublishersInv'
<1>0. PICK u \in Sensors : u = update.i
  BY DEF StartSensor, AtSensor
<1>1. /\ UNCHANGED <<setup, ask, executor, changed, published>>
      /\ u = update.i /\ update.at = "startSensor" /\ update.by # "none"
      /\ active' = active \/ active' = [active EXCEPT ![u] = update.profiles]
      /\ update' = NextSensor("start")
  BY <1>0 DEF StartSensor, AtSensor, parameterVars, outputVars
<1>2. update'.by = update.by /\ update'.at = "start" /\ update'.i = u + 1
  BY <1>1, NextSensorShape DEF Phase
<1>3. /\ Guarded' = Guarded /\ Sensors' = Sensors
      /\ \A i \in Sensors : Renewed(i) => Renewed(i)'
  BY <1>1, <1>2 DEF Guarded, Sensors, Renewed, IsVideo
<1>4. active \in [Sensors -> Seq(Profile)] /\ u \in Int /\ Sensors \subseteq Int
  BY <1>1 DEF ShapeInv, Sensors
<1>5. Guarded => \A i \in Sensors : Served(i) => Served(i)'
  BY <1>1, <1>4 DEF Served, PublishersInv
<1>6. ASSUME NEW i \in Sensors, i < u + 1 PROVE i <= u
  BY <1>4, <1>6
<1>7. QED
  BY <1>1, <1>2, <1>3, <1>5, <1>6 DEF PublishersInv

\* When an update ends, every stream that is delivered has its publisher.
LEMMA EndServes ==
    ASSUME ShapeInv, PublishersInv, FinishUpdate \/ StartFails
    PROVE  PublishersInv'
<1>1. /\ UNCHANGED <<setup, executor, active>> /\ EndUpdate
      /\ "streams" \in DOMAIN published' /\ published'.streams = published.streams
  <2>1. CASE FinishUpdate
    BY <2>1 DEF FinishUpdate, parameterVars, PublishersInv
  <2>2. CASE StartFails
    BY <2>2 DEF StartFails, parameterVars, outputVars, PublishersInv
  <2>3. QED
    BY <2>1, <2>2
<1>2. update'.at = "stop" /\ (changed'.align => changed.align)
  BY <1>1 DEF EndUpdate, NoUpdate, FlagsCleared
<1>3. Guarded' = Guarded /\ Sensors' = Sensors /\ \A i \in Sensors : Served(i)' = Served(i)
  BY <1>1 DEF Guarded, Sensors, Served
<1>4. ASSUME Guarded, NEW i \in Sensors PROVE Served(i)
  <2>1. CASE FinishUpdate
    <3>1. update.at = "start" /\ i < update.i
      BY <2>1, SensorProfiles DEF FinishUpdate, ShapeInv, Update, Sensors
    <3>2. QED
      BY <1>4, <3>1 DEF PublishersInv
  <2>2. CASE StartFails
    BY <1>4, <2>2 DEF StartFails, PublishersInv, Guarded, Renewed
  <2>3. QED
    BY <2>1, <2>2
<1>5. QED
  BY <1>1, <1>2, <1>3, <1>4 DEF PublishersInv

\* Every step keeps the publishers of what is delivered.
LEMMA PublishersStep == ShapeInv /\ PatientInv /\ PublishersInv /\ [Next]_vars => PublishersInv'
<1> SUFFICES ASSUME ShapeInv, PatientInv, PublishersInv, [Next]_vars PROVE PublishersInv'
  OBVIOUS
<1>0. "align" \notin setup.requests => ~ changed.align /\ executor # "raiseAlign"
  BY DEF PublishersInv, Guarded
<1>1. ASSUME NEW i \in Sensors, NEW sip \in DOMAIN ask[i].enabled, SetEnable(i, sip)
      PROVE  PublishersInv'
  BY <1>0, <1>1, PublishersKept DEF SetEnable, outputVars
<1>2. ASSUME NEW i \in Sensors, NEW newAsk, SetProfile(i, newAsk)
      PROVE  PublishersInv'
  BY <1>0, <1>2, PublishersKept DEF SetProfile, outputVars
<1>3. ASSUME NEW option \in {"align", "rgbd", "unite"}, SetOption(option)
      PROVE  PublishersInv'
  <2>1. /\ UNCHANGED <<setup, update, published, active, changed>>
        /\ option \in setup.requests
        /\ executor' = CASE option = "align" -> "raiseAlign" [] option = "rgbd" -> "raiseProfile"
                         [] OTHER -> "idle"
    BY <1>3 DEF SetOption, MayAsk, outputVars
  <2>2. option # "align" => executor' # "raiseAlign"
    BY <2>1
  <2>3. QED
    BY <1>0, <2>1, <2>2, PublishersKept
<1>4. ASSUME NEW positive, SetRate(positive) PROVE PublishersInv'
  BY <1>0, <1>4, PublishersKept DEF SetRate, outputVars
<1>5. CASE RaiseFlag
  <2>1. /\ changed \in [profile : BOOLEAN, align : BOOLEAN]
        /\ UNCHANGED <<setup, update, published, active>> /\ executor' = "idle"
        /\ changed' = IF executor = "raiseAlign" THEN [changed EXCEPT !.align = TRUE]
                                                 ELSE [changed EXCEPT !.profile = TRUE]
    BY <1>5 DEF RaiseFlag, ShapeInv, outputVars
  <2>2. /\ changed.align => changed'.align
        /\ executor # "raiseAlign" => changed'.align = changed.align
    BY <2>1
  <2>3. QED
    BY <1>0, <2>1, <2>2, PublishersKept
<1>6. CASE JoinTfThread \/ PublishDynamicTransformsReturns
  BY <1>0, <1>6, PublishersKept DEF JoinTfThread, PublishDynamicTransformsReturns, parameterVars,
     outputVars
<1>7. CASE HandleHWReset \/ Destroy
  BY <1>0, <1>7, PublishersKept DEF HandleHWReset, Destroy, parameterVars, outputVars
<1>8. CASE Destructing
  BY <1>0, <1>8, PublishersKept DEF Destructing, DestroyTestsTf, DestroyJoinsTf, DestroyJoinsMonitor,
     DestroyStopsSensors, parameterVars, outputVars
<1>9. CASE MonitorWakes \/ MonitorExits
  BY <1>0, <1>9, PublishersKept DEF MonitorWakes, MonitorExits, parameterVars, outputVars
<1>10. CASE UpdateBegins
  <2>1. /\ UNCHANGED <<setup, executor, changed, active, published>>
        /\ update.by = "none" /\ update'.at = "stop"
    BY <1>10 DEF UpdateBegins, BeginUpdate, NoUpdate, parameterVars, outputVars
  <2>2. Guarded => \A i \in Sensors : Served(i)
    BY <2>1 DEF PublishersInv, Renewed
  <2>3. Guarded' = Guarded /\ Sensors' = Sensors /\ \A i \in Sensors : Served(i)' = Served(i)
    BY <2>1 DEF Guarded, Sensors, Served
  <2>4. QED
    BY <2>1, <2>2, <2>3 DEF PublishersInv
<1>11. CASE StopSensor \/ StopFails
  <2>1. CASE StopFails
    <3>1. /\ UNCHANGED <<setup, published, changed, executor>> /\ "stop" \in setup.mayFail
      BY <2>1 DEF StopFails, outputVars
    <3>2. QED
      BY <3>1 DEF PublishersInv, Guarded
  <2>2. QED
    BY <1>11, <2>1, StopSensorServes
<1>12. CASE StopPublishers
  BY <1>12, StopPublishersServes
<1>13. CASE BeginStarting
  <2>1. /\ UNCHANGED <<setup, executor, changed, active, published>>
        /\ update'.at = "start" /\ update'.i = 1 /\ update'.by = update.by
    BY <1>13 DEF BeginStarting, parameterVars, outputVars, ShapeInv, Update
  <2>2. /\ Guarded' = Guarded /\ Sensors' = Sensors
        /\ \A i \in Sensors : Served(i)' = Served(i) /\ (Renewed(i) => Renewed(i)') /\ ~ (i < 1)
    BY <2>1 DEF Guarded, Sensors, Served, Renewed, IsVideo
  <2>3. QED
    BY <2>1, <2>2 DEF PublishersInv
<1>14. CASE StartPublishers
  BY <1>14, StartPublishersServes
<1>15. CASE StartSensor
  BY <1>15, StartSensorServes
<1>16. CASE FinishUpdate \/ StartFails
  BY <1>16, EndServes
<1>17. CASE UNCHANGED vars
  BY <1>0, <1>17, PublishersKept DEF vars, parameterVars, outputVars
<1>18. QED
  BY <1>1, <1>2, <1>3, <1>4, <1>5, <1>6, <1>7, <1>8, <1>9, <1>10, <1>11, <1>12, <1>13, <1>14,
     <1>15, <1>16, <1>17 DEF Next, NodeStep, Callback, Updating

----------------------------------------------------------------------------
\* Transforms: bags with one of each.

\* Bags of sets are put together and taken apart like the sets.
LEMMA BagsOfSets ==
    ASSUME NEW A, NEW B
    PROVE  /\ SetToBag(A) (-) SetToBag(B) = SetToBag(A \ B)
           /\ A \cap B = {} => SetToBag(A) (+) SetToBag(B) = SetToBag(A \cup B)
<1>1. SetToBag(A) (-) SetToBag(B) = SetToBag(A \ B)
  <2> DEFINE left == [e \in A |-> IF e \in B THEN 1 - 1 ELSE 1]
  <2>1. /\ DOMAIN left = A
        /\ \A e \in A : left[e] = IF e \in B THEN 0 ELSE 1
    OBVIOUS
  <2>2. {d \in A : left[d] > 0} = A \ B
    BY <2>1
  <2>3. SetToBag(A) (-) SetToBag(B) = [e \in {d \in A : left[d] > 0} |-> left[e]]
    BY DEF (-), SetToBag
  <2> HIDE DEF left
  <2>4. [e \in A \ B |-> left[e]] = [e \in A \ B |-> 1]
    BY <2>1
  <2>5. QED
    BY <2>2, <2>3, <2>4 DEF SetToBag
<1>2. ASSUME A \cap B = {}
      PROVE  SetToBag(A) (+) SetToBag(B) = SetToBag(A \cup B)
  BY <1>2 DEF (+), SetToBag
<1>3. QED
  BY <1>1, <1>2

\* A transform names its stream.
LEMMA FramesNameTheirStream ==
    ASSUME NEW sip \in Sip, NEW t \in Frames(sip)
    PROVE  t[2] = sip
<1>1. sip = <<sip[1], sip[2]>>
  BY DEF Sip
<1>2. QED
  BY <1>1 DEF Frames, TfsOf, SipOf

\* Streams share no transforms.
LEMMA FramesOfStreams ==
    ASSUME NEW S \in SUBSET Sip, NEW G \in SUBSET Sip
    PROVE  /\ FramesOf(S) \ FramesOf(G) = FramesOf(S \ G)
           /\ FramesOf(S) \cup FramesOf(G) = FramesOf(S \cup G)
           /\ S \cap G = {} => FramesOf(S) \cap FramesOf(G) = {}
<1>1. \A sip \in Sip : \A t \in Frames(sip) : t[2] = sip
  BY FramesNameTheirStream
<1> HIDE DEF Frames
<1>2. FramesOf(S) \cup FramesOf(G) = FramesOf(S \cup G)
  BY DEF FramesOf
<1>3. \A R \in SUBSET Sip : \A t \in FramesOf(R) : t[2] \in R /\ t \in Frames(t[2])
  BY <1>1 DEF FramesOf
<1>4. \A R \in SUBSET Sip : \A sip \in R : Frames(sip) \subseteq FramesOf(R)
  BY DEF FramesOf
<1> HIDE DEF FramesOf
<1>5. FramesOf(S) \ FramesOf(G) = FramesOf(S \ G)
  <2>1. S \ G \in SUBSET Sip
    OBVIOUS
  <2>2. ASSUME NEW t \in FramesOf(S), t \notin FramesOf(G) PROVE t \in FramesOf(S \ G)
    <3>1. t[2] \in S /\ t \in Frames(t[2])
      BY <1>3
    <3>2. t[2] \notin G
      BY <1>4, <2>2, <3>1
    <3>3. QED
      BY <1>4, <2>1, <3>1, <3>2
  <2>3. ASSUME NEW t \in FramesOf(S \ G) PROVE t \in FramesOf(S) /\ t \notin FramesOf(G)
    <3>1. t[2] \in S \ G /\ t \in Frames(t[2])
      BY <1>3, <2>1
    <3>2. QED
      BY <1>3, <1>4, <3>1
  <2>4. QED
    BY <2>2, <2>3
<1>6. ASSUME S \cap G = {} PROVE FramesOf(S) \cap FramesOf(G) = {}
  BY <1>3, <1>6
<1>7. QED
  BY <1>2, <1>5, <1>6

\* The transforms of profiles are those of their streams.
LEMMA TransformsOfProfiles ==
    ASSUME NEW profiles, ~ options.unite
    PROVE  AllTfs(profiles) = SetToBag(FramesOf(Sips(profiles)))
<1>1. \A p : TfsOf(p) = Frames(SipOf(p))
  BY DEF Frames, TfsOf, SipOf, AlignedFrame
<1>2. UNION {TfsOf(profiles[n]) : n \in 1..Len(profiles)} = FramesOf(Sips(profiles))
  BY <1>1 DEF FramesOf, Sips
<1>3. QED
  BY <1>2 DEF AllTfs

\* The streams of profiles are streams.
LEMMA StreamsOfProfiles ==
    ASSUME NEW s \in Seq(Profile)
    PROVE  Sips(s) \subseteq Sip
<1>1. \A n \in 1..Len(s) : s[n] \in Profile
  BY ElementOfSeq
<1>2. \A p \in Profile : SipOf(p) \in Sip
  BY DEF Profile, SipOf, Sip
<1>3. QED
  BY <1>1, <1>2 DEF Sips

----------------------------------------------------------------------------
\* What there is for the outside, while users wait.

\* A flag is raised by who asked, and patient users ask when nothing goes on.
LEMMA FlagsStep == ShapeInv /\ FlagsInv /\ [Next]_vars => FlagsInv'
<1> SUFFICES ASSUME ShapeInv, FlagsInv, [Next]_vars PROVE FlagsInv'
  OBVIOUS
<1> DEFINE raises == executor \in {"raiseProfile", "raiseAlign"}
<1>0. update \in Update
  BY DEF ShapeInv
<1>1. ASSUME UNCHANGED <<setup, update, monitor, main, changed>>, executor' = executor
      PROVE  FlagsInv'
  BY <1>1 DEF FlagsInv
<1>2. ASSUME UNCHANGED <<setup, update>>, ~ raises' PROVE FlagsInv'
  BY <1>2 DEF FlagsInv
<1>3. ASSUME NEW request, MayAsk(request), UNCHANGED <<setup, update, monitor, main, changed>>
      PROVE  FlagsInv'
  <2>1. setup.patient => Quiet
    BY <1>3 DEF MayAsk
  <2>2. setup.patient => /\ update.by = "none" /\ monitor # "holding" /\ main = "done"
                         /\ ~ changed.profile /\ ~ changed.align
    BY <2>1 DEF Quiet, NoUpdate
  <2>3. QED
    BY <1>3, <2>2 DEF FlagsInv
<1>4. ASSUME NEW i \in Sensors, NEW sip, SetEnable(i, sip) PROVE FlagsInv'
  BY <1>3, <1>4 DEF SetEnable
<1>5. ASSUME NEW i \in Sensors, NEW newAsk, SetProfile(i, newAsk) PROVE FlagsInv'
  BY <1>3, <1>5 DEF SetProfile
<1>6. ASSUME NEW option, SetOption(option) PROVE FlagsInv'
  BY <1>3, <1>6 DEF SetOption
<1>7. ASSUME NEW positive, SetRate(positive) PROVE FlagsInv'
  BY <1>3, <1>7 DEF SetRate
<1>8. CASE Callback
  BY <1>2, <1>8 DEF Callback, RaiseFlag, JoinTfThread
<1>9. CASE PublishDynamicTransformsReturns \/ HandleHWReset \/ Destroy \/ Destructing
  BY <1>1, <1>9 DEF PublishDynamicTransformsReturns, HandleHWReset, Destroy, Destructing,
     DestroyTestsTf, DestroyJoinsTf, DestroyJoinsMonitor, DestroyStopsSensors, parameterVars
<1>10. CASE MonitorWakes \/ MonitorExits
  <2>1. /\ UNCHANGED <<setup, update, main, changed, executor>>
        /\ monitor' = "exited" \/ changed.profile \/ changed.align
    BY <1>10 DEF MonitorWakes, MonitorExits, parameterVars
  <2>2. QED
    BY <2>1 DEF FlagsInv
<1>11. CASE UpdateBegins
  <2>1. /\ UNCHANGED <<setup, executor>> /\ update'.by \in {"main", "monitor"}
        /\ main = "setup" \/ monitor = "holding"
    BY <1>11 DEF UpdateBegins, BeginUpdate, NoUpdate, parameterVars
  <2>2. QED
    BY <2>1 DEF FlagsInv
<1>12. CASE \/ StopSensor \/ StopPublishers \/ BeginStarting \/ StartPublishers \/ StartSensor
           \/ StopFails
  <2>1. /\ update'.by = update.by /\ update.by # "none"
        /\ UNCHANGED <<setup, executor>>
    BY <1>12, UpdateStepFrame, FailedStopShape DEF StopFails
  <2>2. QED
    BY <2>1 DEF FlagsInv
<1>13. CASE StartFails \/ FinishUpdate
  <2>1. /\ update' = NoUpdate /\ UNCHANGED <<setup, executor>> /\ update.by # "none"
    BY <1>13 DEF StartFails, FinishUpdate, EndUpdate, AtSensor, parameterVars
  <2>2. QED
    BY <2>1 DEF FlagsInv, NoUpdate
<1>14. CASE UNCHANGED vars
  BY <1>1, <1>14 DEF vars, parameterVars
<1>15. QED
  BY <1>4, <1>5, <1>6, <1>7, <1>8, <1>9, <1>10, <1>11, <1>12, <1>13, <1>14 DEF Next, NodeStep, Updating

\* The publishers of a sensor are for streams of its own.
LEMMA ShownStreams ==
    ASSUME ShapeInv, NEW i \in Sensors
    PROVE  Shown(i) \subseteq Sips(setup.sensors[i]) /\ Shown(i) \subseteq Sip
<1>1. Sips(active[i]) \subseteq Sips(setup.sensors[i])
  BY StreamsOfChosen DEF ShapeInv
<1>2. update.at \in {"stopPublishers", "startSensor"} /\ i = update.i
        => Sips(update.profiles) \subseteq Sips(setup.sensors[i])
  BY StreamsOfChosen DEF ShapeInv
<1>3. Sips(setup.sensors[i]) \subseteq Sip
  BY SensorProfiles, StreamsOfProfiles DEF ShapeInv
<1>4. QED
  BY <1>1, <1>2, <1>3 DEF Shown

\* Steps that renew no publishers keep the outputs when the sensors show what they did.
LEMMA OutputsKept ==
    ASSUME Outputs, setup' = setup, options'.unite = options.unite,
           published'.streams = published.streams, tfs' = tfs, seen' = seen,
           \A i \in Sensors : Shown(i)' = Shown(i),
           update'.by = "none" => sentTfs' = tfs \/ (update.by = "none" /\ sentTfs' = sentTfs),
           (update.at = "stopPublishers" => active[update.i] = <<>> \/ NeedsRefresh(update.i))'
    PROVE  Outputs'
<1>1. Sensors' = Sensors
  BY DEF Sensors
<1>2. UNION {Shown(i)' : i \in Sensors} = UNION {Shown(i) : i \in Sensors}
  OBVIOUS
<1>3. QED
  BY <1>1, <1>2 DEF Outputs

\* While a sensor streams what it did and nobody asks, it needs to be renewed or not.
LEMMA RefreshKept ==
    ASSUME NEW i, UNCHANGED <<setup, ask, changed>>, active'[i] = active[i]
    PROVE  NeedsRefresh(i)' = NeedsRefresh(i) /\ Wanted(i)' = Wanted(i)
BY DEF NeedsRefresh, IsProfileChanged, IsVideo, Wanted

\* The publishers of a sensor outlive its stop.
LEMMA StopSensorOutputs ==
    ASSUME ShapeInv, Outputs, StopSensor
    PROVE  Outputs'
<1>0. PICK u \in Sensors : u = update.i
  BY DEF StopSensor, AtSensor
<1>1. /\ UNCHANGED <<setup, ask, options, changed, published, seen, tfs>>
      /\ u = update.i /\ update.at = "stop"
      /\ active' = IF IsProfileChanged(u) THEN [active EXCEPT ![u] = <<>>] ELSE active
  BY <1>0 DEF StopSensor, AtSensor, Stopped, outputVars
<1>2. update'.by # "none"
  BY UpdateStepFrame
<1>3. /\ active \in [Sensors -> Seq(Profile)] /\ update \in Update
      /\ u \in Int /\ Sensors \subseteq Int
  BY DEF ShapeInv, Sensors
<1>4. \A i \in Sensors : i # u => active'[i] = active[i]
  BY <1>1, <1>3
<1>5. \A i \in Sensors : i # u => NeedsRefresh(i)' = NeedsRefresh(i)
  BY <1>1, <1>4, RefreshKept
<1>6. Shown(u) = Sips(active[u])
  BY <1>1, <1>3 DEF Shown, Withdrawn
<1>7. CASE NeedsRefresh(u)
  <2>1. update'.at = "stopPublishers" /\ update'.i = u /\ update'.profiles = active[u]
    BY <1>1, <1>3, <1>7 DEF StopSensor, Update
  <2>2. Shown(u)' = Shown(u)
    BY <1>6, <2>1 DEF Shown
  <2>3. \A i \in Sensors : i # u => Shown(i)' = Shown(i)
    BY <1>1, <1>4, <1>5, <2>1 DEF Shown, Withdrawn
  <2>4. active'[u] = <<>> \/ NeedsRefresh(u)'
    <3>1. CASE IsProfileChanged(u)
      BY <1>1, <1>3, <3>1
    <3>2. CASE ~ IsProfileChanged(u)
      BY <1>1, <1>7, <3>2, RefreshKept
    <3>3. QED
      BY <3>1, <3>2
  <2>5. QED
    BY <1>1, <1>2, <2>1, <2>2, <2>3, <2>4, OutputsKept
<1>8. CASE ~ NeedsRefresh(u)
  <2>1. update'.at = "stop" /\ update'.i = u + 1
    BY <1>1, <1>8, NextSensorShape DEF StopSensor, Phase
  <2>2. active' = active /\ ~ NeedsRefresh(u)'
    BY <1>1, <1>8, RefreshKept DEF NeedsRefresh
  <2>3. Shown(u)' = Shown(u)
    BY <1>6, <2>1, <2>2 DEF Shown, Withdrawn
  <2>4. \A i \in Sensors : i # u => (i < u + 1 <=> i < u)
    BY <1>3
  <2>5. \A i \in Sensors : i # u => Shown(i)' = Shown(i)
    BY <1>1, <1>4, <1>5, <2>1, <2>4 DEF Shown, Withdrawn
  <2>6. QED
    BY <1>1, <1>2, <2>1, <2>3, <2>5, OutputsKept
<1>9. QED
  BY <1>7, <1>8

\* The members of a family of sets lose the same.
LEMMA UnionLess ==
    ASSUME NEW D, NEW before, NEW after, NEW gone,
           \A i \in D : after[i] = before[i] \ gone
    PROVE  UNION {after[i] : i \in D} = (UNION {before[i] : i \in D}) \ gone
<1> DEFINE now == UNION {after[i] : i \in D}
           past == UNION {before[i] : i \in D}
<1>1. \A x : x \in now <=> \E i \in D : x \in after[i]
  OBVIOUS
<1>2. \A x : x \in past <=> \E i \in D : x \in before[i]
  OBVIOUS
<1> HIDE DEF now, past
<1>3. \A x : x \in now <=> x \in past /\ x \notin gone
  BY <1>1, <1>2
<1>4. now \subseteq (past \ gone) /\ (past \ gone) \subseteq now
  BY <1>3
<1>5. QED
  BY <1>4 DEF now, past

\* An empty member of a family of sets grows.
LEMMA UnionMore ==
    ASSUME NEW D, NEW before, NEW after, NEW u \in D, NEW new,
           before[u] = {}, after[u] = new, \A i \in D : i # u => after[i] = before[i]
    PROVE  UNION {after[i] : i \in D} = (UNION {before[i] : i \in D}) \cup new
<1> DEFINE now == UNION {after[i] : i \in D}
           past == UNION {before[i] : i \in D}
<1>1. \A x : x \in now <=> \E i \in D : x \in after[i]
  OBVIOUS
<1>2. \A x : x \in past <=> \E i \in D : x \in before[i]
  OBVIOUS
<1> HIDE DEF now, past
<1>3. \A x : x \in now <=> x \in past \/ x \in new
  BY <1>1, <1>2
<1>4. now \subseteq (past \cup new) /\ (past \cup new) \subseteq now
  BY <1>3
<1>5. QED
  BY <1>4 DEF now, past

\* stopPublishers takes down the publishers and transforms of its sensor.
LEMMA StopPublishersOutputs ==
    ASSUME ShapeInv, Outputs, "streams" \in DOMAIN published, StopPublishers
    PROVE  Outputs'
<1>0. PICK u \in Sensors : u = update.i
  BY DEF StopPublishers, AtSensor
<1>1. /\ UNCHANGED <<setup, ask, options, changed, active>>
      /\ u = update.i /\ update.at = "stopPublishers" /\ update' = NextSensor("stop")
      /\ seen \ Motion \subseteq seen'
      /\ tfs' = tfs (-) AllTfs(update.profiles)
  BY <1>0 DEF StopPublishers, AtSensor, EraseTfs, parameterVars
<1>2. /\ update'.by = update.by /\ update.by # "none"
      /\ update'.at = "stop" /\ update'.i = u + 1
  BY <1>1, NextSensorShape, UpdateStepFrame DEF Phase
<1>3. u \in Int /\ Sensors \subseteq Int /\ Sensors' = Sensors
  BY <1>1 DEF Sensors
<1> DEFINE gone == Sips(update.profiles)
<1>4. published'.streams = published.streams \ gone
  BY DEF StopPublishers, SipsOf
<1>5. Shown(u) = gone
  BY <1>1 DEF Shown
<1>6. Shown(u)' = {}
  <2>1. NeedsRefresh(u)' \/ active'[u] = <<>>
    BY <1>1, RefreshKept DEF Outputs
  <2>2. u < u + 1
    BY <1>3
  <2>3. QED
    BY <1>2, <2>1, <2>2, NothingIsServed DEF Shown, Withdrawn
<1>7. ASSUME NEW i \in Sensors, i # u
      PROVE  Shown(i)' = Shown(i) /\ Shown(i) \cap gone = {}
  <2>1. NeedsRefresh(i)' = NeedsRefresh(i)
    BY <1>1, RefreshKept
  <2>2. i < u + 1 <=> i < u
    BY <1>3, <1>7
  <2>3. Shown(i)' = Shown(i)
    BY <1>1, <1>2, <1>7, <2>1, <2>2 DEF Shown, Withdrawn
  <2>4. Sips(setup.sensors[i]) \cap Sips(setup.sensors[u]) = {}
    BY <1>7, SensorProfiles DEF ShapeInv
  <2>5. /\ Shown(i) \subseteq Sips(setup.sensors[i])
        /\ Shown(u) \subseteq Sips(setup.sensors[u])
    BY ShownStreams
  <2>6. Shown(i) \cap Shown(u) = {}
    BY <2>4, <2>5
  <2>7. QED
    BY <1>5, <2>3, <2>6
<1> HIDE DEF gone
<1>8. UNION {Shown(i)' : i \in Sensors} = (UNION {Shown(i) : i \in Sensors}) \ gone
  <2>1. PICK before : before = [i \in Sensors |-> Shown(i)]
    OBVIOUS
  <2>2. PICK after : after = [i \in Sensors |-> Shown(i)']
    OBVIOUS
  <2>3. /\ before[u] = gone /\ after[u] = {}
        /\ \A i \in Sensors : i # u => after[i] = before[i] /\ before[i] \cap gone = {}
    BY <1>5, <1>6, <1>7, <2>1, <2>2
  <2>4. \A i \in Sensors : after[i] = before[i] \ gone
    BY ONLY <2>3
  <2>5. UNION {after[i] : i \in Sensors} = (UNION {before[i] : i \in Sensors}) \ gone
    BY ONLY <2>4, UnionLess
  <2>6. /\ {Shown(i)' : i \in Sensors} = {after[i] : i \in Sensors}
        /\ {Shown(i) : i \in Sensors} = {before[i] : i \in Sensors}
    BY <2>1, <2>2
  <2>7. QED
    BY <2>5, <2>6
<1>9. published'.streams = UNION {Shown(i)' : i \in Sensors}
  BY <1>4, <1>8 DEF Outputs
<1>10. tfs' = SetToBag(FramesOf(published'.streams))
  <2>1. published.streams \in SUBSET Sip /\ gone \in SUBSET Sip
    BY <1>5, ShownStreams DEF Outputs
  <2>2. AllTfs(update.profiles) = SetToBag(FramesOf(gone))
    BY TransformsOfProfiles DEF Outputs, gone
  <2>3. tfs' = SetToBag(FramesOf(published.streams) \ FramesOf(gone))
    BY <1>1, <2>2, BagsOfSets DEF Outputs
  <2>4. FramesOf(published.streams) \ FramesOf(gone) = FramesOf(published.streams \ gone)
    BY <2>1, FramesOfStreams
  <2>5. QED
    BY <1>4, <2>3, <2>4
<1>11. \A sip \in published'.streams : sip[1] \in {"color", "depth"} => sip[1] \in seen'
  <2>1. "color" \notin Motion /\ "depth" \notin Motion
    BY DEF Motion
  <2>2. QED
    BY <1>1, <1>4, <2>1 DEF Outputs
<1>12. QED
  BY <1>1, <1>2, <1>3, <1>9, <1>10, <1>11 DEF Outputs

\* Between stopping and starting, what was withdrawn stays so.
LEMMA BeginStartingOutputs ==
    ASSUME ShapeInv, Outputs, BeginStarting
    PROVE  Outputs'
<1>1. /\ UNCHANGED <<setup, ask, options, changed, active, published, seen, tfs>>
      /\ update.at = "stop" /\ update.i \notin Sensors /\ update.by # "none"
  BY DEF BeginStarting, parameterVars, outputVars
<1>2. update'.at = "start" /\ update'.i = 1 /\ update'.by # "none"
  BY <1>1 DEF BeginStarting, ShapeInv, Update
<1>3. \A i \in Sensors : i < update.i /\ i >= 1
  BY <1>1, SensorProfiles DEF ShapeInv, Update, Sensors
<1>4. \A i \in Sensors : NeedsRefresh(i)' = NeedsRefresh(i)
  BY <1>1, RefreshKept
<1>5. \A i \in Sensors : Shown(i)' = Shown(i)
  BY <1>1, <1>2, <1>3, <1>4 DEF Shown, Withdrawn
<1>6. QED
  BY <1>1, <1>2, <1>5, OutputsKept

\* startPublishers makes the publishers and transforms that the sensor has none of.
LEMMA StartPublishersOutputs ==
    ASSUME ShapeInv, PatientInv, setup.patient, faults = {}, Outputs,
           "streams" \in DOMAIN published,
           StartPublishers
    PROVE  Outputs'
<1>0. PICK u \in Sensors : u = update.i
  BY DEF StartPublishers, AtSensor
<1>1. /\ UNCHANGED <<setup, ask, options, changed, active>>
      /\ u = update.i /\ update.at = "start" /\ update.by # "none"
  BY <1>0 DEF StartPublishers, AtSensor, parameterVars
<1>2. update'.by # "none"
  BY UpdateStepFrame
<1>3. /\ update \in Update /\ u \in Int /\ Sensors \subseteq Int /\ Sensors' = Sensors
      /\ active[u] \in Seq(Profile) /\ Wanted(u) \in Seq(Profile)
  <2>1. Wanted(u) \in Seq(Profile)
    BY SensorProfiles DEF ShapeInv
  <2>2. /\ update \in Update /\ u \in Int /\ Sensors \subseteq Int
        /\ active[u] \in Seq(Profile)
    BY DEF ShapeInv, Sensors
  <2>3. QED
    BY <1>1, <2>1, <2>2 DEF Sensors
<1>4. \A i \in Sensors : NeedsRefresh(i)' = NeedsRefresh(i)
  BY <1>1, RefreshKept
<1>5. NeedsRefresh(u) => Shown(u) = {}
  BY <1>1, <1>3 DEF Shown, Withdrawn
<1> DEFINE new == Sips(Wanted(u))
<1>6. CASE NeedsRefresh(u) /\ Wanted(u) # <<>>
  <2>1. /\ update'.at = "startSensor" /\ update'.i = u /\ update'.profiles = Wanted(u)
    BY <1>1, <1>3, <1>6 DEF StartPublishers, Update
  <2>2. /\ published'.streams = published.streams \cup new
        /\ seen' = seen \cup ({s[1] : s \in new} \cap ({"color", "depth"} \cup Motion))
        /\ tfs' = tfs (+) AllTfs(Wanted(u))
    BY <1>1, <1>6 DEF StartPublishers, SipsOf
  <2>3. Shown(u)' = new
    BY <2>1 DEF Shown
  <2>4. \A i \in Sensors : i # u => Shown(i)' = Shown(i)
    BY <1>1, <1>4, <2>1 DEF Shown, Withdrawn
  <2>5. new \subseteq Sips(setup.sensors[u]) /\ new \in SUBSET Sip
    BY <1>3, SensorProfiles, StreamsOfChosen, StreamsOfProfiles DEF ShapeInv
  <2> HIDE DEF new
  <2>6. published'.streams = UNION {Shown(i)' : i \in Sensors}
    <3>1. PICK before : before = [i \in Sensors |-> Shown(i)]
      OBVIOUS
    <3>2. PICK after : after = [i \in Sensors |-> Shown(i)']
      OBVIOUS
    <3>3. /\ before[u] = {} /\ after[u] = new
          /\ \A i \in Sensors : i # u => after[i] = before[i]
      BY <1>5, <1>6, <2>3, <2>4, <3>1, <3>2
    <3>4. UNION {after[i] : i \in Sensors} = (UNION {before[i] : i \in Sensors}) \cup new
      BY ONLY <1>0, <3>3, UnionMore
    <3>5. /\ {Shown(i)' : i \in Sensors} = {after[i] : i \in Sensors}
          /\ {Shown(i) : i \in Sensors} = {before[i] : i \in Sensors}
      BY <3>1, <3>2
    <3>6. QED
      BY <2>2, <3>4, <3>5 DEF Outputs
  <2>7. published.streams \cap new = {} /\ published.streams \in SUBSET Sip
    <3>1. ASSUME NEW i \in Sensors PROVE Shown(i) \cap new = {} /\ Shown(i) \subseteq Sip
      <4>1. Shown(i) \subseteq Sips(setup.sensors[i]) /\ Shown(i) \subseteq Sip
        BY ShownStreams
      <4>2. i # u => Sips(setup.sensors[i]) \cap Sips(setup.sensors[u]) = {}
        BY SensorProfiles DEF ShapeInv
      <4>3. CASE i = u
        BY <1>5, <1>6, <4>3
      <4>4. CASE i # u
        BY <2>5, <4>1, <4>2, <4>4
      <4>5. QED
        BY <4>3, <4>4
    <3>2. QED
      BY <3>1 DEF Outputs
  <2>8. tfs' = SetToBag(FramesOf(published'.streams))
    <3>1. AllTfs(Wanted(u)) = SetToBag(FramesOf(new))
      BY TransformsOfProfiles DEF Outputs, new
    <3>2. /\ FramesOf(published.streams) \cap FramesOf(new) = {}
          /\ FramesOf(published.streams) \cup FramesOf(new) = FramesOf(published.streams \cup new)
      BY <2>5, <2>7, FramesOfStreams
    <3>3. tfs = SetToBag(FramesOf(published.streams))
      BY DEF Outputs
    <3>4. SetToBag(FramesOf(published.streams)) (+) SetToBag(FramesOf(new))
            = SetToBag(FramesOf(published.streams) \cup FramesOf(new))
      BY <3>2, BagsOfSets
    <3>5. QED
      BY <2>2, <3>1, <3>2, <3>3, <3>4
  <2>9. \A sip \in published'.streams : sip[1] \in {"color", "depth"} => sip[1] \in seen'
    BY <2>2 DEF Outputs
  <2>10. QED
    BY <1>1, <1>2, <1>3, <2>1, <2>6, <2>8, <2>9 DEF Outputs
<1>7. CASE ~ (NeedsRefresh(u) /\ Wanted(u) # <<>>)
  <2>1. update' = NextSensor("start") /\ UNCHANGED <<published, seen, tfs>>
    BY <1>1, <1>7 DEF StartPublishers
  <2>2. update'.at = "start" /\ update'.i = u + 1
    BY <1>1, <2>1, NextSensorShape DEF Phase
  <2>3. Shown(u)' = Sips(active[u])
    BY <1>1, <1>3, <2>2 DEF Shown, Withdrawn
  <2>4. Shown(u) = Sips(active[u])
    <3>1. CASE ~ NeedsRefresh(u)
      BY <1>1, <3>1 DEF Shown, Withdrawn
    <3>2. CASE NeedsRefresh(u)
      <4>1. Same(u) \/ active[u] = <<>>
        BY <1>1 DEF PatientInv, Through
      <4>2. Wanted(u) = <<>>
        BY <1>7, <3>2
      <4>3. Sips(active[u]) = {}
        BY <1>3, <4>1, <4>2, SameStreams, NothingIsServed DEF Same
      <4>4. QED
        BY <1>5, <3>2, <4>3
    <3>3. QED
      BY <3>1, <3>2
  <2>5. \A i \in Sensors : i # u => (i >= u + 1 <=> i >= u)
    BY <1>3
  <2>6. \A i \in Sensors : i # u => Shown(i)' = Shown(i)
    BY <1>1, <1>4, <2>2, <2>5 DEF Shown, Withdrawn
  <2>7. QED
    BY <1>1, <1>2, <2>1, <2>2, <2>3, <2>4, <2>6, OutputsKept
<1>8. QED
  BY <1>6, <1>7

\* A sensor starts with the profiles its publishers are for.
LEMMA StartSensorOutputs ==
    ASSUME ShapeInv, PatientInv, Orderly, Outputs, StartSensor
    PROVE  Outputs'
<1>0. PICK u \in Sensors : u = update.i
  BY DEF StartSensor, AtSensor
<1>1. /\ UNCHANGED <<setup, ask, options, changed, published, seen, tfs>>
      /\ u = update.i /\ update.at = "startSensor" /\ update.by # "none"
      /\ active' = IF update.restart /\ active[u] = <<>>
                   THEN [active EXCEPT ![u] = update.profiles] ELSE active
      /\ update' = NextSensor("start")
  BY <1>0 DEF StartSensor, AtSensor, parameterVars, outputVars
<1>2. update'.by # "none" /\ update'.at = "start" /\ update'.i = u + 1
  BY <1>1, NextSensorShape DEF Phase
<1>3. /\ active \in [Sensors -> Seq(Profile)] /\ u \in Int /\ Sensors \subseteq Int
      /\ active[u] \in Seq(Profile) /\ Wanted(u) \in Seq(Profile)
  <2>1. Wanted(u) \in Seq(Profile)
    BY SensorProfiles DEF ShapeInv
  <2>2. active \in [Sensors -> Seq(Profile)] /\ u \in Int /\ Sensors \subseteq Int
    BY DEF ShapeInv, Sensors
  <2>3. QED
    BY <2>1, <2>2
<1>4. Shown(u) = Sips(update.profiles)
  BY <1>1 DEF Shown
<1>5. Sips(active'[u]) = Sips(update.profiles)
  <2>1. CASE update.restart /\ active[u] = <<>>
    BY <1>1, <1>3, <2>1
  <2>2. CASE ~ (update.restart /\ active[u] = <<>>)
    <3>1. Through(u) /\ Started(u)
      BY <1>1 DEF PatientInv, Orderly
    <3>2. update.profiles = Wanted(u) /\ (Same(u) \/ active[u] = <<>>)
          /\ (Same(u) \/ update.restart)
      BY <1>1, <3>1 DEF Through, Started
    <3>3. Same(u)
      BY <2>2, <3>2
    <3>4. QED
      BY <1>1, <1>3, <2>2, <3>2, <3>3, SameStreams DEF Same
  <2>3. QED
    BY <2>1, <2>2
<1>6. Shown(u)' = Shown(u)
  <2>1. ~ (u >= u + 1)
    BY <1>3
  <2>2. QED
    BY <1>2, <1>4, <1>5, <2>1 DEF Shown, Withdrawn
<1>7. \A i \in Sensors : i # u => active'[i] = active[i] /\ (i >= u + 1 <=> i >= u)
  BY <1>1, <1>3
<1>8. \A i \in Sensors : i # u => NeedsRefresh(i)' = NeedsRefresh(i)
  BY <1>1, <1>7, RefreshKept
<1>9. \A i \in Sensors : i # u => Shown(i)' = Shown(i)
  BY <1>1, <1>2, <1>7, <1>8 DEF Shown, Withdrawn
<1>10. QED
  BY <1>1, <1>2, <1>6, <1>9, OutputsKept

\* The transforms are sent at the end of an update.
LEMMA FinishUpdateOutputs ==
    ASSUME ShapeInv, Outputs, "streams" \in DOMAIN published, FinishUpdate
    PROVE  Outputs'
<1>1. /\ UNCHANGED <<setup, ask, options, active, seen, tfs>> /\ sentTfs' = tfs
      /\ update.at = "start" /\ update.i \notin Sensors
      /\ update'.at = "stop" /\ update'.i = 1
      /\ published'.streams = published.streams
  BY DEF FinishUpdate, EndUpdate, NoUpdate, parameterVars
<1>2. \A i \in Sensors : ~ (i >= update.i) /\ ~ (i < 1)
  BY <1>1, SensorProfiles DEF ShapeInv, Update, Sensors
<1>3. \A i \in Sensors : Shown(i)' = Shown(i)
  BY <1>1, <1>2 DEF Shown, Withdrawn
<1>4. QED
  BY <1>1, <1>3, OutputsKept

\* Steps outside updates leave the outputs as they are.
LEMMA OutputsLeft ==
    ASSUME ShapeInv, FlagsInv, Outputs,
           UNCHANGED <<setup, active, published, seen, tfs, sentTfs, update>>,
           options'.unite = options.unite,
           UNCHANGED <<ask, changed>> \/ update.by = "none"
    PROVE  Outputs'
<1>1. CASE UNCHANGED <<ask, changed>>
  <2>1. \A i : NeedsRefresh(i)' = NeedsRefresh(i)
    BY <1>1, RefreshKept
  <2>2. \A i \in Sensors : Shown(i)' = Shown(i)
    BY <2>1 DEF Shown, Withdrawn
  <2>3. (update.at = "stopPublishers" => active[update.i] = <<>> \/ NeedsRefresh(update.i))'
    BY <2>1 DEF Outputs
  <2>4. QED
    BY <2>2, <2>3, OutputsKept
<1>2. CASE update.by = "none"
  <2>1. update.at = "stop" /\ update.i = 1 /\ \A i \in Sensors : ~ (i < 1)
    BY <1>2 DEF FlagsInv, Sensors
  <2>2. \A i \in Sensors : Shown(i)' = Shown(i)
    BY <2>1 DEF Shown, Withdrawn
  <2>3. QED
    BY <1>2, <2>1, <2>2, OutputsKept
<1>3. QED
  BY <1>1, <1>2

\* Whatever interleaves, an orderly node has the outputs of what streams.
LEMMA OutputsStep ==
    ShapeInv /\ PatientInv /\ PublishersInv /\ FlagsInv /\ OutputsInv /\ [Next]_vars => OutputsInv'
<1>0. SUFFICES ASSUME ShapeInv, PatientInv, PublishersInv, FlagsInv, OutputsInv, [Next]_vars,
                      Orderly'
               PROVE  Outputs'
  BY DEF OutputsInv
<1>1. Orderly /\ Outputs /\ "streams" \in DOMAIN published
  <2>1. /\ setup' = setup /\ (faults' = {} => faults = {}) /\ (running' => running)
    BY <1>0 DEF Next, NodeStep, vars, lifeVars, SetEnable, SetProfile, SetOption, SetRate, Callback,
       Updating, Destructing, RaiseFlag, JoinTfThread, PublishDynamicTransformsReturns,
       MonitorWakes, MonitorExits, UpdateBegins, StopSensor, StopPublishers, BeginStarting,
       StartPublishers, StartSensor, StartFails, StopFails, FinishUpdate, HandleHWReset, Destroy,
       DestroyTestsTf, DestroyJoinsTf, DestroyJoinsMonitor, DestroyStopsSensors
  <2>2. QED
    BY <1>0, <2>1 DEF Orderly, OutputsInv, PublishersInv
<1>2. ASSUME UNCHANGED <<setup, active, published, seen, tfs, sentTfs, update>>,
             options'.unite = options.unite,
             UNCHANGED <<ask, changed>> \/ update.by = "none"
      PROVE  Outputs'
  BY <1>0, <1>1, <1>2, OutputsLeft
<1>3. ASSUME NEW request, MayAsk(request) PROVE update.by = "none"
  BY <1>1, <1>3 DEF MayAsk, Orderly, Quiet, NoUpdate
<1>4. ASSUME NEW i \in Sensors, NEW sip, SetEnable(i, sip) PROVE Outputs'
  BY <1>2, <1>3, <1>4 DEF SetEnable, outputVars
<1>5. ASSUME NEW i \in Sensors, NEW newAsk, SetProfile(i, newAsk) PROVE Outputs'
  BY <1>2, <1>3, <1>5 DEF SetProfile, outputVars
<1>6. ASSUME NEW option \in {"align", "rgbd", "unite"}, SetOption(option) PROVE Outputs'
  <2>1. /\ UNCHANGED <<setup, active, published, seen, tfs, sentTfs, update, ask, changed>>
        /\ option \in setup.requests /\ options' = [options EXCEPT ![option] = ~ @]
    BY <1>6 DEF SetOption, MayAsk, outputVars
  <2>2. option # "unite"
    BY <1>1, <2>1 DEF Orderly
  <2>3. options'.unite = options.unite
    BY <2>1, <2>2
  <2>4. QED
    BY <1>2, <2>1, <2>3
<1>7. ASSUME NEW positive, SetRate(positive) PROVE Outputs'
  BY <1>2, <1>7 DEF SetRate, outputVars
<1>8. CASE RaiseFlag
  <2>1. update.by = "none"
    BY <1>0, <1>1, <1>8 DEF RaiseFlag, FlagsInv, Orderly
  <2>2. QED
    BY <1>2, <1>8, <2>1 DEF RaiseFlag, outputVars
<1>9. CASE JoinTfThread \/ PublishDynamicTransformsReturns
  BY <1>2, <1>9 DEF JoinTfThread, PublishDynamicTransformsReturns, parameterVars, outputVars
<1>10. CASE HandleHWReset \/ Destroy
  BY <1>0, <1>10 DEF HandleHWReset, Destroy, Orderly
<1>11. CASE Destructing
  <2>1. ~ running
    BY <1>0, <1>11 DEF Destructing, DestroyTestsTf, DestroyJoinsTf, DestroyJoinsMonitor, DestroyStopsSensors,
       ShapeInv
  <2>2. QED
    BY <1>1, <2>1 DEF Orderly
<1>12. CASE MonitorWakes \/ MonitorExits
  BY <1>2, <1>12 DEF MonitorWakes, MonitorExits, parameterVars, outputVars
<1>13. CASE UpdateBegins
  <2>1. /\ UNCHANGED <<setup, ask, options, changed, active, published, seen, tfs>>
        /\ update.by = "none" /\ update'.by # "none" /\ update'.at = "stop" /\ update'.i = 1
    BY <1>13 DEF UpdateBegins, BeginUpdate, NoUpdate, parameterVars, outputVars
  <2>2. /\ update.at = "stop" /\ update.i = 1 /\ \A i \in Sensors : ~ (i < 1)
    BY <1>0, <2>1 DEF FlagsInv, Sensors
  <2>3. \A i \in Sensors : Shown(i)' = Shown(i)
    BY <2>1, <2>2 DEF Shown, Withdrawn
  <2>4. QED
    BY <1>1, <2>1, <2>3, OutputsKept
<1>14. CASE StopSensor
  BY <1>0, <1>1, <1>14, StopSensorOutputs
<1>15. CASE StopPublishers
  BY <1>0, <1>1, <1>15, StopPublishersOutputs
<1>16. CASE BeginStarting
  BY <1>0, <1>1, <1>16, BeginStartingOutputs
<1>17. CASE StartPublishers
  BY <1>0, <1>1, <1>17, StartPublishersOutputs DEF Orderly
<1>18. CASE StartSensor
  BY <1>0, <1>1, <1>18, StartSensorOutputs
<1>19. CASE StartFails \/ StopFails
  BY <1>0, <1>19 DEF StartFails, StopFails, Orderly
<1>20. CASE FinishUpdate
  BY <1>0, <1>1, <1>20, FinishUpdateOutputs
<1>21. CASE UNCHANGED vars
  BY <1>2, <1>21 DEF vars, parameterVars, outputVars
<1>22. QED
  BY <1>0, <1>4, <1>5, <1>6, <1>7, <1>8, <1>9, <1>10, <1>11, <1>12, <1>13, <1>14, <1>15, <1>16,
     <1>17, <1>18, <1>19, <1>20, <1>21 DEF Next, NodeStep, Callback, Updating

\* Every change of the options is followed by an update, which renews the RGBD publisher.
LEMMA RgbdStep ==
    ShapeInv /\ FlagsInv /\ OutputsInv /\ RgbdInv /\ [Next]_vars => RgbdInv'
<1>0. SUFFICES ASSUME ShapeInv, FlagsInv, OutputsInv, RgbdInv, [Next]_vars
               PROVE  RgbdInv'
  OBVIOUS
<1>1. ASSUME UNCHANGED <<setup, published, update, executor, changed, monitor, main>>,
             options' = options, faults' = {} => faults = {}, running' => running
      PROVE  RgbdInv'
  BY <1>0, <1>1 DEF RgbdInv, HasRgbd, OptionsComing, Orderly
<1>2. ASSUME published' = published, OptionsComing' \/ update'.by # "none" \/ ~ Orderly'
      PROVE  RgbdInv'
  BY <1>0, <1>2 DEF RgbdInv
<1>3. ASSUME NEW i \in Sensors, NEW sip, SetEnable(i, sip) PROVE RgbdInv'
  BY <1>2, <1>3 DEF SetEnable, OptionsComing, outputVars
<1>4. ASSUME NEW i \in Sensors, NEW newAsk, SetProfile(i, newAsk) PROVE RgbdInv'
  BY <1>1, <1>4 DEF SetProfile, outputVars, lifeVars
<1>5. ASSUME NEW option \in {"align", "rgbd", "unite"}, SetOption(option) PROVE RgbdInv'
  <2>1. /\ UNCHANGED <<setup, published>> /\ option \in setup.requests
        /\ executor' = CASE option = "align" -> "raiseAlign" [] option = "rgbd" -> "raiseProfile"
                         [] OTHER -> "idle"
    BY <1>5 DEF SetOption, MayAsk, outputVars
  <2>2. CASE option = "unite"
    BY <1>2, <2>1, <2>2 DEF Orderly
  <2>3. CASE option # "unite"
    <3>1. executor' \in {"raiseProfile", "raiseAlign"}
      BY <2>1, <2>3
    <3>2. QED
      BY <1>2, <2>1, <3>1 DEF OptionsComing
  <2>4. QED
    BY <2>2, <2>3
<1>6. ASSUME NEW positive, SetRate(positive) PROVE RgbdInv'
  <2>1. /\ UNCHANGED <<setup, published, update, changed, monitor, main, options, running>>
        /\ executor = "idle" /\ executor' \in {"idle", "joinTf"} /\ (faults' = {} => faults = {})
    BY <1>6 DEF SetRate, MayAsk, outputVars, lifeVars
  <2>2. QED
    BY <1>0, <2>1 DEF RgbdInv, HasRgbd, OptionsComing, Orderly
<1>7. CASE RaiseFlag
  <2>1. /\ UNCHANGED <<published, monitor, running>>
        /\ changed' = IF executor = "raiseAlign" THEN [changed EXCEPT !.align = TRUE]
                                                 ELSE [changed EXCEPT !.profile = TRUE]
        /\ monitor # "holding"
    BY <1>7 DEF RaiseFlag, MutexFree, outputVars, lifeVars
  <2>2. changed'.profile \/ changed'.align
    BY <1>0, <2>1 DEF ShapeInv
  <2>3. monitor' = "waiting" \/ ~ running'
    BY <1>0, <2>1 DEF ShapeInv
  <2>4. QED
    BY <1>2, <2>1, <2>2, <2>3 DEF OptionsComing, Orderly
<1>8. CASE JoinTfThread
  <2>1. /\ UNCHANGED <<setup, published, update, changed, monitor, main, options, faults, running>>
        /\ executor = "joinTf" /\ executor' = "idle"
    BY <1>8 DEF JoinTfThread, outputVars, lifeVars
  <2>2. QED
    BY <1>0, <2>1 DEF RgbdInv, HasRgbd, OptionsComing, Orderly
<1>9. CASE PublishDynamicTransformsReturns
  BY <1>1, <1>9 DEF PublishDynamicTransformsReturns, parameterVars, outputVars, lifeVars
<1>10. CASE HandleHWReset \/ Destroy
  BY <1>2, <1>10 DEF HandleHWReset, Destroy, Orderly, outputVars
<1>11. CASE Destructing
  BY <1>1, <1>11 DEF Destructing, DestroyTestsTf, DestroyJoinsTf, DestroyJoinsMonitor, DestroyStopsSensors,
     parameterVars, outputVars
<1>12. CASE MonitorWakes
  BY <1>2, <1>12 DEF MonitorWakes, OptionsComing, outputVars
<1>13. CASE MonitorExits
  BY <1>2, <1>13 DEF MonitorExits, Orderly, outputVars, lifeVars
<1>14. CASE UpdateBegins
  BY <1>2, <1>14 DEF UpdateBegins, BeginUpdate, NoUpdate, outputVars
<1>15. CASE StopSensor \/ StopPublishers \/ BeginStarting \/ StartPublishers \/ StartSensor
  <2>1. update'.by # "none"
    BY <1>0, <1>15, UpdateStepFrame
  <2>2. "rgbd" \in DOMAIN published'
    BY <1>0, <1>15 DEF RgbdInv, StopSensor, StopPublishers, BeginStarting, StartPublishers,
       StartSensor, outputVars
  <2>3. QED
    BY <2>1, <2>2 DEF RgbdInv
<1>16. CASE StartFails \/ StopFails
  BY <1>2, <1>16 DEF StartFails, StopFails, Orderly, outputVars
<1>17. CASE FinishUpdate
  <2>1. /\ UNCHANGED <<setup, options, seen, faults, running>>
        /\ published' = [published EXCEPT !.rgbd = options.rgbd /\ options.align
                                                     /\ {"color", "depth"} \subseteq seen]
    BY <1>17 DEF FinishUpdate, parameterVars, lifeVars
  <2>2. "rgbd" \in DOMAIN published'
    BY <1>0, <2>1 DEF RgbdInv
  <2>3. ASSUME Orderly' PROVE HasRgbd'
    <3>1. Outputs
      BY <1>0, <2>1, <2>3 DEF Orderly, OutputsInv
    <3>2. published'.streams = published.streams
      BY <2>1
    <3>3. {DEPTH, COLOR} \subseteq published.streams => {"color", "depth"} \subseteq seen
      BY <3>1 DEF Outputs, DEPTH, COLOR
    <3>4. published'.rgbd = (options.rgbd /\ options.align /\ {"color", "depth"} \subseteq seen)
      BY <1>0, <2>1 DEF RgbdInv
    <3>5. QED
      BY <2>1, <3>2, <3>3, <3>4 DEF HasRgbd
  <2>4. QED
    BY <2>2, <2>3 DEF RgbdInv
<1>18. CASE UNCHANGED vars
  BY <1>1, <1>18 DEF vars, parameterVars, outputVars, lifeVars
<1>19. QED
  BY <1>0, <1>3, <1>4, <1>5, <1>6, <1>7, <1>8, <1>9, <1>10, <1>11, <1>12, <1>13, <1>14, <1>15,
     <1>16, <1>17, <1>18 DEF Next, NodeStep, Callback, Updating

----------------------------------------------------------------------------
\* The theorems.

\* While an update is to come nothing is promised; before the first nothing is asked.
LEMMA InvariantsInit == Init => AskedInv /\ PatientInv /\ PublishersInv
<1> SUFFICES ASSUME Init PROVE AskedInv /\ PatientInv /\ PublishersInv
  OBVIOUS
<1>1. Coming
  BY DEF Init, Coming
<1>2. update.by = "none" /\ update.at = "stop" /\ ~ changed.align /\ executor = "idle"
  BY DEF Init, NoUpdate
<1>3. \A i \in Sensors : Served(i)
  BY NothingIsServed DEF Init, Served
<1>4. "streams" \in DOMAIN published
  BY DEF Init
<1>5. QED
  BY <1>1, <1>2, <1>3, <1>4 DEF AskedInv, PatientInv, PublishersInv

\* A node begins without streams, publishers and transforms.
LEMMA OutputsInit == Init => FlagsInv /\ OutputsInv /\ RgbdInv
<1> SUFFICES ASSUME Init PROVE FlagsInv /\ OutputsInv /\ RgbdInv
  OBVIOUS
<1>1. /\ update.by = "none" /\ update.at = "stop" /\ update.i = 1 /\ executor = "idle"
      /\ main = "setup" /\ "rgbd" \in DOMAIN published
      /\ published.streams = {} /\ ~ options.unite
      /\ tfs = EmptyBag /\ sentTfs = EmptyBag
  BY DEF Init, NoUpdate
<1>2. FlagsInv /\ RgbdInv
  BY <1>1 DEF FlagsInv, RgbdInv, OptionsComing
<1>3. \A i \in Sensors : Shown(i) = {}
  BY <1>1, NothingIsServed DEF Init, Shown
<1>4. tfs = SetToBag(FramesOf(published.streams))
  BY <1>1 DEF EmptyBag, FramesOf
<1>5. Outputs
  BY <1>1, <1>3, <1>4 DEF Outputs
<1>6. QED
  BY <1>2, <1>5 DEF OutputsInv

\* The invariants hold together in every execution.
LEMMA MonitorInvariants ==
    Spec => []( /\ ShapeInv /\ AskedInv /\ PatientInv /\ PublishersInv
                /\ FlagsInv /\ OutputsInv /\ RgbdInv)
<1> DEFINE Inv == /\ ShapeInv /\ AskedInv /\ PatientInv /\ PublishersInv
                  /\ FlagsInv /\ OutputsInv /\ RgbdInv
<1>1. Init => Inv
  BY ShapeInit, InvariantsInit, OutputsInit
<1>2. Inv /\ [Next]_vars => Inv'
  BY ShapeStep, AskedStep, PatientStep, PublishersStep, FlagsStep, OutputsStep, RgbdStep
<1>3. QED
  BY <1>1, <1>2, PTL DEF Spec

\* However requests interleave with updates, in a quiet node each sensor whose
\* parameters have taken effect streams for each stream that is on the first profile
\* of the device that fits, and nothing else (monitoringProfileChanges,
\* stopRequiredSensors, startUpdatedSensors, addWantedProfiles).
THEOREM SensorsStreamAsAsked == Spec => []ActiveAsAsked
<1>1. ShapeInv /\ AskedInv => ActiveAsAsked
  <2> SUFFICES ASSUME ShapeInv, AskedInv, Settled, NEW i \in Sensors \ stale
               PROVE  LET all == setup.sensors[i]
                          places == FittingPlaces(all, ask[i])
                      IN /\ {active[i][n] : n \in 1..Len(active[i])} = {all[n] : n \in places}
                         /\ Len(active[i]) = Cardinality(places)
    BY DEF ActiveAsAsked
  <2>1. /\ executor = "idle" /\ ~ changed.profile /\ monitor = "waiting" /\ main = "done"
        /\ update.by = "none" /\ running /\ faults = {}
    BY DEF Settled, Quiet, NoUpdate
  <2>2. ~ Coming
    BY <2>1 DEF Coming
  <2>3. Same(i)
    BY <2>1, <2>2 DEF AskedInv
  <2>4. QED
    BY <2>3, SameIsAsAsked
<1>2. QED
  BY <1>1, MonitorInvariants, PTL

\* A stream that the device delivers has its publisher, whatever is asked during an
\* update, except while a sensor's publishers are renewed for the alignment
\* (stopPublishers, startPublishers).
THEOREM DeliveredStreamsArePublished == Spec => []StreamsHavePublishers
<1>1. PublishersInv => StreamsHavePublishers
  BY DEF PublishersInv, StreamsHavePublishers, Guarded, Served, Renewed, SipsOf
<1>2. QED
  BY <1>1, MonitorInvariants, PTL


\* While nobody asks during an update, a quiet node has the publishers, the transforms
\* and the RGBD publisher for exactly the streams that are on (stopPublishers,
\* startPublishers, eraseTransformMsgs, publishStaticTransforms).
THEOREM SettledNodeShowsItsStreams == Spec => []SettledOutputs
<1>1. ShapeInv /\ OutputsInv /\ RgbdInv => SettledOutputs
  <2> DEFINE all == UNION {{active[i][n] : n \in 1..Len(active[i])} : i \in Sensors}
  <2> SUFFICES ASSUME ShapeInv, OutputsInv, RgbdInv,
                      Settled, setup.patient, "unite" \notin setup.requests
               PROVE  /\ published.streams = {SipOf(p) : p \in all}
                      /\ sentTfs = SetToBag(UNION {TfsOf(p) : p \in all})
                      /\ options.rgbd /\ options.align /\ {DEPTH, COLOR} \subseteq published.streams
                            => published.rgbd
    BY DEF SettledOutputs
  <2>1. /\ executor = "idle" /\ ~ changed.profile /\ ~ changed.align /\ monitor = "waiting"
        /\ main = "done" /\ update.by = "none" /\ update.at = "stop" /\ update.i = 1
        /\ running /\ faults = {}
    BY DEF Settled, Quiet, NoUpdate
  <2>2. Orderly /\ Outputs /\ HasRgbd
    BY <2>1 DEF Orderly, OutputsInv, RgbdInv, OptionsComing
  <2>3. \A i \in Sensors : Shown(i) = Sips(active[i])
    BY <2>1 DEF Shown, Withdrawn, Sensors
  <2>4. UNION {Sips(active[i]) : i \in Sensors} = {SipOf(p) : p \in all}
    BY DEF Sips
  <2>5. published.streams = {SipOf(p) : p \in all}
    BY <2>2, <2>3, <2>4 DEF Outputs
  <2>6. \A p : TfsOf(p) = Frames(SipOf(p))
    BY <2>2 DEF Outputs, Frames, TfsOf, SipOf, AlignedFrame
  <2> HIDE DEF all
  <2>7. FramesOf(published.streams) = UNION {TfsOf(p) : p \in all}
    BY <2>5, <2>6 DEF FramesOf
  <2>8. QED
    BY <2>1, <2>2, <2>5, <2>7 DEF Outputs, HasRgbd
<1>2. QED
  BY <1>1, MonitorInvariants, PTL

----------------------------------------------------------------------------
\* The defaults of the device.

\* A stream with a profile that is marked as default has one of its profiles as default.
LEMMA DefaultOfStream ==
    ASSUME NEW all \in Seq(Profile), NEW kind, NEW n \in OfKind(all, kind), all[n].default
    PROVE  LET d == DefaultProfiles(all, kind)
               sip == SipOf(all[n])
           IN sip \in DOMAIN d /\ \E k \in 1..Len(all) : d[sip] = all[k] /\ SipOf(all[k]) = sip
<1> DEFINE marked == {i \in OfKind(all, kind) : all[i].default}
           sip == SipOf(all[n])
           S == {i \in marked : SipOf(all[i]) = sip}
           d == DefaultProfiles(all, kind)
<1>1. n \in marked /\ n \in S /\ marked # {}
  OBVIOUS
<1>2. d = [s \in {SipOf(all[i]) : i \in marked} |-> all[Min({i \in marked : SipOf(all[i]) = s})]]
  BY <1>1 DEF DefaultProfiles
<1>3. sip \in {SipOf(all[i]) : i \in marked}
  BY <1>1
<1>4. sip \in DOMAIN d /\ d[sip] = all[Min(S)]
  <2> HIDE DEF marked, d, sip
  <2>1. QED
    BY <1>2, <1>3
<1>5. Min(S) \in S
  <2>1. S \in SUBSET Nat
    BY LenProperties DEF OfKind
  <2>2. \E i \in S : \A j \in S : i <= j
    <3> HIDE DEF S
    <3>1. QED
      BY <1>1, <2>1, LeastNumber
  <2> HIDE DEF S
  <2>3. QED
    BY <2>2 DEF Min
<1>6. Min(S) \in 1..Len(all) /\ SipOf(all[Min(S)]) = sip
  <2>1. \A i \in S : i \in 1..Len(all) /\ SipOf(all[i]) = sip
    BY DEF OfKind
  <2> HIDE DEF S, sip
  <2>2. QED
    BY <1>5, <2>1
<1>7. QED
  <2> HIDE DEF d, sip, S
  <2>1. \E k \in 1..Len(all) : d[sip] = all[k] /\ SipOf(all[k]) = sip
    BY <1>4, <1>6
  <2>2. QED
    BY <1>4, <2>1 DEF d, sip

\* What the parameters of the sensor with these profiles ask for when they are declared,
\* some streams being switched off at launch.
Launched(all, off) ==
    [DefaultAsk(all) EXCEPT !.enabled = [sip \in DOMAIN @ |-> @[sip] /\ sip \notin off]]

\* A default profile of depth, colour, infra 1 or a motion stream fits the declared
\* parameters, or another profile of its stream does (registerVideoSensorParams, registerFPSParams).
LEMMA DefaultFits ==
    ASSUME NEW all \in Seq(Profile), NEW off, NEW n \in 1..Len(all), all[n].default,
           SipOf(all[n]) \notin off,
           SipOf(all[n]) \in {DEPTH, COLOR, INFRA1} \cup (Motion \X (0..2))
    PROVE  \E k \in 1..Len(all) :
              SipOf(all[k]) = SipOf(all[n]) /\ Fits(all, Launched(all, off), k)
<1> DEFINE asked == Launched(all, off)
           sip == SipOf(all[n])
<1>1. all[n] \in Profile /\ sip = <<all[n].stream, all[n].index>> /\ all[n].stream \in Stream
  <2>1. all[n] \in Profile
    BY ElementOfSeq
  <2>2. all[n].stream \in Stream
    BY <2>1 DEF Profile
  <2>3. QED
    BY <2>1, <2>2 DEF SipOf
<1>2. /\ asked.enabled = [s \in Sips(all) |-> s # INFRA0 /\ s \notin off]
      /\ asked.mode = [s \in Streams(all) \cap Video |-> DefaultVideoProfile(all, s).mode]
      /\ asked.format = [s \in SipsOfKind(all, Video) |-> DefaultFormat(all, s)]
      /\ asked.fps = [s \in SipsOfKind(all, Motion) |-> DefaultFps(all, s)]
  BY DEF Launched, DefaultAsk
<1>3. sip # INFRA0
  BY DEF INFRA0, INFRA1, DEPTH, COLOR, Motion
<1>4. sip \in Sips(all) /\ asked.enabled[sip]
  <2>1. sip \in Sips(all)
    BY DEF Sips
  <2> HIDE DEF asked, sip
  <2>2. sip \notin off
    BY DEF sip
  <2>3. QED
    BY <1>2, <1>3, <2>1, <2>2
<1> HIDE DEF asked
<1>5. CASE sip \in {DEPTH, COLOR, INFRA1}
  <2> DEFINE d == DefaultProfiles(all, Video)
             stream == all[n].stream
  <2>1. /\ stream \in {"depth", "color", "infrared"} /\ sip[1] = stream
        /\ stream \in Video
        /\ sip = CASE stream = "color" -> COLOR [] stream = "depth" -> DEPTH [] OTHER -> INFRA1
    BY <1>1, <1>5 DEF DEPTH, COLOR, INFRA1, Video, Motion
  <2>2. n \in OfKind(all, Video)
    BY <2>1 DEF OfKind
  <2>3. PICK k \in 1..Len(all) : sip \in DOMAIN d /\ d[sip] = all[k] /\ SipOf(all[k]) = sip
    BY <2>2, DefaultOfStream
  <2> HIDE DEF d
  <2>4. DefaultVideoProfile(all, stream) = d[sip]
    <3> HIDE DEF sip, stream
    <3>1. QED
      BY <2>1, <2>3 DEF DefaultVideoProfile, d
  <2>5. DefaultFormat(all, sip) = d[sip].format
    <3> HIDE DEF sip, stream
    <3>1. QED
      BY <2>1, <2>3, <2>4 DEF DefaultFormat, d
  <2>6. stream \in Streams(all) \cap Video /\ sip \in SipsOfKind(all, Video)
    BY <2>1, <2>2 DEF Streams, SipsOfKind
  <2>7. asked.mode[stream] = all[k].mode /\ asked.format[sip] = all[k].format
    <3> HIDE DEF sip, stream
    <3>1. QED
      BY <1>2, <2>3, <2>4, <2>5, <2>6
  <2>8. all[k].stream = stream
    BY <2>3 DEF SipOf
  <2>9. IsWantedProfile(all[k], asked)
    <3>1. stream \notin Motion
      BY <2>1 DEF Motion
    <3> HIDE DEF sip, stream
    <3>2. QED
      BY <2>3, <2>7, <2>8, <3>1 DEF IsWantedProfile, IsWantedVideo
  <2>10. QED
    BY <1>4, <2>3, <2>9 DEF Fits, asked
<1>6. CASE sip \in Motion \X (0..2)
  <2> DEFINE d == DefaultProfiles(all, Motion)
  <2>1. all[n].stream \in Motion
    BY <1>1, <1>6
  <2>2. n \in OfKind(all, Motion)
    BY <2>1 DEF OfKind
  <2>3. PICK k \in 1..Len(all) : sip \in DOMAIN d /\ d[sip] = all[k] /\ SipOf(all[k]) = sip
    BY <2>2, DefaultOfStream
  <2> HIDE DEF d
  <2>4. DefaultFps(all, sip) = d[sip].mode
    <3> HIDE DEF sip
    <3>1. QED
      BY <2>3 DEF DefaultFps, d
  <2>5. sip \in SipsOfKind(all, Motion)
    BY <2>2 DEF SipsOfKind
  <2>6. asked.fps[sip] = all[k].mode
    <3> HIDE DEF sip
    <3>1. QED
      BY <1>2, <2>3, <2>4, <2>5
  <2>7. all[k].stream = all[n].stream
    BY <2>3 DEF SipOf
  <2>8. IsWantedProfile(all[k], asked)
    <3> HIDE DEF sip
    <3>1. QED
      BY <2>1, <2>3, <2>6, <2>7 DEF IsWantedProfile, IsWantedMotion
  <2>9. QED
    BY <1>4, <2>3, <2>8 DEF Fits, asked
<1>7. QED
  BY <1>5, <1>6

\* What the parameters ask for is what was declared until somebody asks.
UnaskedInv ==
    /\ changes \in Nat
    /\ changes = 0 =>
          /\ \A i \in Sensors : ask[i] = Launched(setup.sensors[i], setup.off)
          /\ stale = {}

\* Only requests change what the parameters ask for, and they are counted.
LEMMA OnlyRequestsAsk ==
    ASSUME [Next]_vars
    PROVE  /\ setup' = setup
           /\ \/ changes' = changes + 1
              \/ changes' = changes /\ ask' = ask /\ stale' \subseteq stale
BY DEF Next, NodeStep, vars, parameterVars, SetEnable, SetProfile, SetOption, SetRate, MayAsk, Callback,
       Updating, Destructing, RaiseFlag, JoinTfThread, PublishDynamicTransformsReturns,
       MonitorWakes, MonitorExits, UpdateBegins, StopSensor, StopPublishers, BeginStarting,
       StartPublishers, StartSensor, StartFails, StopFails, FinishUpdate, HandleHWReset, Destroy,
       DestroyTestsTf, DestroyJoinsTf, DestroyJoinsMonitor, DestroyStopsSensors

\* A stream whose default the device names streams once the node is quiet, if nobody asked
\* otherwise, whatever profiles the device lists in which order (getDefaultProfiles,
\* registerVideoSensorParams, registerFPSParams, addWantedProfiles).
THEOREM DefaultsAreOpened == Spec => []DefaultsOpen
<1>1. Init => UnaskedInv
  BY DEF Init, UnaskedInv, Launched, Sensors
<1>2. UnaskedInv /\ [Next]_vars => UnaskedInv'
  BY OnlyRequestsAsk DEF UnaskedInv, Sensors
<1>3. ShapeInv /\ ActiveAsAsked /\ UnaskedInv => DefaultsOpen
  <2> DEFINE all(i) == setup.sensors[i]
  <2>1. SUFFICES ASSUME ShapeInv, ActiveAsAsked, UnaskedInv, Settled, changes = 0,
                        NEW i \in Sensors, NEW n \in 1..Len(all(i)), all(i)[n].default,
                        SipOf(all(i)[n]) \notin setup.off,
                        SipOf(all(i)[n]) \in {DEPTH, COLOR, INFRA1} \cup (Motion \X (0..2))
                 PROVE  SipOf(all(i)[n]) \in SipsOf(active[i])
    BY DEF DefaultsOpen
  <2>2. all(i) \in Seq(Profile) /\ Len(all(i)) \in Nat
    BY <2>1, SensorProfiles, LenProperties DEF ShapeInv
  <2>3. ask[i] = Launched(all(i), setup.off) /\ i \notin stale
    BY <2>1 DEF UnaskedInv
  <2>4. {active[i][k] : k \in 1..Len(active[i])} = {all(i)[k] : k \in FittingPlaces(all(i), ask[i])}
    <3>1. \A s \in Sensors \ stale :
             {active[s][k] : k \in 1..Len(active[s])}
             = {setup.sensors[s][k] : k \in FittingPlaces(setup.sensors[s], ask[s])}
      BY <2>1, Zenon DEF ActiveAsAsked
    <3>2. i \in Sensors \ stale
      BY <2>1, <2>3
    <3>3. QED
      BY <3>1, <3>2, Zenon
  <2> HIDE DEF all
  <2>5. PICK k \in 1..Len(all(i)) : /\ SipOf(all(i)[k]) = SipOf(all(i)[n])
                                    /\ Fits(all(i), ask[i], k)
    BY <2>1, <2>2, <2>3, DefaultFits
  <2>6. PICK m \in FittingPlaces(all(i), ask[i]) : SipOf(all(i)[m]) = SipOf(all(i)[k])
    BY <2>2, <2>5, FirstOfStream
  <2>7. PICK j \in 1..Len(active[i]) : active[i][j] = all(i)[m]
    BY <2>4
  <2>8. QED
    BY <2>5, <2>6, <2>7 DEF SipsOf, Sips, all
<1>4. QED
  BY <1>1, <1>2, <1>3, MonitorInvariants, SensorsStreamAsAsked, PTL DEF Spec
=============================================================================
