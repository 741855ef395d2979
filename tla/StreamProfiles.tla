--------------------------- MODULE StreamProfiles ---------------------------
(***************************************************************************)
(* How a sensor of the RealSense wrapper chooses the stream profiles it    *)
(* opens: VideoProfilesManager and MotionProfilesManager hold the modes,   *)
(* formats and switches that the parameters ask for, and addWantedProfiles *)
(* picks the profiles of the device that match.  Everything here is a      *)
(* function of the device's list of profiles and of what is asked for;     *)
(* ProfileMonitor keeps the two and opens the sensors.                     *)
(*                                                                         *)
(* A device lists its profiles in an order of its own.  Width, height and  *)
(* frame rate of a video profile are only ever compared together: they are *)
(* one number, its mode.  The mode of a motion profile is its rate.        *)
(***************************************************************************)
EXTENDS Integers, Sequences, FiniteSets, SequencesExt

\* The stream types in the order of their numbers, which orders the maps.
StreamOrder == <<"depth", "color", "infrared", "fisheye", "gyro", "accel">>
Stream == {StreamOrder[i] : i \in 1..Len(StreamOrder)}
Motion == {"gyro", "accel"}
Video == Stream \ Motion
Sip == Stream \X (0..2)
DEPTH == <<"depth", 0>>
COLOR == <<"color", 0>>
INFRA0 == <<"infrared", 0>>
INFRA1 == <<"infrared", 1>>
INFRA2 == <<"infrared", 2>>

Profile == [stream : Stream, index : 0..2, mode : Nat \ {0}, format : STRING,
            default : BOOLEAN]

SipOf(p) == <<p.stream, p.index>>
Sips(all) == {SipOf(all[i]) : i \in 1..Len(all)}
Streams(all) == {all[i].stream : i \in 1..Len(all)}
\* The places of the profiles that the manager of this kind of stream takes.
OfKind(all, kind) == {i \in 1..Len(all) : all[i].stream \in kind}
SipsOfKind(all, kind) == {SipOf(all[i]) : i \in OfKind(all, kind)}

----------------------------------------------------------------------------
\* What the parameters are when they are declared.

\* The first profile of each stream that is marked as default; the first of all
\* when none is marked.
DefaultProfiles(all, kind) ==
    LET marked == {i \in OfKind(all, kind) : all[i].default}
        chosen == IF marked = {} THEN {Min(OfKind(all, kind))} ELSE marked
    IN [sip \in {SipOf(all[i]) : i \in chosen} |->
           all[Min({i \in chosen : SipOf(all[i]) = sip})]]

Place(stream) == CHOOSE i \in 1..Len(StreamOrder) : StreamOrder[i] = stream
Precedes(s, t) == Place(s[1]) < Place(t[1]) \/ (s[1] = t[1] /\ s[2] <= t[2])
\* The value at the beginning of a map.
Begin(map) == map[CHOOSE s \in DOMAIN map : \A t \in DOMAIN map : Precedes(s, t)]

\* The given profile if the stream has its mode; the stream's last one otherwise.
SuitableProfile(all, stream, given) ==
    IF \E i \in 1..Len(all) : all[i].stream = stream /\ all[i].mode = given.mode
    THEN given
    ELSE all[Max({i \in 1..Len(all) : all[i].stream = stream})]

DefaultVideoProfile(all, stream) ==
    LET d == DefaultProfiles(all, Video)
        own == CASE stream = "color" -> COLOR [] stream = "depth" -> DEPTH
                 [] OTHER -> INFRA1
    IN IF stream \in {"color", "depth", "infrared"} /\ own \in DOMAIN d THEN d[own]
       ELSE IF stream = "infrared" /\ DEPTH \in DOMAIN d
            THEN SuitableProfile(all, stream, d[DEPTH])
       ELSE IF stream \in {"color", "depth", "infrared"} THEN Begin(d)
       ELSE SuitableProfile(all, stream, Begin(d))

PresetFormat(sip) ==
    CASE sip = DEPTH -> "Z16"
      [] sip \in {INFRA0, COLOR} -> "RGB8"
      [] sip \in {INFRA1, INFRA2} -> "Y8"
      [] OTHER -> "ANY"

\* Mutant: the preset formats are not overwritten by the device's.
PresetFormatOnly(all, sip) == PresetFormat(sip)
DefaultFormat(all, sip) ==
    LET d == DefaultProfiles(all, Video) IN
    IF sip \in DOMAIN d /\ d[sip].mode = DefaultVideoProfile(all, sip[1]).mode
    THEN d[sip].format
    ELSE PresetFormat(sip)

DefaultFps(all, sip) ==
    LET d == DefaultProfiles(all, Motion)
        rates == {all[i].mode : i \in {j \in 1..Len(all) : SipOf(all[j]) = sip}}
    IN IF sip \in DOMAIN d THEN d[sip].mode
       ELSE CHOOSE r \in rates : \A s \in rates : r <= s

----------------------------------------------------------------------------
\* Which profiles the parameters ask for.

IsWantedVideo(p, ask) ==
    p.mode = ask.mode[p.stream] /\ ask.format[SipOf(p)] \in {p.format, "ANY"}
IsWantedMotion(p, ask) == p.mode = ask.fps[SipOf(p)]
IsWantedProfile(p, ask) ==
    IF p.stream \in Motion THEN IsWantedMotion(p, ask) ELSE IsWantedVideo(p, ask)

\* The loop over _all_profiles: a stream that was found is not looked for again.
AddProfile(wanted, p, kind, ask) ==
    IF /\ p.stream \in kind /\ ask.enabled[SipOf(p)] /\ SipOf(p) \notin Sips(wanted)
       /\ IsWantedProfile(p, ask)
    THEN Append(wanted, p) ELSE wanted
AddWantedProfiles(all, kind, ask) ==
    LET after[i \in 0..Len(all)] ==
          IF i = 0 THEN <<>> ELSE AddProfile(after[i - 1], all[i], kind, ask)
    IN after[Len(all)]

\* RosSensor::getUpdatedProfiles: the video manager's profiles, then the motion's.
WantedProfiles(all, ask) ==
    AddWantedProfiles(all, Video, ask) \o AddWantedProfiles(all, Motion, ask)

ProfilesIn(some, all) ==
    \A i \in 1..Len(some) : \E j \in 1..Len(all) :
        [some[i] EXCEPT !.default = TRUE] = [all[j] EXCEPT !.default = TRUE]
SameProfiles(open, wanted) == ProfilesIn(open, wanted) /\ ProfilesIn(wanted, open)

----------------------------------------------------------------------------
\* What the parameters ask for: switches and formats by stream, modes by stream
\* type, and rates of the motion streams.

\* registerProfileParameters of both managers; every stream but INFRA0 is on.
DefaultAsk(all) ==
    [enabled |-> [sip \in Sips(all) |-> sip # INFRA0],
     mode    |-> [stream \in Streams(all) \cap Video |-> DefaultVideoProfile(all, stream).mode],
     format  |-> [sip \in SipsOfKind(all, Video) |-> DefaultFormat(all, sip)],
     fps     |-> [sip \in SipsOfKind(all, Motion) |-> DefaultFps(all, sip)]]

AskTypeOK(all, ask) ==
    /\ ask.enabled \in [Sips(all) -> BOOLEAN]
    /\ ask.mode \in [Streams(all) \cap Video -> Nat \ {0}]
    /\ ask.format \in [SipsOfKind(all, Video) -> STRING]
    /\ ask.fps \in [SipsOfKind(all, Motion) -> Nat \ {0}]

\* "<stream>_profile": a mode of any stream of the sensor is taken, another one
\* is set back.
AfterProfile(all, ask, stream, m) ==
    IF \E i \in OfKind(all, Video) : all[i].mode = m
    THEN [ask EXCEPT !.mode[stream] = m] ELSE ask

\* "<stream>_format": a format of this stream is taken.
AfterFormat(all, ask, sip, f) ==
    IF f # "ANY" /\ \E i \in 1..Len(all) : SipOf(all[i]) = sip /\ all[i].format = f
    THEN [ask EXCEPT !.format[sip] = f] ELSE ask

\* "<stream>_fps": a rate of any stream of this type is taken.
AfterFps(all, ask, sip, rate) ==
    IF \E i \in 1..Len(all) : all[i].stream = sip[1] /\ all[i].mode = rate
    THEN [ask EXCEPT !.fps[sip] = rate] ELSE ask

\* What one parameter that does not switch a stream can make of ask.
AfterSomeProfile(all, ask) ==
    LET modes == {all[i].mode : i \in 1..Len(all)}
        formats == {all[i].format : i \in 1..Len(all)}
    IN {AfterProfile(all, ask, stream, m) : stream \in DOMAIN ask.mode, m \in modes}
       \cup {AfterFormat(all, ask, sip, f) : sip \in DOMAIN ask.format, f \in formats}
       \cup {AfterFps(all, ask, sip, rate) : sip \in DOMAIN ask.fps, rate \in modes}

----------------------------------------------------------------------------
\* The definition addWantedProfiles is measured by: the places of the profiles
\* that fit, their stream being on, with no profile before them in the list that
\* fits the same stream.
FittingPlaces(all, ask) ==
    LET fits == {i \in 1..Len(all) :
                   ask.enabled[SipOf(all[i])] /\ IsWantedProfile(all[i], ask)}
    IN {i \in fits : \A j \in fits : SipOf(all[j]) = SipOf(all[i]) => i <= j}
=============================================================================
