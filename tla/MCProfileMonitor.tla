------------------------- MODULE MCProfileMonitor ---------------------------
(* Sensors and settings for the run of ProfileMonitor. *)
EXTENDS ProfileMonitor

P(sip, m, f, d) == [stream |-> sip[1], index |-> sip[2], mode |-> m, format |-> f, default |-> d]
Lists(set, n) == UNION {[1..k -> set] : k \in 1..n}

\* A stereo sensor: depth and the infrared streams share its list.
Stereo ==
    {P(DEPTH, m, "Z16", d) : m \in 1..2, d \in BOOLEAN}
    \cup {P(INFRA1, m, f, FALSE) : m \in 1..2, f \in {"Y8", "Y16"}}
    \cup {P(INFRA1, 2, "Y16", TRUE), P(INFRA2, 1, "Y8", TRUE), P(INFRA0, 1, "RGB8", FALSE)}
\* A colour sensor and a fisheye, whose stream has no preset.
Colour ==
    {P(COLOR, m, f, d) : m \in 1..2, f \in {"RGB8", "YUYV"}, d \in BOOLEAN}
    \cup {P(<<"fisheye", 1>>, m, "RAW8", d) : m \in 2..3, d \in BOOLEAN}
Gyro == <<"gyro", 0>>
Accel == <<"accel", 0>>
Imu == {P(Gyro, m, "XYZ", d) : m \in 1..2, d \in BOOLEAN}
       \cup {P(Accel, m, "XYZ", FALSE) : m \in 2..3}

Depth == <<P(DEPTH, 1, "Z16", TRUE)>>
StereoLists == {l \in Lists(Stereo, 3) : DEPTH \in Sips(l)}
OtherLists == Lists(Colour, 3) \cup Lists(Imu, 2) \cup {<<v, g>> : v \in Colour, g \in Imu}

Base == [sensors |-> <<Depth>>, video |-> <<TRUE>>, off |-> {}, requests |-> {},
         changes |-> 0, patient |-> TRUE, mayFail |-> {}, reset |-> FALSE, destroy |-> FALSE]
\* Every list of profiles, with the parameters as they are declared.
Declared ==
    {[Base EXCEPT !.sensors = <<l>>] : l \in StereoLists}
    \cup {[Base EXCEPT !.sensors = <<l, Depth>>, !.video = <<TRUE, TRUE>>] : l \in OtherLists}

\* A stereo sensor with two modes, a colour sensor, a motion sensor.
StereoSensor == <<P(DEPTH, 1, "Z16", TRUE), P(INFRA1, 1, "Y8", TRUE), P(DEPTH, 2, "Z16", FALSE)>>
ColourSensor == <<P(COLOR, 2, "RGB8", TRUE), P(COLOR, 1, "RGB8", FALSE)>>
MotionSensor == <<P(Accel, 1, "XYZ", TRUE), P(Gyro, 1, "XYZ", TRUE)>>
One == [Base EXCEPT !.sensors = <<StereoSensor>>]
Two == [Base EXCEPT !.sensors = <<StereoSensor, ColourSensor>>, !.video = <<TRUE, TRUE>>]
WithMotion == [Base EXCEPT !.sensors = <<Depth, MotionSensor>>, !.video = <<TRUE, FALSE>>]

Dynamic ==
    {\* requests at any time, also during updates
     [One EXCEPT !.requests = {"enable", "profile"}, !.changes = 3, !.patient = FALSE],
     [Two EXCEPT !.requests = {"enable"}, !.changes = 3, !.patient = FALSE, !.off = {COLOR}],
     [Two EXCEPT !.requests = {"enable", "align"}, !.changes = 2, !.patient = FALSE,
                 !.destroy = TRUE],
     \* requests one after the other
     [Two EXCEPT !.requests = {"enable", "align", "rgbd"}, !.changes = 4],
     [WithMotion EXCEPT !.requests = {"enable", "unite"}, !.changes = 4],
     \* faults
     [Two EXCEPT !.requests = {"enable"}, !.changes = 1, !.patient = FALSE, !.mayFail = {"start"},
                 !.destroy = TRUE],
     [One EXCEPT !.requests = {"enable"}, !.changes = 2, !.patient = FALSE,
                 !.mayFail = {"start", "stop"}, !.reset = TRUE, !.destroy = TRUE],
     \* the thread of the transforms
     [Base EXCEPT !.requests = {"rate", "enable"}, !.changes = 4, !.patient = FALSE,
                  !.destroy = TRUE]}

AllSettings == Declared \cup Dynamic
=============================================================================
