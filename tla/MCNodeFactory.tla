-------------------------- MODULE MCNodeFactory -----------------------------
(* Devices and settings for the runs of NodeFactory. *)
EXTENDS NodeFactory

TwoIds == {"cam1", "cam2"}

Ordinary == [lifecycle |-> FALSE, file |-> "no", serial |-> "any", suitable |-> TwoIds,
             initialReset |-> FALSE, timeout |-> 0, span |-> 1, plugs |-> 4, transitions |-> 0,
             failures |-> 0, mayThrow |-> FALSE, calm |-> TRUE, destroy |-> FALSE]
Managed == [Ordinary EXCEPT !.lifecycle = TRUE, !.plugs = 2, !.transitions = 5, !.destroy = TRUE]

CalmSettings ==
    {Ordinary,
     [Ordinary EXCEPT !.serial = "cam1", !.initialReset = TRUE, !.destroy = TRUE],
     [Ordinary EXCEPT !.suitable = {"cam2"}, !.failures = 2],
     [Ordinary EXCEPT !.initialReset = TRUE, !.failures = 1, !.plugs = 3],
     Managed,
     [Managed EXCEPT !.initialReset = TRUE, !.failures = 1, !.plugs = 1, !.transitions = 4,
                     !.suitable = {"cam1"}]}
Timeouts ==
    {[Ordinary EXCEPT !.timeout = t, !.span = s, !.plugs = 2, !.initialReset = TRUE] :
        t \in {1, 3}, s \in {0, 2}}
    \cup {[Ordinary EXCEPT !.timeout = 2, !.plugs = 1, !.mayThrow = TRUE, !.suitable = {"cam1"}]}
\* Everything at any time.
Rough ==
    {[Ordinary EXCEPT !.calm = FALSE, !.plugs = 2, !.mayThrow = TRUE],
     [Ordinary EXCEPT !.calm = FALSE, !.plugs = 0, !.initialReset = TRUE, !.failures = 1,
                      !.suitable = {"cam1"}, !.destroy = TRUE],
     [Ordinary EXCEPT !.calm = FALSE, !.plugs = 1, !.failures = 1, !.suitable = {"cam1"},
                      !.destroy = TRUE],
     [Managed EXCEPT !.calm = FALSE, !.transitions = 3, !.plugs = 1],
     [Managed EXCEPT !.calm = FALSE, !.transitions = 3, !.plugs = 0, !.initialReset = TRUE]}
Files ==
    {[s EXCEPT !.file = f, !.mayThrow = t] :
        s \in {Ordinary, Managed}, f \in {"once", "loop"}, t \in BOOLEAN}

AllSettings == CalmSettings \cup Timeouts \cup Rough \cup Files
\* A lifecycle node whose device is plugged out and in again.
Reconnected == {Managed}
=============================================================================
