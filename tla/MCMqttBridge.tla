--------------------------- MODULE MCMqttBridge ------------------------------
(* Settings for the run of MqttBridge. *)
EXTENDS MqttBridge

Sound == Kind \ Raises
Patient == [kinds |-> Sound, requests |-> 3, patient |-> TRUE, camera |-> "up", calm |-> TRUE]
AllSettings ==
    {Patient,
     [Patient EXCEPT !.kinds = {"run", "abort"}, !.requests = 5],
     [Patient EXCEPT !.kinds = {"frame", "service", "unsupported"}, !.requests = 4],
     \* a handler raises while a calibration runs or a frame is waited for
     [Patient EXCEPT !.kinds = {"run", "abort", "frame"} \cup Raises],
     [Patient EXCEPT !.kinds = Kind \ {"run"}, !.camera = "absent"],
     [Patient EXCEPT !.camera = "dies"],
     \* the threads meet anywhere, calibrations overlap
     [Patient EXCEPT !.kinds = {"run", "abort"}, !.patient = FALSE, !.calm = FALSE],
     [Patient EXCEPT !.kinds = {"frame", "run"}, !.patient = FALSE, !.calm = FALSE],
     [Patient EXCEPT !.kinds = {"frame", "service", "missing"}, !.calm = FALSE]}
=============================================================================
