--------------------------- MODULE MCCaptureFiles ---------------------------
(* Settings for the runs of CaptureFiles. *)
EXTENDS CaptureFiles

CONSTANTS pcd1, png1, sync1

OneByOne == [nodes |-> Node, saveOnce |-> FALSE, concurrent |-> FALSE]
AtOnce == [nodes |-> Node, saveOnce |-> TRUE, concurrent |-> TRUE]
Overlapping == [nodes |-> {pcd1, sync1}, saveOnce |-> FALSE, concurrent |-> TRUE]

BothSettings == {OneByOne, AtOnce}
OverlappingOnly == {Overlapping}
=============================================================================
