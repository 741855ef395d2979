------------------------ MODULE TriggeredCalibration ------------------------
(***************************************************************************)
(* The camera node's action server for calibrations.  It accepts every     *)
(* goal and every cancellation and runs each goal in a detached thread of  *)
(* its own.  librealsense reports progress to a callback of that thread,   *)
(* where alone a cancellation is noticed.                                  *)
(*                                                                         *)
(* Abstracted: progress is 0, 50 or 100 percent; feedback, tables and      *)
(* health are left out.                                                    *)
(***************************************************************************)
EXTENDS Naturals

CONSTANT MaxGoals   \* the number of goals (bound)
ASSUME TriggeredCalibrationAssumption == MaxGoals \in Nat

Goals == 1..MaxGoals
Ended == {"succeeded", "canceled", "aborted"}

VARIABLE goals  \* each goal's state, its thread, _progress and cancelled

CalibrationInit ==
    goals = [g \in Goals |->
               [state |-> "none", thread |-> "none", progress |-> 0, cancelled |-> FALSE]]

\* ACCEPT_AND_EXECUTE; TriggeredCalibrationHandleAccepted starts the thread.
HandleGoal(g) ==
    /\ goals[g].state = "none"
    /\ goals' = [goals EXCEPT ![g] = [@ EXCEPT !.state = "executing", !.thread = "running"]]

\* A goal that has ended is not canceled any more.
HandleCancel(g) ==
    goals' = IF goals[g].state = "executing"
                 THEN [goals EXCEPT ![g] = [@ EXCEPT !.state = "canceling"]]
                 ELSE goals

\* The progress callback; the calibration is told to abort once.
Progress(g, p) ==
    /\ goals[g].thread = "running" /\ p >= goals[g].progress
    /\ goals' = IF goals[g].state = "canceling"
                THEN [goals EXCEPT ![g] = [@ EXCEPT !.cancelled = TRUE]]
                ELSE [goals EXCEPT ![g] = [@ EXCEPT !.progress = p]]

\* canceled() throws for a goal that is not being canceled; then abort() ends it.
\* Mutants: it does not throw; nobody catches what it throws.
CanceledAnyway(g) == "canceled"
CanceledUncaught(g) == IF goals[g].state = "canceling" THEN "canceled" ELSE "executing"
CanceledOrAborted(g) == IF goals[g].state = "canceling" THEN "canceled" ELSE "aborted"

\* run_on_chip_calibration returns, for whatever reason, or throws.
ExecuteEnds(g) ==
    /\ goals[g].thread = "running"
    /\ \E end \in {IF goals[g].progress = 100 THEN "succeeded" ELSE CanceledOrAborted(g), "aborted"} :
          goals' = [goals EXCEPT ![g] = [@ EXCEPT !.state = end, !.thread = "ended"]]

CalibrationNext ==
    \E g \in Goals :
        \/ HandleGoal(g) \/ HandleCancel(g) \/ ExecuteEnds(g)
        \/ \E p \in {50, 100} : Progress(g, p)
CalibrationSpec == CalibrationInit /\ [][CalibrationNext]_goals

Goal == [state : {"none", "executing", "canceling"} \cup Ended,
         thread : {"none", "running", "ended"},
         progress : {0, 50, 100}, cancelled : BOOLEAN]
CalibrationTypeOK == goals \in [Goals -> Goal]

\* A goal ends when its thread does and only then, and only a calibration that
\* reported to be complete succeeds (TriggeredCalibrationExecute).
GoalsEndAsTheyRan ==
    \A g \in Goals :
        /\ goals[g].state \in Ended <=> goals[g].thread = "ended"
        /\ goals[g].state = "succeeded" => goals[g].progress = 100

Protocol == INSTANCE GoalProtocol WITH state <- [g \in Goals |-> goals[g].state]
\* The server keeps to the protocol although it reports every unfinished calibration
\* as canceled, also one that nobody canceled (actions.cpp:134).
GoalsFollowProtocol == Protocol!Spec
=============================================================================
