---------------------------- MODULE GoalProtocol ----------------------------
(***************************************************************************)
(* What the clients of an action may rely on: a goal is executed once, is  *)
(* reported as canceled only after its cancellation was accepted, and has  *)
(* one result, which is final.                                             *)
(***************************************************************************)
CONSTANT Goals
VARIABLE state

Init == state = [g \in Goals |-> "none"]

MayFollow == [none |-> {"executing"},
              executing |-> {"canceling", "succeeded", "aborted"},
              canceling |-> {"canceled", "succeeded", "aborted"},
              succeeded |-> {}, canceled |-> {}, aborted |-> {}]
Change(g) == \E next \in MayFollow[state[g]] : state' = [state EXCEPT ![g] = next]
Next == \E g \in Goals : Change(g)
Spec == Init /\ [][Next]_state
=============================================================================
