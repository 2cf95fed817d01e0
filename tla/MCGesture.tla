----------------------------- MODULE MCGesture ------------------------------
(* Instances of Gesture for TLC. *)
EXTENDS Gesture

MCFingers == {0, 1}

============================================================================
