--------------------------- MODULE MCControlLoops ---------------------------
(* Instances of ControlLoops for TLC. *)
EXTENDS ControlLoops

CONSTANTS p1, p2, reconciler, east
=============================================================================
