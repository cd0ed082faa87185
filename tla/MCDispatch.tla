----------------------------- MODULE MCDispatch -----------------------------
(* Instances of Dispatch for TLC: one runner with all the workers. *)
EXTENDS Dispatch

CONSTANTS u1, w1, w2, r1, east

MCRunnerOf == [w \in Workers |-> east]
=============================================================================
