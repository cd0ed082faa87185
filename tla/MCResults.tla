------------------------------ MODULE MCResults ------------------------------
(* Instances of Results for TLC: two runners, the workers split over them.  *)
EXTENDS Results

CONSTANTS u1, u2, w1, w2, w3, east, west

MCRunnerOf == [w \in Workers |-> IF w = w3 THEN west ELSE east]
=============================================================================
