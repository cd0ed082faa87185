---------------------------- MODULE MCDeadLetter ----------------------------
(* Instances of DeadLetter for TLC: a run that fails for two reasons, and  *)
(* two runs that may become its retries.                                   *)
EXTENDS DeadLetter, TLC

CONSTANTS u1, u2, u3, w1, p, m, c1, c2

MCKeys == {<<u1, p>>, <<u1, m>>}

(* The clients, and the runs that have no failure, are interchangeable. *)
Symmetry == Permutations(Clients) \cup Permutations({u2, u3})
=============================================================================
