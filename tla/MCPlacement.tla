----------------------------- MODULE MCPlacement -----------------------------
(* Instances of Placement for TLC: two runners, the second with two workers. *)
EXTENDS Placement, TLC

CONSTANTS c1, c2, u1, u2, w1, w2, w3, scenario

MCHomeOf == [w \in Workers |-> IF w = w1 THEN 1 ELSE 2]

MCScenarioSpecs ==
  {[active |-> TRUE, requires |-> "any", prob |-> "a"],
   [active |-> TRUE, requires |-> "near", prob |-> "b"],
   [active |-> TRUE, requires |-> Malformed, prob |-> "a"]}

Near == [active |-> TRUE, labels |-> {"near"}]
Far == [active |-> TRUE, labels |-> {}]
Inactive == [active |-> FALSE, labels |-> {"near"}]

MCRunnerSpecs == {Near, Far, Inactive}

(* Both runners with workers, alike or the first far; both without; and the *)
(* second alone.                                                            *)
MCFleets ==
  {[runners |-> {1, 2}, specs |-> <<Near, Near>>, online |-> {w1, w3}, out |-> {w2}],
   [runners |-> {1, 2}, specs |-> <<Far, Near>>, online |-> {w1, w3}, out |-> {w2}],
   [runners |-> {1, 2}, specs |-> <<Near, Near>>, online |-> {}, out |-> {}],
   [runners |-> {2}, specs |-> <<Near, Near>>, online |-> {w3}, out |-> {}]}

Symmetry == Permutations(Clients) \cup Permutations(Runs)
=============================================================================
