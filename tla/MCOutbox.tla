------------------------------ MODULE MCOutbox ------------------------------
(* Instances of Outbox for TLC: an ordinary dispatch and an unplaced one.   *)
EXTENDS Outbox

CONSTANTS e1, e2, r1, r2
=============================================================================
