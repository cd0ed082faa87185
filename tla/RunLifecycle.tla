---------------------------- MODULE RunLifecycle ----------------------------
(***************************************************************************)
(* What the control plane promises about one run (a Result): it is created *)
(* pending or already failed, it is started by at most one worker, and it  *)
(* ends exactly once.  How the API handlers, the reconciler and the dead-  *)
(* letter path race to make these transitions is module Results' business. *)
(***************************************************************************)
CONSTANTS Runs, Workers, NoWorker

VARIABLES
  state,   \* state[u]: JobStatus of run u, "absent" before it is created
  holder   \* holder[u]: the worker that was authorised to execute run u

vars == <<state, holder>>

(* JobStatus.IsTerminal *)
TerminalStates == {"completed", "errored", "timeout"}

JobStates == {"absent", "pending", "running"} \cup TerminalStates

TypeOK ==
  /\ state \in [Runs -> JobStates]
  /\ holder \in [Runs -> Workers \cup {NoWorker}]

(* A run may predate the process that looks at it, so it may start pending. *)
Init ==
  /\ state \in [Runs -> {"absent", "pending"}]
  /\ holder = [u \in Runs |-> NoWorker]

Move(u, from, to) ==
  /\ state[u] \in from
  /\ state' = [state EXCEPT ![u] = to]

(* The run is recorded: dispatched, or terminal because nothing can take it. *)
Submit(u) ==
  /\ \E to \in {"pending", "errored"} : Move(u, {"absent"}, to)
  /\ UNCHANGED holder

(* One worker is authorised; nobody was before. *)
Start(u, w) ==
  /\ Move(u, {"pending"}, "running")
  /\ holder[u] = NoWorker
  /\ holder' = [holder EXCEPT ![u] = w]

(* The authorised worker's outcome is recorded. *)
Finish(u) == Move(u, {"running"}, "completed") /\ UNCHANGED holder

(* The run will never be executed. *)
Fail(u) == Move(u, {"pending"}, "errored") /\ UNCHANGED holder

(* The run was waited for long enough. *)
Expire(u) == Move(u, {"pending", "running"}, "timeout") /\ UNCHANGED holder

Next ==
  \E u \in Runs :
    \/ Submit(u)
    \/ \E w \in Workers : Start(u, w)
    \/ Finish(u)
    \/ Fail(u)
    \/ Expire(u)

Spec == Init /\ [][Next]_vars
=============================================================================
