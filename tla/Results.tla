------------------------------- MODULE Results -------------------------------
(***************************************************************************)
(* The Result store and every handler that writes a Result: the run API's  *)
(* Create, ClaimRun, Auth (deprecated) and UpdateStatus, the reconciler's   *)
(* ExpireRun and the dead-letter path's strandRun.                          *)
(*                                                                          *)
(* No handler is atomic.  Each one reads the Result, decides, and writes it *)
(* back with a version-guarded Update, and any number of others may write   *)
(* in between.  A handler past its read is a record of `handlers' carrying  *)
(* the entry as it read it; a later step is its guarded write.              *)
(***************************************************************************)
EXTENDS Integers, FiniteSets

CONSTANTS
  Runs,           \* Results, by UID
  Workers,        \* registered worker instances
  Runners,        \* runners, the groups workers belong to
  RunnerOf,       \* RunnerOf[w]: the runner worker w is an instance of
  LegacyWorkers,  \* workers that claim through the deprecated Auth route
  LegacyRuns,     \* runs that may be stored, pending, from before execution snapshots
  NoWorker,       \* empty Executor.WorkerID
  NoRunner,       \* empty Executor.RunnerID
  MaxHandlers     \* bound: handlers between their read and their write

ASSUME ResultsAssumption ==
  /\ NoWorker \notin Workers
  /\ NoRunner \notin Runners
  /\ RunnerOf \in [Workers -> Runners]
  /\ LegacyWorkers \subseteq Workers
  /\ LegacyRuns \subseteq Runs
  /\ MaxHandlers \in Nat

VARIABLES
  result,    \* result[u]: the stored Result of run u
  handlers,  \* read-modify-write handlers that have read and not yet written
  grants,    \* every authorisation (AuthJobResponse) ever issued
  lapsed,    \* runs whose execution lease and its grace have elapsed
  aged       \* runs created longer than the pending timeout ago

vars == <<result, handlers, grants, lapsed, aged>>

-----------------------------------------------------------------------------
(* Types *)

(* JobStatus; "absent" is a Result that has not been created. *)
TerminalStates == {"completed", "errored", "timeout"}
JobStatus == {"absent", "pending", "running"} \cup TerminalStates

(* Result, down to what its transitions look at.  `dispatched' says that     *)
(* Status.DispatchID is recorded: a run has one dispatch, because its event *)
(* UID is made of the UID and the version it is pending at, and nothing     *)
(* writes a Result without ending its being pending.                        *)
Result ==
  [status     : JobStatus,
   version    : Nat,
   runner     : Runners \cup {NoRunner},
   worker     : Workers \cup {NoWorker},
   dispatched : BOOLEAN,
   leased     : BOOLEAN,                  \* Status.Deadline is set
   started    : BOOLEAN,                  \* Spec.TimeStarted is set
   snapshot   : BOOLEAN]                  \* Spec.Execution is not zero

Ops == {"claim", "auth", "report", "unschedulable", "expire", "strand"}

(* One handler in flight: which, for whom, and the entry it read. *)
Handler == [op : Ops, run : Runs, worker : Workers \cup {NoWorker}, entry : Result]

(* AuthJobResponse: the versioned ID and the run token's subject. *)
Grant == [run : Runs, worker : Workers, version : Nat]

Absent ==
  [status |-> "absent", version |-> 0, runner |-> NoRunner, worker |-> NoWorker,
   dispatched |-> FALSE, leased |-> FALSE, started |-> FALSE, snapshot |-> FALSE]

Pending(runner, started, snapshot) ==
  [Absent EXCEPT !.status = "pending", !.version = 1, !.runner = runner,
                 !.started = started, !.snapshot = snapshot]

IsTerminal(entry) == entry.status \in TerminalStates

-----------------------------------------------------------------------------
(* Transitions applied to an entry in memory *)

(* failRun, and the same assignments in markUnschedulable *)
FailRun(entry) == [entry EXCEPT !.status = "errored"]

ExpireResult(entry) == [entry EXCEPT !.status = "timeout"]

(* Mutation: the two IDs of executorRef swapped *)
ClaimedSwapped(entry, w) ==
  [entry EXCEPT !.status = "running", !.started = TRUE, !.runner = w,
                !.worker = RunnerOf[w], !.dispatched = TRUE, !.leased = TRUE]

(* The part of ClaimRun between its checks and its write *)
Claimed(entry, w) ==
  [entry EXCEPT !.status = "running", !.started = TRUE, !.runner = RunnerOf[w],
                !.worker = w, !.dispatched = TRUE, !.leased = TRUE]

(* Auth records neither a dispatch nor a deadline. *)
Authed(entry, w) ==
  [entry EXCEPT !.status = "running", !.started = TRUE, !.runner = RunnerOf[w],
                !.worker = w]

(* UpdateStatus records completion whatever the entry's state was. *)
Completed(entry) == [entry EXCEPT !.status = "completed"]

Written(h) ==
  CASE h.op = "claim"                      -> Claimed(h.entry, h.worker)
    [] h.op = "auth"                       -> Authed(h.entry, h.worker)
    [] h.op = "report"                     -> Completed(h.entry)
    [] h.op \in {"unschedulable", "strand"} -> FailRun(h.entry)
    [] h.op = "expire"                     -> ExpireResult(h.entry)

-----------------------------------------------------------------------------
(* The store *)

(* Mutation: saveResource in place of the guarded Update *)
Unguarded(h) == h.entry.version \in Nat

(* dbstore.Update WithVersion: the write applies only to the version that   *)
(* was read, and moves the version on.                                      *)
Guarded(h) == result[h.run].version = h.entry.version

Update(h) ==
  result' = [result EXCEPT ![h.run] = [Written(h) EXCEPT !.version = h.entry.version + 1]]

GrantOf(u, w, version) == [run |-> u, worker |-> w, version |-> version]

(* A handler has read its Result and goes on to write it. *)
Read(op, u, w) ==
  /\ Cardinality(handlers) < MaxHandlers
  /\ handlers' = handlers \cup {[op |-> op, run |-> u, worker |-> w, entry |-> result[u]]}
  /\ UNCHANGED <<result, grants, lapsed, aged>>

-----------------------------------------------------------------------------
(* Create *)

(* A run that placement found a runner for.  The request's own TimeStarted, *)
(* when it has one, is replaced by the current time rather than cleared.    *)
CreatePlaced(u, runner, started) ==
  /\ result[u].status = "absent"
  /\ result' = [result EXCEPT ![u] = Pending(runner, started, TRUE)]
  /\ UNCHANGED <<handlers, grants, lapsed, aged>>

(* A run nothing can take is terminal before it is written. *)
CreateUnplaced(u, started) ==
  /\ result[u].status = "absent"
  /\ result' = [result EXCEPT ![u] = FailRun(Pending(NoRunner, started, TRUE))]
  /\ UNCHANGED <<handlers, grants, lapsed, aged>>

-----------------------------------------------------------------------------
(* ClaimRun *)

(* Mutation: isReclaim forgets whose claim it was *)
IsReclaimByAnyone(entry, w) == entry.status = "running" /\ w \in Workers /\ entry.dispatched

(* isReclaim, for the only dispatch a run has *)
IsReclaim(entry, w) ==
  entry.status = "running" /\ entry.worker = w /\ entry.dispatched

(* Mutation: the runner is not compared *)
ClaimAdmittedAnyRunner(entry, w) ==
  /\ entry.status # "absent"
  /\ entry.version = 1 \/ IsReclaim(entry, w)

(* The checks every claim passes before its status is looked at: the        *)
(* dispatch's version (always the one a Result is created with) against the *)
(* entry's, unless it is this worker's own claim; and the runner.           *)
ClaimAdmitted(entry, w) ==
  /\ entry.status # "absent"
  /\ entry.version = 1 \/ IsReclaim(entry, w)
  /\ entry.runner \in {NoRunner, RunnerOf[w]}

ClaimRead(w, u) ==
  /\ ClaimAdmitted(result[u], w)
  /\ result[u].snapshot
  /\ result[u].status = "pending"
  /\ Read("claim", u, w)

(* The idempotent case: the authorisation is issued again, nothing written. *)
Reclaim(w, u) ==
  /\ ClaimAdmitted(result[u], w)
  /\ result[u].snapshot
  /\ IsReclaim(result[u], w)
  /\ grants' = grants \cup {GrantOf(u, w, result[u].version)}
  /\ UNCHANGED <<result, handlers, lapsed, aged>>

(* markUnschedulable: a pending run that does not say what it is. *)
UnschedulableRead(w, u) ==
  /\ ClaimAdmitted(result[u], w)
  /\ ~result[u].snapshot
  /\ result[u].status = "pending"
  /\ Read("unschedulable", u, w)

-----------------------------------------------------------------------------
(* Auth, the deprecated claim: it never looks at the entry's runner. *)
AuthRead(w, u) ==
  /\ w \in LegacyWorkers
  /\ result[u].status = "pending"
  /\ ~result[u].started
  /\ Read("auth", u, w)

(* Mutation: the entry is read at whatever version it is *)
ReportReadAnyVersion(g) ==
  /\ g \in grants
  /\ g.run \notin lapsed
  /\ Read("report", g.run, g.worker)

(* UpdateStatus: the entry is read at the version the report names, and the *)
(* run token is still within its grace.                                     *)
ReportRead(g) ==
  /\ g \in grants
  /\ result[g.run].version = g.version
  /\ g.run \notin lapsed
  /\ Read("report", g.run, g.worker)

-----------------------------------------------------------------------------
(* Reconciler candidates and the dead-letter path *)

(* ExpiredRuns: running, with a deadline, past its grace. *)
ExpiredRead(u) ==
  /\ result[u].status = "running"
  /\ result[u].leased
  /\ u \in lapsed
  /\ Read("expire", u, NoWorker)

(* StalePendingRuns whose dispatch is published or retired; whether it is   *)
(* depends on the outbox, which module Dispatch adds.                       *)
StalePendingRead(u) ==
  /\ result[u].status = "pending"
  /\ u \in aged
  /\ Read("expire", u, NoWorker)

(* Mutation: strandRunTx does not check that the run is still pending *)
StrandReadAnyState(u) ==
  /\ result[u].status # "absent"
  /\ Read("strand", u, NoWorker)

(* strandRunTx reads the run a dead dispatch was carrying. *)
StrandRead(u) ==
  /\ result[u].status = "pending"
  /\ Read("strand", u, NoWorker)

-----------------------------------------------------------------------------
(* The guarded writes *)

(* Mutation: the response carries the version that was read *)
CommitClaimOldVersion(h) ==
  /\ h.op \in {"claim", "auth"}
  /\ Guarded(h)
  /\ Update(h)
  /\ grants' = grants \cup {GrantOf(h.run, h.worker, h.entry.version)}
  /\ handlers' = handlers \ {h}
  /\ UNCHANGED <<lapsed, aged>>

(* ClaimRun and Auth authorise the worker once their write has applied. *)
CommitClaim(h) ==
  /\ h.op \in {"claim", "auth"}
  /\ Guarded(h)
  /\ Update(h)
  /\ grants' = grants \cup {GrantOf(h.run, h.worker, h.entry.version + 1)}
  /\ handlers' = handlers \ {h}
  /\ UNCHANGED <<lapsed, aged>>

(* ExpireRun refuses an entry that was terminal when it was read. *)
CommitOutcome(h) ==
  /\ h.op \notin {"claim", "auth"}
  /\ h.op = "expire" => ~IsTerminal(h.entry)
  /\ Guarded(h)
  /\ Update(h)
  /\ handlers' = handlers \ {h}
  /\ UNCHANGED <<grants, lapsed, aged>>

(* The guard rejected the write (claimObsolete "lost claim race", a version *)
(* conflict, errLostRace), or the store failed or the server died: the      *)
(* handler ends having written nothing.                                     *)
Abandon(h) ==
  /\ handlers' = handlers \ {h}
  /\ UNCHANGED <<result, grants, lapsed, aged>>

-----------------------------------------------------------------------------
(* Time *)

(* The deadline and its grace elapse.  One flag for the lease and the run   *)
(* token: both outlive the deadline by artifactUploadGrace.                 *)
LeaseLapses(u) ==
  /\ result[u].status = "running"
  /\ u \notin lapsed
  /\ lapsed' = lapsed \cup {u}
  /\ UNCHANGED <<result, handlers, grants, aged>>

PendingAges(u) ==
  /\ result[u].status = "pending"
  /\ u \notin aged
  /\ aged' = aged \cup {u}
  /\ UNCHANGED <<result, handlers, grants, lapsed>>

-----------------------------------------------------------------------------
Init ==
  /\ result \in [Runs -> {Absent, Pending(NoRunner, FALSE, FALSE)}]
  /\ \A u \in Runs \ LegacyRuns : result[u] = Absent
  /\ handlers = {}
  /\ grants = {}
  /\ lapsed = {}
  /\ aged = {}

Create(u) ==
  \E started \in BOOLEAN :
    CreateUnplaced(u, started) \/ \E r \in Runners : CreatePlaced(u, r, started)

Begin(u) ==
  \/ \E w \in Workers : ClaimRead(w, u) \/ UnschedulableRead(w, u) \/ AuthRead(w, u)
  \/ ExpiredRead(u)
  \/ StalePendingRead(u)
  \/ StrandRead(u)

End == \E h \in handlers : CommitClaim(h) \/ CommitOutcome(h) \/ Abandon(h)

Next ==
  \/ \E u \in Runs :
       \/ Create(u)
       \/ Begin(u)
       \/ \E w \in Workers : Reclaim(w, u)
       \/ LeaseLapses(u)
       \/ PendingAges(u)
  \/ \E g \in grants : ReportRead(g)
  \/ End

Spec == Init /\ [][Next]_vars

-----------------------------------------------------------------------------
(* Properties *)

(* Every variable has its type. *)
TypeOK ==
  /\ result \in [Runs -> Result]
  /\ handlers \subseteq Handler
  /\ grants \subseteq Grant
  /\ lapsed \subseteq Runs
  /\ aged \subseteq Runs

(* All authorisations ever issued for a run name one worker and one version *)
(* of the Result: two workers racing ClaimRun never both win, and a worker  *)
(* whose claim response was lost is given the same authorisation again.     *)
OneExecutor ==
  \A g, h \in grants : g.run = h.run => g = h

(* While a run is running, whoever holds an authorisation for it is its     *)
(* recorded executor, and the version that authorisation names is the one   *)
(* UpdateStatus will find: a finished run can always be reported.           *)
HolderCanReport ==
  \A g \in grants :
    result[g.run].status = "running" =>
      g.worker = result[g.run].worker /\ g.version = result[g.run].version

(* failRun and markUnschedulable end runs that were never authorised: a     *)
(* dead dispatch does not take down a run a redelivery has started.         *)
FailedRunNeverStarted ==
  \A g \in grants : result[g.run].status # "errored"

(* A finished run is history: no late report, expiry or stranding rewrites  *)
(* anything of a terminal Result.                                           *)
TerminalIsFinal ==
  [][\A u \in Runs : IsTerminal(result[u]) => result'[u] = result[u]]_vars

(* UpdateStatus never checks the state it overwrites; all the same it only  *)
(* completes a run that is running, for the worker that was authorised.     *)
OnlyExecutorCompletes ==
  [][\A u \in Runs :
       result'[u].status = "completed" /\ result[u].status # "completed" =>
         /\ result[u].status = "running"
         /\ GrantOf(u, result[u].worker, result[u].version) \in grants]_vars

(* No race moves a run off the runner it was placed on: ClaimRun checks the *)
(* placement on a read that its write is guarded by.  Only a worker that    *)
(* came through the deprecated Auth may belong to another runner.           *)
PlacementIsKept ==
  [][\A u \in Runs :
       result[u].runner \in Runners =>
         result'[u].runner = result[u].runner \/ result'[u].worker \in LegacyWorkers]_vars

(* The handlers implement the lifecycle of a run. *)
Lifecycle == INSTANCE RunLifecycle WITH
  state <- [u \in Runs |-> result[u].status],
  holder <- [u \in Runs |-> result[u].worker]

(* Every interleaving of the handlers is a behaviour of RunLifecycle. *)
ImplementsLifecycle == Lifecycle!Spec

=============================================================================
