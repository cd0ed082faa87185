---------------------------- MODULE ControlLoops ----------------------------
(***************************************************************************)
(* The control loops of the api-server replicas: the Manager that starts,  *)
(* restarts and stops a process's loops, and the reconciler's loop with    *)
(* its scan lease, its passes and the runner queues it restores.  What the *)
(* other passes repair is in Dispatch and Fleet.                           *)
(*                                                                         *)
(* A replica that is started again is another process: a reconciler takes  *)
(* the lease under a name made up when it is built.  Time is in steps that *)
(* may happen at any moment, so a scan may outlast its lease.              *)
(***************************************************************************)
EXTENDS Integers, Sequences, FiniteSets

CONSTANTS
  Procs,        \* api-server processes
  NoProc,
  Loops,        \* control loops a process may host
  Reconciler,   \* the one that scans
  Runners,
  MinBackoff,   \* Manager.minBackoff
  MaxBackoff,   \* Manager.maxBackoff
  MaxFaults     \* bound: crashes, panics, failed or unanswered calls, lost queues

ASSUME LoopsAssumption ==
  /\ NoProc \notin Procs
  /\ Reconciler \in Loops
  /\ MinBackoff \in Nat \ {0}
  /\ MaxBackoff \in Nat
  /\ MinBackoff <= MaxBackoff
  /\ MaxFaults \in Nat

VARIABLES
  phase,    \* phase[p]: where process p is in its life
  loops,    \* loops[p][l]: loop l under p's Manager
  scan,     \* scan[p]: RunOnce of p's reconciler
  lease,    \* the ReconcileLease row
  left,     \* history: processes that could not give the lease back
  active,   \* runners with is_active
  queues,   \* runners whose consumer exists
  faults    \* faults so far

vars == <<phase, loops, scan, lease, left, active, queues, faults>>

-----------------------------------------------------------------------------
(* Types *)

(* stopping: the context is cancelled.  stopped: Wait returned nil.         *)
(* killed: it timed out, or the process died.                               *)
Phases == {"new", "composed", "up", "stopping", "stopped", "killed"}

(* backoff: how long the next restart waits. *)
Loop == [state : {"absent", "registered", "running", "waiting", "ended"}, backoff : Nat]

Absent == [state |-> "absent", backoff |-> MinBackoff]

(* The passes of a scan in their order, the four over relay leases, runs    *)
(* and dispatches as one.                                                   *)
Passes == <<"dispatches", "runner channels", "silent workers">>

Stages == {"idle", "creating", "scanning", "restoring", "releasing"}

(* pass: passes done.  targets: active runners the scan has yet to look at. *)
(* owed (history): runners that had no queue when the scan began and have   *)
(* been active without one ever since.  overran (history): its lease        *)
(* expired under it.                                                        *)
Scan ==
  [stage : Stages, pass : 0 .. Len(Passes), targets : SUBSET Runners, failed : BOOLEAN,
   panicked : BOOLEAN, owed : SUBSET Runners, overran : BOOLEAN]

NoScan ==
  [stage |-> "idle", pass |-> 0, targets |-> {}, failed |-> FALSE, panicked |-> FALSE,
   owed |-> {}, overran |-> FALSE]

(* holder NoProc: the row does not exist.  live: expires_at is to come. *)
Lease == [holder : Procs \cup {NoProc}, live : BOOLEAN]

Fault == faults < MaxFaults /\ faults' = faults + 1

InScan(p) == scan[p].stage \in {"scanning", "restoring", "releasing"}

-----------------------------------------------------------------------------
(* The Manager *)

(* Add: a loop added to a Manager that has started would never run. *)
MayAdd(p) == phase[p] = "new"

(* Register: a process hosts the loops its configuration enables. *)
Register(p, enabled) ==
  /\ MayAdd(p)
  /\ phase' = [phase EXCEPT ![p] = "composed"]
  /\ loops' = [loops EXCEPT ![p] = [l \in Loops |->
                 IF l \in enabled THEN [Absent EXCEPT !.state = "registered"] ELSE Absent]]
  /\ UNCHANGED <<scan, lease, left, active, queues, faults>>

Start(p) ==
  /\ phase[p] = "composed"
  /\ phase' = [phase EXCEPT ![p] = "up"]
  /\ loops' = [loops EXCEPT ![p] = [l \in Loops |->
                 IF loops[p][l].state = "registered"
                   THEN [loops[p][l] EXCEPT !.state = "running"] ELSE loops[p][l]]]
  /\ UNCHANGED <<scan, lease, left, active, queues, faults>>

(* Mutation: an error ends the loop, and only a panic has it restarted *)
AfterRunQuiet(p, l, long) ==
  IF phase[p] # "up" \/ ~scan[p].panicked
    THEN [loops[p][l] EXCEPT !.state = "ended"]
    ELSE [loops[p][l] EXCEPT !.state = "waiting", !.backoff = IF long THEN MinBackoff ELSE @]

(* supervise, once runOnce is back, by return or by panic.  long: the loop  *)
(* was up for healthyRunTime.                                               *)
AfterRun(p, l, long) ==
  IF phase[p] # "up"
    THEN [loops[p][l] EXCEPT !.state = "ended"]
    ELSE [loops[p][l] EXCEPT !.state = "waiting", !.backoff = IF long THEN MinBackoff ELSE @]

(* A loop returns or panics outside a scan.  Loops other than the           *)
(* reconciler's may do so for ever.                                         *)
Returns(p, l) ==
  /\ loops[p][l].state = "running"
  /\ phase[p] = "up"
  /\ IF l = Reconciler THEN scan[p].stage = "idle" /\ Fault ELSE UNCHANGED faults
  /\ \E long \in BOOLEAN : loops' = [loops EXCEPT ![p][l] = AfterRun(p, l, long)]
  /\ UNCHANGED <<phase, scan, lease, left, active, queues>>

Doubled(backoff) == IF 2 * backoff > MaxBackoff THEN MaxBackoff ELSE 2 * backoff

(* The timer fires.  With the context cancelled as well, select may still   *)
(* choose the timer.                                                        *)
Restarts(p, l) ==
  /\ loops[p][l].state = "waiting"
  /\ loops' = [loops EXCEPT ![p][l].state = "running", ![p][l].backoff = Doubled(@)]
  /\ UNCHANGED <<phase, scan, lease, left, active, queues, faults>>

(* The context is cancelled: a loop that waits, between runs or between     *)
(* scans, is done.                                                          *)
Ends(p, l) ==
  /\ phase[p] = "stopping"
  /\ loops[p][l].state \in {"running", "waiting"}
  /\ l = Reconciler => scan[p].stage = "idle"
  /\ loops' = [loops EXCEPT ![p][l].state = "ended"]
  /\ UNCHANGED <<phase, scan, lease, left, active, queues, faults>>

(* A signal cancels the context. *)
Shutdown(p) ==
  /\ phase[p] = "up"
  /\ phase' = [phase EXCEPT ![p] = "stopping"]
  /\ UNCHANGED <<loops, scan, lease, left, active, queues, faults>>

(* Wait *)
Stopped(p) ==
  /\ phase[p] = "stopping"
  /\ \A l \in Loops : loops[p][l].state \in {"absent", "ended"}
  /\ phase' = [phase EXCEPT ![p] = "stopped"]
  /\ UNCHANGED <<loops, scan, lease, left, active, queues, faults>>

(* ErrShutdownTimeout, or the process dies: nothing it was doing goes on.   *)
Killed(p) ==
  /\ \/ phase[p] = "stopping" /\ UNCHANGED faults
     \/ phase[p] = "up" /\ Fault
  /\ phase' = [phase EXCEPT ![p] = "killed"]
  /\ loops' = [loops EXCEPT ![p] = [l \in Loops |-> Absent]]
  /\ scan' = [scan EXCEPT ![p] = NoScan]
  /\ UNCHANGED <<lease, left, active, queues>>

-----------------------------------------------------------------------------
(* The scan lease *)

Missing == active \ queues

ScanBegins(p) ==
  /\ lease' = [holder |-> p, live |-> TRUE]
  /\ scan' = [scan EXCEPT ![p] = [NoScan EXCEPT !.stage = "scanning", !.owed = Missing]]

(* Mutation: a lease is not taken over *)
AvailableToHolder(p) == lease.holder = p

(* The rows AcquireScanLease's UPDATE matches *)
Available(p) == lease.holder # NoProc /\ (~lease.live \/ lease.holder = p)

(* A cancelled context fails every query. *)
MayAsk(p) == phase[p] = "up"

(* AcquireScanLease, its UPDATE *)
TakeLease(p) ==
  /\ MayAsk(p)
  /\ loops[p][Reconciler].state = "running"
  /\ scan[p].stage = "idle"
  /\ IF Available(p) THEN ScanBegins(p)
                     ELSE /\ scan' = [scan EXCEPT ![p].stage = "creating"]
                          /\ UNCHANGED lease
  /\ UNCHANGED <<phase, loops, left, active, queues, faults>>

(* AcquireScanLease, its INSERT: on conflict the scan is skipped, and not   *)
(* recorded.                                                                *)
CreateLease(p) ==
  /\ MayAsk(p)
  /\ scan[p].stage = "creating"
  /\ IF lease.holder = NoProc THEN ScanBegins(p)
                              ELSE scan' = [scan EXCEPT ![p] = NoScan] /\ UNCHANGED lease
  /\ UNCHANGED <<phase, loops, left, active, queues, faults>>

(* The lease could not be asked for, or was taken and the answer lost:      *)
(* RunOnce returns before it has deferred the release.                      *)
AcquireFails(p) ==
  /\ phase[p] \in {"up", "stopping"}
  /\ loops[p][Reconciler].state = "running"
  /\ scan[p].stage \in {"idle", "creating"}
  /\ \/ phase[p] = "stopping" /\ UNCHANGED <<lease, left, faults>>
     \/ Fault /\ UNCHANGED <<lease, left>>
     \/ /\ Fault
        /\ Available(p)
        /\ lease' = [holder |-> p, live |-> TRUE]
        /\ left' = left \cup {p}
  /\ scan' = [scan EXCEPT ![p] = NoScan]
  /\ UNCHANGED <<phase, loops, active, queues>>

(* The lease is not renewed while the scan goes on. *)
LeaseExpires ==
  /\ lease.live
  /\ lease' = [lease EXCEPT !.live = FALSE]
  /\ scan' = [scan EXCEPT ![lease.holder].overran = InScan(lease.holder)]
  /\ UNCHANGED <<phase, loops, left, active, queues, faults>>

-----------------------------------------------------------------------------
(* The scan *)

Pass(p) == Passes[scan[p].pass + 1]

Passing(p) == scan[p].stage = "scanning" /\ scan[p].pass < Len(Passes)

(* A pass over runs, dispatches or workers.  A failure is counted, and the  *)
(* next pass is made all the same.                                          *)
OtherPass(p) ==
  /\ Passing(p)
  /\ Pass(p) # "runner channels"
  /\ \E failed \in BOOLEAN :
       /\ phase[p] = "stopping" => failed
       /\ IF failed /\ phase[p] = "up" THEN Fault ELSE UNCHANGED faults
       /\ scan' = [scan EXCEPT ![p].pass = @ + 1, ![p].failed = @ \/ failed]
  /\ UNCHANGED <<phase, loops, lease, left, active, queues>>

(* ActiveRunnerUIDs *)
ListRunners(p) ==
  /\ Passing(p)
  /\ Pass(p) = "runner channels"
  /\ \/ /\ phase[p] = "up"
        /\ UNCHANGED faults
        /\ scan' = [scan EXCEPT ![p].stage = "restoring", ![p].targets = active]
     \/ /\ IF phase[p] = "up" THEN Fault ELSE UNCHANGED faults
        /\ scan' = [scan EXCEPT ![p].pass = @ + 1, ![p].failed = TRUE]
  /\ UNCHANGED <<phase, loops, lease, left, active, queues>>

(* The queue of runner r is there: nobody owes it any more. *)
Restored(r) ==
  /\ queues' = queues \cup {r}
  /\ scan' = [q \in Procs |-> [scan[q] EXCEPT !.owed = @ \ {r}]]

(* EnsureRunnerChannel *)
RestoreQueue(p, r) ==
  /\ scan[p].stage = "restoring"
  /\ r \in scan[p].targets
  /\ phase[p] = "up"
  /\ queues' = queues \cup {r}
  /\ scan' = [q \in Procs |->
                [scan[q] EXCEPT !.owed = @ \ {r}, !.targets = IF q = p THEN @ \ {r} ELSE @]]
  /\ UNCHANGED <<phase, loops, lease, left, active, faults>>

(* Mutation: a queue that could not be restored is only logged *)
RestoreFailsUncounted(p, r) ==
  /\ scan[p].stage = "restoring"
  /\ r \in scan[p].targets
  /\ IF phase[p] = "up" THEN Fault ELSE UNCHANGED faults
  /\ scan' = [scan EXCEPT ![p].targets = @ \ {r}]
  /\ UNCHANGED <<phase, loops, lease, left, active, queues>>

(* The failure is counted, and the next runner looked at. *)
RestoreFails(p, r) ==
  /\ scan[p].stage = "restoring"
  /\ r \in scan[p].targets
  /\ IF phase[p] = "up" THEN Fault ELSE UNCHANGED faults
  /\ scan' = [scan EXCEPT ![p].targets = @ \ {r}, ![p].failed = TRUE]
  /\ UNCHANGED <<phase, loops, lease, left, active, queues>>

RunnersDone(p) ==
  /\ scan[p].stage = "restoring"
  /\ scan[p].targets = {}
  /\ scan' = [scan EXCEPT ![p].stage = "scanning", ![p].pass = @ + 1]
  /\ UNCHANGED <<phase, loops, lease, left, active, queues, faults>>

(* record: a scan without failures is the one Status reports as the last   *)
(* success.                                                                 *)
Record(p) ==
  /\ scan[p].stage = "scanning"
  /\ scan[p].pass = Len(Passes)
  /\ scan' = [scan EXCEPT ![p].stage = "releasing"]
  /\ UNCHANGED <<phase, loops, lease, left, active, queues, faults>>

(* A pass panics: the deferred release is made, and nothing recorded. *)
ScanPanics(p) ==
  /\ scan[p].stage \in {"scanning", "restoring"}
  /\ Fault
  /\ scan' = [scan EXCEPT ![p].stage = "releasing", ![p].panicked = TRUE]
  /\ UNCHANGED <<phase, loops, lease, left, active, queues>>

(* After the release the loop waits for its next scan or, having panicked,  *)
(* for the Manager to restart it.                                           *)
ScanEnds(p) ==
  /\ scan' = [scan EXCEPT ![p] = NoScan]
  /\ IF scan[p].panicked
       THEN \E long \in BOOLEAN :
              loops' = [loops EXCEPT ![p][Reconciler] = AfterRun(p, Reconciler, long)]
       ELSE UNCHANGED loops

(* Mutation: any scan's end makes the lease available *)
ReleasedByAnyone(p) == [lease EXCEPT !.live = FALSE]

(* ReleaseScanLease: of the holder's own lease only *)
Released(p) == IF lease.holder = p THEN [lease EXCEPT !.live = FALSE] ELSE lease

(* The deferred release, detached from the loop's context *)
Release(p) ==
  /\ scan[p].stage = "releasing"
  /\ lease' = Released(p)
  /\ ScanEnds(p)
  /\ UNCHANGED <<phase, left, active, queues, faults>>

ReleaseFails(p) ==
  /\ scan[p].stage = "releasing"
  /\ Fault
  /\ left' = left \cup {p}
  /\ ScanEnds(p)
  /\ UNCHANGED <<phase, lease, active, queues>>

-----------------------------------------------------------------------------
(* Runners *)

(* Runners.Update *)
SetActive(r) ==
  /\ active' = IF r \in active THEN active \ {r} ELSE active \cup {r}
  /\ scan' = [q \in Procs |-> [scan[q] EXCEPT !.owed = @ \ {r}]]
  /\ UNCHANGED <<phase, loops, lease, left, queues, faults>>

(* A registration provisions the queue: ConnectionInfoFor. *)
WorkerRegisters(r) ==
  /\ r \in active
  /\ r \notin queues
  /\ Restored(r)
  /\ UNCHANGED <<phase, loops, lease, left, active, faults>>

(* An operator, or a restore from a backup, removes a consumer. *)
QueueLost(r) ==
  /\ r \in queues
  /\ Fault
  /\ queues' = queues \ {r}
  /\ UNCHANGED <<phase, loops, scan, lease, left, active>>

-----------------------------------------------------------------------------
Init ==
  /\ phase = [p \in Procs |-> "new"]
  /\ loops = [p \in Procs |-> [l \in Loops |-> Absent]]
  /\ scan = [p \in Procs |-> NoScan]
  /\ lease = [holder |-> NoProc, live |-> FALSE]
  /\ left = {}
  /\ active \in SUBSET Runners
  /\ queues = {}
  /\ faults = 0

Supervise(p) ==
  \/ \E l \in Loops : Returns(p, l) \/ Restarts(p, l) \/ Ends(p, l)
  \/ Stopped(p)

RunOnce(p) ==
  \/ TakeLease(p) \/ CreateLease(p) \/ AcquireFails(p)
  \/ OtherPass(p) \/ ListRunners(p) \/ RunnersDone(p)
  \/ \E r \in Runners : RestoreQueue(p, r) \/ RestoreFails(p, r)
  \/ Record(p) \/ ScanPanics(p) \/ Release(p) \/ ReleaseFails(p)

Next ==
  \/ \E p \in Procs :
       \/ \E enabled \in SUBSET Loops : Register(p, enabled)
       \/ Start(p)
       \/ Supervise(p) \/ RunOnce(p)
       \/ Shutdown(p) \/ Killed(p)
  \/ LeaseExpires
  \/ \E r \in Runners : SetActive(r) \/ WorkerRegisters(r) \/ QueueLost(r)

Spec == Init /\ [][Next]_vars

(* Timers fire and calls return.  A scan ends before its lease or after;    *)
(* nothing makes anybody start, stop or register.                           *)
Fairness ==
  /\ WF_vars(LeaseExpires /\ ~InScan(lease.holder))
  /\ \A p \in Procs :
       /\ \A l \in Loops : WF_vars(Restarts(p, l)) /\ WF_vars(Ends(p, l))
       /\ WF_vars(RunOnce(p))

FairSpec == Spec /\ Fairness

-----------------------------------------------------------------------------
(* Properties *)

(* Every variable has its type, waits keep within their bounds, and only a  *)
(* process whose reconciler runs is in a scan.                              *)
TypeOK ==
  /\ phase \in [Procs -> Phases]
  /\ loops \in [Procs -> [Loops -> Loop]]
  /\ scan \in [Procs -> Scan]
  /\ lease \in Lease
  /\ left \subseteq Procs
  /\ active \subseteq Runners
  /\ queues \subseteq Runners
  /\ faults \in 0 .. MaxFaults
  /\ \A p \in Procs, l \in Loops : loops[p][l].backoff \in MinBackoff .. MaxBackoff
  /\ \A p \in Procs : scan[p].stage # "idle" =>
       phase[p] \in {"up", "stopping"} /\ loops[p][Reconciler].state = "running"

(* Two scans go on at a time only when one of them has outlasted its lease: *)
(* neither takeover, nor the release of a scan that lost its lease, nor a   *)
(* restarted loop lets a second one in beside a scan that is within its own.*)
OneScanWithinLease ==
  \A p, q \in Procs : p # q /\ InScan(p) /\ InScan(q) => scan[p].overran \/ scan[q].overran

(* A process that was shut down in order leaves the lease for the next to   *)
(* take, even when the shutdown cut its scan short: "or the next reconciler *)
(* waits out a full lease for no reason".                                   *)
ShutdownFreesLease ==
  \A p \in Procs : phase[p] = "stopped" /\ lease.holder = p => ~lease.live \/ p \in left

(* Status reports success only for a scan after which every queue that was  *)
(* missing when it began has been there, or its runner was inactive.        *)
SuccessMeansRestored ==
  [][\A p \in Procs :
       Record(p) /\ ~scan[p].failed => scan[p].owed = {}]_vars

(* A loop never stops quietly: however often it fails, it runs again for as *)
(* long as its process does.                                                *)
LoopsKeepRunning ==
  \A p \in Procs, l \in Loops :
    loops[p][l].state \notin {"absent", "registered"} ~> loops[p][l].state = "running" \/ phase[p] # "up"

(* The queue an active runner has lost is restored, as long as one process  *)
(* with a reconciler stays up, whoever crashed, panicked, overran or kept   *)
(* the lease before.                                                        *)
QueuesComeBack ==
  (\E p \in Procs : <>[](phase[p] = "up" /\ loops[p][Reconciler].state # "absent"))
    => \A r \in Runners : [](r \in Missing => <>(r \notin Missing))
=============================================================================
