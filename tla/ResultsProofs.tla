---------------------------- MODULE ResultsProofs ----------------------------
(***************************************************************************)
(* Theorems about Results, for any runs, workers and runners and any number *)
(* of handlers in flight.                                                   *)
(*                                                                          *)
(* The argument is optimistic concurrency made explicit: a Result's version *)
(* determines its contents (ReadsAreVersioned), so a guarded write that     *)
(* applies was computed from the current entry, and what the handler saw    *)
(* when it read (HandlersKnow, GrantsKnow) is still true when it writes.    *)
(***************************************************************************)
EXTENDS Results, TLAPS

(* What a handler read was current then and is current still if the version *)
(* has not moved.                                                           *)
ReadsAreVersioned ==
  \A h \in handlers :
    /\ h.entry.version <= result[h.run].version
    /\ h.entry.version = result[h.run].version => h.entry = result[h.run]

(* What a handler checked about the entry before it went on to write. *)
Knows(h) ==
  /\ h.op \in {"claim", "auth", "unschedulable", "strand"} => h.entry.status = "pending"
  /\ h.op \in {"claim", "auth"} => h.worker \in Workers
  /\ h.op = "auth" => h.worker \in LegacyWorkers
  /\ h.op = "claim" => h.entry.runner \in {NoRunner, RunnerOf[h.worker]}
  /\ h.op = "expire" => h.entry.status \in {"pending", "running"}
  /\ h.op = "report" =>
       /\ h.entry.status = "running"
       /\ GrantOf(h.run, h.entry.worker, h.entry.version) \in grants

HandlersKnow == \A h \in handlers : Knows(h)

(* What an authorisation says of the Result it was issued for. *)
GrantsKnow ==
  \A g \in grants :
    /\ result[g.run].status \in {"running", "completed", "timeout"}
    /\ g.worker = result[g.run].worker
    /\ result[g.run].status = "running" => g.version = result[g.run].version
    /\ result[g.run].status # "running" => g.version < result[g.run].version

(* A run nobody was authorised for names no worker, and one that does not   *)
(* exist has no version and no runner.                                      *)
UnclaimedRuns ==
  \A u \in Runs :
    /\ result[u].status = "absent" => result[u].version = 0 /\ result[u].runner = NoRunner
    /\ result[u].status \in {"absent", "pending"} => result[u].worker = NoWorker

IInv ==
  /\ TypeOK
  /\ ReadsAreVersioned
  /\ HandlersKnow
  /\ GrantsKnow
  /\ OneExecutor
  /\ UnclaimedRuns

-----------------------------------------------------------------------------
(* The entries the handlers write are Results. *)
LEMMA EntryTypes ==
  ASSUME NEW entry \in Result, NEW w \in Workers, NEW r \in Runners \cup {NoRunner},
         NEW b \in BOOLEAN, NEW c \in BOOLEAN
  PROVE  /\ Absent \in Result
         /\ Pending(r, b, c) \in Result
         /\ FailRun(entry) \in Result
         /\ ExpireResult(entry) \in Result
         /\ Completed(entry) \in Result
         /\ Claimed(entry, w) \in Result
         /\ Authed(entry, w) \in Result
<1> USE DEF Result, JobStatus, TerminalStates
<1>1. Absent \in Result
  BY DEF Absent
<1>2. Pending(r, b, c) \in Result
  BY DEF Absent, Pending
<1>3. FailRun(entry) \in Result /\ ExpireResult(entry) \in Result /\ Completed(entry) \in Result
  BY DEF FailRun, ExpireResult, Completed
<1>4. RunnerOf[w] \in Runners
  BY ResultsAssumption
<1>5. Claimed(entry, w) \in Result /\ Authed(entry, w) \in Result
  BY <1>4 DEF Claimed, Authed
<1> QED
  BY <1>1, <1>2, <1>3, <1>5

(* The initial states satisfy the inductive invariant. *)
LEMMA InitIInv == Init => IInv
<1> SUFFICES ASSUME Init PROVE IInv
  OBVIOUS
<1>1. \A u \in Runs : result[u] \in {Absent, Pending(NoRunner, FALSE, FALSE)}
  BY DEF Init
<1>2. TypeOK
  <2>1. Absent \in Result /\ Pending(NoRunner, FALSE, FALSE) \in Result
    BY DEF Result, Absent, Pending, JobStatus
  <2> QED
    BY <2>1 DEF Init, TypeOK
<1>3. UnclaimedRuns
  <2>1. /\ Absent.status = "absent" /\ Absent.version = 0 /\ Absent.worker = NoWorker
          /\ Absent.runner = NoRunner
    BY DEF Absent
  <2>2. /\ Pending(NoRunner, FALSE, FALSE).status = "pending"
        /\ Pending(NoRunner, FALSE, FALSE).worker = NoWorker
    BY DEF Absent, Pending
  <2> QED
    BY <1>1, <2>1, <2>2 DEF UnclaimedRuns
<1> QED
  BY <1>2, <1>3 DEF Init, IInv, ReadsAreVersioned, HandlersKnow, GrantsKnow, OneExecutor

-----------------------------------------------------------------------------
(* Reading adds a handler that knows what it has just checked. *)
LEMMA ReadStep ==
  ASSUME IInv, NEW op \in Ops, NEW u \in Runs, NEW w \in Workers \cup {NoWorker},
         Read(op, u, w),
         Knows([op |-> op, run |-> u, worker |-> w, entry |-> result[u]])
  PROVE  IInv'
<1> DEFINE n == [op |-> op, run |-> u, worker |-> w, entry |-> result[u]]
<1>1. UNCHANGED <<result, grants, lapsed, aged>> /\ handlers' = handlers \cup {n}
  BY DEF Read
<1>2. n \in Handler /\ n.entry = result[n.run]
  BY DEF IInv, TypeOK, Handler
<1>3. n.entry.version <= result[n.run].version
  BY <1>2 DEF IInv, TypeOK, Result, Handler
<1>4. TypeOK'
  BY <1>1, <1>2 DEF IInv, TypeOK
<1>5. ReadsAreVersioned'
  BY <1>1, <1>2, <1>3 DEF IInv, ReadsAreVersioned
<1>6. HandlersKnow'
  BY <1>1 DEF IInv, HandlersKnow, Knows
<1> QED
  BY <1>1, <1>4, <1>5, <1>6 DEF IInv, GrantsKnow, OneExecutor, UnclaimedRuns

(* A guarded write that applies rewrites the entry its handler read. *)
LEMMA GuardedWrite ==
  ASSUME IInv, NEW h \in handlers, Guarded(h), Update(h)
  PROVE  /\ h.run \in Runs
         /\ h.entry = result[h.run]
         /\ h.entry \in Result
         /\ Knows(h)
         /\ Written(h) \in Result
         /\ \A u \in Runs : u # h.run => result'[u] = result[u]
         /\ result'[h.run] = [Written(h) EXCEPT !.version = result[h.run].version + 1]
         /\ result' \in [Runs -> Result]
<1>1. h \in Handler /\ h.run \in Runs /\ h.entry \in Result /\ h.op \in Ops
  BY DEF IInv, TypeOK, Handler
<1>2. h.entry = result[h.run]
  BY DEF IInv, ReadsAreVersioned, Guarded
<1>3. Knows(h)
  BY DEF IInv, HandlersKnow
<1>4. Written(h) \in Result
  <2>1. CASE h.op \in {"claim", "auth"}
    <3>1. h.worker \in Workers
      BY <1>3, <2>1 DEF Knows
    <3> QED
      BY <1>1, <2>1, <3>1, EntryTypes DEF Written
  <2>2. CASE h.op \in {"report", "unschedulable", "strand", "expire"}
    <3>1. FailRun(h.entry) \in Result /\ ExpireResult(h.entry) \in Result
             /\ Completed(h.entry) \in Result
      BY <1>1 DEF Result, JobStatus, TerminalStates, FailRun, ExpireResult, Completed
    <3> QED
      BY <2>2, <3>1 DEF Written
  <2> QED
    BY <1>1, <2>1, <2>2 DEF Ops
<1>5. [Written(h) EXCEPT !.version = result[h.run].version + 1] \in Result
  BY <1>1, <1>2, <1>4 DEF Result
<1> QED
  BY <1>1, <1>2, <1>3, <1>4, <1>5 DEF Update, IInv, TypeOK

(* After a guarded write, what the other handlers read of that run is old. *)
LEMMA OthersAreStale ==
  ASSUME IInv, NEW h \in handlers, Guarded(h), Update(h), handlers' = handlers \ {h}
  PROVE  ReadsAreVersioned'
<1>1. \A k \in handlers : k.run \in Runs /\ k.entry.version \in Nat
  BY DEF IInv, TypeOK, Handler, Result
<1>2. result'[h.run].version = result[h.run].version + 1 /\ result[h.run].version \in Nat
  BY GuardedWrite DEF Result, IInv, TypeOK
<1>3. ASSUME NEW k \in handlers
      PROVE  /\ k.entry.version <= result'[k.run].version
             /\ k.entry.version = result'[k.run].version => k.entry = result'[k.run]
  <2>1. /\ k.entry.version <= result[k.run].version
        /\ k.entry.version = result[k.run].version => k.entry = result[k.run]
    BY DEF IInv, ReadsAreVersioned
  <2>2. CASE k.run = h.run
    BY <1>1, <1>2, <2>1, <2>2
  <2>3. CASE k.run # h.run
    <3>1. result'[k.run] = result[k.run]
      BY <1>1, <2>3, GuardedWrite
    <3> QED
      BY <2>1, <3>1
  <2> QED
    BY <2>2, <2>3
<1> QED
  BY <1>3 DEF ReadsAreVersioned

(* ClaimRun and Auth: the run was pending and unauthorised, and now has one  *)
(* authorisation, for the worker just recorded.                             *)
LEMMA CommitClaimStep ==
  ASSUME IInv, NEW h \in handlers, CommitClaim(h)
  PROVE  IInv'
<1> DEFINE u == h.run
           g == GrantOf(u, h.worker, h.entry.version + 1)
<1>1. /\ h.op \in {"claim", "auth"} /\ Guarded(h) /\ Update(h)
      /\ grants' = grants \cup {g} /\ handlers' = handlers \ {h}
      /\ UNCHANGED <<lapsed, aged>>
  BY DEF CommitClaim
<1>2. /\ u \in Runs /\ h.entry = result[u] /\ h.entry \in Result /\ Knows(h)
      /\ \A v \in Runs : v # u => result'[v] = result[v]
      /\ result' \in [Runs -> Result]
      /\ result'[u] = [Written(h) EXCEPT !.version = result[u].version + 1]
  BY <1>1, GuardedWrite
<1>3. h.worker \in Workers /\ result[u].status = "pending" /\ result[u].version \in Nat
  BY <1>1, <1>2 DEF Knows, Result
<1>4. /\ result'[u].status = "running" /\ result'[u].worker = h.worker
      /\ result'[u].version = result[u].version + 1
  BY <1>1, <1>2 DEF Written, Claimed, Authed, Result
<1>5. \A k \in grants : k.run # u
  BY <1>3 DEF IInv, GrantsKnow
<1>6. g \in Grant /\ g.run = u /\ g.worker = h.worker /\ g.version = result'[u].version
  BY <1>2, <1>3, <1>4 DEF Grant, GrantOf
<1>7. TypeOK'
  BY <1>1, <1>2, <1>6 DEF IInv, TypeOK
<1>8. ReadsAreVersioned'
  BY <1>1, OthersAreStale
<1>9. HandlersKnow'
  BY <1>1 DEF IInv, HandlersKnow, Knows
<1>10. GrantsKnow'
  <2>1. \A k \in grants : k.run \in Runs /\ result'[k.run] = result[k.run]
    BY <1>2, <1>5 DEF IInv, TypeOK, Grant
  <2> QED
    BY <1>1, <1>4, <1>6, <2>1 DEF IInv, GrantsKnow
<1>11. OneExecutor'
  BY <1>1, <1>5, <1>6 DEF IInv, OneExecutor
<1>12. UnclaimedRuns'
  BY <1>2, <1>4 DEF IInv, UnclaimedRuns
<1> QED
  BY <1>7, <1>8, <1>9, <1>10, <1>11, <1>12 DEF IInv

(* The states a guarded write that authorises nobody may lead to. *)
LEMMA OutcomeStates ==
  ASSUME IInv, NEW h \in handlers, CommitOutcome(h)
  PROVE  /\ result'[h.run].worker = result[h.run].worker
         /\ result'[h.run].runner = result[h.run].runner
         /\ result'[h.run].version = result[h.run].version + 1
         /\ \/ /\ result[h.run].status = "pending"
               /\ result'[h.run].status \in {"errored", "timeout"}
            \/ /\ result[h.run].status = "running"
               /\ result'[h.run].status = "timeout"
            \/ /\ result[h.run].status = "running"
               /\ result'[h.run].status = "completed"
               /\ GrantOf(h.run, result[h.run].worker, result[h.run].version) \in grants
<1>1. h.op \notin {"claim", "auth"} /\ Guarded(h) /\ Update(h)
  BY DEF CommitOutcome
<1>2. /\ h.entry = result[h.run] /\ h.entry \in Result /\ Knows(h)
      /\ result'[h.run] = [Written(h) EXCEPT !.version = result[h.run].version + 1]
  BY <1>1, GuardedWrite
<1>3. h.op \in {"report", "unschedulable", "strand", "expire"}
  BY <1>1 DEF IInv, TypeOK, Handler, Ops
<1>4. CASE h.op = "report"
  BY <1>2, <1>4 DEF Written, Completed, Knows, Result
<1>5. CASE h.op = "expire"
  BY <1>2, <1>5 DEF Written, ExpireResult, Knows, Result
<1>6. CASE h.op \in {"unschedulable", "strand"}
  BY <1>2, <1>6 DEF Written, FailRun, Knows, Result
<1> QED
  BY <1>3, <1>4, <1>5, <1>6

(* UpdateStatus, ExpireRun, strandRun and markUnschedulable. *)
LEMMA CommitOutcomeStep ==
  ASSUME IInv, NEW h \in handlers, CommitOutcome(h)
  PROVE  IInv'
<1> DEFINE u == h.run
<1>1. /\ Guarded(h) /\ Update(h) /\ handlers' = handlers \ {h}
      /\ UNCHANGED <<grants, lapsed, aged>>
  BY DEF CommitOutcome
<1>2. /\ u \in Runs
      /\ \A v \in Runs : v # u => result'[v] = result[v]
      /\ result' \in [Runs -> Result]
  BY <1>1, GuardedWrite
<1>3. result[u].version \in Nat
  BY <1>2 DEF IInv, TypeOK, Result
<1>4. TypeOK'
  BY <1>1, <1>2 DEF IInv, TypeOK
<1>5. ReadsAreVersioned'
  BY <1>1, OthersAreStale
<1>6. HandlersKnow'
  BY <1>1 DEF IInv, HandlersKnow, Knows
<1>7. GrantsKnow'
  <2>1. ASSUME NEW k \in grants, k.run = u
        PROVE  /\ result'[u].status \in {"completed", "timeout"}
               /\ k.worker = result'[u].worker
               /\ k.version < result'[u].version
    <3>1. result[u].status = "running" /\ k.version = result[u].version
             /\ k.worker = result[u].worker
      BY <2>1, OutcomeStates DEF IInv, GrantsKnow
    <3> QED
      BY <1>3, <3>1, OutcomeStates
  <2>2. ASSUME NEW k \in grants, k.run # u
        PROVE  result'[k.run] = result[k.run]
    BY <1>2, <2>2 DEF IInv, TypeOK, Grant
  <2> QED
    BY <1>1, <2>1, <2>2 DEF IInv, GrantsKnow
<1>8. OneExecutor'
  BY <1>1 DEF IInv, OneExecutor
<1>9. UnclaimedRuns'
  BY <1>2, OutcomeStates DEF IInv, UnclaimedRuns
<1> QED
  BY <1>4, <1>5, <1>6, <1>7, <1>8, <1>9 DEF IInv

(* What creating a run does to the stored Results. *)
LEMMA CreateEffect ==
  ASSUME IInv, NEW u \in Runs, Create(u)
  PROVE  /\ result[u].status = "absent"
         /\ result' \in [Runs -> Result]
         /\ result'[u].status \in {"pending", "errored"}
         /\ result'[u].worker = NoWorker
         /\ \A v \in Runs : v # u => result'[v] = result[v]
<1>1. ASSUME NEW b \in BOOLEAN
      PROVE  LET n == FailRun(Pending(NoRunner, b, TRUE))
             IN  n \in Result /\ n.status = "errored" /\ n.worker = NoWorker
  BY DEF FailRun, Pending, Absent, Result, JobStatus, TerminalStates
<1>2. ASSUME NEW b \in BOOLEAN, NEW r \in Runners
      PROVE  LET n == Pending(r, b, TRUE)
             IN  n \in Result /\ n.status = "pending" /\ n.worker = NoWorker
  BY DEF Pending, Absent, Result, JobStatus
<1>3. ASSUME NEW b \in BOOLEAN, CreateUnplaced(u, b)
      PROVE  \E n \in Result :
               /\ n.status \in {"pending", "errored"} /\ n.worker = NoWorker
               /\ result' = [result EXCEPT ![u] = n]
  BY <1>1, <1>3 DEF CreateUnplaced
<1>4. ASSUME NEW b \in BOOLEAN, NEW r \in Runners, CreatePlaced(u, r, b)
      PROVE  \E n \in Result :
               /\ n.status \in {"pending", "errored"} /\ n.worker = NoWorker
               /\ result' = [result EXCEPT ![u] = n]
  BY <1>2, <1>4 DEF CreatePlaced
<1>5. PICK n \in Result :
        /\ n.status \in {"pending", "errored"} /\ n.worker = NoWorker
        /\ result' = [result EXCEPT ![u] = n]
  BY <1>3, <1>4 DEF Create
<1>6. result[u].status = "absent"
  BY DEF Create, CreatePlaced, CreateUnplaced
<1> QED
  BY <1>5, <1>6 DEF IInv, TypeOK

(* Creating a Result: nothing can have been read or authorised of a run     *)
(* that did not exist.                                                      *)
LEMMA CreateStep ==
  ASSUME IInv, NEW u \in Runs, Create(u)
  PROVE  IInv'
<1>1. /\ result[u].status = "absent"
      /\ result'[u].status \in {"pending", "errored"} /\ result'[u].worker = NoWorker
      /\ \A v \in Runs : v # u => result'[v] = result[v]
      /\ result' \in [Runs -> Result]
  BY CreateEffect
<1>2. UNCHANGED <<handlers, grants, lapsed, aged>>
  BY DEF Create, CreatePlaced, CreateUnplaced
<1>3. \A h \in handlers : h.run # u
  <2> SUFFICES ASSUME NEW h \in handlers, h.run = u
               PROVE  FALSE
    OBVIOUS
  <2>1. h.entry.version \in Nat /\ h.op \in Ops
    BY DEF IInv, TypeOK, Handler, Result
  <2>2. result[u].version = 0
    BY <1>1 DEF IInv, UnclaimedRuns
  <2>3. h.entry = result[u]
    BY <2>1, <2>2 DEF IInv, ReadsAreVersioned
  <2>4. h.entry.status # "absent"
    BY <2>1 DEF IInv, HandlersKnow, Knows, Ops
  <2> QED
    BY <1>1, <2>3, <2>4
<1>4. \A g \in grants : g.run # u
  BY <1>1 DEF IInv, GrantsKnow
<1>5. /\ \A h \in handlers : result'[h.run] = result[h.run]
      /\ \A g \in grants : result'[g.run] = result[g.run]
  BY <1>1, <1>3, <1>4 DEF IInv, TypeOK, Handler, Grant
<1>6. TypeOK'
  BY <1>1, <1>2 DEF IInv, TypeOK
<1>7. ReadsAreVersioned' /\ HandlersKnow' /\ GrantsKnow' /\ OneExecutor'
  BY <1>2, <1>5 DEF IInv, ReadsAreVersioned, HandlersKnow, Knows, GrantsKnow, OneExecutor
<1>8. UnclaimedRuns'
  BY <1>1 DEF IInv, UnclaimedRuns
<1> QED
  BY <1>6, <1>7, <1>8 DEF IInv

(* A repeated claim is given the authorisation that was lost. *)
LEMMA ReclaimStep ==
  ASSUME IInv, NEW w \in Workers, NEW u \in Runs, Reclaim(w, u)
  PROVE  IInv'
<1> DEFINE g == GrantOf(u, w, result[u].version)
<1>1. /\ result[u].status = "running" /\ result[u].worker = w
      /\ grants' = grants \cup {g}
      /\ UNCHANGED <<result, handlers, lapsed, aged>>
  BY DEF Reclaim, IsReclaim
<1>2. g \in Grant /\ g.run = u /\ g.worker = w /\ g.version = result[u].version
  BY DEF IInv, TypeOK, Result, Grant, GrantOf
<1>3. \A k \in grants : k.run = u => k = g
  <2> SUFFICES ASSUME NEW k \in grants, k.run = u PROVE k = g
    OBVIOUS
  <2>1. k \in Grant /\ k.worker = w /\ k.version = result[u].version
    BY <1>1 DEF IInv, GrantsKnow, TypeOK
  <2> QED
    BY <1>2, <2>1 DEF Grant, GrantOf
<1>4. TypeOK'
  BY <1>1, <1>2 DEF IInv, TypeOK
<1>5. GrantsKnow'
  BY <1>1, <1>2 DEF IInv, GrantsKnow
<1>6. OneExecutor'
  BY <1>1, <1>2, <1>3 DEF IInv, OneExecutor
<1>7. HandlersKnow'
  BY <1>1 DEF IInv, HandlersKnow, Knows
<1> QED
  BY <1>1, <1>4, <1>5, <1>6, <1>7 DEF IInv, ReadsAreVersioned, UnclaimedRuns

(* What each kind of handler has checked when it has read. *)
LEMMA BeginStep ==
  ASSUME IInv, NEW u \in Runs, Begin(u)
  PROVE  IInv'
<1>1. ASSUME NEW w \in Workers, ClaimRead(w, u) PROVE IInv'
  <2>1. Knows([op |-> "claim", run |-> u, worker |-> w, entry |-> result[u]])
    BY <1>1 DEF ClaimRead, ClaimAdmitted, Knows
  <2> QED
    BY <1>1, <2>1, ReadStep DEF ClaimRead, Ops
<1>2. ASSUME NEW w \in Workers, UnschedulableRead(w, u) PROVE IInv'
  <2>1. Knows([op |-> "unschedulable", run |-> u, worker |-> w, entry |-> result[u]])
    BY <1>2 DEF UnschedulableRead, Knows
  <2> QED
    BY <1>2, <2>1, ReadStep DEF UnschedulableRead, Ops
<1>3. ASSUME NEW w \in Workers, AuthRead(w, u) PROVE IInv'
  <2>1. Knows([op |-> "auth", run |-> u, worker |-> w, entry |-> result[u]])
    BY <1>3 DEF AuthRead, Knows
  <2> QED
    BY <1>3, <2>1, ReadStep DEF AuthRead, Ops
<1>4. CASE ExpiredRead(u) \/ StalePendingRead(u)
  <2>1. Knows([op |-> "expire", run |-> u, worker |-> NoWorker, entry |-> result[u]])
    BY <1>4 DEF ExpiredRead, StalePendingRead, Knows
  <2> QED
    BY <1>4, <2>1, ReadStep DEF ExpiredRead, StalePendingRead, Ops
<1>5. CASE StrandRead(u)
  <2>1. Knows([op |-> "strand", run |-> u, worker |-> NoWorker, entry |-> result[u]])
    BY <1>5 DEF StrandRead, Knows
  <2> QED
    BY <1>5, <2>1, ReadStep DEF StrandRead, Ops
<1> QED
  BY <1>1, <1>2, <1>3, <1>4, <1>5 DEF Begin

(* A report reads the entry its authorisation names: a running one. *)
LEMMA ReportStep ==
  ASSUME IInv, NEW g \in grants, ReportRead(g)
  PROVE  IInv'
<1> DEFINE n == [op |-> "report", run |-> g.run, worker |-> g.worker, entry |-> result[g.run]]
<1>1. g \in Grant /\ g.run \in Runs /\ g.worker \in Workers /\ g.version \in Nat
  BY DEF IInv, TypeOK, Grant
<1>2. /\ result[g.run].status = "running" /\ g.worker = result[g.run].worker
      /\ g.version = result[g.run].version
  BY <1>1 DEF IInv, GrantsKnow, ReportRead
<1>3. GrantOf(g.run, result[g.run].worker, result[g.run].version) = g
  BY <1>1, <1>2 DEF GrantOf, Grant
<1>4. Knows(n)
  BY <1>2, <1>3 DEF Knows
<1> QED
  BY <1>1, <1>4, ReadStep DEF ReportRead, Ops

(* Every step preserves the inductive invariant. *)
LEMMA NextIInv == IInv /\ [Next]_vars => IInv'
<1> SUFFICES ASSUME IInv, [Next]_vars PROVE IInv'
  OBVIOUS
<1>1. ASSUME NEW u \in Runs, Create(u) PROVE IInv'
  BY <1>1, CreateStep
<1>2. ASSUME NEW u \in Runs, Begin(u) PROVE IInv'
  BY <1>2, BeginStep
<1>3. ASSUME NEW u \in Runs, NEW w \in Workers, Reclaim(w, u) PROVE IInv'
  BY <1>3, ReclaimStep
<1>4. ASSUME NEW g \in grants, ReportRead(g) PROVE IInv'
  BY <1>4, ReportStep
<1>5. ASSUME NEW u \in Runs, LeaseLapses(u) \/ PendingAges(u) PROVE IInv'
  BY <1>5 DEF LeaseLapses, PendingAges, IInv, TypeOK, ReadsAreVersioned, HandlersKnow, Knows,
              GrantsKnow, OneExecutor, UnclaimedRuns
<1>6. ASSUME NEW h \in handlers, CommitClaim(h) PROVE IInv'
  BY <1>6, CommitClaimStep
<1>7. ASSUME NEW h \in handlers, CommitOutcome(h) PROVE IInv'
  BY <1>7, CommitOutcomeStep
<1>8. ASSUME NEW h \in handlers, Abandon(h) PROVE IInv'
  BY <1>8 DEF Abandon, IInv, TypeOK, ReadsAreVersioned, HandlersKnow, Knows,
              GrantsKnow, OneExecutor, UnclaimedRuns
<1>9. CASE UNCHANGED vars
  BY <1>9 DEF vars, IInv, TypeOK, ReadsAreVersioned, HandlersKnow, Knows,
              GrantsKnow, OneExecutor, UnclaimedRuns
<1> QED
  BY <1>1, <1>2, <1>3, <1>4, <1>5, <1>6, <1>7, <1>8, <1>9 DEF Next, End

(* The inductive invariant holds of every reachable state. *)
THEOREM IInvHolds == Spec => []IInv
BY InitIInv, NextIInv, PTL DEF Spec

-----------------------------------------------------------------------------
(* Type correctness of the Result store and of everything in flight. *)
THEOREM TypeCorrect == Spec => []TypeOK
<1>1. IInv => TypeOK
  BY DEF IInv
<1> QED
  BY <1>1, IInvHolds, PTL

(* However many workers race ClaimRun and Auth for a run, and however often  *)
(* a lost response is asked for again, one worker is ever authorised, with   *)
(* one version.                                                              *)
THEOREM SingleExecutor == Spec => []OneExecutor
<1>1. IInv => OneExecutor
  BY DEF IInv
<1> QED
  BY <1>1, IInvHolds, PTL

(* Whoever was authorised for a running run can report it.                   *)
THEOREM HoldersCanReport == Spec => []HolderCanReport
<1>1. IInv => HolderCanReport
  BY DEF IInv, GrantsKnow, HolderCanReport
<1> QED
  BY <1>1, IInvHolds, PTL

(* A run that was authorised is never recorded as having failed to start.    *)
THEOREM FailedRunsNeverStarted == Spec => []FailedRunNeverStarted
<1>1. IInv => FailedRunNeverStarted
  BY DEF IInv, GrantsKnow, FailedRunNeverStarted
<1> QED
  BY <1>1, IInvHolds, PTL

-----------------------------------------------------------------------------
(* Every step leaves a run alone, creates it, authorises a worker for it, or *)
(* ends it.                                                                  *)
LEMMA StepKinds ==
  ASSUME IInv, [Next]_vars
  PROVE  \/ result' = result
         \/ \E u \in Runs : Create(u)
         \/ \E h \in handlers : CommitClaim(h)
         \/ \E h \in handlers : CommitOutcome(h)
<1>1. CASE UNCHANGED vars
  BY <1>1 DEF vars
<1>2. ASSUME NEW u \in Runs, Begin(u) PROVE result' = result
  BY <1>2 DEF Begin, ClaimRead, UnschedulableRead, AuthRead, ExpiredRead, StalePendingRead,
              StrandRead, Read
<1>3. ASSUME NEW u \in Runs, NEW w \in Workers, Reclaim(w, u) PROVE result' = result
  BY <1>3 DEF Reclaim
<1>4. ASSUME NEW u \in Runs, LeaseLapses(u) \/ PendingAges(u) PROVE result' = result
  BY <1>4 DEF LeaseLapses, PendingAges
<1>5. ASSUME NEW g \in grants, ReportRead(g) PROVE result' = result
  BY <1>5 DEF ReportRead, Read
<1>6. ASSUME NEW h \in handlers, Abandon(h) PROVE result' = result
  BY <1>6 DEF Abandon
<1> QED
  BY <1>1, <1>2, <1>3, <1>4, <1>5, <1>6 DEF Next, End

(* What authorising a worker does to the stored Results. *)
LEMMA ClaimEffect ==
  ASSUME IInv, NEW h \in handlers, CommitClaim(h)
  PROVE  /\ h.run \in Runs /\ h.worker \in Workers
         /\ result[h.run].status = "pending" /\ result'[h.run].status = "running"
         /\ result[h.run].worker = NoWorker /\ result'[h.run].worker = h.worker
         /\ result'[h.run].runner = RunnerOf[h.worker]
         /\ Knows(h) /\ h.entry = result[h.run]
         /\ \A v \in Runs : v # h.run => result'[v] = result[v]
<1>1. /\ h.op \in {"claim", "auth"} /\ Guarded(h) /\ Update(h)
  BY DEF CommitClaim
<1>2. /\ h.run \in Runs /\ h.entry = result[h.run] /\ h.entry \in Result /\ Knows(h)
      /\ \A v \in Runs : v # h.run => result'[v] = result[v]
      /\ result'[h.run] = [Written(h) EXCEPT !.version = result[h.run].version + 1]
  BY <1>1, GuardedWrite
<1>3. h.worker \in Workers /\ result[h.run].status = "pending"
  BY <1>1, <1>2 DEF Knows
<1>4. /\ result'[h.run].status = "running" /\ result'[h.run].worker = h.worker
      /\ result'[h.run].runner = RunnerOf[h.worker]
  BY <1>1, <1>2 DEF Written, Claimed, Authed, Result
<1> QED
  BY <1>2, <1>3, <1>4 DEF IInv, UnclaimedRuns

(* What any other guarded write leaves alone. *)
LEMMA OutcomeElsewhere ==
  ASSUME IInv, NEW h \in handlers, CommitOutcome(h)
  PROVE  h.run \in Runs /\ \A v \in Runs : v # h.run => result'[v] = result[v]
BY GuardedWrite DEF CommitOutcome

(* No step changes anything of a finished run: a report, an expiry and a     *)
(* stranding that read it before it finished all lose.                       *)
THEOREM TerminalRunsAreFinal == Spec => TerminalIsFinal
<1>1. IInv /\ [Next]_vars =>
        \A u \in Runs : IsTerminal(result[u]) => result'[u] = result[u]
  <2> SUFFICES ASSUME IInv, [Next]_vars, NEW u \in Runs, IsTerminal(result[u])
               PROVE  result'[u] = result[u]
    OBVIOUS
  <2>1. result[u].status \notin {"absent", "pending", "running"}
    BY DEF IsTerminal, TerminalStates
  <2>2. ASSUME NEW v \in Runs, Create(v) PROVE result'[u] = result[u]
    BY <2>1, <2>2, CreateEffect
  <2>3. ASSUME NEW h \in handlers, CommitClaim(h) PROVE result'[u] = result[u]
    BY <2>1, <2>3, ClaimEffect
  <2>4. ASSUME NEW h \in handlers, CommitOutcome(h) PROVE result'[u] = result[u]
    BY <2>1, <2>4, OutcomeStates, OutcomeElsewhere
  <2> QED
    BY <2>2, <2>3, <2>4, StepKinds
<1> QED
  BY <1>1, IInvHolds, PTL DEF Spec, TerminalIsFinal

(* Only a running run is completed, and for its authorised worker, although  *)
(* UpdateStatus never looks at the state it overwrites.                      *)
THEOREM CompletionIsTheExecutors == Spec => OnlyExecutorCompletes
<1>1. IInv /\ [Next]_vars =>
        \A u \in Runs :
          result'[u].status = "completed" /\ result[u].status # "completed" =>
            /\ result[u].status = "running"
            /\ GrantOf(u, result[u].worker, result[u].version) \in grants
  <2> SUFFICES ASSUME IInv, [Next]_vars, NEW u \in Runs,
                      result'[u].status = "completed", result[u].status # "completed"
               PROVE  /\ result[u].status = "running"
                      /\ GrantOf(u, result[u].worker, result[u].version) \in grants
    OBVIOUS
  <2>1. ASSUME NEW v \in Runs, Create(v) PROVE FALSE
    BY <2>1, CreateEffect
  <2>2. ASSUME NEW h \in handlers, CommitClaim(h) PROVE FALSE
    BY <2>2, ClaimEffect
  <2>3. PICK h \in handlers : CommitOutcome(h)
    BY <2>1, <2>2, StepKinds
  <2>4. h.run = u
    BY <2>3, OutcomeElsewhere
  <2> QED
    BY <2>3, <2>4, OutcomeStates
<1> QED
  BY <1>1, IInvHolds, PTL DEF Spec, OnlyExecutorCompletes

(* A run placed on a runner is only ever executed by a worker of that        *)
(* runner, unless the worker came through the deprecated Auth.               *)
THEOREM PlacementKept == Spec => PlacementIsKept
<1>1. IInv /\ [Next]_vars =>
        \A u \in Runs : result[u].runner \in Runners =>
          result'[u].runner = result[u].runner \/ result'[u].worker \in LegacyWorkers
  <2> SUFFICES ASSUME IInv, [Next]_vars, NEW u \in Runs,
                      result[u].runner \in Runners, result'[u].worker \notin LegacyWorkers
               PROVE  result'[u].runner = result[u].runner
    OBVIOUS
  <2>1. ASSUME NEW v \in Runs, Create(v) PROVE result'[u].runner = result[u].runner
    BY <2>1, CreateEffect, ResultsAssumption DEF IInv, UnclaimedRuns
  <2>2. ASSUME NEW h \in handlers, CommitClaim(h) PROVE result'[u].runner = result[u].runner
    <3>1. CASE h.run # u
      BY <2>2, <3>1, ClaimEffect
    <3>2. CASE h.run = u
      <4>1. h.op = "claim"
        BY <2>2, <3>2, ClaimEffect DEF CommitClaim, Knows
      <4>2. result[u].runner \in {NoRunner, RunnerOf[h.worker]}
        BY <2>2, <3>2, <4>1, ClaimEffect DEF Knows
      <4> QED
        BY <2>2, <3>2, <4>2, ClaimEffect, ResultsAssumption
    <3> QED
      BY <3>1, <3>2
  <2>3. ASSUME NEW h \in handlers, CommitOutcome(h) PROVE result'[u].runner = result[u].runner
    BY <2>3, OutcomeStates, OutcomeElsewhere
  <2> QED
    BY <2>1, <2>2, <2>3, StepKinds
<1> QED
  BY <1>1, IInvHolds, PTL DEF Spec, PlacementIsKept

-----------------------------------------------------------------------------
(* The abstract state after a step that writes one run. *)
LEMMA AbstractWrite ==
  ASSUME IInv, IInv', NEW u \in Runs,
         \A v \in Runs : v # u => result'[v] = result[v]
  PROVE  LET state == [v \in Runs |-> result[v].status]
             holder == [v \in Runs |-> result[v].worker]
         IN  /\ state' = [state EXCEPT ![u] = result'[u].status]
             /\ holder' = [holder EXCEPT ![u] = result'[u].worker]
             /\ result'[u].worker = result[u].worker => holder' = holder
OBVIOUS

(* Every interleaving of the handlers is a behaviour of RunLifecycle: runs    *)
(* start once, are held by one worker and end once.                          *)
THEOREM RefinesLifecycle == Spec => ImplementsLifecycle
<1> USE DEF Lifecycle!Move
<1>1. Init => Lifecycle!Init
  <2> SUFFICES ASSUME Init PROVE Lifecycle!Init
    OBVIOUS
  <2>1. \A u \in Runs : result[u] \in {Absent, Pending(NoRunner, FALSE, FALSE)}
    BY DEF Init
  <2>2. Absent.status = "absent" /\ Absent.worker = NoWorker
    BY DEF Absent
  <2>3. /\ Pending(NoRunner, FALSE, FALSE).status = "pending"
        /\ Pending(NoRunner, FALSE, FALSE).worker = NoWorker
    BY DEF Absent, Pending
  <2> QED
    BY <2>1, <2>2, <2>3 DEF Lifecycle!Init
<1>2. IInv /\ IInv' /\ [Next]_vars => [Lifecycle!Next]_(Lifecycle!vars)
  <2> SUFFICES ASSUME IInv, IInv', [Next]_vars PROVE [Lifecycle!Next]_(Lifecycle!vars)
    OBVIOUS
  <2>1. CASE result' = result
    BY <2>1 DEF Lifecycle!vars
  <2>2. ASSUME NEW u \in Runs, Create(u) PROVE Lifecycle!Submit(u)
    <3>1. result[u].worker = NoWorker
      BY <2>2, CreateEffect DEF IInv, UnclaimedRuns
    <3> QED
      BY <2>2, <3>1, CreateEffect, AbstractWrite DEF Lifecycle!Submit
  <2>3. ASSUME NEW h \in handlers, CommitClaim(h) PROVE Lifecycle!Start(h.run, h.worker)
    BY <2>3, ClaimEffect, AbstractWrite DEF Lifecycle!Start
  <2>4. ASSUME NEW h \in handlers, CommitOutcome(h)
        PROVE  Lifecycle!Finish(h.run) \/ Lifecycle!Fail(h.run) \/ Lifecycle!Expire(h.run)
    <3> DEFINE state == [v \in Runs |-> result[v].status]
               holder == [v \in Runs |-> result[v].worker]
    <3>1. h.run \in Runs /\ \A v \in Runs : v # h.run => result'[v] = result[v]
      BY <2>4, OutcomeElsewhere
    <3>2. result'[h.run].worker = result[h.run].worker
      BY <2>4, OutcomeStates
    <3>3. state' = [state EXCEPT ![h.run] = result'[h.run].status] /\ holder' = holder
      BY <3>1, <3>2, AbstractWrite
    <3>4. \/ state[h.run] = "pending" /\ result'[h.run].status \in {"errored", "timeout"}
          \/ state[h.run] = "running" /\ result'[h.run].status \in {"completed", "timeout"}
      BY <2>4, <3>1, OutcomeStates
    <3> QED
      BY <3>3, <3>4 DEF Lifecycle!Finish, Lifecycle!Fail, Lifecycle!Expire
  <2>5. ASSUME NEW h \in handlers, CommitClaim(h) PROVE Lifecycle!Next
    BY <2>3, <2>5, ClaimEffect DEF Lifecycle!Next
  <2>6. ASSUME NEW h \in handlers, CommitOutcome(h) PROVE Lifecycle!Next
    BY <2>4, <2>6, OutcomeElsewhere DEF Lifecycle!Next
  <2>7. ASSUME NEW u \in Runs, Create(u) PROVE Lifecycle!Next
    BY <2>2, <2>7 DEF Lifecycle!Next
  <2> QED
    BY <2>1, <2>5, <2>6, <2>7, StepKinds
<1> QED
  BY <1>1, <1>2, IInvHolds, PTL DEF Spec, ImplementsLifecycle, Lifecycle!Spec
=============================================================================
