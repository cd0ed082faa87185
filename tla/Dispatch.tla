------------------------------ MODULE Dispatch ------------------------------
(***************************************************************************)
(* One run's way through the whole system: Create commits the Result and   *)
(* its outbox row, a relay publishes the row, the runner's consumer        *)
(* delivers the message to one of its workers, the worker claims the run,   *)
(* acknowledges, executes and reports, and the reconciler repairs what got  *)
(* lost on the way.  Composes Results and Outbox with the consumer, the     *)
(* worker's claim handshake and the reconciler's passes.                    *)
(*                                                                          *)
(* A run has one dispatch (see Results) and, within the duplicate window,   *)
(* one message (see Outbox), so rows and messages are named by their run.   *)
(***************************************************************************)
EXTENDS Integers, FiniteSets

CONSTANTS
  Runs, Workers, Runners, RunnerOf, NoWorker, NoRunner,   \* as in Results
  LegacyRuns,   \* runs that may be pending from the start, with no runner or row
  Relays, NoRelay, NoEvent,                               \* as in Outbox
  MaxHandlers, MaxFaults,                                 \* bounds
  MaxDeliver,   \* delivery attempts before the broker gives a message up
  Concurrency,  \* handle() calls one worker process makes at a time
  Pausable,     \* workers an operator may pause
  Lapsing,      \* workers whose session may expire before it is renewed
  Timely        \* do live workers keep the handshake within AckWait?

ASSUME DispatchAssumption ==
  /\ NoWorker \notin Workers /\ NoRunner \notin Runners
  /\ RunnerOf \in [Workers -> Runners]
  /\ LegacyRuns \subseteq Runs
  /\ NoRelay \notin Relays /\ NoEvent \notin Runs
  /\ MaxHandlers \in Nat /\ MaxFaults \in Nat
  /\ MaxDeliver \in Nat
  /\ Concurrency \in Nat
  /\ Pausable \subseteq Workers
  /\ Lapsing \subseteq Workers
  /\ Timely \in BOOLEAN

VARIABLES
  result, handlers, grants, lapsed, aged,                              \* Results
  rows, relays, stream, window, lastSeq, gone, undeliverable, faults,  \* Outbox
  delivery,   \* delivery[u]: what the runner's consumer knows of u's message
  jobs,       \* handle() calls in progress, over all worker processes
  standing,   \* standing[w]: how the API answers worker w's session
  refusals,   \* runs with a DispatchFailure record of reason policy-refused
  sweeps      \* stale dispatches a scan has listed and not yet dealt with

resultVars == <<result, handlers, grants, lapsed, aged>>
outboxVars == <<rows, relays, stream, window, lastSeq, gone, undeliverable, faults>>
vars == <<resultVars, outboxVars, delivery, jobs, standing, refusals, sweeps>>

R == INSTANCE Results WITH LegacyWorkers <- {}
O == INSTANCE Outbox WITH Events <- Runs, Unroutable <- {}, BatchSize <- 1

-----------------------------------------------------------------------------
(* Types *)

(* claiming and waiting: before and after the API has read the Result.      *)
(* refused: the API answered that this worker may not.  reporting: the      *)
(* dead-letter report, finishing: the run's outcome, is with the API.       *)
Stages == {"claiming", "waiting", "accepted", "refused", "reporting", "executing", "finishing"}

Job == [worker : Workers, run : Runs, attempt : Nat, stage : Stages]

(* out: delivered, AckWait running.  ready: to be (re)delivered.            *)
Delivery == [state : {"ready", "out", "spent"}, count : Nat]

(* resolveSession and loadClaimant: a paused worker may report, not claim;  *)
(* a session past its expiry is refused everything.                         *)
Standing == {"good", "paused", "expired"}

-----------------------------------------------------------------------------
(* The broker *)

Queued(u) == \E m \in stream : m.event = u

(* The message leaves the work queue. *)
Off(u) ==
  /\ stream' = {m \in stream : m.event # u}
  /\ gone' = gone \cup {u}

(* msg.Ack and msg.Term are published without an answer, and may be lost. *)
AckOrLost(u) ==
  /\ \/ Off(u) /\ UNCHANGED faults
     \/ UNCHANGED <<stream, gone>> /\ O!Fault
  /\ UNCHANGED <<rows, relays, window, lastSeq, undeliverable, delivery>>

Nak(u) ==
  delivery' = [delivery EXCEPT ![u].state = IF @ = "out" THEN "ready" ELSE @]

(* MaxJobAge *)
AgesOut(u) ==
  /\ Queued(u)
  /\ Off(u)
  /\ UNCHANGED <<resultVars, rows, relays, window, lastSeq, undeliverable, faults,
                 delivery, jobs, standing, refusals, sweeps>>

(* AckWait runs out: whoever has the message is slow, or gone.  With        *)
(* handshakeBudget kept (Timely), a live worker's claim and acknowledgement *)
(* are through by then; its dead-letter report need not be.                 *)
AckWaitPasses(u) ==
  /\ delivery[u].state = "out"
  /\ Timely => \A j \in jobs : j.run = u /\ j.attempt = delivery[u].count =>
                 j.stage \notin {"claiming", "waiting", "accepted"}
  /\ delivery' = [delivery EXCEPT ![u].state = "ready"]
  /\ UNCHANGED <<resultVars, outboxVars, jobs, standing, refusals, sweeps>>

(* MaxDeliver: the message stays where it is, undelivered, and an advisory  *)
(* goes out.                                                                *)
Exhausted(u) == Queued(u) /\ delivery[u].state = "ready" /\ delivery[u].count = MaxDeliver

(* RecordMaxDelivery finds the row by the sequence it records, and strands  *)
(* the run if it is still pending.                                          *)
MaxDeliveryRecorded(u) ==
  /\ Exhausted(u)
  /\ \E m \in stream : m.event = u /\ rows[u].seq = m.seq
  /\ delivery' = [delivery EXCEPT ![u].state = "spent"]
  /\ R!StrandRead(u) \/ (result[u].status # "pending" /\ UNCHANGED resultVars)
  /\ UNCHANGED <<outboxVars, jobs, standing, refusals, sweeps>>

(* The advisory is not persistent: nobody heard it, or the row it is about  *)
(* is not marked published yet.                                             *)
MaxDeliveryMissed(u) ==
  /\ Exhausted(u)
  /\ \/ O!Fault
     \/ UNCHANGED faults /\ \A m \in stream : m.event = u => rows[u].seq # m.seq
  /\ delivery' = [delivery EXCEPT ![u].state = "spent"]
  /\ UNCHANGED <<resultVars, rows, relays, stream, window, lastSeq, gone, undeliverable,
                 jobs, standing, refusals, sweeps>>

-----------------------------------------------------------------------------
(* Create and the relay *)

(* createWithDispatch: one transaction. *)
Create(u) ==
  /\ \/ \E runner \in Runners : R!CreatePlaced(u, runner, FALSE) /\ O!Enqueue(u, TRUE)
     \/ R!CreateUnplaced(u, FALSE) /\ UNCHANGED outboxVars
  /\ UNCHANGED <<delivery, jobs, standing, refusals, sweeps>>

(* The sink strands the run of a dispatch that can never be published. *)
Settle(r) ==
  /\ O!Settle(r)
  /\ LET u == relays[r].event IN
       R!StrandRead(u) \/ (result[u].status # "pending" /\ UNCHANGED resultVars)
  /\ UNCHANGED <<delivery, jobs, standing, refusals, sweeps>>

RelayStep(r) ==
  /\ \/ \E u \in Runs :
          \/ O!Claim(r, {u})
          \/ O!PublishPermanent(r, u)
          \/ O!PublishAcked(r, u)
          \/ O!PublishUnacked(r, u)
          \/ O!PublishRefused(r, u)
     \/ O!MarkPublished(r)
     \/ O!MarkPublishedFails(r)
     \/ O!SettleFails(r)
     \/ O!MarkFailed(r)
     \/ O!MarkFailedFails(r)
     \/ O!Crash(r)
  /\ UNCHANGED <<resultVars, delivery, jobs, standing, refusals, sweeps>>

RowTimer(u) ==
  /\ O!LeaseLapses(u) \/ O!BackoffElapses(u)
  /\ UNCHANGED <<resultVars, delivery, jobs, standing, refusals, sweeps>>

-----------------------------------------------------------------------------
(* The worker: pump and handle *)

Advance(j, stage) == jobs' = (jobs \ {j}) \cup {[j EXCEPT !.stage = stage]}

Done(j) == jobs' = jobs \ {j}

(* The API is still at a request of this job's. *)
InHand(op, j) ==
  \E h \in handlers : h.op = op /\ h.run = j.run /\ h.worker \in {j.worker, NoWorker}

At(j, stages) == j \in jobs /\ j.stage \in stages

(* Mutation: deliveries are told apart, not runs *)
InFlightByDelivery(w, u) ==
  \E j \in jobs : j.worker = w /\ j.run = u /\ j.attempt = delivery[u].count + 1

(* inFlightRuns: held from acquire until handle returns *)
InFlight(w, u) == \E j \in jobs : j.worker = w /\ j.run = u

(* pump has a free slot, and the message is for this worker's runner. *)
CanFetch(w, u) ==
  /\ Queued(u)
  /\ delivery[u].state = "ready"
  /\ delivery[u].count < MaxDeliver
  /\ result[u].runner = RunnerOf[w]
  /\ Cardinality({j \in jobs : j.worker = w}) < Concurrency

Fetched(u) == [delivery EXCEPT ![u] = [state |-> "out", count |-> @.count + 1]]

Deliver(w, u) ==
  /\ CanFetch(w, u)
  /\ ~InFlight(w, u)
  /\ delivery' = Fetched(u)
  /\ jobs' = jobs \cup {[worker |-> w, run |-> u, attempt |-> delivery[u].count + 1,
                         stage |-> "claiming"]}
  /\ UNCHANGED <<resultVars, outboxVars, standing, refusals, sweeps>>

(* A redelivery of a run this process holds is acknowledged and dropped. *)
DropDuplicate(w, u) ==
  /\ CanFetch(w, u)
  /\ InFlight(w, u)
  /\ delivery' = Fetched(u)
  /\ \/ Off(u) /\ UNCHANGED faults
     \/ UNCHANGED <<stream, gone>> /\ O!Fault
  /\ UNCHANGED <<resultVars, rows, relays, window, lastSeq, undeliverable,
                 jobs, standing, refusals, sweeps>>

(* ClaimRun, up to its guarded write *)
SendClaim(j) ==
  /\ At(j, {"claiming"})
  /\ standing[j.worker] = "good"
  /\ R!ClaimRead(j.worker, j.run)
  /\ Advance(j, "waiting")
  /\ UNCHANGED <<outboxVars, delivery, standing, refusals, sweeps>>

(* ClaimRun for a run this worker holds already *)
Reclaim(j) ==
  /\ At(j, {"claiming"})
  /\ standing[j.worker] = "good"
  /\ R!Reclaim(j.worker, j.run)
  /\ Advance(j, "accepted")
  /\ UNCHANGED <<outboxVars, delivery, standing, refusals, sweeps>>

(* claimObsolete: superseded, held elsewhere or over *)
Obsolete(u, w) ==
  ~(R!ClaimAdmitted(result[u], w) /\ (result[u].status = "pending" \/ R!IsReclaim(result[u], w)))

DiscardStale(j) ==
  /\ At(j, {"claiming"})
  /\ standing[j.worker] = "good"
  /\ Obsolete(j.run, j.worker)
  /\ AckOrLost(j.run)
  /\ Done(j)
  /\ UNCHANGED <<resultVars, standing, refusals, sweeps>>

(* 401 and 403 *)
Refused(j) ==
  /\ At(j, {"claiming"})
  /\ standing[j.worker] # "good"
  /\ Advance(j, "refused")
  /\ UNCHANGED <<resultVars, outboxVars, delivery, standing, refusals, sweeps>>

(* The claim commits.  Its answer reaches the worker if it still waits for  *)
(* one, and may be lost.                                                    *)
Answered(h, stage) ==
  jobs' = {IF j.worker = h.worker /\ j.run = h.run /\ j.stage = "waiting"
             THEN [j EXCEPT !.stage = stage] ELSE j : j \in jobs}

ClaimCommits(h) ==
  /\ R!CommitClaim(h)
  /\ \/ Answered(h, "accepted") /\ UNCHANGED faults
     \/ UNCHANGED jobs /\ O!Fault
  /\ UNCHANGED <<rows, relays, stream, window, lastSeq, gone, undeliverable,
                 delivery, standing, refusals, sweeps>>

(* "lost claim race": claimObsolete, to a worker that waits or to nobody. *)
ClaimLoses(h) ==
  /\ h.op = "claim"
  /\ ~R!Guarded(h)
  /\ R!Abandon(h)
  /\ LET waiting == {j \in jobs : j.worker = h.worker /\ j.run = h.run /\ j.stage = "waiting"} IN
       /\ jobs' = jobs \ waiting
       /\ IF waiting # {} THEN AckOrLost(h.run) ELSE UNCHANGED <<outboxVars, delivery>>
  /\ UNCHANGED <<standing, refusals, sweeps>>

(* Mutation: a claim that could not be decided counts as obsolete *)
GiveUpAcks(j) ==
  /\ At(j, {"claiming", "waiting"})
  /\ O!Fault
  /\ Off(j.run)
  /\ Done(j)
  /\ UNCHANGED <<resultVars, rows, relays, window, lastSeq, undeliverable, delivery,
                 standing, refusals, sweeps>>

(* claimRetry: a 5xx, an unanswered request, or a budget that ran out while *)
(* the API may still be at it.                                              *)
GiveUp(j) ==
  /\ At(j, {"claiming", "waiting"})
  /\ \/ O!Fault
     \/ UNCHANGED faults /\ j.stage = "waiting" /\ ~InHand("claim", j)
  /\ Nak(j.run)
  /\ Done(j)
  /\ UNCHANGED <<resultVars, rows, relays, stream, window, lastSeq, gone, undeliverable,
                 standing, refusals, sweeps>>

(* claimAbandon: shutdown interrupts the claim; the message is left alone. *)
AbandonClaim(j) ==
  /\ At(j, {"claiming", "waiting"})
  /\ O!Fault
  /\ Done(j)
  /\ UNCHANGED <<resultVars, rows, relays, stream, window, lastSeq, gone, undeliverable,
                 delivery, standing, refusals, sweeps>>

-----------------------------------------------------------------------------
(* applyDisposition of an accepted and of a refused claim *)

(* Mutation: executes before the claim is known to have committed *)
ExecuteUnclaimed(j) ==
  /\ At(j, {"waiting", "accepted"})
  /\ AckOrLost(j.run)
  /\ Advance(j, "executing")
  /\ UNCHANGED <<resultVars, standing, refusals, sweeps>>

(* DoubleAck, tried again until the broker has it or the budget is spent *)
confirmAck(u) == AckOrLost(u)

(* confirmAck, then the run, whether or not the broker confirmed. *)
Execute(j) ==
  /\ At(j, {"accepted"})
  /\ confirmAck(j.run)
  /\ Advance(j, "executing")
  /\ UNCHANGED <<resultVars, standing, refusals, sweeps>>

(* DispatchFailures.Report of a paused worker: its session is good enough.  *)
ReportRefusal(j) ==
  /\ At(j, {"refused"})
  /\ standing[j.worker] # "expired"
  /\ \/ /\ R!StrandRead(j.run)
        /\ Advance(j, "reporting")
        /\ UNCHANGED <<outboxVars, delivery, refusals>>
     \/ /\ result[j.run].status # "pending"
        /\ UNCHANGED resultVars
        /\ refusals' = refusals \cup {j.run}
        /\ AckOrLost(j.run)
        /\ Done(j)
  /\ UNCHANGED <<standing, sweeps>>

(* permanentReportRefusal: the report was refused as well, and the message  *)
(* is terminated all the same.                                              *)
TerminateUnreported(j) ==
  /\ At(j, {"refused"})
  /\ standing[j.worker] = "expired"
  /\ AckOrLost(j.run)
  /\ Done(j)
  /\ UNCHANGED <<resultVars, standing, refusals, sweeps>>

(* The report could not be made: the message is kept. *)
ReportUnreachable(j) ==
  /\ At(j, {"refused", "reporting"})
  /\ \/ O!Fault
     \/ UNCHANGED faults /\ j.stage = "reporting" /\ ~InHand("strand", j)
  /\ Nak(j.run)
  /\ Done(j)
  /\ UNCHANGED <<resultVars, rows, relays, stream, window, lastSeq, gone, undeliverable,
                 standing, refusals, sweeps>>

(* The report's transaction ends: the record is filed with the run stranded *)
(* or, if it has moved on, left as it is; then the message is terminated.   *)
Reported(h, j) ==
  /\ At(j, {"reporting"})
  /\ j.run = h.run
  /\ refusals' = refusals \cup {h.run}
  /\ AckOrLost(h.run)
  /\ Done(j)

StrandEnds(h) ==
  /\ h.op = "strand"
  /\ R!CommitOutcome(h) \/ (~R!Guarded(h) /\ R!Abandon(h))
  /\ \/ \E j \in jobs : Reported(h, j)
     \/ /\ \A j \in jobs : ~(At(j, {"reporting"}) /\ j.run = h.run)
        /\ UNCHANGED <<outboxVars, delivery, jobs, refusals>>
  /\ UNCHANGED <<standing, sweeps>>

(* report: one UpdateStatus, under the authorisation the claim brought. *)
Finish(j) ==
  /\ At(j, {"executing"})
  /\ \/ \E g \in grants : /\ g.run = j.run /\ g.worker = j.worker
                          /\ R!ReportRead(g)
                          /\ Advance(j, "finishing")
     \/ /\ \A g \in grants : g.run = j.run => g.version # result[j.run].version \/ j.run \in lapsed
        /\ UNCHANGED resultVars
        /\ Done(j)
  /\ UNCHANGED <<outboxVars, delivery, standing, refusals, sweeps>>

ReportEnds(h) ==
  /\ h.op = "report"
  /\ R!CommitOutcome(h) \/ (~R!Guarded(h) /\ R!Abandon(h))
  /\ jobs' = {j \in jobs : ~(j.worker = h.worker /\ j.run = h.run /\ j.stage = "finishing")}
  /\ UNCHANGED <<outboxVars, delivery, standing, refusals, sweeps>>

(* The report is not retried: the worker logs that it could not be made. *)
ReportLost(j) ==
  /\ At(j, {"executing", "finishing"})
  /\ \/ O!Fault
     \/ UNCHANGED faults /\ j.stage = "finishing" /\ ~InHand("report", j)
  /\ Done(j)
  /\ UNCHANGED <<resultVars, rows, relays, stream, window, lastSeq, gone, undeliverable,
                 delivery, standing, refusals, sweeps>>

(* The process dies with everything it was doing, and registers again. *)
WorkerCrashes(w) ==
  /\ \E j \in jobs : j.worker = w
  /\ O!Fault
  /\ jobs' = {j \in jobs : j.worker # w}
  /\ UNCHANGED <<resultVars, rows, relays, stream, window, lastSeq, gone, undeliverable,
                 delivery, standing, refusals, sweeps>>

(* SetPaused, and a session that lapses until renewSession gets through. *)
StandingChanges(w) ==
  /\ \E s \in {"good"} \cup (IF w \in Pausable THEN {"paused"} ELSE {})
                       \cup (IF w \in Lapsing THEN {"expired"} ELSE {}) :
       s # standing[w] /\ standing' = [standing EXCEPT ![w] = s]
  /\ UNCHANGED <<resultVars, outboxVars, delivery, jobs, refusals, sweeps>>

-----------------------------------------------------------------------------
(* The reconciler *)

ExpireRunning(u) ==
  /\ R!ExpiredRead(u)
  /\ UNCHANGED <<outboxVars, delivery, jobs, standing, refusals, sweeps>>

(* Mutation: an unpublished row is not left to the relay *)
ExpirePendingAnyRow(u) ==
  /\ R!StalePendingRead(u)
  /\ rows[u].written
  /\ UNCHANGED <<outboxVars, delivery, jobs, standing, refusals, sweeps>>

(* Mutation: a published row is taken to be on its way for ever *)
ExpirePendingRetired(u) ==
  /\ R!StalePendingRead(u)
  /\ rows[u].retired
  /\ UNCHANGED <<outboxVars, delivery, jobs, standing, refusals, sweeps>>

(* reconcilePendingDispatches: a row that is written but not published      *)
(* belongs to the relay.                                                    *)
ExpirePending(u) ==
  /\ R!StalePendingRead(u)
  /\ rows[u].published \/ rows[u].retired
  /\ UNCHANGED <<outboxVars, delivery, jobs, standing, refusals, sweeps>>

(* Mutation: a run without a row is only re-enqueued when it has a runner *)
EnqueueMissingPlaced(u) ==
  /\ result[u].status = "pending"
  /\ result[u].runner # NoRunner
  /\ u \in aged
  /\ O!Enqueue(u, result[u].runner # NoRunner)
  /\ UNCHANGED <<resultVars, delivery, jobs, standing, refusals, sweeps>>

(* EnqueueDispatch, for a pending run without a row *)
EnqueueMissing(u) ==
  /\ result[u].status = "pending"
  /\ u \in aged
  /\ O!Enqueue(u, result[u].runner # NoRunner)
  /\ UNCHANGED <<resultVars, delivery, jobs, standing, refusals, sweeps>>

(* ExpireRun's second update: an unpublished row is retired with the run.   *)
RetireUnpublished(u) ==
  rows' = [rows EXCEPT ![u].retired = @ \/ (rows[u].written /\ ~rows[u].published)]

(* ExpireRun: both updates or, when the version guard loses, neither.       *)
ExpireEnds(h) ==
  /\ h.op = "expire"
  /\ \/ R!CommitOutcome(h) /\ RetireUnpublished(h.run)
     \/ ~R!Guarded(h) /\ R!Abandon(h) /\ UNCHANGED rows
  /\ UNCHANGED <<relays, stream, window, lastSeq, gone, undeliverable, faults,
                 delivery, jobs, standing, refusals, sweeps>>

(* A store failure, or the API server or reconciler dying. *)
HandlerDies(h) ==
  /\ R!Abandon(h)
  /\ O!Fault
  /\ UNCHANGED <<rows, relays, stream, window, lastSeq, gone, undeliverable,
                 delivery, jobs, standing, refusals, sweeps>>

(* Mutation: the sweep lists the rows of running runs too *)
ListStaleRunning(u) ==
  /\ rows[u].written /\ ~rows[u].retired
  /\ result[u].status \in {"running"} \cup R!TerminalStates
  /\ \A s \in sweeps : s.run # u
  /\ sweeps' = sweeps \cup {[run |-> u, drop |-> rows[u].published /\ rows[u].seq # 0
                                                 /\ ~result[u].dispatched]}
  /\ UNCHANGED <<resultVars, outboxVars, delivery, jobs, standing, refusals>>

(* StaleDispatches and shouldDrop *)
ListStale(u) ==
  /\ rows[u].written /\ ~rows[u].retired
  /\ R!IsTerminal(result[u])
  /\ \A s \in sweeps : s.run # u
  /\ sweeps' = sweeps \cup {[run |-> u, drop |-> rows[u].published /\ rows[u].seq # 0
                                                 /\ ~result[u].dispatched]}
  /\ UNCHANGED <<resultVars, outboxVars, delivery, jobs, standing, refusals>>

(* DropDispatch and RetireDispatch, for a dispatch as it was listed *)
Sweep(s) ==
  /\ rows' = [rows EXCEPT ![s.run].retired = TRUE, ![s.run].holder = NoRelay,
                          ![s.run].lapsed = FALSE]
  /\ IF s.drop THEN Off(s.run) ELSE UNCHANGED <<stream, gone>>
  /\ sweeps' = sweeps \ {s}
  /\ UNCHANGED <<resultVars, relays, window, lastSeq, undeliverable, faults,
                 delivery, jobs, standing, refusals>>

(* The message could not be withdrawn: the row is left for the next scan.   *)
SweepFails(s) ==
  /\ O!Fault
  /\ sweeps' = sweeps \ {s}
  /\ UNCHANGED <<resultVars, rows, relays, stream, window, lastSeq, gone, undeliverable,
                 delivery, jobs, standing, refusals>>

ReleaseAbandoned(u) ==
  /\ O!ReleaseAbandoned(u)
  /\ UNCHANGED <<resultVars, delivery, jobs, standing, refusals, sweeps>>

-----------------------------------------------------------------------------
(* Time *)

(* pendingTimeout exceeds MaxJobAge, so a dispatch published in good time   *)
(* has left the queue when its run comes of age; one published late finds   *)
(* it come of age.                                                          *)
RunTimer(u) ==
  /\ R!LeaseLapses(u) \/ (R!PendingAges(u) /\ ~Queued(u))
  /\ UNCHANGED <<outboxVars, delivery, jobs, standing, refusals, sweeps>>

-----------------------------------------------------------------------------
Init ==
  /\ R!Init
  /\ O!Init
  /\ delivery = [u \in Runs |-> [state |-> "ready", count |-> 0]]
  /\ jobs = {}
  /\ standing = [w \in Workers |-> "good"]
  /\ refusals = {}
  /\ sweeps = {}

Broker(u) ==
  \/ AgesOut(u)
  \/ AckWaitPasses(u)
  \/ MaxDeliveryRecorded(u)
  \/ MaxDeliveryMissed(u)

Handshake(j) ==
  \/ SendClaim(j)
  \/ Reclaim(j)
  \/ DiscardStale(j)
  \/ Refused(j)
  \/ GiveUp(j)
  \/ AbandonClaim(j)
  \/ Execute(j)
  \/ ReportRefusal(j)
  \/ TerminateUnreported(j)
  \/ ReportUnreachable(j)
  \/ Finish(j)
  \/ ReportLost(j)

HandlerEnds(h) ==
  \/ ClaimCommits(h)
  \/ ClaimLoses(h)
  \/ StrandEnds(h)
  \/ ReportEnds(h)
  \/ ExpireEnds(h)
  \/ HandlerDies(h)

Worker(w) ==
  \/ WorkerCrashes(w)
  \/ StandingChanges(w)
  \/ \E u \in Runs : Deliver(w, u) \/ DropDuplicate(w, u)

Scan(u) ==
  \/ ExpireRunning(u)
  \/ ExpirePending(u)
  \/ EnqueueMissing(u)
  \/ ListStale(u)
  \/ ReleaseAbandoned(u)

Next ==
  \/ \E u \in Runs : Create(u) \/ Broker(u) \/ Scan(u) \/ RunTimer(u) \/ RowTimer(u)
  \/ \E r \in Relays : RelayStep(r) \/ Settle(r)
  \/ \E w \in Workers : Worker(w)
  \/ \E j \in jobs : Handshake(j)
  \/ \E h \in handlers : HandlerEnds(h)
  \/ \E s \in sweeps : Sweep(s) \/ SweepFails(s)

Spec == Init /\ [][Next]_vars

(* Relays and reconcilers keep running (controllers.Manager restarts them), *)
(* time passes and handlers return.  Nothing is asked of workers: all of    *)
(* them may be gone for good; and of the reconciler only that its scan acts *)
(* on a run again and again, and that not every such action fails.          *)
RelayClaims(u) ==
  /\ \E r \in Relays : O!Claim(r, {u})
  /\ UNCHANGED <<resultVars, delivery, jobs, standing, refusals, sweeps>>
ExpiryLands(u) == \E h \in handlers : h.run = u /\ R!Guarded(h) /\ ExpireEnds(h)
StrandLands(u) == \E h \in handlers : h.run = u /\ R!Guarded(h) /\ StrandEnds(h)

Fairness ==
  /\ \A r \in Relays : WF_vars(relays[r] # O!Idle /\ (RelayStep(r) \/ Settle(r)))
  /\ \A u \in Runs :
       /\ WF_vars(RunTimer(u) \/ RowTimer(u) \/ AgesOut(u))
       /\ SF_vars(RelayClaims(u))
       /\ SF_vars(ExpireRunning(u) \/ ExpirePending(u) \/ EnqueueMissing(u))
       /\ SF_vars(ExpiryLands(u) \/ StrandLands(u))
  /\ WF_vars(\E h \in handlers : HandlerEnds(h))

FairSpec == Spec /\ Fairness

-----------------------------------------------------------------------------
(* Properties *)

(* Every variable has its type, and a delivery is numbered once. *)
TypeOK ==
  /\ R!TypeOK
  /\ O!TypeOK
  /\ delivery \in [Runs -> Delivery]
  /\ jobs \subseteq Job
  /\ \A j, k \in jobs : j.run = k.run /\ j.attempt = k.attempt => j = k
  /\ standing \in [Workers -> Standing]
  /\ refusals \subseteq Runs
  /\ sweeps \subseteq [run : Runs, drop : BOOLEAN]

(* A probe never runs twice at the same time, in one process or in two,     *)
(* however often its message is redelivered, its claim retried and its      *)
(* acknowledgement lost; and it runs only on the worker its run records:    *)
(* never without a claim, though without a confirmed acknowledgement.       *)
OneExecution ==
  \A j \in jobs : At(j, {"executing"}) =>
    /\ result[j.run].worker = j.worker
    /\ result[j.run].status \in {"running", "timeout", "completed"}
    /\ \A k \in jobs : At(k, {"executing"}) /\ j.run = k.run => j = k

(* A dispatch is retired only when its run is over: neither an expiry that  *)
(* lost its race nor a sweep of what was listed earlier takes the dispatch  *)
(* of a live run out of the relay's sight.                                  *)
RetiredRunIsOver == \A u \in Runs : rows[u].retired => R!IsTerminal(result[u])

(* claim.go: a dispatch "is removed from its queue only when a worker can   *)
(* prove the authoritative claim is complete, or that the run no longer     *)
(* needs the message".  While a run is pending, nothing but MaxJobAge takes *)
(* its message away.                                                        *)
PendingKeepsMessage ==
  [][\A u \in Runs :
       Queued(u) /\ ~Queued(u)' => result'[u].status # "pending" \/ AgesOut(u)]_vars

(* The same, of what the code does: a failed, repeated, abandoned or        *)
(* reported claim leaves a pending run its message, however slow the worker *)
(* is.  The exceptions are a copy that reaches the process already at work  *)
(* on it, and a refusal whose report is refused too.                        *)
PendingOutlivesClaims ==
  [][\A u \in Runs :
       Queued(u) /\ ~Queued(u)' =>
         \/ result'[u].status # "pending"
         \/ AgesOut(u)
         \/ \E w \in Workers : DropDuplicate(w, u)
         \/ \E j \in jobs : j.run = u /\ TerminateUnreported(j)]_vars

(* No run is put on a queue after it is over: what a relay holds while the  *)
(* reconciler, a dead-letter report or a claim ends the run is either a     *)
(* dispatch the run still waits for or one the broker has already.  (That   *)
(* is so within the duplicate window, which does not pass here: see         *)
(* WindowPasses in Outbox.)                                                 *)
NoDispatchOfFinishedRun ==
  [][\A u \in Runs : R!IsTerminal(result[u]) /\ ~Queued(u) => ~Queued(u)']_vars

(* Every run ends: claimed, reported, expired or failed, whatever was lost  *)
(* between its creation and its report, with or without workers.            *)
EveryRunEnds ==
  \A u \in Runs : result[u].status # "absent" ~> R!IsTerminal(result[u])
=============================================================================
