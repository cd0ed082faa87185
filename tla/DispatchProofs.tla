---------------------------- MODULE DispatchProofs ----------------------------
(***************************************************************************)
(* Theorems about Dispatch, for any runs, workers, relays, delivery limit,  *)
(* concurrency and faults.                                                  *)
(*                                                                          *)
(* Every step of the composition is a step of Results, so the invariant of  *)
(* ResultsProofs holds of it; that of OutboxProofs is kept as well, since   *)
(* only what was stored is ever taken off the queue.  What remains is to    *)
(* tie jobs, deliveries and sweeps to the run and to the row they are about.*)
(***************************************************************************)
EXTENDS Dispatch, TLAPS

RP == INSTANCE ResultsProofs WITH LegacyWorkers <- {}
OP == INSTANCE OutboxProofs WITH Events <- Runs, Unroutable <- {}, BatchSize <- 1

(* The broker has stored u's message, at some time. *)
Stored(u) == \E m \in window : m.event = u

(* No duplicate window passes within a run's time (see Dispatch). *)
WindowLive == \A m \in window : m.live

JobTypes ==
  /\ delivery \in [Runs -> Delivery]
  /\ jobs \subseteq Job
  /\ standing \in [Workers -> Standing]
  /\ refusals \subseteq Runs
  /\ sweeps \subseteq [run : Runs, drop : BOOLEAN]

(* Deliveries are numbered, and a process works on a run once. *)
Numbered ==
  /\ \A j \in jobs : j.attempt <= delivery[j.run].count
  /\ \A j, k \in jobs : j.run = k.run /\ j.attempt = k.attempt => j = k

OneJob == \A j, k \in jobs : j.worker = k.worker /\ j.run = k.run => j = k

(* The stages a job reaches by a claim that has committed *)
Held == {"accepted", "executing", "finishing"}

Authorised(w, u) == \E g \in grants : g.run = u /\ g.worker = w

(* What a worker may rely on about a run that it was delivered. *)
JobsKnow ==
  \A j \in jobs :
    /\ Stored(j.run)
    /\ result[j.run].status # "absent"
    /\ result[j.run].status = "pending" => result[j.run].runner = RunnerOf[j.worker]
    /\ j.stage \in Held => Authorised(j.worker, j.run)

(* What is listed stays over; what is to be dropped was stored. *)
SweepsKnow ==
  \A s \in sweeps : R!IsTerminal(result[s.run]) /\ (s.drop => Stored(s.run))

(* A row belongs to a run; a run that is placed has one until it is claimed.*)
RowsKnow ==
  \A u \in Runs :
    /\ rows[u].routed => rows[u].written
    /\ rows[u].written => result[u].status # "absent"
    /\ result[u].status = "pending" => rows[u].written \/ result[u].runner = NoRunner

(* A run that nobody has written since it was created is at version 1. *)
PendingFresh ==
  /\ \A u \in Runs : result[u].status = "pending" => result[u].version = 1
  /\ \A h \in handlers : h.entry.status = "pending" => h.entry.version = 1

(* A relay holds rows that exist, and calls permanent what has no route.    *)
RelaysKnow ==
  \A r \in Relays :
    /\ \A u \in relays[r].batch : rows[u].written
    /\ O!InHand(r, "permanent") => ~rows[relays[r].event].routed

(* Nobody gets at a run that has a route before its message was stored. *)
Begun(u) == result[u].status \notin {"absent", "pending"} \/ \E h \in handlers : h.run = u

BegunStored == \A u \in Runs : Begun(u) => ~rows[u].routed \/ Stored(u)

IInv ==
  /\ RP!IInv
  /\ OP!IInv
  /\ WindowLive
  /\ JobTypes
  /\ Numbered
  /\ OneJob
  /\ JobsKnow
  /\ SweepsKnow
  /\ PendingFresh
  /\ RowsKnow
  /\ RelaysKnow
  /\ BegunStored
  /\ RetiredRunIsOver

-----------------------------------------------------------------------------
(* The two instances of Results, the one Dispatch is made of and the one    *)
(* the theorems of ResultsProofs are about, have the same steps.            *)
LEMMA SameReads ==
  ASSUME NEW op, NEW u, NEW w
  PROVE  R!Read(op, u, w) <=> RP!Read(op, u, w)
<1>1. R!Cardinality(handlers) = RP!Cardinality(handlers)
  BY DEF R!Cardinality, RP!Cardinality
<1> QED
  BY <1>1 DEF R!Read, RP!Read

LEMMA SameWrites ==
  ASSUME NEW h
  PROVE  /\ R!Guarded(h) <=> RP!Guarded(h)
         /\ R!CommitClaim(h) <=> RP!CommitClaim(h)
         /\ R!CommitOutcome(h) <=> RP!CommitOutcome(h)
         /\ R!Abandon(h) <=> RP!Abandon(h)
<1>1. R!Written(h) = RP!Written(h)
  BY DEF R!Written, RP!Written, R!Claimed, RP!Claimed, R!Authed, RP!Authed, R!Completed,
         RP!Completed, R!FailRun, RP!FailRun, R!ExpireResult, RP!ExpireResult
<1>2. R!Update(h) <=> RP!Update(h)
  BY <1>1 DEF R!Update, RP!Update
<1>3. R!Guarded(h) <=> RP!Guarded(h)
  BY DEF R!Guarded, RP!Guarded
<1>4. R!IsTerminal(h.entry) <=> RP!IsTerminal(h.entry)
  BY DEF R!IsTerminal, RP!IsTerminal, R!TerminalStates, RP!TerminalStates
<1> QED
  BY <1>2, <1>3, <1>4 DEF R!CommitClaim, RP!CommitClaim, R!CommitOutcome, RP!CommitOutcome,
     R!Abandon, RP!Abandon, R!GrantOf, RP!GrantOf

LEMMA SameSteps == [R!Next]_R!vars => [RP!Next]_RP!vars
<1>1. ASSUME NEW u \in Runs, R!Create(u) PROVE RP!Create(u)
  BY <1>1 DEF R!Create, RP!Create, R!CreatePlaced, RP!CreatePlaced, R!CreateUnplaced,
              RP!CreateUnplaced, R!FailRun, RP!FailRun, R!Pending, RP!Pending, R!Absent, RP!Absent
<1>2. ASSUME NEW u \in Runs, NEW w \in Workers
      PROVE  /\ R!ClaimAdmitted(result[u], w) <=> RP!ClaimAdmitted(result[u], w)
             /\ R!IsReclaim(result[u], w) <=> RP!IsReclaim(result[u], w)
  BY DEF R!ClaimAdmitted, RP!ClaimAdmitted, R!IsReclaim, RP!IsReclaim
<1>3. ASSUME NEW u \in Runs, R!Begin(u) PROVE RP!Begin(u)
  BY <1>2, <1>3, SameReads
  DEF R!Begin, RP!Begin, R!ClaimRead, RP!ClaimRead, R!UnschedulableRead, RP!UnschedulableRead,
      R!AuthRead, RP!AuthRead, R!ExpiredRead, RP!ExpiredRead, R!StalePendingRead,
      RP!StalePendingRead, R!StrandRead, RP!StrandRead
<1>4. ASSUME NEW u \in Runs, NEW w \in Workers, R!Reclaim(w, u) PROVE RP!Reclaim(w, u)
  BY <1>2, <1>4 DEF R!Reclaim, RP!Reclaim, R!GrantOf, RP!GrantOf
<1>5. ASSUME NEW u \in Runs, R!LeaseLapses(u) \/ R!PendingAges(u)
      PROVE  RP!LeaseLapses(u) \/ RP!PendingAges(u)
  BY <1>5 DEF R!LeaseLapses, RP!LeaseLapses, R!PendingAges, RP!PendingAges
<1>6. ASSUME NEW g \in grants, R!ReportRead(g) PROVE RP!ReportRead(g)
  BY <1>6, SameReads DEF R!ReportRead, RP!ReportRead
<1>7. R!End => RP!End
  BY SameWrites DEF R!End, RP!End
<1>8. UNCHANGED R!vars => UNCHANGED RP!vars
  BY DEF R!vars, RP!vars
<1> QED
  BY <1>1, <1>3, <1>4, <1>5, <1>6, <1>7, <1>8 DEF R!Next, RP!Next

-----------------------------------------------------------------------------
(* What each part of the system does to the stored Results *)

LEMMA CreateIsResults == ASSUME NEW u \in Runs, Create(u) PROVE R!Next
<1>1. R!Create(u)
  BY DEF Create, R!Create
<1> QED
  BY <1>1 DEF R!Next

LEMMA BrokerIsResults == ASSUME NEW u \in Runs, Broker(u) PROVE R!Next \/ UNCHANGED resultVars
<1>1. R!StrandRead(u) \/ UNCHANGED resultVars
  BY DEF Broker, AgesOut, AckWaitPasses, MaxDeliveryRecorded, MaxDeliveryMissed
<1> QED
  BY <1>1 DEF R!Next, R!Begin

LEMMA ScanIsResults == ASSUME NEW u \in Runs, Scan(u) PROVE R!Next \/ UNCHANGED resultVars
<1>1. R!ExpiredRead(u) \/ R!StalePendingRead(u) \/ UNCHANGED resultVars
  BY DEF Scan, ExpireRunning, ExpirePending, EnqueueMissing, ListStale, ReleaseAbandoned
<1> QED
  BY <1>1 DEF R!Next, R!Begin

LEMMA TimersAreResults ==
  ASSUME NEW u \in Runs, RunTimer(u) \/ RowTimer(u) PROVE R!Next \/ UNCHANGED resultVars
<1>1. R!LeaseLapses(u) \/ R!PendingAges(u) \/ UNCHANGED resultVars
  BY DEF RunTimer, RowTimer
<1> QED
  BY <1>1 DEF R!Next

LEMMA RelaysAreResults ==
  ASSUME O!TypeOK, NEW r \in Relays, RelayStep(r) \/ Settle(r)
  PROVE  R!Next \/ UNCHANGED resultVars
<1>1. CASE RelayStep(r)
  BY <1>1 DEF RelayStep
<1>2. CASE Settle(r)
  <2>1. relays[r].event \in Runs
    BY <1>2, DispatchAssumption DEF Settle, O!Settle, O!InHand, O!TypeOK, O!Relay
  <2> QED
    BY <1>2, <2>1 DEF Settle, R!Next, R!Begin
<1> QED
  BY <1>1, <1>2

LEMMA WorkersAreResults == ASSUME NEW w \in Workers, Worker(w) PROVE UNCHANGED resultVars
  BY DEF Worker, WorkerCrashes, StandingChanges, Deliver, DropDuplicate

LEMMA HandshakeIsResults ==
  ASSUME NEW j \in jobs, j \in Job, Handshake(j) PROVE R!Next \/ UNCHANGED resultVars
<1>0. j.worker \in Workers /\ j.run \in Runs
  BY DEF Job
<1>1. CASE SendClaim(j) \/ Reclaim(j)
  BY <1>0, <1>1 DEF SendClaim, Reclaim, R!Next, R!Begin
<1>2. CASE ReportRefusal(j)
  BY <1>0, <1>2 DEF ReportRefusal, R!Next, R!Begin
<1>3. CASE Finish(j)
  BY <1>3 DEF Finish, R!Next
<1>4. CASE \/ DiscardStale(j) \/ Refused(j) \/ GiveUp(j) \/ AbandonClaim(j) \/ Execute(j)
           \/ TerminateUnreported(j) \/ ReportUnreachable(j) \/ ReportLost(j)
  BY <1>4 DEF DiscardStale, Refused, GiveUp, AbandonClaim, Execute, TerminateUnreported,
              ReportUnreachable, ReportLost
<1> QED
  BY <1>1, <1>2, <1>3, <1>4 DEF Handshake

LEMMA HandlersAreResults == ASSUME NEW h \in handlers, HandlerEnds(h) PROVE R!Next
<1>1. R!CommitClaim(h) \/ R!CommitOutcome(h) \/ R!Abandon(h)
  BY DEF HandlerEnds, ClaimCommits, ClaimLoses, StrandEnds, ReportEnds, ExpireEnds, HandlerDies
<1> QED
  BY <1>1 DEF R!Next, R!End

LEMMA SweepsAreResults ==
  ASSUME NEW s \in sweeps, Sweep(s) \/ SweepFails(s) PROVE UNCHANGED resultVars
  BY DEF Sweep, SweepFails

LEMMA ResultsStep ==
  ASSUME O!TypeOK, jobs \subseteq Job, [Next]_vars
  PROVE  [R!Next]_R!vars
<1>1. UNCHANGED vars => UNCHANGED resultVars
  BY DEF vars
<1>2. R!Next \/ UNCHANGED resultVars
  BY <1>1, CreateIsResults, BrokerIsResults, ScanIsResults, TimersAreResults, RelaysAreResults,
     WorkersAreResults, HandshakeIsResults, HandlersAreResults, SweepsAreResults
  DEF Next
<1> QED
  BY <1>2 DEF resultVars, R!vars

-----------------------------------------------------------------------------
LEMMA ResultsConstants == RP!ResultsAssumption
  BY DispatchAssumption DEF RP!ResultsAssumption

LEMMA OutboxConstants == OP!OutboxAssumption
  BY DispatchAssumption DEF OP!OutboxAssumption

(* What any step may do to a stored Result.  The part about handlers says   *)
(* that only one that has read a run ends it or has it claimed.             *)
LEMMA ResultsChange ==
  ASSUME RP!IInv, [R!Next]_R!vars
  PROVE  /\ RP!IInv'
         /\ grants \subseteq grants'
         /\ \A h \in handlers' : h \in handlers \/ h.entry = result[h.run]
         /\ \A u \in Runs :
              \/ result'[u] = result[u]
              \/ result[u].status = "absent" /\ result'[u].status \in {"pending", "errored"}
              \/ /\ result[u].status \in {"pending", "running"}
                 /\ result'[u].status \notin {"absent", "pending"}
                 /\ \E h \in handlers : h.run = u
<1>1. [RP!Next]_RP!vars
  BY SameSteps
<1>2. RP!IInv'
  BY <1>1, ResultsConstants, RP!NextIInv
<1>3. grants \subseteq grants' /\ \A h \in handlers' : h \in handlers \/ h.entry = result[h.run]
  <2>1. CASE UNCHANGED R!vars
    BY <2>1 DEF R!vars
  <2>2. ASSUME NEW op, NEW u, NEW w, R!Read(op, u, w)
        PROVE  grants' = grants /\ \A h \in handlers' : h \in handlers \/ h.entry = result[h.run]
    BY <2>2 DEF R!Read
  <2>3. ASSUME NEW u \in Runs, R!Begin(u) PROVE \E op, w : R!Read(op, u, w)
    BY <2>3 DEF R!Begin, R!ClaimRead, R!UnschedulableRead, R!AuthRead, R!ExpiredRead,
       R!StalePendingRead, R!StrandRead
  <2>4. ASSUME NEW g \in grants, R!ReportRead(g) PROVE \E op, u, w : R!Read(op, u, w)
    BY <2>4 DEF R!ReportRead
  <2>5. ASSUME NEW u \in Runs,
               \/ R!Create(u) \/ \E w \in Workers : R!Reclaim(w, u)
               \/ R!LeaseLapses(u) \/ R!PendingAges(u)
        PROVE  grants \subseteq grants' /\ handlers' = handlers
    BY <2>5 DEF R!Create, R!CreatePlaced, R!CreateUnplaced, R!Reclaim, R!LeaseLapses, R!PendingAges
  <2>6. ASSUME R!End PROVE grants \subseteq grants' /\ handlers' \subseteq handlers
    BY <2>6 DEF R!End, R!CommitClaim, R!CommitOutcome, R!Abandon
  <2> QED
    BY <2>1, <2>2, <2>3, <2>4, <2>5, <2>6 DEF R!Next
<1>4. ASSUME NEW u \in Runs
      PROVE  \/ result'[u] = result[u]
             \/ result[u].status = "absent" /\ result'[u].status \in {"pending", "errored"}
             \/ /\ result[u].status \in {"pending", "running"}
                /\ result'[u].status \notin {"absent", "pending"}
                /\ \E h \in handlers : h.run = u
  <2>1. CASE result' = result
    BY <2>1
  <2>2. ASSUME NEW v \in Runs, RP!Create(v)
        PROVE  \/ result'[u] = result[u]
               \/ result[u].status = "absent" /\ result'[u].status \in {"pending", "errored"}
    BY <2>2, ResultsConstants, RP!CreateEffect
  <2>3. ASSUME NEW h \in handlers, RP!CommitClaim(h)
        PROVE  \/ result'[u] = result[u]
               \/ /\ result[u].status = "pending" /\ result'[u].status = "running"
                  /\ h.run = u
    BY <2>3, ResultsConstants, RP!ClaimEffect
  <2>4. ASSUME NEW h \in handlers, RP!CommitOutcome(h)
        PROVE  \/ result'[u] = result[u]
               \/ /\ result[u].status \in {"pending", "running"}
                  /\ result'[u].status \in {"errored", "timeout", "completed"}
                  /\ h.run = u
    BY <2>4, ResultsConstants, RP!OutcomeStates, RP!OutcomeElsewhere
  <2>5. \/ result' = result
        \/ \E v \in Runs : RP!Create(v)
        \/ \E h \in handlers : RP!CommitClaim(h)
        \/ \E h \in handlers : RP!CommitOutcome(h)
    BY <1>1, ResultsConstants, RP!StepKinds
  <2> QED
    BY <2>1, <2>2, <2>3, <2>4, <2>5
<1> QED
  BY <1>2, <1>3, <1>4

(* A finished run stays as it is, and one that exists does not vanish. *)
LEMMA OverStaysOver ==
  ASSUME RP!IInv, [R!Next]_R!vars, NEW u \in Runs
  PROVE  /\ R!IsTerminal(result[u]) => R!IsTerminal(result'[u])
         /\ result[u].status # "absent" => result'[u].status # "absent"
         /\ result[u].status # "absent" /\ result'[u].status = "pending" => result'[u] = result[u]
         /\ result[u].status \notin {"absent", "pending"} =>
              result'[u].status \notin {"absent", "pending"}
  BY ResultsChange DEF R!IsTerminal, R!TerminalStates

(* What a handler that waits to write knows of its run *)
LEMMA HandlersKnowRuns ==
  ASSUME RP!IInv, NEW h \in handlers
  PROVE  /\ h.run \in Runs
         /\ result[h.run].status # "absent"
         /\ PendingFresh /\ ~R!Guarded(h) /\ h.entry.status = "pending" =>
              result[h.run].status # "pending"
<1>1. h \in RP!Handler /\ h.run \in Runs /\ result[h.run] \in RP!Result
  BY DEF RP!IInv, RP!TypeOK, RP!Handler
<1>2. /\ h.entry.version \in Nat /\ result[h.run].version \in Nat
      /\ h.entry.version <= result[h.run].version
      /\ h.entry.version = result[h.run].version => h.entry = result[h.run]
  BY <1>1 DEF RP!IInv, RP!ReadsAreVersioned, RP!Handler, RP!Result
<1>3. h.entry.status # "absent"
  BY <1>1 DEF RP!IInv, RP!HandlersKnow, RP!Knows, RP!Handler, RP!Ops
<1>4. result[h.run].status # "absent"
  <2> SUFFICES ASSUME result[h.run].status = "absent" PROVE FALSE
    OBVIOUS
  <2>1. result[h.run].version = 0
    BY <1>1 DEF RP!IInv, RP!UnclaimedRuns
  <2> QED
    BY <1>2, <1>3, <2>1
<1> QED
  BY <1>1, <1>4 DEF PendingFresh, R!Guarded

-----------------------------------------------------------------------------
(* The two instances of Outbox, likewise *)

LEMMA SameTypes == ASSUME OP!IInv PROVE O!TypeOK
<1>1. OP!TypeOK
  BY DEF OP!IInv
<1>2. O!Row = OP!Row /\ O!Relay = OP!Relay
  BY DEF O!Row, OP!Row, O!Relay, OP!Relay, O!Stages, OP!Stages
<1> QED
  BY <1>1, <1>2 DEF O!TypeOK, OP!TypeOK

LEMMA SamePublishes ==
  ASSUME NEW r \in Relays, NEW u \in Runs
  PROVE  /\ O!PublishPermanent(r, u) => OP!PublishPermanent(r, u)
         /\ O!PublishAcked(r, u) => OP!PublishAcked(r, u)
         /\ O!PublishUnacked(r, u) => OP!PublishUnacked(r, u)
         /\ O!PublishRefused(r, u) => OP!PublishRefused(r, u)
         /\ OP!PublishAcked(r, u) \/ OP!PublishUnacked(r, u) => OP!Store(u, u)
<1>1. \A id : O!Suppressed(id) = OP!Suppressed(id)
  BY DEF O!Suppressed, OP!Suppressed
<1>2. O!AckSeq(u) = OP!AckSeq(u)
  BY DEF O!AckSeq, OP!AckSeq, O!Suppressed, OP!Suppressed
<1>5. O!Store(u, u) <=> OP!Store(u, u)
  BY <1>1 DEF O!Store, OP!Store
<1>3. /\ O!Starting(r, u) <=> OP!Starting(r, u)
      /\ O!Fault <=> OP!Fault
      /\ O!MsgID(u, r) = u /\ OP!MsgID(u, r) = u
  BY DEF O!Starting, OP!Starting, O!Fault, OP!Fault, O!MsgID, OP!MsgID
<1>4. ASSUME NEW stage, NEW seq PROVE O!Outcome(r, u, stage, seq) <=> OP!Outcome(r, u, stage, seq)
  BY DEF O!Outcome, OP!Outcome
<1> QED
  BY <1>2, <1>3, <1>4, <1>5 DEF O!PublishPermanent, OP!PublishPermanent, O!PublishAcked, OP!PublishAcked,
     O!PublishUnacked, OP!PublishUnacked, O!PublishRefused, OP!PublishRefused

LEMMA SameRecords ==
  ASSUME NEW r \in Relays
  PROVE  /\ (\/ O!MarkPublished(r) \/ O!MarkPublishedFails(r) \/ O!Settle(r) \/ O!SettleFails(r)
             \/ O!MarkFailed(r) \/ O!MarkFailedFails(r)) => OP!Record(r)
         /\ O!Crash(r) => OP!Crash(r)
<1>1. O!Idle = OP!Idle /\ (O!Fault <=> OP!Fault)
  BY DEF O!Idle, OP!Idle, O!Fault, OP!Fault
<1>2. ASSUME NEW stage PROVE O!InHand(r, stage) <=> OP!InHand(r, stage)
  BY DEF O!InHand, OP!InHand
<1>3. O!NextEntry(r) <=> OP!NextEntry(r)
  BY <1>1 DEF O!NextEntry, OP!NextEntry
<1>4. ASSUME NEW e, NEW stage, NEW seq
      PROVE  O!Outcome(r, e, stage, seq) <=> OP!Outcome(r, e, stage, seq)
  BY DEF O!Outcome, OP!Outcome
<1>5. O!MarkPublished(r) \/ O!MarkFailed(r) \/ O!MarkFailedFails(r) => OP!Record(r)
  BY <1>1, <1>2, <1>3 DEF OP!Record, O!MarkPublished, OP!MarkPublished, O!MarkFailed, OP!MarkFailed,
     O!MarkFailedFails, OP!MarkFailedFails
<1>6. O!MarkPublishedFails(r) \/ O!Settle(r) \/ O!SettleFails(r) => OP!Record(r)
  BY <1>1, <1>2, <1>4 DEF OP!Record, O!MarkPublishedFails, OP!MarkPublishedFails, O!Settle,
     OP!Settle, O!SettleFails, OP!SettleFails
<1>7. O!Crash(r) => OP!Crash(r)
  BY <1>1 DEF O!Crash, OP!Crash
<1> QED
  BY <1>5, <1>6, <1>7

LEMMA SameClaims ==
  ASSUME NEW r \in Relays, NEW u \in Runs, O!Claim(r, {u})
  PROVE  OP!Claim(r, {u})
<1>1. O!Cardinality({u}) = OP!Cardinality({u})
  BY DEF O!Cardinality, OP!Cardinality
<1>2. O!Idle = OP!Idle /\ (O!Claimable(u) <=> OP!Claimable(u))
  BY DEF O!Idle, OP!Idle, O!Claimable, OP!Claimable
<1> QED
  BY <1>1, <1>2 DEF O!Claim, OP!Claim

-----------------------------------------------------------------------------
(* What the parts of the system do to the outbox *)

(* What no step but an enqueueing or a retiring one changes of a row *)
RowKept(u) ==
  /\ rows'[u].written = rows[u].written
  /\ rows'[u].routed = rows[u].routed
  /\ rows'[u].retired = rows[u].retired

(* What every step keeps: nothing is forgotten that was stored. *)
OutboxKept == OP!IInv' /\ WindowLive' /\ RelaysKnow' /\ window \subseteq window'

OutboxOK == OP!IInv /\ WindowLive /\ RelaysKnow

LEMMA OutboxTypes ==
  ASSUME OP!IInv
  PROVE  /\ rows \in [Runs -> O!Row] /\ relays \in [Relays -> O!Relay]
         /\ faults \in 0 .. MaxFaults /\ MaxFaults \in Nat
         /\ \A r \in Relays : relays[r].event # NoEvent => relays[r].event \in relays[r].batch
         /\ \A m \in stream : m.event \in Runs /\ Stored(m.event)
         /\ \A u \in Runs : rows[u].published => Stored(u)
<1>1. O!TypeOK
  BY SameTypes
<1>2. /\ \A m \in stream : Stored(m.event)
      /\ \A u \in Runs : rows[u].published => Stored(u)
  BY DEF OP!IInv, OP!StreamKnown, OP!ReceiptsKnown, OP!Known, Stored
<1> QED
  BY <1>1, <1>2, DispatchAssumption DEF O!TypeOK

LEMMA PublishChanges ==
  ASSUME OutboxOK, NEW r \in Relays, NEW u \in Runs,
         \/ O!PublishPermanent(r, u) \/ O!PublishAcked(r, u) \/ O!PublishUnacked(r, u)
         \/ O!PublishRefused(r, u)
  PROVE  /\ OutboxKept /\ rows' = rows
         /\ \/ stream' = stream
            \/ ~Stored(u) /\ stream' = stream \cup {[event |-> u, seq |-> lastSeq + 1]}
         /\ ~rows[u].routed => stream' = stream
<1>1. u \in relays[r].batch /\ rows' = rows
  BY DEF O!PublishPermanent, O!PublishAcked, O!PublishUnacked, O!PublishRefused, O!Starting
<1>2. OP!Publish(r)
  BY <1>1, SamePublishes DEF OP!Publish
<1>3. OP!IInv'
  BY <1>2, OutboxConstants, OP!PublishKeeps DEF OutboxOK
<1>t. \A m \in window : m.id = m.event /\ m.live
  BY DEF OutboxOK, WindowLive, OP!IInv, OP!WindowTypes
<1>5. /\ window \subseteq window' /\ WindowLive'
      /\ \/ stream' = stream
         \/ ~Stored(u) /\ stream' = stream \cup {[event |-> u, seq |-> lastSeq + 1]}
      /\ ~rows[u].routed => stream' = stream
  <2>1. CASE O!PublishPermanent(r, u) \/ O!PublishRefused(r, u)
    BY <1>t, <2>1 DEF O!PublishPermanent, O!PublishRefused, WindowLive
  <2>2. CASE O!PublishAcked(r, u) \/ O!PublishUnacked(r, u)
    <3>1. OP!Store(u, u) /\ rows[u].routed
      BY <2>2, SamePublishes DEF O!PublishAcked, O!PublishUnacked
    <3>2. CASE OP!Suppressed(u) # {}
      BY <1>t, <3>1, <3>2 DEF OP!Store, WindowLive
    <3>3. CASE OP!Suppressed(u) = {}
      <4>1. ~Stored(u)
        BY <1>t, <3>3 DEF Stored, OP!Suppressed
      <4>2. /\ stream' = stream \cup {[event |-> u, seq |-> lastSeq + 1]}
            /\ window' = window \cup {[id |-> u, event |-> u, seq |-> lastSeq + 1, live |-> TRUE]}
        BY <3>1, <3>3 DEF OP!Store
      <4>3. WindowLive'
        BY <1>t, <4>2 DEF WindowLive
      <4> QED
        BY <3>1, <4>1, <4>2, <4>3
    <3> QED
      BY <3>2, <3>3
  <2> QED
    BY <2>1, <2>2
<1>6. RelaysKnow'
  <2>1. relays \in [Relays -> O!Relay] /\ relays[r] \in O!Relay
    BY OutboxTypes DEF OutboxOK
  <2>2. PICK stage, seq :
          /\ O!Outcome(r, u, stage, seq)
          /\ stage = "permanent" => ~rows[u].routed
    BY DEF O!PublishPermanent, O!PublishAcked, O!PublishUnacked, O!PublishRefused
  <2>3. /\ relays'[r].batch = relays[r].batch /\ relays'[r].event = u /\ relays'[r].stage = stage
        /\ \A q \in Relays : q # r => relays'[q] = relays[q]
    BY <2>1, <2>2 DEF O!Outcome, O!Relay
  <2> QED
    BY <1>1, <2>2, <2>3 DEF RelaysKnow, OutboxOK, O!InHand
<1> QED
  BY <1>1, <1>3, <1>5, <1>6 DEF OutboxKept

(* Everything else a relay does leaves the broker alone. *)
LEMMA RecordChanges ==
  ASSUME OutboxOK, NEW r \in Relays,
         \/ O!MarkPublished(r) \/ O!MarkPublishedFails(r) \/ O!Settle(r) \/ O!SettleFails(r)
         \/ O!MarkFailed(r) \/ O!MarkFailedFails(r) \/ O!Crash(r)
  PROVE  OutboxKept /\ stream' = stream /\ \A u \in Runs : RowKept(u)
<1>t. /\ rows \in [Runs -> O!Row] /\ relays \in [Relays -> O!Relay] /\ relays[r] \in O!Relay
      /\ relays[r].event # NoEvent => relays[r].event \in relays[r].batch
  BY OutboxTypes DEF OutboxOK
<1>1. OP!IInv'
  <2>1. OP!IInv /\ (OP!Record(r) \/ OP!Crash(r))
    BY SameRecords DEF OutboxOK
  <2> QED
    BY <2>1, OutboxConstants, OP!RecordKeeps, OP!CrashKeeps
<1>2. window' = window /\ stream' = stream /\ WindowLive'
  BY DEF O!MarkPublished, O!MarkPublishedFails, O!Settle, O!SettleFails, O!MarkFailed,
         O!MarkFailedFails, O!Crash, WindowLive, OutboxOK
<1>3. \A u \in Runs : RowKept(u)
  <2>1. CASE O!MarkPublished(r) \/ O!MarkFailed(r)
    <3>1. relays[r].event \in Runs
      BY <1>t, <2>1, DispatchAssumption DEF O!MarkPublished, O!MarkFailed, O!InHand, O!Relay
    <3>2. CASE O!MarkPublished(r)
      BY <1>t, <3>1, <3>2 DEF O!MarkPublished, RowKept, O!Row
    <3>3. CASE O!MarkFailed(r)
      BY <1>t, <3>1, <3>3 DEF O!MarkFailed, RowKept, O!Row
    <3> QED
      BY <2>1, <3>2, <3>3
  <2>2. CASE \/ O!MarkPublishedFails(r) \/ O!Settle(r) \/ O!SettleFails(r) \/ O!MarkFailedFails(r)
             \/ O!Crash(r)
    BY <2>2 DEF O!MarkPublishedFails, O!Settle, O!SettleFails, O!MarkFailedFails, O!Crash, RowKept
  <2> QED
    BY <2>1, <2>2
<1>4. /\ relays'[r].batch \subseteq relays[r].batch
      /\ relays'[r].event = NoEvent \/ relays'[r].stage = "failed"
      /\ \A q \in Relays : q # r => relays'[q] = relays[q]
  <2>1. CASE O!MarkPublishedFails(r) \/ O!Settle(r) \/ O!SettleFails(r)
    <3>1. O!Outcome(r, relays[r].event, "failed", 0)
      BY <2>1 DEF O!MarkPublishedFails, O!Settle, O!SettleFails
    <3> QED
      BY <1>t, <3>1 DEF O!Outcome, O!Relay
  <2>2. CASE O!MarkPublished(r) \/ O!MarkFailed(r) \/ O!MarkFailedFails(r)
    <3>1. O!NextEntry(r)
      BY <2>2 DEF O!MarkPublished, O!MarkFailed, O!MarkFailedFails
    <3> QED
      BY <1>t, <3>1 DEF O!NextEntry, O!Idle
  <2>3. CASE O!Crash(r)
    BY <1>t, <2>3 DEF O!Crash, O!Idle
  <2> QED
    BY <2>1, <2>2, <2>3
<1>5. RelaysKnow'
  <2>1. ASSUME NEW q \in Relays, NEW u \in relays'[q].batch PROVE rows'[u].written
    <3>1. u \in relays[q].batch /\ u \in Runs
      BY <1>t, <1>4, <2>1 DEF O!Relay
    <3> QED
      BY <1>3, <3>1 DEF RelaysKnow, RowKept, OutboxOK
  <2>2. ASSUME NEW q \in Relays, O!InHand(q, "permanent")' PROVE ~rows'[relays'[q].event].routed
    <3>1. q # r /\ relays'[q] = relays[q] /\ O!InHand(q, "permanent")
      BY <1>4, <2>2 DEF O!InHand
    <3>2. relays[q].event \in Runs
      BY <1>t, <3>1 DEF O!InHand, O!Relay
    <3> QED
      BY <1>3, <3>1, <3>2 DEF RelaysKnow, RowKept, OutboxOK
  <2> QED
    BY <2>1, <2>2 DEF RelaysKnow
<1> QED
  BY <1>1, <1>2, <1>3, <1>5 DEF OutboxKept

LEMMA ClaimChanges ==
  ASSUME OutboxOK, NEW r \in Relays, NEW u \in Runs, O!Claim(r, {u})
  PROVE  OutboxKept /\ stream' = stream /\ \A v \in Runs : RowKept(v)
<1>t. /\ rows \in [Runs -> O!Row] /\ relays \in [Relays -> O!Relay] /\ relays[r] \in O!Relay
  BY OutboxTypes DEF OutboxOK
<1>1. OP!IInv'
  <2>1. OP!Claim(r, {u}) /\ OP!IInv /\ {u} \in SUBSET Runs
    BY SameClaims DEF OutboxOK
  <2> QED
    BY <2>1, OutboxConstants, OP!ClaimKeeps
<1>2. window' = window /\ stream' = stream /\ WindowLive'
  BY DEF O!Claim, WindowLive, OutboxOK
<1>3. \A v \in Runs : RowKept(v)
  BY <1>t DEF O!Claim, RowKept, O!Row
<1>4. /\ relays[r] = O!Idle /\ rows[u].written
      /\ relays' = [relays EXCEPT ![r].batch = {u}]
  BY DEF O!Claim, O!Claimable
<1>5. /\ relays'[r].batch = {u} /\ relays'[r].event = NoEvent
      /\ \A q \in Relays : q # r => relays'[q] = relays[q]
  BY <1>t, <1>4 DEF O!Idle
<1>6. RelaysKnow'
  <2>1. ASSUME NEW q \in Relays, NEW v \in relays'[q].batch PROVE rows'[v].written
    <3>1. v \in Runs /\ rows[v].written
      BY <1>t, <1>4, <1>5, <2>1 DEF O!Relay, RelaysKnow, OutboxOK
    <3> QED
      BY <1>3, <3>1 DEF RowKept
  <2>2. ASSUME NEW q \in Relays, O!InHand(q, "permanent")' PROVE ~rows'[relays'[q].event].routed
    <3>1. q # r /\ relays'[q] = relays[q] /\ O!InHand(q, "permanent")
      BY <1>5, <2>2 DEF O!InHand
    <3>2. relays[q].event \in Runs
      BY <1>t, <3>1 DEF O!InHand, O!Relay
    <3> QED
      BY <1>3, <3>1, <3>2 DEF RelaysKnow, RowKept, OutboxOK
  <2> QED
    BY <2>1, <2>2 DEF RelaysKnow
<1> QED
  BY <1>1, <1>2, <1>3, <1>6 DEF OutboxKept

(* A step of nobody's relay: rows are written or retired but never called   *)
(* published, and messages that were stored are taken off the queue.        *)
LEMMA TableChanges ==
  ASSUME OutboxOK, UNCHANGED <<relays, window, lastSeq, undeliverable>>, faults' \in 0 .. MaxFaults,
         rows' \in [Runs -> O!Row],
         \A u \in Runs : rows'[u].published => rows[u].published /\ rows'[u].seq = rows[u].seq,
         \A u \in Runs : rows[u].written => rows'[u].written /\ rows'[u].routed = rows[u].routed,
         NEW off \in SUBSET Runs, \A u \in off : Stored(u),
         stream' = {m \in stream : m.event \notin off}, gone' = gone \cup off
  PROVE  OutboxKept
<1>t. /\ OP!TypeOK /\ OP!WindowTypes /\ OP!OneSuppressed /\ OP!StreamKnown
      /\ OP!EntriesKept /\ OP!GoneKnown /\ OP!GoneOnce /\ OP!AcksKnown /\ OP!ReceiptsKnown
      /\ relays \in [Relays -> O!Relay]
  BY OutboxTypes DEF OP!IInv, OutboxOK
<1>1. OP!TypeOK'
  <2>1. O!Row = OP!Row
    BY DEF O!Row, OP!Row
  <2> QED
    BY <1>t, <2>1 DEF OP!TypeOK
<1>2. OP!WindowTypes' /\ OP!OneSuppressed'
  BY <1>t DEF OP!WindowTypes, OP!OneSuppressed
<1>3. \A e, seq : OP!Known(e, seq) => OP!Known(e, seq)'
  BY DEF OP!Known
<1>4. OP!StreamKnown' /\ OP!AcksKnown' /\ OP!ReceiptsKnown'
  <2>1. OP!StreamKnown'
    BY <1>t, <1>3 DEF OP!StreamKnown
  <2>2. OP!AcksKnown'
    BY <1>t, <1>3 DEF OP!AcksKnown, OP!InHand
  <2>3. OP!ReceiptsKnown'
    BY <1>t, <1>3 DEF OP!ReceiptsKnown
  <2> QED
    BY <2>1, <2>2, <2>3
<1>5. OP!EntriesKept'
  BY <1>t DEF OP!EntriesKept
<1>6. OP!GoneKnown'
  BY <1>t DEF OP!GoneKnown, Stored
<1>7. OP!GoneOnce'
  BY <1>t DEF OP!GoneOnce, OP!Deduplicated
<1>8. OP!IInv'
  BY <1>1, <1>2, <1>4, <1>5, <1>6, <1>7 DEF OP!IInv
<1>9. WindowLive' /\ window \subseteq window'
  BY DEF WindowLive, OutboxOK
<1>10. RelaysKnow'
  <2>1. \A r \in Relays : relays[r].batch \subseteq Runs
    BY <1>t DEF O!Relay
  <2>2. \A r \in Relays : O!InHand(r, "permanent") =>
          relays[r].event \in Runs /\ rows[relays[r].event].written
    <3>1. \A r \in Relays : relays[r].event # NoEvent => relays[r].event \in relays[r].batch
      BY OutboxTypes DEF OutboxOK
    <3> QED
      BY <2>1, <3>1 DEF O!InHand, RelaysKnow, OutboxOK
  <2> QED
    BY <2>1, <2>2 DEF RelaysKnow, OutboxOK, O!InHand
<1> QED
  BY <1>8, <1>9, <1>10 DEF OutboxKept

-----------------------------------------------------------------------------
(* A fault, counted or not, is all that happens to the outbox. *)
LEMMA FaultKeeps ==
  ASSUME OutboxOK, UNCHANGED <<rows, relays, stream, window, lastSeq, gone, undeliverable>>,
         faults' = faults \/ O!Fault
  PROVE  OutboxKept
<1>1. faults' \in 0 .. MaxFaults /\ rows' \in [Runs -> O!Row]
  BY OutboxTypes DEF OutboxOK, O!Fault
<1>2. /\ \A u \in Runs : rows'[u].published => rows[u].published /\ rows'[u].seq = rows[u].seq
      /\ \A u \in Runs : rows[u].written => rows'[u].written /\ rows'[u].routed = rows[u].routed
  OBVIOUS
<1>3. /\ stream' = {m \in stream : m.event \notin {}} /\ gone' = gone \cup {}
      /\ {} \in SUBSET Runs /\ \A u \in {} : Stored(u)
  OBVIOUS
<1> QED
  BY <1>1, <1>2, <1>3, TableChanges

(* A message leaves the queue, or its acknowledgement does not arrive. *)
LEMMA AckKeeps ==
  ASSUME OutboxOK, NEW u \in Runs, Stored(u), UNCHANGED <<rows, relays, window, lastSeq, undeliverable>>,
         \/ Off(u) /\ UNCHANGED faults
         \/ UNCHANGED <<stream, gone>> /\ O!Fault
  PROVE  OutboxKept
<1>1. faults' \in 0 .. MaxFaults /\ rows \in [Runs -> O!Row]
  BY OutboxTypes DEF OutboxOK, O!Fault
<1>2. CASE Off(u)
  <2>1. stream' = {m \in stream : m.event \notin {u}} /\ gone' = gone \cup {u} /\ {u} \in SUBSET Runs
    BY <1>2 DEF Off
  <2> QED
    BY <1>1, <2>1, TableChanges
<1>3. CASE UNCHANGED <<stream, gone>>
  BY <1>1, <1>3, FaultKeeps
<1> QED
  BY <1>2, <1>3

(* One row is written, and what it says of a publication it said before. *)
LEMMA RowWriteKeeps ==
  ASSUME OutboxOK, NEW u \in Runs, NEW row \in O!Row, rows' = [rows EXCEPT ![u] = row],
         row.published => rows[u].published /\ row.seq = rows[u].seq,
         rows[u].written => row.written /\ row.routed = rows[u].routed,
         UNCHANGED <<relays, stream, window, lastSeq, gone, undeliverable, faults>>
  PROVE  OutboxKept
<1>1. faults' \in 0 .. MaxFaults /\ rows \in [Runs -> O!Row]
  BY OutboxTypes DEF OutboxOK
<1>2. rows' \in [Runs -> O!Row] /\ rows'[u] = row /\ \A v \in Runs : v # u => rows'[v] = rows[v]
  BY <1>1
<1>3. /\ \A v \in Runs : rows'[v].published => rows[v].published /\ rows'[v].seq = rows[v].seq
      /\ \A v \in Runs : rows[v].written => rows'[v].written /\ rows'[v].routed = rows[v].routed
  BY <1>2
<1>4. /\ stream' = {m \in stream : m.event \notin {}} /\ gone' = gone \cup {}
      /\ {} \in SUBSET Runs /\ \A v \in {} : Stored(v)
  OBVIOUS
<1> QED
  BY <1>1, <1>2, <1>3, <1>4, TableChanges

(* What a step does to the row of a run: it is as it was; or it is written, *)
(* for a run that is pending and that, if the row has a route, nobody has   *)
(* got at yet.  It is retired only with its run over.                       *)
RowFate(u) ==
  /\ rows'[u].retired => rows[u].retired \/ R!IsTerminal(result'[u])
  /\ \/ /\ rows'[u].written = rows[u].written /\ rows'[u].routed = rows[u].routed
        /\ result[u].status = "absent" => result'[u].status # "pending"
     \/ /\ ~rows[u].written /\ rows'[u].written
        /\ result'[u].status = "pending"
        /\ rows'[u].routed => ~Begun(u)'

(* Whoever has just read a run has it from its message, or it has no route. *)
ReadersKnow ==
  \A h \in handlers' : h \in handlers \/ (h.run \in Runs /\ (Stored(h.run) \/ ~rows[h.run].routed))

RowFacts == OutboxKept /\ ReadersKnow /\ \A u \in Runs : RowFate(u)

LEMMA QuietRows ==
  ASSUME \A u \in Runs : RowKept(u), result' = result
  PROVE  \A u \in Runs : RowFate(u)
  BY DEF RowKept, RowFate

LEMMA ReaderOf ==
  ASSUME NEW u \in Runs, Stored(u) \/ ~rows[u].routed,
         \/ UNCHANGED resultVars
         \/ \E op, w : R!Read(op, u, w)
  PROVE  ReadersKnow /\ result' = result
  BY DEF ReadersKnow, R!Read, resultVars

LEMMA InvParts ==
  ASSUME IInv
  PROVE  OutboxOK /\ O!TypeOK /\ jobs \subseteq Job /\ JobsKnow
  BY SameTypes DEF IInv, OutboxOK, JobTypes

LEMMA HandshakeRows == ASSUME IInv, NEW j \in jobs, Handshake(j) PROVE RowFacts
<1>t. OutboxOK /\ j \in Job /\ j.run \in Runs /\ j.worker \in Workers /\ Stored(j.run)
  BY InvParts DEF Job, JobsKnow
<1>1. rows' = rows /\ OutboxKept
  <2>1. CASE \/ SendClaim(j) \/ Reclaim(j) \/ Refused(j) \/ Finish(j)
    BY <1>t, <2>1, FaultKeeps DEF SendClaim, Reclaim, Refused, Finish, outboxVars
  <2>2. CASE \/ DiscardStale(j) \/ Execute(j) \/ TerminateUnreported(j)
    <3>1. AckOrLost(j.run)
      BY <2>2 DEF DiscardStale, Execute, TerminateUnreported, confirmAck
    <3> QED
      BY <1>t, <3>1, AckKeeps DEF AckOrLost
  <2>3. CASE ReportRefusal(j)
    <3>1. AckOrLost(j.run) \/ UNCHANGED outboxVars
      BY <2>3 DEF ReportRefusal
    <3> QED
      BY <1>t, <3>1, AckKeeps, FaultKeeps DEF AckOrLost, outboxVars
  <2>4. CASE GiveUp(j) \/ AbandonClaim(j) \/ ReportUnreachable(j) \/ ReportLost(j)
    BY <1>t, <2>4, FaultKeeps DEF GiveUp, AbandonClaim, ReportUnreachable, ReportLost
  <2> QED
    BY <2>1, <2>2, <2>3, <2>4 DEF Handshake
<1>2. ReadersKnow /\ result' = result
  <2>1. CASE SendClaim(j)
    BY <1>t, <2>1, ReaderOf DEF SendClaim, R!ClaimRead
  <2>2. CASE ReportRefusal(j)
    BY <1>t, <2>2, ReaderOf DEF ReportRefusal, R!StrandRead
  <2>3. CASE Finish(j)
    <3>1. UNCHANGED resultVars \/ \E g \in grants : g.run = j.run /\ R!ReportRead(g)
      BY <2>3 DEF Finish
    <3> QED
      BY <1>t, <3>1, ReaderOf DEF R!ReportRead
  <2>4. CASE Reclaim(j)
    BY <2>4 DEF Reclaim, R!Reclaim, ReadersKnow
  <2>5. CASE \/ DiscardStale(j) \/ Refused(j) \/ GiveUp(j) \/ AbandonClaim(j) \/ Execute(j)
             \/ TerminateUnreported(j) \/ ReportUnreachable(j) \/ ReportLost(j)
    BY <2>5 DEF DiscardStale, Refused, GiveUp, AbandonClaim, Execute, TerminateUnreported,
                ReportUnreachable, ReportLost, resultVars, ReadersKnow
  <2> QED
    BY <2>1, <2>2, <2>3, <2>4, <2>5 DEF Handshake
<1>3. \A u \in Runs : RowFate(u)
  BY <1>1, <1>2, QuietRows DEF RowKept
<1> QED
  BY <1>1, <1>2, <1>3 DEF RowFacts

LEMMA BrokerRows == ASSUME IInv, NEW u \in Runs, Broker(u) PROVE RowFacts
<1>t. OutboxOK /\ \A m \in stream : Stored(m.event)
  BY InvParts, OutboxTypes DEF OutboxOK
<1>1. rows' = rows /\ OutboxKept
  <2>1. CASE AgesOut(u)
    <3>1. Stored(u)
      BY <1>t, <2>1 DEF AgesOut, Queued
    <3> QED
      BY <1>t, <2>1, <3>1, AckKeeps DEF AgesOut
  <2>2. CASE AckWaitPasses(u) \/ MaxDeliveryRecorded(u) \/ MaxDeliveryMissed(u)
    BY <1>t, <2>2, FaultKeeps DEF AckWaitPasses, MaxDeliveryRecorded, MaxDeliveryMissed, outboxVars
  <2> QED
    BY <2>1, <2>2 DEF Broker
<1>2. ReadersKnow /\ result' = result
  <2>1. CASE MaxDeliveryRecorded(u)
    <3>1. Stored(u)
      BY <1>t, <2>1 DEF MaxDeliveryRecorded, Exhausted, Queued
    <3> QED
      BY <2>1, <3>1, ReaderOf DEF MaxDeliveryRecorded, R!StrandRead
  <2>2. CASE AgesOut(u) \/ AckWaitPasses(u) \/ MaxDeliveryMissed(u)
    BY <2>2 DEF AgesOut, AckWaitPasses, MaxDeliveryMissed, resultVars, ReadersKnow
  <2> QED
    BY <2>1, <2>2 DEF Broker
<1>3. \A v \in Runs : RowFate(v)
  BY <1>1, <1>2, QuietRows DEF RowKept
<1> QED
  BY <1>1, <1>2, <1>3 DEF RowFacts

LEMMA NewRowTypes ==
  ASSUME NEW routed \in BOOLEAN
  PROVE  LET row == O!NewRow(routed)
         IN  /\ row \in O!Row /\ ~row.published /\ ~row.retired /\ row.written /\ row.routed = routed
  BY DEF O!NewRow, O!NoRow, O!Row

LEMMA EnqueueKeeps ==
  ASSUME OutboxOK, NEW u \in Runs, NEW routed \in BOOLEAN, O!Enqueue(u, routed)
  PROVE  /\ OutboxKept
         /\ ~rows[u].written /\ rows'[u].written /\ rows'[u].routed = routed /\ ~rows'[u].retired
         /\ \A v \in Runs : v # u => rows'[v] = rows[v]
<1>1. PICK row \in O!Row :
        /\ row = O!NewRow(routed)
        /\ ~row.published /\ ~row.retired /\ row.written /\ row.routed = routed
  BY NewRowTypes
<1>2. ~rows[u].written /\ rows' = [rows EXCEPT ![u] = row]
  BY <1>1 DEF O!Enqueue
<1>3. OutboxKept
  BY <1>1, <1>2, RowWriteKeeps DEF O!Enqueue
<1>4. rows \in [Runs -> O!Row]
  BY OutboxTypes DEF OutboxOK
<1> QED
  BY <1>1, <1>2, <1>3, <1>4

LEMMA RowTimersKeep ==
  ASSUME OutboxOK, NEW u \in Runs, O!ReleaseAbandoned(u) \/ O!LeaseLapses(u) \/ O!BackoffElapses(u)
  PROVE  OutboxKept /\ stream' = stream /\ \A v \in Runs : RowKept(v)
<1>t. rows \in [Runs -> O!Row] /\ rows[u] \in O!Row
  BY OutboxTypes DEF OutboxOK
<1>1. UNCHANGED <<relays, stream, window, lastSeq, gone, undeliverable, faults>>
  BY DEF O!ReleaseAbandoned, O!LeaseLapses, O!BackoffElapses
<1>2. \E row \in O!Row :
        /\ rows' = [rows EXCEPT ![u] = row]
        /\ row.published = rows[u].published /\ row.seq = rows[u].seq
        /\ row.written = rows[u].written /\ row.routed = rows[u].routed
        /\ row.retired = rows[u].retired
  <2>1. CASE O!ReleaseAbandoned(u)
    <3> [rows[u] EXCEPT !.holder = NoRelay, !.lapsed = FALSE] \in O!Row
      BY <1>t DEF O!Row
    <3> WITNESS [rows[u] EXCEPT !.holder = NoRelay, !.lapsed = FALSE] \in O!Row
    <3> QED
      BY <1>t, <2>1 DEF O!ReleaseAbandoned, O!Row
  <2>2. CASE O!LeaseLapses(u)
    <3> [rows[u] EXCEPT !.lapsed = TRUE] \in O!Row
      BY <1>t DEF O!Row
    <3> WITNESS [rows[u] EXCEPT !.lapsed = TRUE] \in O!Row
    <3> QED
      BY <1>t, <2>2 DEF O!LeaseLapses, O!Row
  <2>3. CASE O!BackoffElapses(u)
    <3> [rows[u] EXCEPT !.due = TRUE] \in O!Row
      BY <1>t DEF O!Row
    <3> WITNESS [rows[u] EXCEPT !.due = TRUE] \in O!Row
    <3> QED
      BY <1>t, <2>3 DEF O!BackoffElapses, O!Row
  <2> QED
    BY <2>1, <2>2, <2>3
<1> QED
  BY <1>t, <1>1, <1>2, RowWriteKeeps DEF RowKept

LEMMA ScanRows == ASSUME IInv, NEW u \in Runs, Scan(u) PROVE RowFacts
<1>t. OutboxOK /\ RowsKnow /\ BegunStored /\ RetiredRunIsOver /\ (rows[u].published => Stored(u))
  BY InvParts, OutboxTypes DEF OutboxOK, IInv
<1>1. CASE ExpireRunning(u) \/ ExpirePending(u) \/ ListStale(u)
  <2>1. rows' = rows /\ OutboxKept
    BY <1>t, <1>1, FaultKeeps DEF ExpireRunning, ExpirePending, ListStale, outboxVars
  <2>2. ReadersKnow /\ result' = result
    <3>1. CASE ExpireRunning(u)
      <4>1. Stored(u) \/ ~rows[u].routed
        BY <1>t, <3>1 DEF ExpireRunning, R!ExpiredRead, BegunStored, Begun
      <4> QED
        BY <3>1, <4>1, ReaderOf DEF ExpireRunning, R!ExpiredRead
    <3>2. CASE ExpirePending(u)
      <4>1. Stored(u)
        BY <1>t, <3>2 DEF ExpirePending, R!StalePendingRead, RetiredRunIsOver, R!IsTerminal,
                          R!TerminalStates
      <4> QED
        BY <3>2, <4>1, ReaderOf DEF ExpirePending, R!StalePendingRead
    <3>3. CASE ListStale(u)
      BY <3>3 DEF ListStale, resultVars, ReadersKnow
    <3> QED
      BY <1>1, <3>1, <3>2, <3>3
  <2>3. \A v \in Runs : RowFate(v)
    BY <2>1, <2>2, QuietRows DEF RowKept
  <2> QED
    BY <2>1, <2>2, <2>3 DEF RowFacts
<1>2. CASE EnqueueMissing(u)
  <2>1. /\ result[u].status = "pending" /\ O!Enqueue(u, result[u].runner # NoRunner)
        /\ UNCHANGED resultVars
    BY <1>2 DEF EnqueueMissing
  <2>2. /\ OutboxKept
        /\ ~rows[u].written /\ rows'[u].written /\ rows'[u].routed = (result[u].runner # NoRunner)
        /\ ~rows'[u].retired
        /\ \A v \in Runs : v # u => rows'[v] = rows[v]
    BY <1>t, <2>1, EnqueueKeeps
  <2>3. ~rows'[u].routed
    BY <1>t, <2>1, <2>2 DEF RowsKnow
  <2>4. \A v \in Runs : RowFate(v)
    BY <2>1, <2>2, <2>3 DEF RowFate, resultVars
  <2>5. ReadersKnow
    BY <2>1 DEF ReadersKnow, resultVars
  <2> QED
    BY <2>2, <2>4, <2>5 DEF RowFacts
<1>3. CASE ReleaseAbandoned(u)
  <2>1. O!ReleaseAbandoned(u) /\ UNCHANGED resultVars
    BY <1>3 DEF ReleaseAbandoned
  <2>2. OutboxKept /\ \A v \in Runs : RowKept(v)
    BY <1>t, <2>1, RowTimersKeep
  <2>3. ReadersKnow /\ result' = result
    BY <2>1 DEF ReadersKnow, resultVars
  <2> QED
    BY <2>2, <2>3, QuietRows DEF RowFacts
<1> QED
  BY <1>1, <1>2, <1>3 DEF Scan

(* A run is created with its row, or with none and already over. *)
LEMMA CreateRows == ASSUME IInv, NEW u \in Runs, Create(u) PROVE RowFacts
<1>t. OutboxOK /\ RP!IInv /\ RowsKnow /\ result \in [Runs -> RP!Result]
  BY InvParts DEF IInv, RP!IInv, RP!TypeOK
<1>1. CASE \E runner \in Runners : R!CreatePlaced(u, runner, FALSE) /\ O!Enqueue(u, TRUE)
  <2>1. PICK runner \in Runners : R!CreatePlaced(u, runner, FALSE) /\ O!Enqueue(u, TRUE)
    BY <1>1
  <2>2. /\ OutboxKept
        /\ ~rows[u].written /\ rows'[u].written /\ ~rows'[u].retired
        /\ \A v \in Runs : v # u => rows'[v] = rows[v]
    BY <1>t, <2>1, EnqueueKeeps
  <2>3. /\ result[u].status = "absent" /\ result'[u].status = "pending"
        /\ handlers' = handlers /\ \A v \in Runs : v # u => result'[v] = result[v]
    BY <1>t, <2>1 DEF R!CreatePlaced, R!Pending, R!Absent
  <2>4. ~Begun(u)'
    <3>1. \A h \in handlers : h.run # u
      BY <1>t, <2>3, HandlersKnowRuns
    <3> QED
      BY <2>3, <3>1 DEF Begun
  <2>5. \A v \in Runs : RowFate(v)
    BY <2>2, <2>3, <2>4 DEF RowFate
  <2>6. ReadersKnow
    BY <2>3 DEF ReadersKnow
  <2> QED
    BY <2>2, <2>5, <2>6 DEF RowFacts
<1>2. CASE R!CreateUnplaced(u, FALSE) /\ UNCHANGED outboxVars
  <2>1. OutboxKept
    BY <1>t, <1>2, FaultKeeps DEF outboxVars
  <2>2. /\ result'[u].status = "errored"
        /\ handlers' = handlers /\ \A v \in Runs : v # u => result'[v] = result[v]
    BY <1>t, <1>2 DEF R!CreateUnplaced, R!FailRun, R!Pending, R!Absent
  <2>3. \A v \in Runs : RowFate(v)
    BY <1>2, <2>2 DEF RowFate, outboxVars
  <2>4. ReadersKnow
    BY <2>2 DEF ReadersKnow
  <2> QED
    BY <2>1, <2>3, <2>4 DEF RowFacts
<1> QED
  BY <1>1, <1>2 DEF Create

LEMMA TimerRows == ASSUME IInv, NEW u \in Runs, RunTimer(u) \/ RowTimer(u) PROVE RowFacts
<1>t. OutboxOK
  BY InvParts
<1>1. ReadersKnow /\ result' = result
  BY DEF RunTimer, RowTimer, R!LeaseLapses, R!PendingAges, resultVars, ReadersKnow
<1>2. OutboxKept /\ \A v \in Runs : RowKept(v)
  <2>1. CASE RunTimer(u)
    BY <1>t, <2>1, FaultKeeps DEF RunTimer, outboxVars, RowKept
  <2>2. CASE RowTimer(u)
    <3>1. O!LeaseLapses(u) \/ O!BackoffElapses(u)
      BY <2>2 DEF RowTimer
    <3> QED
      BY <1>t, <3>1, RowTimersKeep
  <2> QED
    BY <2>1, <2>2
<1> QED
  BY <1>1, <1>2, QuietRows DEF RowFacts

LEMMA RelayRows == ASSUME IInv, NEW r \in Relays, RelayStep(r) \/ Settle(r) PROVE RowFacts
<1>t. /\ OutboxOK /\ O!TypeOK /\ RelaysKnow
      /\ \A q \in Relays : relays[q].event # NoEvent => relays[q].event \in Runs
  BY InvParts DEF IInv, O!TypeOK, O!Relay
<1>1. ReadersKnow /\ result' = result
  <2>1. CASE RelayStep(r)
    BY <2>1 DEF RelayStep, resultVars, ReadersKnow
  <2>2. CASE Settle(r)
    <3>1. relays[r].event \in Runs /\ ~rows[relays[r].event].routed
      BY <1>t, <2>2 DEF Settle, O!Settle, O!InHand, RelaysKnow
    <3>2. UNCHANGED resultVars \/ \E op, w : R!Read(op, relays[r].event, w)
      BY <2>2 DEF Settle, R!StrandRead
    <3> QED
      BY <3>1, <3>2, ReaderOf
  <2> QED
    BY <2>1, <2>2
<1>2. OutboxKept /\ \A v \in Runs : RowKept(v)
  <2>1. CASE \/ O!MarkPublished(r) \/ O!MarkPublishedFails(r) \/ O!Settle(r) \/ O!SettleFails(r)
             \/ O!MarkFailed(r) \/ O!MarkFailedFails(r) \/ O!Crash(r)
    BY <1>t, <2>1, RecordChanges
  <2>2. ASSUME NEW u \in Runs, O!Claim(r, {u}) PROVE OutboxKept /\ \A v \in Runs : RowKept(v)
    BY <1>t, <2>2, ClaimChanges
  <2>3. ASSUME NEW u \in Runs,
               \/ O!PublishPermanent(r, u) \/ O!PublishAcked(r, u) \/ O!PublishUnacked(r, u)
               \/ O!PublishRefused(r, u)
        PROVE  OutboxKept /\ \A v \in Runs : RowKept(v)
    BY <1>t, <2>3, PublishChanges DEF RowKept
  <2> QED
    BY <2>1, <2>2, <2>3 DEF RelayStep, Settle
<1> QED
  BY <1>1, <1>2, QuietRows DEF RowFacts

LEMMA WorkerRows == ASSUME IInv, NEW w \in Workers, Worker(w) PROVE RowFacts
<1>t. OutboxOK /\ \A m \in stream : Stored(m.event)
  BY InvParts, OutboxTypes DEF OutboxOK
<1>1. ReadersKnow /\ result' = result
  BY WorkersAreResults DEF resultVars, ReadersKnow
<1>2. OutboxKept /\ rows' = rows
  <2>1. CASE WorkerCrashes(w) \/ StandingChanges(w) \/ \E u \in Runs : Deliver(w, u)
    BY <1>t, <2>1, FaultKeeps DEF WorkerCrashes, StandingChanges, Deliver, outboxVars
  <2>2. ASSUME NEW u \in Runs, DropDuplicate(w, u) PROVE OutboxKept /\ rows' = rows
    <3>1. Stored(u)
      BY <1>t, <2>2 DEF DropDuplicate, CanFetch, Queued
    <3> QED
      BY <1>t, <2>2, <3>1, AckKeeps DEF DropDuplicate
  <2> QED
    BY <2>1, <2>2 DEF Worker
<1> QED
  BY <1>1, <1>2, QuietRows DEF RowFacts, RowKept

(* What a handler's write, or its failure to write, does to the Results *)
LEMMA HandlerResults ==
  ASSUME RP!IInv, NEW h \in handlers, R!CommitClaim(h) \/ R!CommitOutcome(h) \/ R!Abandon(h)
  PROVE  /\ handlers' \subseteq handlers
         /\ \A u \in Runs : result[u].status = "absent" => result'[u] = result[u]
         /\ R!CommitOutcome(h) => h.run \in Runs /\ R!IsTerminal(result'[h.run])
         /\ R!CommitClaim(h) => Authorised(h.worker, h.run)'
<1>1. handlers' \subseteq handlers /\ (R!CommitClaim(h) => Authorised(h.worker, h.run)')
  <2>1. handlers' \subseteq handlers
    BY DEF R!CommitClaim, R!CommitOutcome, R!Abandon
  <2>2. ASSUME R!CommitClaim(h) PROVE Authorised(h.worker, h.run)'
    <3>1. [run |-> h.run, worker |-> h.worker, version |-> h.entry.version + 1] \in grants'
      BY <2>2 DEF R!CommitClaim, R!GrantOf
    <3> QED
      BY <3>1 DEF Authorised
  <2> QED
    BY <2>1, <2>2
<1>2. CASE R!CommitClaim(h)
  <2>1. RP!CommitClaim(h)
    BY <1>2, SameWrites
  <2>2. /\ result[h.run].status = "pending"
        /\ \A v \in Runs : v # h.run => result'[v] = result[v]
    BY <2>1, ResultsConstants, RP!ClaimEffect
  <2>3. ~R!CommitOutcome(h)
    BY <1>2 DEF R!CommitClaim, R!CommitOutcome
  <2> QED
    BY <1>1, <2>2, <2>3
<1>3. CASE R!CommitOutcome(h)
  <2>1. RP!CommitOutcome(h)
    BY <1>3, SameWrites
  <2>2. /\ h.run \in Runs /\ \A v \in Runs : v # h.run => result'[v] = result[v]
        /\ result[h.run].status # "absent"
        /\ result'[h.run].status \in {"errored", "timeout", "completed"}
    BY <2>1, ResultsConstants, RP!OutcomeStates, RP!OutcomeElsewhere
  <2> QED
    BY <1>1, <2>2 DEF R!IsTerminal, R!TerminalStates
<1>4. CASE R!Abandon(h) /\ ~R!CommitClaim(h) /\ ~R!CommitOutcome(h)
  BY <1>1, <1>4 DEF R!Abandon
<1> QED
  BY <1>2, <1>3, <1>4

LEMMA HandlerRows == ASSUME IInv, NEW h \in handlers, HandlerEnds(h) PROVE RowFacts
<1>t. /\ OutboxOK /\ RP!IInv /\ JobsKnow /\ jobs \subseteq Job
      /\ rows \in [Runs -> O!Row] /\ h.run \in Runs
  BY InvParts, OutboxTypes, HandlersKnowRuns DEF IInv, OutboxOK
<1>1. R!CommitClaim(h) \/ R!CommitOutcome(h) \/ R!Abandon(h)
  BY DEF HandlerEnds, ClaimCommits, ClaimLoses, StrandEnds, ReportEnds, ExpireEnds, HandlerDies
<1>2. ReadersKnow /\ \A u \in Runs : result[u].status = "absent" => result'[u] = result[u]
  BY <1>t, <1>1, HandlerResults DEF ReadersKnow
<1>3. CASE rows' = rows /\ OutboxKept
  BY <1>2, <1>3 DEF RowFacts, RowFate
<1>4. CASE ClaimCommits(h) \/ HandlerDies(h) \/ ReportEnds(h)
  <2>1. rows' = rows /\ OutboxKept
    BY <1>t, <1>4, FaultKeeps DEF ClaimCommits, HandlerDies, ReportEnds, outboxVars
  <2> QED
    BY <1>3, <2>1
<1>5. CASE ClaimLoses(h)
  <2>1. \/ UNCHANGED outboxVars
        \/ AckOrLost(h.run) /\ \E j \in jobs : j.run = h.run
    BY <1>5 DEF ClaimLoses
  <2>2. rows' = rows /\ OutboxKept
    BY <1>t, <2>1, FaultKeeps, AckKeeps DEF outboxVars, AckOrLost, JobsKnow
  <2> QED
    BY <1>3, <2>2
<1>6. CASE StrandEnds(h)
  <2>1. \/ UNCHANGED outboxVars
        \/ AckOrLost(h.run) /\ \E j \in jobs : j.run = h.run
    BY <1>6 DEF StrandEnds, Reported
  <2>2. rows' = rows /\ OutboxKept
    BY <1>t, <2>1, FaultKeeps, AckKeeps DEF outboxVars, AckOrLost, JobsKnow
  <2> QED
    BY <1>3, <2>2
<1>7. CASE ExpireEnds(h)
  <2>0. UNCHANGED <<relays, stream, window, lastSeq, gone, undeliverable, faults>>
    BY <1>7 DEF ExpireEnds
  <2>1. CASE rows' = rows
    <3>1. OutboxKept
      BY <1>t, <2>0, <2>1, FaultKeeps
    <3> QED
      BY <1>3, <2>1, <3>1
  <2>2. CASE R!CommitOutcome(h) /\ RetireUnpublished(h.run)
    <3>1. PICK row : row = [rows[h.run] EXCEPT !.retired =
                              @ \/ (rows[h.run].written /\ ~rows[h.run].published)]
      OBVIOUS
    <3>2. /\ row \in O!Row /\ rows' = [rows EXCEPT ![h.run] = row]
          /\ row.written = rows[h.run].written /\ row.routed = rows[h.run].routed
          /\ row.published = rows[h.run].published /\ row.seq = rows[h.run].seq
      BY <1>t, <2>2, <3>1 DEF RetireUnpublished, O!Row
    <3>3. OutboxKept
      BY <1>t, <2>0, <3>2, RowWriteKeeps
    <3>4. R!IsTerminal(result'[h.run])
      BY <1>t, <2>2, HandlerResults
    <3>5. rows'[h.run] = row /\ \A v \in Runs : v # h.run => rows'[v] = rows[v]
      BY <1>t, <3>2
    <3>6. \A v \in Runs : RowFate(v)
      BY <1>2, <3>2, <3>4, <3>5 DEF RowFate
    <3> QED
      BY <1>2, <3>3, <3>6 DEF RowFacts
  <2> QED
    BY <1>7, <2>1, <2>2 DEF ExpireEnds
<1> QED
  BY <1>4, <1>5, <1>6, <1>7 DEF HandlerEnds

LEMMA SweepRows == ASSUME IInv, NEW s \in sweeps, Sweep(s) \/ SweepFails(s) PROVE RowFacts
<1>t. /\ OutboxOK /\ rows \in [Runs -> O!Row] /\ s.run \in Runs /\ s.drop \in BOOLEAN
      /\ faults \in 0 .. MaxFaults
      /\ R!IsTerminal(result[s.run]) /\ (s.drop => Stored(s.run))
  BY InvParts, OutboxTypes DEF IInv, OutboxOK, JobTypes, SweepsKnow
<1>1. ReadersKnow /\ result' = result
  BY SweepsAreResults DEF resultVars, ReadersKnow
<1>2. CASE SweepFails(s)
  <2>1. rows' = rows /\ OutboxKept
    BY <1>t, <1>2, FaultKeeps DEF SweepFails
  <2> QED
    BY <1>1, <2>1, QuietRows DEF RowFacts, RowKept
<1>3. CASE Sweep(s)
  <2>1. PICK row : row = [rows[s.run] EXCEPT !.retired = TRUE, !.holder = NoRelay, !.lapsed = FALSE]
    OBVIOUS
  <2>2. /\ row \in O!Row /\ rows' = [rows EXCEPT ![s.run] = row]
        /\ row.written = rows[s.run].written /\ row.routed = rows[s.run].routed
        /\ row.published = rows[s.run].published /\ row.seq = rows[s.run].seq
    BY <1>t, <1>3, <2>1 DEF Sweep, O!Row
  <2>3. /\ rows' \in [Runs -> O!Row] /\ rows'[s.run] = row
        /\ \A v \in Runs : v # s.run => rows'[v] = rows[v]
    BY <1>t, <2>2
  <2>4. /\ \A u \in Runs : rows'[u].published => rows[u].published /\ rows'[u].seq = rows[u].seq
        /\ \A u \in Runs : rows[u].written => rows'[u].written /\ rows'[u].routed = rows[u].routed
    BY <2>2, <2>3
  <2>5. UNCHANGED <<relays, window, lastSeq, undeliverable, faults>>
    BY <1>3 DEF Sweep
  <2>6. \E off \in SUBSET Runs :
          /\ \A u \in off : Stored(u)
          /\ stream' = {m \in stream : m.event \notin off} /\ gone' = gone \cup off
    <3>1. CASE s.drop
      <4>1. /\ stream' = {m \in stream : m.event \notin {s.run}} /\ gone' = gone \cup {s.run}
            /\ {s.run} \in SUBSET Runs
        BY <1>t, <1>3, <3>1 DEF Sweep, Off
      <4> QED
        BY <1>t, <3>1, <4>1
    <3>2. CASE ~s.drop
      <4>1. /\ stream' = {m \in stream : m.event \notin {}} /\ gone' = gone \cup {}
            /\ {} \in SUBSET Runs
        BY <1>3, <3>2 DEF Sweep
      <4> QED
        BY <4>1
    <3> QED
      BY <3>1, <3>2
  <2>7. OutboxKept
    BY <1>t, <2>3, <2>4, <2>5, <2>6, TableChanges
  <2>8. \A u \in Runs : RowFate(u)
    BY <1>t, <1>1, <2>2, <2>3 DEF RowFate
  <2> QED
    BY <1>1, <2>7, <2>8 DEF RowFacts
<1> QED
  BY <1>2, <1>3

(* What rows, relays and handlers know of their runs survives the step. *)
LEMMA RowsStayKnown ==
  ASSUME IInv, [R!Next]_R!vars, RowFacts
  PROVE  OutboxOK' /\ PendingFresh' /\ RowsKnow' /\ BegunStored' /\ RetiredRunIsOver'
<1>t. /\ RP!IInv /\ RP!IInv' /\ OutboxKept /\ ReadersKnow /\ PendingFresh /\ RowsKnow /\ BegunStored
      /\ RetiredRunIsOver
  BY ResultsChange DEF IInv, RowFacts
<1>1. OutboxOK'
  BY <1>t DEF OutboxKept, OutboxOK
<1>s. \A u : Stored(u) => Stored(u)'
  BY <1>t DEF OutboxKept, Stored
<1>2. PendingFresh'
  <2>1. ASSUME NEW u \in Runs, result'[u].status = "pending" PROVE result'[u].version = 1
    <3>1. CASE result'[u] = result[u]
      BY <1>t, <2>1, <3>1 DEF PendingFresh
    <3>2. CASE result'[u] # result[u]
      <4>1. result[u].status = "absent"
        BY <1>t, <2>1, <3>2, ResultsChange
      <4>2. [RP!Next]_RP!vars
        BY SameSteps
      <4>3. \/ \E v \in Runs : RP!Create(v)
            \/ \E h \in handlers : RP!CommitClaim(h)
            \/ \E h \in handlers : RP!CommitOutcome(h)
        BY <1>t, <3>2, <4>2, ResultsConstants, RP!StepKinds
      <4>4. ASSUME NEW h \in handlers, RP!CommitClaim(h) \/ RP!CommitOutcome(h) PROVE FALSE
        BY <1>t, <2>1, <4>1, <4>4, ResultsConstants, RP!ClaimEffect, RP!OutcomeStates,
           RP!OutcomeElsewhere
      <4>5. PICK v \in Runs : RP!Create(v)
        BY <4>3, <4>4
      <4>6. v = u
        BY <1>t, <3>2, <4>5, ResultsConstants, RP!CreateEffect
      <4>7. result \in [Runs -> RP!Result]
        BY <1>t DEF RP!IInv, RP!TypeOK
      <4> QED
        BY <2>1, <4>5, <4>6, <4>7 DEF RP!Create, RP!CreatePlaced, RP!CreateUnplaced, RP!Pending,
           RP!Absent, RP!FailRun
    <3> QED
      BY <3>1, <3>2
  <2>2. ASSUME NEW h \in handlers', h.entry.status = "pending" PROVE h.entry.version = 1
    <3>1. h.run \in Runs
      BY <1>t, <2>2 DEF RP!IInv, RP!TypeOK, RP!Handler
    <3>2. h \in handlers \/ h.entry = result[h.run]
      BY <1>t, ResultsChange
    <3> QED
      BY <1>t, <2>2, <3>1, <3>2 DEF PendingFresh
  <2> QED
    BY <2>1, <2>2 DEF PendingFresh
<1>3. RowsKnow'
  <2> SUFFICES ASSUME NEW u \in Runs
               PROVE  /\ rows'[u].routed => rows'[u].written
                      /\ rows'[u].written => result'[u].status # "absent"
                      /\ result'[u].status = "pending" =>
                           rows'[u].written \/ result'[u].runner = NoRunner
    BY DEF RowsKnow
  <2>1. RowFate(u)
    BY DEF RowFacts
  <2>2. result[u].status # "absent" => result'[u].status # "absent"
    BY <1>t, OverStaysOver
  <2>3. result[u].status # "absent" /\ result'[u].status = "pending" => result'[u] = result[u]
    BY <1>t, OverStaysOver
  <2> QED
    BY <1>t, <2>1, <2>2, <2>3 DEF RowsKnow, RowFate
<1>4. BegunStored'
  <2> SUFFICES ASSUME NEW u \in Runs, Begun(u)', rows'[u].routed PROVE Stored(u)'
    BY DEF BegunStored
  <2>1. rows[u].written /\ rows[u].routed
    BY <1>t DEF RowFacts, RowFate, RowsKnow
  <2>2. result[u].status # "absent"
    BY <1>t, <2>1 DEF RowsKnow
  <2>3. CASE Begun(u)
    BY <1>t, <1>s, <2>1, <2>3 DEF BegunStored
  <2>4. CASE ~Begun(u)
    <3>1. result'[u].status \in {"absent", "pending"}
      BY <1>t, <2>2, <2>4, ResultsChange DEF Begun
    <3>2. PICK h \in handlers' : h.run = u
      BY <3>1 DEF Begun
    <3>3. h \notin handlers
      BY <2>4, <3>2 DEF Begun
    <3> QED
      BY <1>t, <1>s, <2>1, <3>2, <3>3 DEF ReadersKnow
  <2> QED
    BY <2>3, <2>4
<1>5. RetiredRunIsOver'
  BY <1>t, OverStaysOver DEF RetiredRunIsOver, RowFacts, RowFate
<1> QED
  BY <1>1, <1>2, <1>3, <1>4, <1>5

-----------------------------------------------------------------------------
(* What the parts of the system do to the jobs *)

(* The broker counts deliveries up. *)
DeliveryKept ==
  delivery' \in [Runs -> Delivery] /\ \A u \in Runs : delivery[u].count <= delivery'[u].count

(* A job goes on from one of the same process and run, and has the run only *)
(* if it had it or the process has just been authorised for it.             *)
GoesOn(k) ==
  \E j \in jobs :
    /\ j.worker = k.worker /\ j.run = k.run
    /\ k.stage \in Held => j.stage \in Held \/ Authorised(k.worker, k.run)'

(* A job is new: a message was there for it, for the run's own runner. *)
IsNew(k) ==
  Queued(k.run) /\ result[k.run].runner = RunnerOf[k.worker] /\ k.stage = "claiming"

JobsOK == delivery \in [Runs -> Delivery] /\ jobs \subseteq Job /\ Numbered /\ OneJob

JobFacts == JobsOK' /\ \A k \in jobs' : GoesOn(k) \/ IsNew(k)

LEMMA FewerJobs ==
  ASSUME JobsOK, DeliveryKept, jobs' \subseteq jobs
  PROVE  JobFacts
<1>1. JobsOK'
  <2>1. \A j \in jobs : j.attempt \in Nat /\ j.run \in Runs
    BY DEF JobsOK, Job
  <2>2. \A u \in Runs : delivery[u].count \in Nat /\ delivery'[u].count \in Nat
    BY DEF JobsOK, DeliveryKept, Delivery
  <2>3. Numbered'
    BY <2>1, <2>2 DEF JobsOK, DeliveryKept, Numbered
  <2> QED
    BY <2>3 DEF JobsOK, DeliveryKept, OneJob
<1> QED
  BY <1>1 DEF JobFacts, GoesOn

(* Jobs of a set move to another stage. *)
LEMMA JobsMove ==
  ASSUME JobsOK, DeliveryKept, NEW moving \in SUBSET jobs, NEW stage \in Stages,
         jobs' = (jobs \ moving) \cup {[j EXCEPT !.stage = stage] : j \in moving},
         stage \in Held => \A j \in moving : j.stage \in Held \/ Authorised(j.worker, j.run)'
  PROVE  JobFacts
<1>1. \A j \in jobs : j.attempt \in Nat /\ j.run \in Runs /\ j \in Job
  BY DEF JobsOK, Job
<1>2. \A u \in Runs : delivery[u].count \in Nat /\ delivery'[u].count \in Nat
  BY DEF JobsOK, DeliveryKept, Delivery
<1>3. ASSUME NEW k \in jobs'
      PROVE  \E j \in jobs :
               /\ k = IF j \in moving THEN [j EXCEPT !.stage = stage] ELSE j
               /\ k \in Job /\ k.worker = j.worker /\ k.run = j.run /\ k.attempt = j.attempt
               /\ k.stage \in Held => j.stage \in Held \/ Authorised(k.worker, k.run)'
  <2>1. CASE k \in jobs \ moving
    BY <1>1, <2>1
  <2>2. CASE k \notin jobs \ moving
    <3>1. PICK j \in moving : k = [j EXCEPT !.stage = stage]
      BY <1>3, <2>2
    <3>2. j \in jobs /\ j \in Job
      BY <1>1, <3>1
    <3>3. /\ k \in Job /\ k.worker = j.worker /\ k.run = j.run /\ k.attempt = j.attempt
          /\ k.stage = stage
      BY <3>1, <3>2 DEF Job
    <3> QED
      BY <3>1, <3>2, <3>3
  <2> QED
    BY <2>1, <2>2
<1>4. jobs' \subseteq Job /\ \A k \in jobs' : GoesOn(k)
  BY <1>3 DEF GoesOn
<1>5. Numbered'
  <2>1. \A k \in jobs' : k.attempt <= delivery'[k.run].count
    BY <1>1, <1>2, <1>3 DEF Numbered, JobsOK, DeliveryKept
  <2>2. \A k, l \in jobs' : k.run = l.run /\ k.attempt = l.attempt => k = l
    BY <1>3 DEF Numbered, JobsOK
  <2> QED
    BY <2>1, <2>2 DEF Numbered
<1>6. OneJob'
  BY <1>3 DEF OneJob, JobsOK
<1> QED
  BY <1>4, <1>5, <1>6 DEF JobFacts, JobsOK, DeliveryKept

LEMMA AdvanceMoves ==
  ASSUME JobsOK, DeliveryKept, NEW j \in jobs, NEW stage \in Stages, Advance(j, stage),
         stage \in Held => j.stage \in Held \/ Authorised(j.worker, j.run)'
  PROVE  JobFacts
<1>1. /\ jobs' = (jobs \ {j}) \cup {[i EXCEPT !.stage = stage] : i \in {j}}
      /\ {j} \in SUBSET jobs
  BY DEF Advance
<1>2. stage \in Held => \A i \in {j} : i.stage \in Held \/ Authorised(i.worker, i.run)'
  OBVIOUS
<1> QED
  BY <1>1, <1>2, JobsMove

LEMMA DeliveriesKept ==
  ASSUME JobsOK, NEW u \in Runs,
         \/ delivery' = delivery
         \/ Nak(u)
         \/ \E state \in {"ready", "spent"} : delivery' = [delivery EXCEPT ![u].state = state]
         \/ delivery' = Fetched(u)
  PROVE  /\ DeliveryKept
         /\ delivery' = Fetched(u) => delivery'[u].count = delivery[u].count + 1
<1>1. delivery \in [Runs -> Delivery] /\ \A v \in Runs : delivery[v] \in Delivery
  BY DEF JobsOK
<1>2. CASE delivery' = Fetched(u)
  BY <1>1, <1>2 DEF Fetched, Delivery, DeliveryKept
<1>3. CASE delivery' # Fetched(u)
  BY <1>1, <1>3 DEF Nak, Delivery, DeliveryKept
<1> QED
  BY <1>2, <1>3

(* What is listed for a sweep is over, and stored if it is to be dropped. *)
OtherFacts ==
  /\ standing' \in [Workers -> Standing]
  /\ refusals' \subseteq Runs
  /\ sweeps' \subseteq [run : Runs, drop : BOOLEAN]
  /\ \A s \in sweeps' :
       s \in sweeps \/ (R!IsTerminal(result[s.run]) /\ (s.drop => Stored(s.run)))

LEMMA JobParts ==
  ASSUME IInv
  PROVE  /\ JobsOK /\ JobTypes /\ JobsKnow
         /\ UNCHANGED <<standing, refusals, sweeps>> => OtherFacts
         /\ UNCHANGED <<standing, sweeps>> /\ refusals' \subseteq Runs => OtherFacts
  BY DEF IInv, JobsOK, JobTypes, OtherFacts

LEMMA HandshakeJobs == ASSUME IInv, NEW j \in jobs, Handshake(j) PROVE JobFacts /\ OtherFacts
<1>t. /\ JobsOK /\ JobsKnow /\ j \in Job /\ j.run \in Runs /\ j.worker \in Workers
  BY JobParts DEF JobsOK, Job
<1>s. /\ \A stage \in Stages : stage \in {"waiting", "refused", "reporting", "claiming"} => stage \notin Held
      /\ {"waiting", "refused", "reporting", "accepted", "executing", "finishing"} \subseteq Stages
      /\ {"accepted", "executing"} \subseteq Held
  BY DEF Stages, Held
<1>1. OtherFacts
  <2>1. UNCHANGED <<standing, sweeps>> /\ (refusals' = refusals \/ refusals' = refusals \cup {j.run})
    BY DEF Handshake, SendClaim, Reclaim, DiscardStale, Refused, GiveUp, AbandonClaim, Execute,
           ReportRefusal, TerminateUnreported, ReportUnreachable, Finish, ReportLost
  <2>2. refusals' \subseteq Runs
    BY <1>t, <2>1, JobParts DEF JobTypes
  <2> QED
    BY <2>1, <2>2, JobParts
<1>2. DeliveryKept
  <2>1. delivery' = delivery \/ Nak(j.run)
    BY DEF Handshake, SendClaim, Reclaim, DiscardStale, Refused, GiveUp, AbandonClaim, Execute,
           ReportRefusal, TerminateUnreported, ReportUnreachable, Finish, ReportLost, AckOrLost,
           confirmAck
  <2> QED
    BY <1>t, <2>1, DeliveriesKept
<1>3. JobFacts
  <2>1. CASE jobs' \subseteq jobs
    BY <1>t, <1>2, <2>1, FewerJobs
  <2>2. ASSUME NEW stage \in {"waiting", "refused", "reporting"}, Advance(j, stage) PROVE JobFacts
    BY <1>t, <1>s, <1>2, <2>2, AdvanceMoves
  <2>3. CASE Reclaim(j)
    <3>1. [run |-> j.run, worker |-> j.worker, version |-> result[j.run].version] \in grants'
      BY <2>3 DEF Reclaim, R!Reclaim, R!GrantOf
    <3>2. Authorised(j.worker, j.run)'
      BY <3>1 DEF Authorised
    <3> QED
      BY <1>t, <1>s, <1>2, <2>3, <3>2, AdvanceMoves DEF Reclaim
  <2>4. CASE Execute(j)
    BY <1>t, <1>s, <1>2, <2>4, AdvanceMoves DEF Execute, At
  <2>5. CASE Finish(j)
    <3>1. j.stage \in Held /\ "finishing" \in Stages
      BY <1>s, <2>5 DEF Finish, At
    <3>2. jobs' \subseteq jobs \/ Advance(j, "finishing")
      BY <2>5 DEF Finish, Done
    <3> QED
      BY <1>t, <1>2, <2>1, <3>1, <3>2, AdvanceMoves
  <2>6. CASE SendClaim(j) \/ Refused(j) \/ ReportRefusal(j)
    BY <2>1, <2>2, <2>6 DEF SendClaim, Refused, ReportRefusal, Done
  <2>7. CASE \/ DiscardStale(j) \/ GiveUp(j) \/ AbandonClaim(j) \/ TerminateUnreported(j)
             \/ ReportUnreachable(j) \/ ReportLost(j)
    BY <2>1, <2>7 DEF DiscardStale, GiveUp, AbandonClaim, TerminateUnreported, ReportUnreachable,
                      ReportLost, Done
  <2> QED
    BY <2>3, <2>4, <2>5, <2>6, <2>7 DEF Handshake
<1> QED
  BY <1>1, <1>3

(* A delivery that nobody of the process works on becomes its only job. *)
LEMMA DeliverJobs ==
  ASSUME JobsOK, NEW w \in Workers, NEW u \in Runs, Deliver(w, u)
  PROVE  JobFacts
<1>1. PICK n : n = [worker |-> w, run |-> u, attempt |-> delivery[u].count + 1, stage |-> "claiming"]
  OBVIOUS
<1>2. /\ jobs' = jobs \cup {n} /\ delivery' = Fetched(u)
      /\ \A j \in jobs : ~(j.worker = w /\ j.run = u)
      /\ Queued(u) /\ result[u].runner = RunnerOf[w]
  BY <1>1 DEF Deliver, InFlight, CanFetch
<1>3. DeliveryKept /\ delivery'[u].count = delivery[u].count + 1
  BY <1>2, DeliveriesKept
<1>4. \A v \in Runs : delivery[v].count \in Nat /\ delivery'[v].count \in Nat
  BY <1>3 DEF JobsOK, DeliveryKept, Delivery
<1>5. /\ n \in Job /\ n.worker = w /\ n.run = u /\ n.attempt = delivery[u].count + 1
      /\ n.stage = "claiming"
  BY <1>1, <1>4 DEF Job, Stages
<1>6. \A j \in jobs : j \in Job /\ j.attempt \in Nat /\ j.run \in Runs /\ j.attempt <= delivery[j.run].count
  BY DEF JobsOK, Job, Numbered
<1>7. Numbered'
  <2>1. \A j \in jobs' : j.attempt <= delivery'[j.run].count
    BY <1>2, <1>3, <1>4, <1>5, <1>6 DEF DeliveryKept
  <2>2. \A j \in jobs : j.run = u => j.attempt # n.attempt
    BY <1>4, <1>5, <1>6
  <2>3. \A j, k \in jobs' : j.run = k.run /\ j.attempt = k.attempt => j = k
    BY <1>2, <1>5, <2>2 DEF JobsOK, Numbered
  <2> QED
    BY <2>1, <2>3 DEF Numbered
<1>8. OneJob'
  BY <1>2, <1>5 DEF JobsOK, OneJob
<1>9. JobsOK'
  BY <1>2, <1>3, <1>5, <1>7, <1>8 DEF JobsOK, DeliveryKept
<1>10. \A k \in jobs' : GoesOn(k) \/ IsNew(k)
  BY <1>2, <1>5 DEF GoesOn, IsNew
<1> QED
  BY <1>9, <1>10 DEF JobFacts

LEMMA WorkerJobs == ASSUME IInv, NEW w \in Workers, Worker(w) PROVE JobFacts /\ OtherFacts
<1>t. JobsOK /\ JobTypes
  BY JobParts
<1>k. UNCHANGED delivery => DeliveryKept
  BY <1>t DEF JobsOK, DeliveryKept, Delivery
<1>1. CASE WorkerCrashes(w)
  BY <1>t, <1>k, <1>1, FewerJobs, JobParts DEF WorkerCrashes
<1>2. CASE StandingChanges(w)
  <2>1. UNCHANGED <<delivery, jobs, refusals, sweeps>>
    BY <1>2 DEF StandingChanges
  <2>2. standing' \in [Workers -> Standing]
    BY <1>t, <1>2 DEF StandingChanges, JobTypes, Standing
  <2> QED
    BY <1>t, <1>k, <2>1, <2>2, FewerJobs DEF OtherFacts, JobTypes
<1>3. ASSUME NEW u \in Runs, Deliver(w, u) PROVE JobFacts /\ OtherFacts
  BY <1>t, <1>3, DeliverJobs, JobParts DEF Deliver
<1>4. ASSUME NEW u \in Runs, DropDuplicate(w, u) PROVE JobFacts /\ OtherFacts
  <2>1. delivery' = Fetched(u) /\ UNCHANGED <<jobs, standing, refusals, sweeps>>
    BY <1>4 DEF DropDuplicate
  <2>2. DeliveryKept
    BY <1>t, <2>1, DeliveriesKept
  <2> QED
    BY <1>t, <2>1, <2>2, FewerJobs, JobParts
<1> QED
  BY <1>1, <1>2, <1>3, <1>4 DEF Worker

LEMMA BrokerJobs == ASSUME IInv, NEW u \in Runs, Broker(u) PROVE JobFacts /\ OtherFacts
<1>t. JobsOK
  BY JobParts
<1>1. UNCHANGED <<jobs, standing, refusals, sweeps>>
  BY DEF Broker, AgesOut, AckWaitPasses, MaxDeliveryRecorded, MaxDeliveryMissed
<1>2. \/ delivery' = delivery
      \/ \E state \in {"ready", "spent"} : delivery' = [delivery EXCEPT ![u].state = state]
  BY DEF Broker, AgesOut, AckWaitPasses, MaxDeliveryRecorded, MaxDeliveryMissed
<1>3. DeliveryKept
  BY <1>t, <1>2, DeliveriesKept
<1> QED
  BY <1>t, <1>1, <1>3, FewerJobs, JobParts

LEMMA HandlerJobs == ASSUME IInv, NEW h \in handlers, HandlerEnds(h) PROVE JobFacts /\ OtherFacts
<1>t. JobsOK /\ JobTypes /\ RP!IInv /\ h.run \in Runs
  BY JobParts, HandlersKnowRuns DEF IInv
<1>1. UNCHANGED delivery
  BY DEF HandlerEnds, ClaimCommits, ClaimLoses, StrandEnds, Reported, ReportEnds, ExpireEnds,
         HandlerDies, AckOrLost
<1>2. DeliveryKept
  BY <1>t, <1>1 DEF JobsOK, DeliveryKept, Delivery
<1>3. OtherFacts
  <2>1. UNCHANGED <<standing, sweeps>> /\ (refusals' = refusals \/ refusals' = refusals \cup {h.run})
    BY DEF HandlerEnds, ClaimCommits, ClaimLoses, StrandEnds, Reported, ReportEnds, ExpireEnds,
           HandlerDies
  <2>2. refusals' \subseteq Runs
    BY <1>t, <2>1 DEF JobTypes
  <2> QED
    BY <2>1, <2>2, JobParts
<1>4. CASE ClaimCommits(h) /\ Answered(h, "accepted")
  <2> DEFINE moving == {j \in jobs : j.worker = h.worker /\ j.run = h.run /\ j.stage = "waiting"}
  <2>1. jobs' = (jobs \ moving) \cup {[j EXCEPT !.stage = "accepted"] : j \in moving}
    BY <1>4 DEF Answered
  <2>2. Authorised(h.worker, h.run)'
    BY <1>t, <1>4, HandlerResults DEF ClaimCommits
  <2>3. moving \in SUBSET jobs /\ "accepted" \in Stages
    BY DEF Stages
  <2>4. \A j \in moving : Authorised(j.worker, j.run)'
    BY <2>2
  <2> HIDE DEF moving
  <2> QED
    BY <1>t, <1>2, <1>3, <2>1, <2>3, <2>4, JobsMove
<1>5. CASE ~(ClaimCommits(h) /\ Answered(h, "accepted"))
  <2>1. jobs' \subseteq jobs
    BY <1>5 DEF HandlerEnds, ClaimCommits, ClaimLoses, StrandEnds, Reported, Done, ReportEnds,
                ExpireEnds, HandlerDies
  <2> QED
    BY <1>t, <1>2, <1>3, <2>1, FewerJobs
<1> QED
  BY <1>4, <1>5

LEMMA ScanJobs == ASSUME IInv, NEW u \in Runs, Scan(u) PROVE JobFacts /\ OtherFacts
<1>t. JobsOK /\ JobTypes /\ (rows[u].published => Stored(u)) /\ rows[u].published \in BOOLEAN
      /\ rows[u] \in O!Row /\ RP!IInv
  BY JobParts, InvParts, OutboxTypes DEF OutboxOK, IInv, O!Row
<1>1. UNCHANGED <<delivery, jobs, standing, refusals>>
  BY DEF Scan, ExpireRunning, ExpirePending, EnqueueMissing, ListStale, ReleaseAbandoned
<1>2. JobFacts
  BY <1>t, <1>1, FewerJobs DEF JobsOK, DeliveryKept, Delivery
<1>3. CASE ListStale(u)
  <2>1. PICK n : n = [run |-> u, drop |-> rows[u].published /\ rows[u].seq # 0
                                          /\ ~result[u].dispatched]
    OBVIOUS
  <2>2. sweeps' = sweeps \cup {n} /\ R!IsTerminal(result[u])
    BY <1>3, <2>1 DEF ListStale
  <2>3. n \in [run : Runs, drop : BOOLEAN] /\ n.run = u /\ (n.drop => rows[u].published)
    BY <2>1
  <2> QED
    BY <1>t, <1>1, <1>2, <2>2, <2>3 DEF OtherFacts, JobTypes
<1>4. CASE ~ListStale(u)
  <2>1. UNCHANGED sweeps
    BY <1>4 DEF Scan, ExpireRunning, ExpirePending, EnqueueMissing, ReleaseAbandoned
  <2> QED
    BY <1>1, <1>2, <2>1, JobParts
<1> QED
  BY <1>3, <1>4

LEMMA OtherJobs ==
  ASSUME IInv,
         \/ \E u \in Runs : Create(u) \/ RunTimer(u) \/ RowTimer(u)
         \/ \E r \in Relays : RelayStep(r) \/ Settle(r)
         \/ \E s \in sweeps : Sweep(s) \/ SweepFails(s)
  PROVE  JobFacts /\ OtherFacts
<1>t. JobsOK /\ JobTypes
  BY JobParts
<1>1. UNCHANGED <<delivery, jobs, standing, refusals>> /\ sweeps' \subseteq sweeps
  BY DEF Create, RunTimer, RowTimer, RelayStep, Settle, Sweep, SweepFails
<1>2. JobFacts
  BY <1>t, <1>1, FewerJobs DEF JobsOK, DeliveryKept, Delivery
<1> QED
  BY <1>t, <1>1, <1>2 DEF OtherFacts, JobTypes

(* What workers and sweeps know of their runs survives the step. *)
LEMMA JobsStayKnown ==
  ASSUME IInv, [R!Next]_R!vars, OutboxKept, JobFacts, OtherFacts
  PROVE  JobTypes' /\ Numbered' /\ OneJob' /\ JobsKnow' /\ SweepsKnow'
<1>t. RP!IInv /\ OutboxOK /\ JobsKnow /\ SweepsKnow /\ JobTypes
  BY InvParts DEF IInv
<1>1. JobTypes' /\ Numbered' /\ OneJob'
  BY DEF JobFacts, JobsOK, OtherFacts, JobTypes
<1>s. \A u : Stored(u) => Stored(u)'
  BY DEF OutboxKept, Stored
<1>a. \A w, u : Authorised(w, u) => Authorised(w, u)'
  BY <1>t, ResultsChange DEF Authorised
<1>2. ASSUME NEW k \in jobs'
      PROVE  /\ Stored(k.run)'
             /\ result'[k.run].status # "absent"
             /\ result'[k.run].status = "pending" => result'[k.run].runner = RunnerOf[k.worker]
             /\ k.stage \in Held => Authorised(k.worker, k.run)'
  <2>1. k.run \in Runs /\ k.worker \in Workers
    BY <1>1 DEF JobTypes, Job
  <2>2. /\ result[k.run].status # "absent" => result'[k.run].status # "absent"
        /\ result[k.run].status # "absent" /\ result'[k.run].status = "pending" =>
             result'[k.run] = result[k.run]
    BY <1>t, <2>1, OverStaysOver
  <2>3. CASE GoesOn(k)
    <3>1. PICK j \in jobs :
            /\ j.worker = k.worker /\ j.run = k.run
            /\ k.stage \in Held => j.stage \in Held \/ Authorised(k.worker, k.run)'
      BY <2>3 DEF GoesOn
    <3>2. /\ Stored(k.run) /\ result[k.run].status # "absent"
          /\ result[k.run].status = "pending" => result[k.run].runner = RunnerOf[k.worker]
          /\ j.stage \in Held => Authorised(k.worker, k.run)
      BY <1>t, <3>1 DEF JobsKnow
    <3> QED
      BY <1>s, <1>a, <2>2, <3>1, <3>2
  <2>4. CASE IsNew(k)
    <3>1. Stored(k.run)
      BY <1>t, <2>4, OutboxTypes DEF IsNew, Queued, OutboxOK
    <3>2. result[k.run].runner = RunnerOf[k.worker] /\ k.stage \notin Held
      BY <2>4 DEF IsNew, Held
    <3>3. result[k.run].status # "absent"
      BY <1>t, <2>1, <3>2, DispatchAssumption DEF RP!IInv, RP!UnclaimedRuns
    <3> QED
      BY <1>s, <2>2, <3>1, <3>2, <3>3
  <2> QED
    BY <2>3, <2>4 DEF JobFacts
<1>3. JobsKnow'
  BY <1>2 DEF JobsKnow
<1>4. SweepsKnow'
  <2> SUFFICES ASSUME NEW s \in sweeps'
               PROVE  R!IsTerminal(result'[s.run]) /\ (s.drop => Stored(s.run)')
    BY DEF SweepsKnow, R!IsTerminal, R!TerminalStates
  <2>1. s.run \in Runs
    BY <1>1 DEF JobTypes
  <2>2. R!IsTerminal(result[s.run]) /\ (s.drop => Stored(s.run))
    BY <1>t DEF OtherFacts, SweepsKnow
  <2> QED
    BY <1>t, <1>s, <2>1, <2>2, OverStaysOver
<1> QED
  BY <1>1, <1>3, <1>4

-----------------------------------------------------------------------------
(* The invariant *)

LEMMA StepFacts ==
  ASSUME IInv, Next
  PROVE  RowFacts /\ JobFacts /\ OtherFacts
<1>1. ASSUME NEW u \in Runs, Create(u) \/ RunTimer(u) \/ RowTimer(u)
      PROVE  RowFacts /\ JobFacts /\ OtherFacts
  BY <1>1, CreateRows, TimerRows, OtherJobs
<1>2. ASSUME NEW u \in Runs, Broker(u) PROVE RowFacts /\ JobFacts /\ OtherFacts
  BY <1>2, BrokerRows, BrokerJobs
<1>3. ASSUME NEW u \in Runs, Scan(u) PROVE RowFacts /\ JobFacts /\ OtherFacts
  BY <1>3, ScanRows, ScanJobs
<1>4. ASSUME NEW r \in Relays, RelayStep(r) \/ Settle(r) PROVE RowFacts /\ JobFacts /\ OtherFacts
  BY <1>4, RelayRows, OtherJobs
<1>5. ASSUME NEW w \in Workers, Worker(w) PROVE RowFacts /\ JobFacts /\ OtherFacts
  BY <1>5, WorkerRows, WorkerJobs
<1>6. ASSUME NEW j \in jobs, Handshake(j) PROVE RowFacts /\ JobFacts /\ OtherFacts
  BY <1>6, HandshakeRows, HandshakeJobs
<1>7. ASSUME NEW h \in handlers, HandlerEnds(h) PROVE RowFacts /\ JobFacts /\ OtherFacts
  BY <1>7, HandlerRows, HandlerJobs
<1>8. ASSUME NEW s \in sweeps, Sweep(s) \/ SweepFails(s) PROVE RowFacts /\ JobFacts /\ OtherFacts
  BY <1>8, SweepRows, OtherJobs
<1> QED
  BY <1>1, <1>2, <1>3, <1>4, <1>5, <1>6, <1>7, <1>8 DEF Next

LEMMA StutterFacts ==
  ASSUME IInv, UNCHANGED vars
  PROVE  RowFacts /\ JobFacts /\ OtherFacts
<1>t. OutboxOK /\ JobsOK
  BY InvParts, JobParts
<1>1. OutboxKept
  BY <1>t, FaultKeeps DEF vars, outboxVars
<1>2. ReadersKnow /\ \A u \in Runs : RowFate(u)
  BY QuietRows DEF vars, outboxVars, resultVars, ReadersKnow, RowKept
<1>3. JobFacts
  BY <1>t, FewerJobs DEF vars, JobsOK, DeliveryKept, Delivery
<1>4. OtherFacts
  BY JobParts DEF vars
<1> QED
  BY <1>1, <1>2, <1>3, <1>4 DEF RowFacts

LEMMA NextKeeps == IInv /\ [Next]_vars => IInv'
<1> SUFFICES ASSUME IInv, [Next]_vars PROVE IInv'
  OBVIOUS
<1>1. [R!Next]_R!vars
  BY InvParts, ResultsStep
<1>2. RowFacts /\ JobFacts /\ OtherFacts
  BY StepFacts, StutterFacts
<1>3. RP!IInv'
  BY <1>1, ResultsChange DEF IInv
<1>4. OutboxOK' /\ PendingFresh' /\ RowsKnow' /\ BegunStored' /\ RetiredRunIsOver'
  BY <1>1, <1>2, RowsStayKnown
<1>5. JobTypes' /\ Numbered' /\ OneJob' /\ JobsKnow' /\ SweepsKnow'
  BY <1>1, <1>2, JobsStayKnown DEF RowFacts
<1> QED
  BY <1>3, <1>4, <1>5 DEF IInv, OutboxOK

LEMMA InitKeeps == Init => IInv
<1> SUFFICES ASSUME Init PROVE IInv
  OBVIOUS
<1>1. RP!IInv
  <2>1. RP!Init
    BY DEF Init, R!Init, RP!Init, R!Absent, RP!Absent, R!Pending, RP!Pending
  <2> QED
    BY <2>1, ResultsConstants, RP!InitIInv
<1>2. OP!IInv
  <2>1. OP!Init
    BY DEF Init, O!Init, OP!Init, O!NoRow, OP!NoRow, O!Idle, OP!Idle
  <2> QED
    BY <2>1, OutboxConstants, OP!InitIInv
<1>3. /\ \A u \in Runs : ~rows[u].written /\ ~rows[u].routed /\ ~rows[u].retired
      /\ \A r \in Relays : relays[r].batch = {} /\ relays[r].event = NoEvent
  BY DEF Init, O!Init, O!NoRow, O!Idle
<1>4. /\ handlers = {} /\ window = {}
      /\ \A u \in Runs : \/ result[u].status = "absent"
                         \/ /\ result[u].status = "pending" /\ result[u].version = 1
                            /\ result[u].runner = NoRunner
  <2>1. /\ R!Absent.status = "absent"
        /\ R!Pending(NoRunner, FALSE, FALSE).status = "pending"
        /\ R!Pending(NoRunner, FALSE, FALSE).version = 1
        /\ R!Pending(NoRunner, FALSE, FALSE).runner = NoRunner
    BY DEF R!Absent, R!Pending
  <2>2. \A u \in Runs : result[u] \in {R!Absent, R!Pending(NoRunner, FALSE, FALSE)}
    BY DEF Init, R!Init
  <2>3. handlers = {} /\ window = {}
    BY DEF Init, R!Init, O!Init
  <2> QED
    BY <2>1, <2>2, <2>3
<1>5. JobTypes /\ Numbered /\ OneJob /\ JobsKnow /\ SweepsKnow
  BY DEF Init, JobTypes, Numbered, OneJob, JobsKnow, SweepsKnow, Delivery, Standing
<1>6. WindowLive /\ PendingFresh /\ RowsKnow /\ RelaysKnow /\ BegunStored /\ RetiredRunIsOver
  BY <1>3, <1>4 DEF WindowLive, PendingFresh, RowsKnow, RelaysKnow, BegunStored, RetiredRunIsOver,
     Begun, O!InHand
<1> QED
  BY <1>1, <1>2, <1>5, <1>6 DEF IInv

LEMMA IInvHolds == Spec => []IInv
  BY InitKeeps, NextKeeps, PTL DEF Spec

-----------------------------------------------------------------------------
(* Theorems *)

(* createWithDispatch, ClaimRun, UpdateStatus, ExpireRun and strandRun, as   *)
(* relays, workers, the broker and the reconciler call them, are the         *)
(* handlers of Results and nothing else writes a Result: what is proved of   *)
(* Results holds of the whole system.                                        *)
THEOREM ImplementsResults == Spec => R!Spec
<1>1. Init => R!Init
  BY DEF Init
<1>2. IInv /\ [Next]_vars => [R!Next]_R!vars
  BY InvParts, ResultsStep
<1> QED
  BY <1>1, <1>2, IInvHolds, PTL DEF Spec, R!Spec

(* Seen from outside, the whole system moves a run through the lifecycle     *)
(* that its status promises: created once, started by at most one worker,    *)
(* ended once.                                                               *)
THEOREM FollowsLifecycle == Spec => RP!ImplementsLifecycle
<1>1. Init => RP!Init
  BY DEF Init, R!Init, RP!Init, R!Absent, RP!Absent, R!Pending, RP!Pending
<1>2. IInv /\ [Next]_vars => [RP!Next]_RP!vars
  BY InvParts, ResultsStep, SameSteps
<1>3. Spec => RP!Spec
  BY <1>1, <1>2, IInvHolds, PTL DEF Spec, RP!Spec
<1>4. RP!Spec => RP!ImplementsLifecycle
  BY ResultsConstants, RP!RefinesLifecycle
<1> QED
  BY <1>3, <1>4, PTL

(* Rows, relays, Results, deliveries, jobs and sweeps keep their types, and  *)
(* no two handle() calls have the same delivery of a message.                *)
THEOREM TypeCorrect == Spec => []TypeOK
<1>1. ASSUME IInv PROVE TypeOK
  <2>1. R!TypeOK
    <3>1. RP!TypeOK
      BY <1>1 DEF IInv, RP!IInv
    <3>2. R!Result = RP!Result
      BY DEF R!Result, RP!Result, R!JobStatus, RP!JobStatus, R!TerminalStates, RP!TerminalStates
    <3>3. R!Handler = RP!Handler /\ R!Grant = RP!Grant
      BY <3>2 DEF R!Handler, RP!Handler, R!Ops, RP!Ops, R!Grant, RP!Grant
    <3> QED
      BY <3>1, <3>2, <3>3 DEF R!TypeOK, RP!TypeOK
  <2>2. O!TypeOK
    BY <1>1, InvParts
  <2> QED
    BY <1>1, <2>1, <2>2 DEF TypeOK, IInv, JobTypes, Numbered
<1> QED
  BY <1>1, IInvHolds, PTL

(* A probe never runs twice at the same time and only where its run says,    *)
(* whatever the broker redelivers, claims are retried and acknowledgements   *)
(* are lost: handle() executes only after a claim that was authorised, one   *)
(* worker is ever authorised for a run, and inFlightRuns keeps that worker   *)
(* to one handle() call for it.                                              *)
THEOREM ExecutesOnce == Spec => []OneExecution
<1>1. ASSUME IInv PROVE OneExecution
  <2>t. RP!IInv /\ JobsKnow /\ OneJob /\ RP!OneExecutor /\ RP!GrantsKnow
    BY <1>1 DEF IInv, RP!IInv
  <2>1. ASSUME NEW j \in jobs, At(j, {"executing"})
        PROVE  /\ result[j.run].worker = j.worker
               /\ result[j.run].status \in {"running", "timeout", "completed"}
    <3>1. Authorised(j.worker, j.run)
      BY <2>t, <2>1 DEF JobsKnow, At, Held
    <3>2. PICK g \in grants : g.run = j.run /\ g.worker = j.worker
      BY <3>1 DEF Authorised
    <3> QED
      BY <2>t, <3>2 DEF RP!GrantsKnow
  <2>2. ASSUME NEW j \in jobs, NEW k \in jobs, At(j, {"executing"}), At(k, {"executing"}),
               j.run = k.run
        PROVE  j = k
    <3>1. j.worker = k.worker
      BY <2>1, <2>2
    <3> QED
      BY <2>t, <2>2, <3>1 DEF OneJob
  <2> QED
    BY <2>1, <2>2 DEF OneExecution
<1> QED
  BY <1>1, IInvHolds, PTL

(* ExpireRun and the stale-dispatch sweep retire a dispatch only with its    *)
(* run over: an expiry that loses its version guard leaves the row alone,    *)
(* and what a scan has listed as over cannot come back to life.              *)
THEOREM RetiredRunsAreOver == Spec => []RetiredRunIsOver
<1>1. IInv => RetiredRunIsOver
  BY DEF IInv
<1> QED
  BY <1>1, IInvHolds, PTL

-----------------------------------------------------------------------------
(* Only a relay's publication puts a message on the queue. *)
LEMMA QueueSources ==
  ASSUME IInv, [Next]_vars, NEW u, ~Queued(u), Queued(u)'
  PROVE  \E r \in Relays, v \in Runs : O!PublishAcked(r, v) \/ O!PublishUnacked(r, v)
<1>1. ~(stream' \subseteq stream)
  BY DEF Queued
<1>2. ASSUME NEW v, Off(v) \/ AckOrLost(v) PROVE stream' \subseteq stream
  BY <1>2 DEF Off, AckOrLost
<1>3. ASSUME NEW v \in Runs, Create(v) \/ Scan(v) \/ RunTimer(v) \/ RowTimer(v)
      PROVE  stream' = stream
  BY <1>3 DEF Create, Scan, ExpireRunning, ExpirePending, EnqueueMissing, ListStale,
     ReleaseAbandoned, RunTimer, RowTimer, outboxVars, O!Enqueue, O!ReleaseAbandoned, O!LeaseLapses,
     O!BackoffElapses
<1>4. ASSUME NEW v \in Runs, Broker(v) PROVE stream' \subseteq stream
  BY <1>2, <1>4 DEF Broker, AgesOut, AckWaitPasses, MaxDeliveryRecorded, MaxDeliveryMissed, outboxVars
<1>5. ASSUME NEW w \in Workers, Worker(w) PROVE stream' \subseteq stream
  BY <1>2, <1>5 DEF Worker, WorkerCrashes, StandingChanges, Deliver, DropDuplicate, outboxVars
<1>6. ASSUME NEW j \in jobs, Handshake(j) PROVE stream' \subseteq stream
  BY <1>2, <1>6 DEF Handshake, SendClaim, Reclaim, DiscardStale, Refused, GiveUp, AbandonClaim,
     Execute, confirmAck, ReportRefusal, TerminateUnreported, ReportUnreachable, Finish, ReportLost,
     outboxVars
<1>7. ASSUME NEW h \in handlers, HandlerEnds(h) PROVE stream' \subseteq stream
  BY <1>2, <1>7 DEF HandlerEnds, ClaimCommits, ClaimLoses, StrandEnds, Reported, ReportEnds,
     ExpireEnds, HandlerDies, outboxVars
<1>8. ASSUME NEW s \in sweeps, Sweep(s) \/ SweepFails(s) PROVE stream' \subseteq stream
  BY <1>2, <1>8 DEF Sweep, SweepFails
<1>9. ASSUME NEW r \in Relays, RelayStep(r) \/ Settle(r)
      PROVE  \/ stream' = stream
             \/ \E v \in Runs : O!PublishAcked(r, v) \/ O!PublishUnacked(r, v)
  BY <1>9 DEF RelayStep, Settle, O!Claim, O!PublishPermanent, O!PublishRefused, O!MarkPublished,
     O!MarkPublishedFails, O!Settle, O!SettleFails, O!MarkFailed, O!MarkFailedFails, O!Crash
<1>10. Next
  BY <1>1 DEF vars, outboxVars
<1> QED
  BY <1>1, <1>3, <1>4, <1>5, <1>6, <1>7, <1>8, <1>9, <1>10 DEF Next

(* publish() may find its entry's run over, because the reconciler, a        *)
(* dead-letter report or a worker ended it while the relay held the row.     *)
(* Whoever got at the run had it from its message, so the broker has stored  *)
(* that already and recognises this one.                                     *)
THEOREM NoFinishedRunIsDispatched == Spec => NoDispatchOfFinishedRun
<1>1. ASSUME IInv, [Next]_vars, NEW u \in Runs, R!IsTerminal(result[u]), ~Queued(u), Queued(u)'
      PROVE  FALSE
  <2>t. OutboxOK /\ BegunStored
    BY <1>1, InvParts DEF IInv
  <2>1. PICK r \in Relays, v \in Runs : O!PublishAcked(r, v) \/ O!PublishUnacked(r, v)
    BY <1>1, QueueSources
  <2>2. /\ rows[v].routed
        /\ \/ stream' = stream
           \/ ~Stored(v) /\ stream' = stream \cup {[event |-> v, seq |-> lastSeq + 1]}
    BY <2>t, <2>1, PublishChanges DEF O!PublishAcked, O!PublishUnacked
  <2>3. ~Stored(v) /\ stream' = stream \cup {[event |-> v, seq |-> lastSeq + 1]}
    BY <1>1, <2>2 DEF Queued
  <2>4. u = v
    BY <1>1, <2>3 DEF Queued
  <2>5. Begun(u)
    BY <1>1 DEF Begun, R!IsTerminal, R!TerminalStates
  <2> QED
    BY <2>t, <2>2, <2>3, <2>4, <2>5 DEF BegunStored
<1>2. IInv /\ [Next]_vars =>
        [\A u \in Runs : R!IsTerminal(result[u]) /\ ~Queued(u) => ~Queued(u)']_vars
  BY <1>1
<1> QED
  BY <1>2, IInvHolds, PTL DEF Spec, NoDispatchOfFinishedRun

-----------------------------------------------------------------------------
(* A worker takes a message off the queue for a reason. *)
LEMMA HandshakeTakes ==
  ASSUME IInv, NEW j \in jobs, Handshake(j), NEW u \in Runs, Queued(u), ~Queued(u)'
  PROVE  result'[u].status # "pending" \/ (j.run = u /\ TerminateUnreported(j))
<1>t. RP!IInv /\ JobsKnow /\ PendingFresh /\ j \in Job /\ j.run \in Runs /\ j.worker \in Workers
  BY InvParts DEF IInv, Job
<1>q. stream' # stream
  BY DEF Queued
<1>1. ASSUME AckOrLost(j.run) PROVE j.run = u
  BY <1>1 DEF AckOrLost, Off, Queued
<1>2. CASE DiscardStale(j)
  <2>1. j.run = u /\ result' = result /\ Obsolete(u, j.worker)
    BY <1>1, <1>2 DEF DiscardStale, resultVars
  <2>2. result[u].status = "pending" => R!ClaimAdmitted(result[u], j.worker)
    BY <1>t, <2>1 DEF R!ClaimAdmitted, JobsKnow, PendingFresh
  <2> QED
    BY <2>1, <2>2 DEF Obsolete
<1>3. CASE Execute(j)
  <2>1. j.run = u /\ result' = result /\ j.stage \in Held
    BY <1>1, <1>3 DEF Execute, confirmAck, resultVars, At, Held
  <2>2. PICK g \in grants : g.run = u /\ g.worker = j.worker
    BY <1>t, <2>1 DEF JobsKnow, Authorised
  <2> QED
    BY <1>t, <2>1, <2>2 DEF RP!IInv, RP!GrantsKnow
<1>4. CASE TerminateUnreported(j)
  BY <1>1, <1>4 DEF TerminateUnreported
<1>5. CASE ReportRefusal(j)
  <2>1. /\ result[j.run].status # "pending" /\ result' = result /\ AckOrLost(j.run)
    BY <1>q, <1>5 DEF ReportRefusal, resultVars, outboxVars
  <2> QED
    BY <1>1, <2>1
<1>6. CASE \/ SendClaim(j) \/ Reclaim(j) \/ Refused(j) \/ GiveUp(j) \/ AbandonClaim(j)
           \/ ReportUnreachable(j) \/ Finish(j) \/ ReportLost(j)
  BY <1>q, <1>6 DEF SendClaim, Reclaim, Refused, GiveUp, AbandonClaim, ReportUnreachable, Finish,
                    ReportLost, outboxVars
<1> QED
  BY <1>2, <1>3, <1>4, <1>5, <1>6 DEF Handshake

LEMMA HandlerTakes ==
  ASSUME IInv, NEW h \in handlers, HandlerEnds(h), NEW u \in Runs, Queued(u), ~Queued(u)'
  PROVE  result'[u].status # "pending"
<1>t. RP!IInv /\ PendingFresh /\ h.run \in Runs /\ RP!Knows(h)
  BY HandlersKnowRuns DEF IInv, RP!IInv, RP!HandlersKnow
<1>q. stream' # stream
  BY DEF Queued
<1>1. ASSUME AckOrLost(h.run) PROVE h.run = u
  BY <1>1 DEF AckOrLost, Off, Queued
<1>2. ASSUME h.op \in {"claim", "strand"}, ~R!Guarded(h), R!Abandon(h), AckOrLost(h.run)
      PROVE  result'[u].status # "pending"
  <2>1. h.entry.status = "pending"
    BY <1>t, <1>2 DEF RP!Knows
  <2> QED
    BY <1>t, <1>1, <1>2, <2>1, HandlersKnowRuns DEF R!Abandon
<1>3. CASE ClaimLoses(h)
  <2>1. AckOrLost(h.run)
    BY <1>q, <1>3 DEF ClaimLoses, outboxVars
  <2> QED
    BY <1>2, <1>3, <2>1 DEF ClaimLoses
<1>4. CASE StrandEnds(h)
  <2>1. AckOrLost(h.run)
    BY <1>q, <1>4 DEF StrandEnds, Reported, outboxVars
  <2>2. ASSUME R!CommitOutcome(h) PROVE result'[h.run].status # "pending"
    BY <1>t, <2>2, HandlerResults DEF R!IsTerminal, R!TerminalStates
  <2> QED
    BY <1>1, <1>2, <1>4, <2>1, <2>2 DEF StrandEnds
<1>5. CASE ClaimCommits(h) \/ ReportEnds(h) \/ ExpireEnds(h) \/ HandlerDies(h)
  BY <1>q, <1>5 DEF ClaimCommits, ReportEnds, ExpireEnds, HandlerDies, outboxVars
<1> QED
  BY <1>3, <1>4, <1>5 DEF HandlerEnds

(* applyDisposition takes the message of a pending run off the queue only    *)
(* when MaxJobAge, a copy in the hands of the process already at work, or a  *)
(* refusal that could not be reported does; a claim that was lost, failed,   *)
(* abandoned or overtaken leaves it.                                         *)
THEOREM PendingRunsKeepMessages == Spec => PendingOutlivesClaims
<1>1. ASSUME IInv, [Next]_vars, NEW u \in Runs, Queued(u), ~Queued(u)'
      PROVE  \/ result'[u].status # "pending"
             \/ AgesOut(u)
             \/ \E w \in Workers : DropDuplicate(w, u)
             \/ \E j \in jobs : j.run = u /\ TerminateUnreported(j)
  <2>t. SweepsKnow /\ OutboxOK
    BY <1>1, InvParts DEF IInv
  <2>q. ~(stream \subseteq stream')
    BY <1>1 DEF Queued
  <2>o. \A v : Off(v) => v = u
    BY <1>1 DEF Off, Queued
  <2>1. ASSUME NEW v \in Runs, Create(v) \/ Scan(v) \/ RunTimer(v) \/ RowTimer(v) PROVE FALSE
    BY <2>q, <2>1 DEF Create, Scan, ExpireRunning, ExpirePending, EnqueueMissing, ListStale,
       ReleaseAbandoned, RunTimer, RowTimer, outboxVars, O!Enqueue, O!ReleaseAbandoned,
       O!LeaseLapses, O!BackoffElapses
  <2>2. ASSUME NEW v \in Runs, Broker(v) PROVE AgesOut(u)
    BY <2>q, <2>o, <2>2 DEF Broker, AgesOut, AckWaitPasses, MaxDeliveryRecorded, MaxDeliveryMissed,
       outboxVars
  <2>3. ASSUME NEW w \in Workers, Worker(w) PROVE DropDuplicate(w, u)
    BY <2>q, <2>o, <2>3 DEF Worker, WorkerCrashes, StandingChanges, Deliver, DropDuplicate,
       outboxVars
  <2>4. ASSUME NEW j \in jobs, Handshake(j)
        PROVE  result'[u].status # "pending" \/ (j.run = u /\ TerminateUnreported(j))
    BY <1>1, <2>4, HandshakeTakes
  <2>5. ASSUME NEW h \in handlers, HandlerEnds(h) PROVE result'[u].status # "pending"
    BY <1>1, <2>5, HandlerTakes
  <2>6. ASSUME NEW s \in sweeps, Sweep(s) \/ SweepFails(s) PROVE result'[u].status # "pending"
    <3>1. s.run = u /\ result' = result
      BY <2>q, <2>o, <2>6 DEF Sweep, SweepFails, resultVars
    <3> QED
      BY <2>t, <3>1 DEF SweepsKnow, R!IsTerminal, R!TerminalStates
  <2>7. ASSUME NEW r \in Relays, RelayStep(r) \/ Settle(r) PROVE FALSE
    <3>1. stream \subseteq stream'
      <4>1. ASSUME NEW v \in Runs,
                   \/ O!PublishPermanent(r, v) \/ O!PublishAcked(r, v) \/ O!PublishUnacked(r, v)
                   \/ O!PublishRefused(r, v)
            PROVE  stream \subseteq stream'
        BY <2>t, <4>1, PublishChanges
      <4> QED
        BY <2>7, <4>1 DEF RelayStep, Settle, O!Claim, O!MarkPublished, O!MarkPublishedFails,
           O!Settle, O!SettleFails, O!MarkFailed, O!MarkFailedFails, O!Crash
    <3> QED
      BY <2>q, <3>1
  <2>8. Next
    BY <1>1, <2>q DEF vars, outboxVars
  <2> QED
    BY <2>1, <2>2, <2>3, <2>4, <2>5, <2>6, <2>7, <2>8 DEF Next
<1>2. IInv /\ [Next]_vars =>
        [\A u \in Runs :
           Queued(u) /\ ~Queued(u)' =>
             \/ result'[u].status # "pending"
             \/ AgesOut(u)
             \/ \E w \in Workers : DropDuplicate(w, u)
             \/ \E j \in jobs : j.run = u /\ TerminateUnreported(j)]_vars
  BY <1>1
<1> QED
  BY <1>2, IInvHolds, PTL DEF Spec, PendingOutlivesClaims
=============================================================================
