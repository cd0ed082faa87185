# Urth: a TLA+ model of how runs are dispatched

Urth runs synthetic-monitoring probes. An operator (or a schedule) asks the API
server for a *run* of a scenario; a *worker* process belonging to a *runner*
executes it and reports the outcome. Between the two lie a database, a
transactional outbox, a NATS JetStream work queue, a claim over HTTP and a
reconciler that repairs whatever was lost on the way. Around that path are the
choice of a runner, the workers' registration and presence, the control loops
of the server's replicas, the log of a run, live and stored, and the scripts of
requests that a probe sends. This directory
models them, checks the models with TLC and proves their central invariants
with TLAPS.

Paths below are relative to `src/`.

## 1. The system

### 1.1 Parts, their state and their operations

| Part | Code | State | Operations |
|---|---|---|---|
| Run lifecycle | `pkg/urth/service.go`, `claim.go`, `execution.go`, `types.go` | `Result` rows: status, version, executor, dispatch, deadline | `Create`, `ClaimRun`, `Auth` (deprecated), `UpdateStatus`, `markUnschedulable` |
| Outbox and relay | `pkg/urth/outbox*.go`, `pkg/natsq/publisher.go` | `DispatchOutboxEntry` rows; a relay's batch | enqueue (in the creating transaction), `Claim`, publish, `MarkPublished`, `MarkFailed`, settle as undeliverable |
| Job stream | `pkg/natsq/assets.go`, `envelope.go`, `scheduler.go` | messages, duplicate window, deliveries of a runner's consumer | store, deliver, ack, nak, term, age out, MaxDeliver advisory |
| Worker | `pkg/worker/consume.go`, `ack.go`, `inflight.go`, `report.go`, `execute.go` | `handle` calls in progress, the in-flight set | fetch, claim, acknowledge, execute, report, file a dead letter |
| Dead letters | `pkg/urth/dispatch_failure*.go`, `dispatch_advisory.go`, `undeliverable.go` | `DispatchFailure` rows and the runs they strand | file, `Retry`, `Resolve` |
| Reconciler | `pkg/urth/reconcile*.go` | scan lease; what a scan has listed | release abandoned rows, expire runs, re-enqueue, retire stale dispatches, runner channels, evict silent workers |
| Scan lease and control loops | `reconcile_store.go`, `pkg/controllers` | the `ReconcileLease` row; one goroutine and back-off per loop | take, create, release, expire; register, start, restart, stop |
| Registration, sessions | `service.go` (`admitWorker`, `AuthWorker`, `SetPaused`), `worker_session.go`, `pkg/worker/worker.go` | `WorkerInstance` rows; a worker's session | register, renew, pause, resume, drop |
| Presence | `presence*.go`, `pkg/natsq/presence.go`, `pkg/worker/worker.go` | two liveness stamps and a farewell on the `WorkerInstance` row; a worker's announcer | heartbeat, announce, leave, evict; the presence shown |
| Placement | `placement.go`, `placement_store.go`, `labels.go`, `service.go` | a request's counts and ranking | choose a runner for a run's requirements, preview |
| Scenarios and runners | `service.go` | versioned rows | create, apply, update, update the script, delete |
| Live logs and artifacts | `pkg/runner/log.go`, `pkg/natsq/logstream.go`, `pkg/apiserver/runlogs.go`, `service.go` | a worker's log sink, a bounded buffer per viewer, `Artifact` rows | log, publish, capture, upload, tail, serve, delete |
| Request scripts and the rest prober | `pkg/http-parser`, `pkg/probers/rest` | the request being read, variables, requests | read a line, finish a request, write a script out; send, record, export |

The remaining packages (the HTTP layer and client, other probers, metrics,
command line, two web consoles, the asynq prototype) keep no protocol state;
`PROJECT.json` lists each with the reason it is left out.

### 1.2 How the parts interact

`Create` commits the `Result` and its outbox row in one transaction. A relay
leases the row, publishes it and marks it. The consumer of the chosen runner
hands the message to one of that runner's workers, which claims the run by a
call of the API, acknowledges the message and executes. When it cannot claim,
it leaves the message for redelivery, discards it, or files a dead letter that
fails the run. The reconciler, in any number of replicas, looks at runs and rows
from the side and ends or re-enqueues what no longer moves. All of them write
the same `Result` row, and only one mechanism orders them: an update that names
the version it was computed from.

### 1.3 What is hard about it

* every handler is a read followed by a guarded write, with any other handler
  in between;
* leases (of outbox rows, runs, scans, sessions) lapse under a process that is
  slow rather than dead;
* messages and acknowledgements are lost, duplicated and late, and the broker
  only suppresses duplicates within a window;
* the in-flight set, the claim and the acknowledgement must together stop one
  probe from running twice, although each of them fails on its own;
* two transactions have two halves that must commit together: a run with its
  dispatch, a dead-letter record with the failure of its run;
* something must end every run even when all workers are gone;
* an edit checks the version it was made against and then saves the whole row,
  unguarded, over whatever was stored meanwhile;
* a runner is chosen from counts that are old when the run is stored;
* a worker is heard on two paths, late and out of order with its own farewell;
* a live log is on a subject that nothing stores, so its viewers depend on the
  moment they subscribe and on the artifact that replaces it;
* a script is read in one pass by a parser whose request ends in four ways, and
  what one request leaves behind is sent with the next.

`PROJECT.json` ("hazards") lists each of these at its line, with the properties
that would catch it.

## 2. The modules

`RunLifecycle` is the abstract specification: a run is created pending or
already failed, is started by at most one worker, and ends once.

`Results` is the `Result` table and every handler that writes it. A handler past
its read is an element of `handlers` that carries the entry as read; `CommitClaim`
and `CommitOutcome` are its guarded write and `Abandon` its end without one. It
implements `RunLifecycle` (the status and the executor's worker are the mapping).

`Outbox` is the table, the relays and the stream. A relay works through its
batch entry by entry; each entry is published and its outcome recorded in
separate steps, between which a lease may lapse, another relay may take the row
over, and the process may die.

`Dispatch` composes `Results` and `Outbox` (both by `INSTANCE`, sharing their
variables) with the consumer, the worker's handshake, worker standing and the
reconciler's passes. A step of `Dispatch` is a step of a component together with
what the same code does in the others: `createWithDispatch` is
`R!CreatePlaced /\ O!Enqueue`, for instance.

`DeadLetter` is the `DispatchFailure` table with the requests that file, retry
and resolve. It moves runs through the actions of `RunLifecycle`, which is
enough because what it asks of a run is whether it is still pending. Whether the
handlers keep to that lifecycle, `strandRunTx` (`StrandRead` with its guarded
write) included, is a question to `Results`, where it is checked and proved
(`ImplementsLifecycle`); `DeadLetter` asks what becomes of the record.

`Fleet` is the worker records of one runner: admission and re-registration, the
two liveness stamps and the farewell, the announcer with the record it was built
for, the presence they are shown as (`WorkerPresenceAt`), pausing, dropping and
eviction. A request or scan past its read is an element of `calls`. Three kinds
of write meet here and the module keeps them apart: the guarded update of a
registration (`Current`, `Updates`), the unguarded save of a pause (`Save`), and
the stamps, which leave the version alone. `Results` and `Dispatch` take from it
only how the API answers a session.

`ControlLoops` is the server's replicas: each has a `Manager` that starts,
restarts and stops its loops, and one loop is the reconciler with its scan
lease, its passes in order and the runner queues it restores. What the other
passes repair is in `Dispatch` and `Fleet`.

`Placement` is `Create` of a run query by query (snapshot, eligible runners,
counts of workers, counts of runs, ranking and draw, transaction), beside
clients that edit, apply and delete the scenario and the runners, workers that
come and go, and runs that end. `Results` takes the chosen runner as given.

`RunLogs` is the log of one run: the worker's sink, the subject, the artifact
made of it and posted beside the final status, and viewers that tail the subject
or read the artifact.

`HttpScript` is the parser of `.http` scripts, one operator per line handler of
`requestParser` over a record with the parser's fields, then the rest prober that
sends what was read, and `Marshal`, which writes it out. Beside them stands a
second definition of what a script says (`Opens`, `HeadLines`, `BodyLines`,
`TextOf`, `NameLines`, `AsWritten`), by which lines lie between which, that
knows no parser state; `SendsAsWritten` compares the two.

`MCResults`, `MCOutbox`, `MCDispatch`, `MCDeadLetter`, `MCControlLoops`,
`MCPlacement` and `MCHttpScript` only give constants their values; `Fleet` and `RunLogs` are run as
they are. `ResultsProofs`, `OutboxProofs`, `DispatchProofs`, `DeadLetterProofs`,
`FleetProofs`, `ControlLoopsProofs`, `PlacementProofs` and `RunLogsProofs` hold
the theorems.

### 2.1 Correspondence of state

| Variable | In the code |
|---|---|
| `result[u]` | a `Result` row; `version` is `ObjectMeta.Version`, `runner` and `worker` the `ExecutorRef`, `dispatched` whether `Status.DispatchID` is set, `leased` whether `Status.Deadline` is |
| `handlers` | API calls and reconciler steps between `Get` and `Update` |
| `grants` | every `AuthJobResponse` issued (history) |
| `lapsed`, `aged` | the deadline with its grace, and the pending timeout, have passed |
| `rows[e]` | a `DispatchOutboxEntry`; times are flags (`due`, `lapsed`) |
| `relays[r]` | a relay's batch and the entry in hand |
| `stream`, `window`, `lastSeq`, `gone` | the JetStream stream, its duplicate window, and what has left it |
| `delivery[u]` | the consumer's state for the message of a run: redelivery state and count |
| `jobs` | `handle` calls, by worker, run and delivery; also the in-flight set, which is held for the length of `handle` |
| `standing[w]` | how the API answers the worker's session: good, paused, expired |
| `sweeps` | stale dispatches a scan has listed and not dealt with |
| `failures[k]` | a `DispatchFailure` row, named by dispatch and reason |
| `records[u]` | a `WorkerInstance` row; `api` and `nats` are `LastSeenTime` and `NATSLastSeenTime`, as never set, within `offlineAfter`, older, or older than the retention; `left` is `LeftAt`, as unset, not before either stamp, or before one |
| `procs[n]` | the worker process registered under a name: the record its session names and whether that is within its TTL, the record its announcer names, and whether it has said goodbye |
| `calls` | registrations, pauses and evictions between their read and their write |
| `torn` | records a pause has saved over a write it had not seen (history) |
| `phase[p]`, `loops[p][l]` | a server process, and a loop under its `Manager` with its next back-off |
| `scan[p]`, `lease` | `RunOnce` of that process's reconciler, and the `ReconcileLease` row |
| `active`, `queues` | runners with `is_active`, and those whose consumer exists |
| `rows[x]` (`Placement`) | a stored scenario or runner with its version and specification |
| `workers[w]`, `runs[u]` (`Placement`) | what the capacity queries count |
| `reqs[c]` | a client's open form, or the request it has sent with what that has read so far |
| `raced` | some save has overwritten a write it had not seen (history) |
| `job`, `worker`, `log` | the run's status and runner; where its worker is in `Play` and `report`; `runLogSink` |
| `wire`, `captured`, `stored` | published and undelivered lines; `ToArtifact`'s result; the `Artifact` row |
| `viewers[v]` | the request of a viewer: asked, tailing with its buffer, served |
| `script`, `parser` | the lines read so far, and `requestParser`; `alphabet` is what the script may be written with |
| `sent`, `status`, `artifact` | what `RunHTTPRequests` has given to the client, its outcome and the HAR recording |
| `retryOf`, `answered` | the retry label of a run, and the retries answered without a new run |

A run has one dispatch: its event UID is made of the run's UID and the version
it was created with, and every write to a pending run ends its being pending.
`Dispatch` therefore names rows and messages by their run.

The store's `Update` skips zero-valued fields (gorm's `Updates`); in
`DeadLetter` this is `Saved`, and it is why a concurrent write of an unset
field cannot clear one that is set.

### 2.2 Abstractions

Time is a set of steps that may happen at any moment once they make sense: a
lease lapses, AckWait passes, a run comes of age. Where the code relates two
durations the model keeps the relation and nothing else: `RunTimer` lets a
pending run come of age only when its message is not queued, because the pending
timeout exceeds `MaxJobAge`; the flag `Timely` says whether a live worker
finishes its handshake within AckWait, which is what `handshakeBudget` is for; in
`Fleet` no request takes as long as `offlineAfter`, and the retention (a day)
passes only for a record that neither path has been heard of on, whose sessions
(an hour) have expired and whose requests and scans have ended. Reports and
announcements may be recorded late, after the farewell or the end of the process
that sent them. In `ControlLoops` a lease may expire under a scan that goes on:
nothing in the code bounds a scan by its lease.

`Dispatch` differs from its components in two points. The duplicate window does
not pass there (`WindowPasses` is `Outbox`'s), and requests in progress are a
set, so a claim of a worker that meets its own given-up first claim of the same
run is one request with it and not a second; what that first claim may still do
to the run is `Results`', where retried claims are apart. In `Placement` a
guarded write of a script stores the copy whole, where `Updates` skips its zero
fields: that is the same but on a row two saves have torn, which every property
it matters to exempts (`raced`). `PreviewAgrees` begins after `Create`'s checks of
the scenario: a scenario that is inactive or has no script has a preview, and a
run of it is refused.

Snapshots are a flag (is there one) except in `Placement`, where a run keeps the
revision it was made from; labels are what selectors tell apart; detail texts are
left out. `Fleet` has one active runner whose requirements every worker meets.
`RunLogs` knows a line by its place in the log and by how it was written.

`HttpScript` knows a line by its shape (what the parser's predicates tell apart),
the variable it refers to and where its target goes; its text is its number, so a
part of a request says which lines it came from, and expanding a reference
appends the declaration's text. Escapes, letter case, trailing comments and the
kinds of errors are left out. A line that is not wholly a reference does not
begin with one, so expansion does not change its shape. A line of a body is
written out in the shape it was read in.

## 3. Runs

| Run | Question | Instance |
|---|---|---|
| `results_races` | can handlers that race authorise two workers, strand a started run, rewrite history or move a placed run? | 2 runs (one without a snapshot), 3 workers on 2 runners, one using `Auth`, 3 handlers in flight |
| `outbox_relays` | can relays that crash and take over lose a dispatch, double it, or record the wrong sequence; does every row settle? | 2 relays, 2 rows (one with no runner), batches of 2, 1 fault |
| `dispatch_handshake` | can a probe run twice at once, or without its claim; can a live run's dispatch be retired, or a finished run be published; does a pending run keep its message when a claim gives up; does every run end, one stored before placement existed included? | 1 run, 2 workers that may crash, one of which may lose its session and renew it, 1 relay, 2 deliveries, 1 fault, fairness |
| `deadletter_records` | can a failure be retried twice, a record contradict its run, or an answer to `Retry` or `Resolve` be wrong when it is given? | 3 runs, 2 reasons, 2 clients |
| `fleet_workers` | by how much can racing admissions exceed the limit; can a registration lift or bring back a pause; is a worker that re-registered evicted; does a farewell hold, and does it hold down a worker that is back? | 2 workers on a runner for one, 2 calls in flight |
| `control_loops` | can two scans run side by side within their leases; is a scan that failed counted as a success; do loops and queues come back? | 2 processes, 1 runner, back-off 1 to 2, 2 faults, fairness |
| `placement_runs` | can edits lose one another or bring a deleted row back; does a version name one content; do runs spread, from counts that are old; is the draw fair; does a preview agree with `Create`? | 2 clients, 2 runners, 3 workers, 2 runs, 2 events |
| `run_logs` | does a tail have gaps, repeats or strays; has the served log what was shown; is a viewer that keeps asking served? | 2 viewers, 2 runners, a buffer of 1, 3 lines, of which 2 may be late, 1 fault, fairness |
| `http_scripts` | does every request go out with its own lines and no others, after any sequence of lines; does what is written out read back the same? | every script of up to 5 lines over each of 5 alphabets of 7 or 8 lines |

Three further runs (`dispatch_duplicate`, `fleet_announcer`, `run_logs_redacted`)
show a disagreement between the code and what it says of itself; see section 5.

The type invariants of all modules but `HttpScript` are theorems. Those of
`Dispatch` and `Placement` say more than types (no two calls of one delivery; a
run waits only for a runner it has) and are checked by their runs too, that of
`Outbox` as a part of `Dispatch`'s.

### 3.1 Bounds

* `MaxHandlers` = 3 in `Results`: a claim, a rival claim and an expiry (or
  stranding) all hold the same read. A fourth reader adds no new pair of reader
  and writer, and the theorems hold for any number.
* Two relays and one fault in `Outbox`: a takeover needs a second relay, and
  every property there is about one fault at one point of the publication with
  whatever the other relay does at the same time.
* `MaxDeliver` = 2 and `Concurrency` = 2 in `Dispatch`: one delivery in
  progress and a redelivery, which meets it in the same process or goes to the
  other worker. One fault is a lost answer, acknowledgement, report or advisory,
  a crash or a failed transaction. A third delivery, a second fault and more
  workers are beyond an instance that is also checked for liveness; the safety
  properties are theorems for any number of each. `dispatch_duplicate` allows
  three deliveries.
* Three runs in `DeadLetter`: one that fails and two, so that two retries can
  both be about to create theirs.
* Two workers, a limit of one and two calls in `Fleet`: the limit can then be
  exceeded by one, which is as far as the bound allows. Only the worker in
  `Watched` does more than ask to be admitted: every other property is about the
  calls that meet at one record. Two records let it be dropped and admitted
  anew, `MaxVersion` = 3 lets a record be written twice after it is created.
* Two processes and two faults in `ControlLoops`: a takeover needs a second
  process, and the longest story is a scan that panics with the lease held whose
  release then fails. `MaxBackoff` is twice `MinBackoff`, so that a wait doubles
  once and then stays. Only the reconciler's loop is hosted: the others are one
  step each and never meet.
* `Placement`: an edit that races another needs two clients, a choice two
  runners, a draw a runner with two workers, and an old count a second run. Two
  events of `MaxEvents` are an edit and a worker that goes, between the steps of
  one `Create`. `MaxVersion` = 3 is two edits of one row.
* A buffer of one line and three lines in `RunLogs`: a tail can be one behind,
  miss a line and receive the next; one fault is a line lost, a stray, a failed
  upload or a deletion. `MaxProbed` = 1 leaves room after the last line of the
  probe for two late ones, or for one if the probe logged before. Only the runner
  in `Executors` can have the run; the other publishes strays.
* Five lines in `HttpScript` are a request with its body, a separator and another
  request, or two declarations before a use of them; six lines were checked too
  and show nothing else. An alphabet has the lines of one concern: listed targets
  and names, hosts and headers, bodies and handlers, variables, versions and
  errors.
* `Lapsing`, `Pausable`: the workers whose session may lapse or whom an
  operator may pause, to keep each run to the cases its question needs. Nobody
  is paused in `dispatch_handshake`, and nothing is lost by it: a pause refuses
  the claim and lets the refusal be reported, which is what a session does that
  lapses before the claim and is renewed before the report.

Deadlock is not checked in any run: a system in which every run has ended, or
whose fault budget is spent, legitimately has nothing left to do.

### 3.2 Fairness

Fairness is assumed for the liveness properties only. `Outbox` and `Dispatch`
assume:

* a relay that has a batch goes on with it, and relays and scans keep coming:
  `controllers.Manager` restarts a control loop whenever it returns or panics,
  and the loops are tickers;
* clocks advance: leases lapse, back-offs elapse, messages age out;
* a row that is claimable again and again is eventually in a batch (strong
  fairness), since a batch is filled oldest first;
* an expiry or stranding that is attempted again and again eventually meets an
  unchanged row (strong fairness): a run has finitely many transitions, so a
  guarded write can only lose finitely often (`Dispatch` asks this of the two
  together, and of the three passes of the scan over a run together, which is
  less than asking it of each);
* an API handler returns.

`ControlLoops` assumes that timers fire and calls return: a lease nobody scans
under expires, a waiting loop restarts or ends, `RunOnce` goes on and is called
again (`Reconciler.Run` is a ticker). That is the ground of the first point
above: `LoopsKeepRunning` shows that a loop which returns or panics runs again.
`RunLogs` assumes that a run ends, be it by its lease (`EveryRunEnds`), that the
server answers, that a tail ends (by its 30-minute deadline), and that a viewer
without a log asks again, which is the client's doing and not the server's.

Nothing is assumed of workers. Faults are bounded, so the liveness properties
say what happens once faults stop.

## 4. What is proved

Each of the eight proof modules proves `Spec => []IInv` for an inductive `IInv`,
for every value of the constants (any runs, workers, runners, relays, clients,
processes, viewers and any number of handlers in flight), and derives the
properties from it. Every `IInv` was checked by TLC on the instance of its run
before it was proved. All safety properties the passing runs check are theorems, but for
the two of `HttpScript` named at the end of this section.

`ResultsProofs` (assumption: `ResultsAssumption`, which only says what the
constants are). None of the safety properties is inductive: each depends on what
a handler saw before others wrote. `IInv` adds

* `ReadsAreVersioned`: a version determines an entry's contents, so a write that
  passes its guard was computed from the current entry;
* `HandlersKnow`: what each kind of handler checked about the entry it read;
* `GrantsKnow`: a run that was authorised is running, completed or timed out,
  by the worker the authorisation names, and at its version as long as it runs;
* `UnclaimedRuns`: an unstarted run names no worker.

Theorems: `TypeCorrect`, `SingleExecutor` (`OneExecutor`), `HoldersCanReport`,
`FailedRunsNeverStarted`, `TerminalRunsAreFinal`, `CompletionIsTheExecutors`,
`PlacementKept`, and `RefinesLifecycle`: every step of `Results` is a step or a
stutter of `RunLifecycle`. `CompletionIsTheExecutors` is the one that is least
obvious from the code, since `UpdateStatus` never looks at the status it
overwrites: the version in the report, and that only a claim's grant carries
that version, are all that protects a finished run.

`OutboxProofs` (assumption: `OutboxAssumption`). A relay that takes a row over
does not know whether its predecessor published, so nothing about rows and
relays alone is inductive. The argument goes through what the broker has stored:
of one event it suppresses one message (`OneSuppressed`); every message queued,
every acknowledgement in a relay's hand and every receipt on a row is of a
message that it stored (`StreamKnown`, `AcksKnown`, `ReceiptsKnown`); what it
stored is queued or gone (`EntriesKept`, `GoneKnown`, `GoneOnce`). While no
message of an event has outlived the window, all of these are one message.
Theorems: `TypeCorrect`, `PublishedOnce` (`OneMessagePerEvent`) and
`ReceiptsWithdraw` (`Withdrawable`).

`DispatchProofs` (assumption: `DispatchAssumption`, which includes what `Results`
and `Outbox` ask of the constants it gives them). `ImplementsResults`: every step
of the composition is a step or a stutter of `Results`, so what is proved there
holds here; `FollowsLifecycle` is the case of its abstract specification: with
relays, redeliveries, crashes and repairs, a run still moves only as
`RunLifecycle` allows. The invariants of `ResultsProofs` and `OutboxProofs` are parts of
this `IInv`, and their lemmas, instantiated (`RP`, `OP`), carry them over each
step. The parts that are new tie the components together: a job beyond its claim
has a grant (`JobsKnow`), deliveries are numbered and a process works on a run
once (`Numbered`, `OneJob`), a listed sweep is of a run that is over
(`SweepsKnow`), a pending run is as it was created (`PendingFresh`) and has its
row (`RowsKnow`), and nobody gets at a run with a route before the broker stored
its message (`BegunStored`). Theorems: `TypeCorrect`; `ExecutesOnce`
(`OneExecution`), from `JobsKnow`, the single executor of `Results` and
`OneJob`, which is `inFlightRuns`; `RetiredRunsAreOver`;
`NoFinishedRunIsDispatched`, from `BegunStored` and the window, which does not
pass in `Dispatch`: it speaks of what is published again within it; and
`PendingRunsKeepMessages` (`PendingOutlivesClaims`). The last holds for any
worker whose session lapses only with the exception it names: a refusal whose
report is refused too terminates the message (`TerminateUnreported`).

`DeadLetterProofs` (assumption: `DeadLetterAssumption`). `IInv` adds
`RecordsKnow` (after it is filed a record is only ever linked or resolved, and
its run no longer waits), `CallsKnow` (a request about to write holds the
current link if the version has not moved, and the version has moved otherwise)
and `UnbornRuns` (a run not yet created is nobody's retry). Theorems:
`TypeCorrect`, `SingleRetry`, `RecordedRunsDoNotWait`, `OperatorsAreToldWhatHolds`
(from `RetryAnswersHold` and `ResolveAnswersHold`). `ResolveAnswersHold` is the
delicate one: `Resolve` does not look at whether its write applied, and what it
answers still holds because the only write that can overtake it links a retry.

`FleetProofs` (assumption: `FleetAssumption`). A pause saves with no guard and a
version that may be behind, so versions mean nothing on a row that such a save
has torn. `CallKnows` says what they mean on the others: a call that was not
overtaken has read what is stored, and one that was has read a smaller version.
`NamesAgree` is what keeps a re-created row's name unique. Theorems:
`TypeCorrect` (with one live record per name), `PausesHold` and `ReturnedStays`.
`OvershootBounded` (`OvershootIsBounded`) needs a second invariant, `RoomInv`: live
records, the rows a pending pause may bring back and the admissions that have
passed the count are together within the limit and the calls there can be; a
bound on live records alone is not inductive, since a dropped row makes room that
a pause under way takes back. `FarewellsHold` and `HeardStaysShown` follow from
`FarewellInv`: a record that carries a farewell, or the copy of one a call has
read, has been heard of on the API path, which is how such a row is told from one
of a worker that has not reported yet.

`ControlLoopsProofs` (assumption: `LoopsAssumption`). `ScansHoldTheirLease`: a
scan that was not overrun holds the live lease; `LeasesAreAccounted`: a live
lease belongs to a scan, to a process that died or to one that could not give it
back; `ScansKnow`: a queue still owed by a scan that has not failed is one that
its list holds or will hold. Theorems: `TypeCorrect`, `SingleScan`,
`ShutdownReleases`, `SuccessIsEarned`.

`PlacementProofs` (assumption: `PlacementAssumption`). `RevisionsNamed`: of the
stored scenario and all revisions that runs and requests hold, no two share a
version and none is newer than what is stored; `RowsSeen`: what a form has seen
of a row that has not moved since is the row. Both hold until `raced`. `AllSpread`
is about counts: what a request counted is off by no more than its drift, for
every pair of runners taken together (`MeasureOK`), which is what a comparison of
two of them needs; and the choice it made from them stands with the same slack
(`SpreadOK`). A worker or a run that comes or goes moves one number by one, and
drift counts it (`DriftSpreads`). That a request with no choice by room found no
room anywhere (`BestExists`) is the fact that the ranking by room, pressure and
UID has a first: among runners with the same room, less pressure is fewer
workers. Theorems: `TypeCorrect`, `VersionsNameContent`, `NoUpdateIsLost`
(`NoLostUpdate`), `RunsSpread` (`SpreadsWithinDrift`), `DrawsAreProportional`
(`DrawIsProportional`) and `PreviewsAgree` (`PreviewAgrees`).

The last two are about sums over a set of runners (`Total`). A sum is a fold,
that is a recursive function picked by `CHOOSE`, and the prover cannot apply an
induction rule that takes a predicate. The induction is made by hand instead: if
a fact fails for some finite set, it fails for one of the least cardinality
(`NatLeast`), and taking an element away from that one refutes it. In this way
the fold exists and has the values its equation says (`FoldExists`,
`FoldsAgree`), a sum is what one member has and the sum of the others
(`TotalRemoves`), and a part has no more than the whole (`TotalOfPart`). Then the
draws that fall on a runner are an interval as long as its weight (`Shares`,
`DrawnByShare`), and the spare capacity of a preview is positive exactly when
some runner has room (`PreviewSpare`, `SparesAgree`). Whether the run is placed,
and why not, is `DecisionsAgree`.

`RunLogsProofs` (assumption: `RunLogsAssumption`). The log only grows and is
captured once; `CaptureKnows` says that late records alone follow the capture,
however many, and `StoredKnows` and `WireKnows` relate the capture, the artifact,
what is served and what is on its way to it. Theorems: `TypeCorrect`,
`ServedHasWhatWasShown`, and `RedactedHasNoRaw`, which is what `writeRaw`'s flag
does achieve (`RawIsFlagged`): what goes through `RunLogger.Write`, which no
prober calls, is never stored as redacted. `TailsHaveNoGaps` (`TailHasNoGaps`)
has its own invariant, `NoGapInv`: a tail, its buffer and what is on the wire for
it are in the log's order, and what lies between is accounted for as dropped or
unpublished.

Only model-checked: all liveness (`ENABLED` and fairness are outside the prover's
reach), and `SendsAsWritten` and `RoundTrips` of `HttpScript`, which are about
what a fold over a whole script computes: an induction over every form a script
may have, line by line, through the states of the parser.

## 5. Where the code and its comments disagree

* `dispatch_duplicate`: a redelivery that meets an in-flight delivery of the same
  process is acknowledged as redundant, which removes the message although that
  delivery may end without a claim. The run has no fault in it and handshakes
  that keep their budget: a worker that is refused and cannot report it is enough.
* `fleet_announcer`: a worker whose record was dropped registers again under a
  new one and announces the old one until it is restarted, so its new record is
  shown as not on its queue and is not counted as capacity.
* `run_logs_redacted`: what puppeteer's node process prints is logged line by
  line as records (`piped` in `RunLogs`), so a log that holds it is stored as
  redacted, where `log.go` and its test name this very output as what takes that
  claim away: "contributes bytes nobody inspected". The run has no fault in it.

Observations that have no run of their own:

* `RunHTTPRequests` gives the client neither the context of the run nor a timeout,
  so `Timeout`, the "maximum duration alloted for each script run", does not end
  a rest or HAR probe: a server that never answers holds the worker. The run is
  still ended by the reconciler, since `EveryRunEnds` assumes nothing of workers.
* A request whose target expands to nothing (`@v =`, `GET {{v}}`) is dropped with
  its headers and body, where `onFinishRequest` says that "a missing target here
  means the block held nothing at all"; a script left with no request succeeds.
* A second `VERB http://...` without a separator is read as a header named
  `VERB http` (`RequestAsKey`) and fails when it is sent; a second `VERB /path` is
  an error of the script.
* A response handler that is not closed takes the rest of the script with it,
  separators and requests included (`Handled`), and the probe succeeds.
* `# @name` between two listed targets names the first of them.
* `Marshal` writes the values of a repeated header as one (`RoundTrips` allows for
  it); the test's comment asks for "the same requests". What a HAR file holds need
  not survive either: its protocol names, pseudo-headers and body lines that look
  like separators or handlers are written as they are.

* The deprecated `Auth` compares the worker's runner with the request only, so a
  worker of another runner can take a placed run (`PlacementIsKept` exempts
  `LegacyWorkers`); its comment says the server has checked that the worker
  belongs to the runner "the job was dispatched to".
* A `Retry` that loses its write to a `Resolve` answers success although no run
  exists (`RetryAnswerHolds` allows for it); the comment says that one does.
* A pause saved over another write puts that write back (`torn`), and re-creates
  a row that was dropped; `SetPaused` accepts the former in a comment.
* A worker that is evicted or dropped and registers again gets a new record, and
  a pause of the old one is gone.
* `Heartbeat` answers "not found" so that "the worker registers again", but the
  worker only logs the failure and registers at its next renewal.
* A re-registration is answered with a session whether or not its write applied;
  when it did not, its labels and session time are not stored.
* A registration that read an earlier farewell, and a pause, write it back.
* One paused worker that keeps fetching fails runs that its runner's other
  workers could take; `IsPaused` is documented as leaving the rest of the pool
  undisturbed.
* The pending timeout counts from the creation of the run, so a dispatch
  published late is expired while its message is still queued.
* A worker that comes back after the retention may be evicted between its
  registration, which stamps no contact, and its first heartbeat: a scan that
  lists it then reads the new version. Nor does an announcement between listing
  and drop prevent it, since stamps leave the version alone.
* `presence.go` says that "nothing here is consulted when placing a run", and
  `workerCapacity` consults `WorkerPresenceAt`; that operator's comment in turn
  says the eviction pass calls it, which asks SQL (`SilentWorkers`).
* `controllers/dispatch.go` says that `Status` "reports a skipped scan whenever
  another replica held the lease"; `RunOnce` does not record skipped scans.
* `AdvisoryWatcher.Run` drains its subscription at the end so that buffered
  advisories "are still recorded", when nobody reads their channel any longer.
* A failed listing of runners errors the run for good as having invalid
  requirements, which `labels.go` describes as a selector that does not parse.
* Two overlapping saves of a scenario give one version to two contents or move
  the version back (`raced`); `saveResource` concedes it in a comment.
* A runner deleted between the listing and the commit of a run leaves the run in
  a queue that nobody claims from, until the reconciler ends it.
* `runlogs.go` says that "a run that has not been claimed has no executor yet",
  but placement sets the runner, so a waiting run can be tailed; and that "a
  finished run has its log as an artifact", which is posted concurrently with the
  status, so a viewer may be told that there is none (`WatcherIsServed` needs one
  that asks again). A tail is not ended by the end of its run.
* `ToArtifact` reads the class and the lines under separate locks, which is safe
  since no prober writes raw lines then. Records logged after the capture, by the
  goroutine that feeds a script to node or by the rest prober's connection
  traces, are shown live and not stored (`late`).
* `Create` replaces a requested `TimeStarted` by the current time where its comment
  says that it is unset; `Auth` then refuses such a run (`CreatePlaced`, `AuthRead`).
* After the duplicate window has passed, a relay that never recorded its
  publication publishes a second message; the properties of `Outbox` are
  conditioned on the window (`Deduplicated`), and in `Dispatch` the claim is
  what keeps the second message harmless.
* A worker whose session has lapsed terminates a message that it could not
  report (`TerminateUnreported`); the run waits for the reconciler.
* A message whose run was claimed but never acknowledged stays queued when the
  row is retired (`ListStale` drops only undispatched runs); it ages out.
* A row written by an older schema is settled as undeliverable.

## 6. Plan

Modelled so far: the run lifecycle, the outbox, the handshake with the
reconciler's repairs, dead letters, worker records and presence, the scan lease
and the control loops, placement with the resources it reads, logs, and request scripts. Next, in this
order:

1. `Budgets`: the validation of the configured durations (AckWait, handshake
   budget, lease, `MaxJobAge`, pending timeout, retention) and the set-up of the
   job stream with its drift detection, and that a configuration it accepts has
   the relations of section 2.2.
2. The HAR converter, and what of a recording survives it.

## 7. Not modelled

Contents of snapshots, logs, artifacts other than the log, and metrics; the HTTP
layer and its client, which keep no state between requests; probers other than
the rest prober, which are network input and output, and the decoding of HAR
files; provisioning of the broker and the
validation of configuration; the broker's clustering and storage; SQL isolation
beyond atomic statements and transactions; schedules, which nothing in this
repository acts on; the asynq prototype except
for its use of `Auth`; the command-line programs and web consoles.
