------------------------------- MODULE RunLogs -------------------------------
(***************************************************************************)
(* The log of one run, while it runs and afterwards.  The worker collects   *)
(* the lines, publishes each on a subject that nothing stores, and uploads  *)
(* the log as an artifact beside the run's final status.  A viewer asks one *)
(* URL: it tails the subject while the run is not over, for a limited time, *)
(* and reads the artifact when it is.                                       *)
(*                                                                          *)
(* A line is known by its place in the log, and Stray is a line that        *)
(* another runner's worker publishes for this run.                          *)
(***************************************************************************)
EXTENDS Integers, Sequences, SequencesExt, FiniteSets

CONSTANTS
  Viewers,     \* clients that want the log
  Runners,     \* runner UIDs
  Executors,   \* runners that may execute the run; the others only stray
  NoRunner,
  Buffer,      \* lines a tail may fall behind
  MaxLines,    \* bound: lines of the log
  MaxProbed,   \* bound: lines of the log before the record that ends the probe
  MaxFaults    \* bound: stray and lost lines, failed uploads, deletions

ASSUME RunLogsAssumption ==
  /\ NoRunner \notin Runners
  /\ Executors \subseteq Runners
  /\ Buffer \in Nat \ {0}
  /\ MaxLines \in Nat
  /\ MaxProbed \in Nat
  /\ MaxFaults \in Nat

VARIABLES
  job,       \* the run: [status, runner]
  worker,    \* what the worker is doing with it
  log,       \* runLogSink: [lines, rawWrites]
  wire,      \* lines published and not yet delivered, in order
  captured,  \* the artifact made of the log, or NoArtifact
  stored,    \* the artifact that is stored, or NoArtifact
  viewers,   \* viewers[v]: the request of viewer v, or Idle
  lost,      \* history: lines that were never published
  shown,     \* history: shown[v] is the last line viewer v was sent live
  faults     \* faults so far

workerVars == <<worker, log, wire, captured, lost>>
viewVars == <<viewers, shown>>
vars == <<job, workerVars, stored, viewVars, faults>>

-----------------------------------------------------------------------------
(* record: logged by the prober; piped: output of a process that the prober *)
(* runs, which it turns into records; raw: written to the log as to an      *)
(* io.Writer, which no prober does; late: logged by a goroutine of the      *)
(* prober after the probe has returned                                      *)
Kinds == {"record", "piped", "raw", "late"}

Classes == {"redacted", "unknown"}

Stray == 0

NoArtifact == [class |-> "none"]

Artifact == [class : Classes, lines : 0 .. MaxLines]

Statuses == {"pending", "running", "completed", "expired"}

(* Mutation: the status that only the reconciler sets is forgotten *)
IsTerminalReported(status) == status = "completed"

(* isTerminal *)
IsTerminal(status) == status \in {"completed", "expired"}

(* probing: the prober runs.  flagged: it does, and a raw write has set its *)
(* flag and not written yet.  returned: the log is complete.                *)
(* report: the parts in todo are yet to be posted, in any order.            *)
Worker ==
  [step : {"none", "probing", "flagged", "returned"}]
    \cup [step : {"report"}, todo : SUBSET {"log", "status"}]

Idle == [step |-> "idle"]

(* missed (history): lines dropped because the tail was behind *)
Viewer ==
  [step : {"idle", "found"}]
    \cup [step : {"asked"}, status : Statuses, runner : Runners \cup {NoRunner}]
    \cup [step : {"tail"}, runner : Runners, buf : Seq(0 .. MaxLines), seen : Seq(0 .. MaxLines),
          missed : SUBSET (1 .. MaxLines)]
    \cup [step : {"served"}, lines : 0 .. MaxLines]

Fault == faults < MaxFaults /\ faults' = faults + 1

-----------------------------------------------------------------------------
(* The worker: Play and report *)

Written == Len(log.lines)

(* Write: the line is kept and published under one lock.  Publishing may    *)
(* fail, which nobody is told.                                              *)
Write(kind) ==
  /\ Written < MaxLines
  /\ log' = [log EXCEPT !.lines = Append(@, kind)]
  /\ \/ wire' = Append(wire, Written + 1) /\ UNCHANGED <<lost, faults>>
     \/ Fault /\ lost' = lost \cup {Written + 1} /\ UNCHANGED wire

(* A worker of runner r has claimed the run (see Results) and plays it, or  *)
(* has no prober for it.  What Play logs before it runs the prober is taken *)
(* for one of the prober's records.                                         *)
Claim(r) ==
  /\ job.status = "pending"
  /\ job.runner \in {NoRunner, r}
  /\ job' = [status |-> "running", runner |-> r]
  /\ worker' \in {[step |-> "probing"], [step |-> "report", todo |-> {"status"}]}
  /\ UNCHANGED <<log, wire, captured, stored, viewVars, lost, faults>>

(* Handle: a record of the prober's own, or a line of a process whose       *)
(* output it has turned into records                                        *)
ProbeLogs(kind) ==
  /\ worker.step = "probing"
  /\ kind \in {"record", "piped"}
  /\ Written < MaxProbed
  /\ Write(kind)
  /\ UNCHANGED <<job, worker, captured, stored, viewVars>>

(* writeRaw, its first half *)
WriteRaw ==
  /\ worker.step = "probing"
  /\ Written < MaxProbed
  /\ worker' = [step |-> "flagged"]
  /\ log' = [log EXCEPT !.rawWrites = TRUE]
  /\ UNCHANGED <<job, wire, captured, stored, viewVars, lost, faults>>

WriteRawContinues ==
  /\ worker.step = "flagged"
  /\ worker' = [step |-> "probing"]
  /\ Write("raw")
  /\ UNCHANGED <<job, captured, stored, viewVars>>

(* dataClass, and then the snapshot: late records alone may come between,   *)
(* and they do not change the class.                                        *)
ToArtifact == [class |-> IF log.rawWrites THEN "unknown" ELSE "redacted", lines |-> Written]

(* Mutation: the log is captured before the last record *)
ProbeReturnsCaptured ==
  /\ worker.step = "probing"
  /\ worker' = [step |-> "report", todo |-> {"log", "status"}]
  /\ captured' = ToArtifact
  /\ Write("record")
  /\ UNCHANGED <<job, stored, viewVars>>

(* The prober returns, and Play says whether it succeeded. *)
ProbeReturns ==
  /\ worker.step = "probing"
  /\ worker' = [step |-> "returned"]
  /\ Write("record")
  /\ UNCHANGED <<job, captured, stored, viewVars>>

(* The end of Play, and the start of report *)
PlayEnds ==
  /\ worker.step = "returned"
  /\ captured' = ToArtifact
  /\ worker' = [step |-> "report", todo |-> {"log", "status"}]
  /\ UNCHANGED <<job, log, wire, stored, viewVars, lost, faults>>

(* A goroutine that outlives the probe logs on, before the log is captured  *)
(* or after: the one that feeds a script to its process says that it failed *)
(* and then that it is done; a connection that is still being dialled is    *)
(* traced.                                                                  *)
LateRecord ==
  /\ worker.step = "returned" \/ (worker.step = "report" /\ captured # NoArtifact)
  /\ Write("late")
  /\ UNCHANGED <<job, worker, captured, stored, viewVars>>

Posted(part) ==
  /\ worker.step = "report"
  /\ part \in worker.todo
  /\ worker' = [worker EXCEPT !.todo = @ \ {part}]
  /\ UNCHANGED <<log, wire, captured, viewVars, lost>>

(* Artifacts.Create, under the run's token *)
PostLog == Posted("log") /\ stored' = captured /\ UNCHANGED <<job, faults>>

(* Results.UpdateStatus: of no effect on a run that is over (see Results) *)
PostStatus ==
  /\ Posted("status")
  /\ job' = IF job.status = "running" THEN [job EXCEPT !.status = "completed"] ELSE job
  /\ UNCHANGED <<stored, faults>>

(* One part of the report fails; the others do not depend on it. *)
PostFails == Fault /\ (\E part \in {"log", "status"} : Posted(part)) /\ UNCHANGED <<job, stored>>

-----------------------------------------------------------------------------
(* The server and an operator *)

(* The reconciler expires a run nobody claimed, or whose lease is over. *)
Expire ==
  /\ job.status \in {"pending", "running"}
  /\ job' = [job EXCEPT !.status = "expired"]
  /\ UNCHANGED <<workerVars, stored, viewVars, faults>>

DeleteLog ==
  /\ Fault
  /\ stored # NoArtifact
  /\ stored' = NoArtifact
  /\ UNCHANGED <<job, workerVars, viewVars>>

-----------------------------------------------------------------------------
(* Tails *)

(* Mutation: any publisher on the subject will do *)
AnyPublisher(tail, publisher) == TRUE

(* The publisher, taken from the subject, is the executor the run had. *)
FromExecutor(tail, publisher) == publisher = tail.runner

HasRoom(tail) == Len(tail.buf) < Buffer

(* The subscription's callback: a tail that is behind misses the line. *)
Received(tail, publisher, line) ==
  IF ~FromExecutor(tail, publisher) THEN tail
  ELSE IF HasRoom(tail) THEN [tail EXCEPT !.buf = Append(@, line)]
  ELSE [tail EXCEPT !.missed = @ \cup {line}]

Tails == {v \in Viewers : viewers[v].step = "tail"}

(* Mutation: the tails of a run share its lines between them *)
DeliverToOne ==
  /\ wire # <<>>
  /\ wire' = Tail(wire)
  /\ \/ Tails = {} /\ UNCHANGED viewers
     \/ \E v \in Tails : viewers' = [viewers EXCEPT ![v] = Received(@, job.runner, Head(wire))]
  /\ UNCHANGED <<job, worker, log, captured, stored, lost, shown, faults>>

(* A line reaches whoever is subscribed by now. *)
Deliver ==
  /\ wire # <<>>
  /\ wire' = Tail(wire)
  /\ viewers' = [v \in Viewers |->
                   IF v \in Tails THEN Received(viewers[v], job.runner, Head(wire)) ELSE viewers[v]]
  /\ UNCHANGED <<job, worker, log, captured, stored, lost, shown, faults>>

(* A worker of another runner publishes for this run. *)
DeliverStray(r) ==
  /\ Fault
  /\ r # job.runner
  /\ Tails # {}
  /\ viewers' = [v \in Viewers |->
                   IF v \in Tails THEN Received(viewers[v], r, Stray) ELSE viewers[v]]
  /\ UNCHANGED <<job, workerVars, stored, shown>>

-----------------------------------------------------------------------------
(* runLogHandler *)

To(v, q) ==
  /\ viewers' = [viewers EXCEPT ![v] = q]
  /\ UNCHANGED <<job, workerVars, stored, shown, faults>>

Ask(v) ==
  /\ viewers[v] = Idle
  /\ To(v, [step |-> "asked", status |-> job.status, runner |-> job.runner])

(* The listing by label: not found is the answer if it has none. *)
FindLog(v) ==
  /\ viewers[v].step = "asked"
  /\ IsTerminal(viewers[v].status)
  /\ To(v, IF stored = NoArtifact THEN Idle ELSE [step |-> "found"])

(* GetContent: the log, and the end with the run's status *)
ServeLog(v) ==
  /\ viewers[v].step = "found"
  /\ To(v, IF stored = NoArtifact THEN Idle ELSE [step |-> "served", lines |-> stored.lines])

(* A run without a runner has nobody to listen to. *)
Refuse(v) ==
  /\ viewers[v].step = "asked"
  /\ ~IsTerminal(viewers[v].status)
  /\ viewers[v].runner = NoRunner
  /\ To(v, Idle)

Subscribe(v) ==
  /\ viewers[v].step = "asked"
  /\ ~IsTerminal(viewers[v].status)
  /\ viewers[v].runner # NoRunner
  /\ To(v, [step |-> "tail", runner |-> viewers[v].runner, buf |-> <<>>, seen |-> <<>>, missed |-> {}])

Relay(v) ==
  /\ viewers[v].step = "tail"
  /\ viewers[v].buf # <<>>
  /\ viewers' = [viewers EXCEPT ![v].seen = Append(@, Head(viewers[v].buf)), ![v].buf = Tail(@)]
  /\ shown' = [shown EXCEPT ![v] = Head(viewers[v].buf)]
  /\ UNCHANGED <<job, workerVars, stored, faults>>

(* The deadline, whatever is still buffered; or the client goes. *)
EndTail(v) == viewers[v].step = "tail" /\ To(v, Idle)

-----------------------------------------------------------------------------
(* A run stored before runs were placed has no runner until it is claimed. *)
Init ==
  /\ job \in [status : {"pending"}, runner : Executors \cup {NoRunner}]
  /\ worker = [step |-> "none"]
  /\ log = [lines |-> <<>>, rawWrites |-> FALSE]
  /\ wire = <<>>
  /\ captured = NoArtifact
  /\ stored = NoArtifact
  /\ viewers = [v \in Viewers |-> Idle]
  /\ lost = {}
  /\ shown = [v \in Viewers |-> 0]
  /\ faults = 0

Play ==
  \/ \E r \in Executors : Claim(r)
  \/ \E kind \in Kinds : ProbeLogs(kind)
  \/ WriteRaw \/ WriteRawContinues \/ ProbeReturns \/ PlayEnds \/ LateRecord

Report == PostLog \/ PostStatus \/ PostFails

Serve(v) ==
  Ask(v) \/ FindLog(v) \/ ServeLog(v) \/ Refuse(v) \/ Subscribe(v) \/ Relay(v) \/ EndTail(v)

Next ==
  \/ Play \/ Report \/ Expire \/ DeleteLog \/ Deliver
  \/ \E r \in Runners : DeliverStray(r)
  \/ \E v \in Viewers : Serve(v)

Spec == Init /\ [][Next]_vars

(* A viewer that has no log asks again; the server answers what it is       *)
(* asked; a run ends, be it by its lease.                                   *)
Fairness ==
  /\ WF_vars(Expire)
  /\ \A v \in Viewers :
       /\ WF_vars(Ask(v))
       /\ WF_vars(FindLog(v) \/ ServeLog(v) \/ Refuse(v) \/ Subscribe(v))
       /\ WF_vars(EndTail(v))

FairSpec == Spec /\ Fairness

-----------------------------------------------------------------------------
(* Properties *)

(* Every variable has its type, and no tail holds more than its buffer. *)
TypeOK ==
  /\ job \in [status : Statuses, runner : Runners \cup {NoRunner}]
  /\ worker \in Worker
  /\ log \in [lines : Seq(Kinds), rawWrites : BOOLEAN] /\ Written <= MaxLines
  /\ wire \in Seq(1 .. MaxLines)
  /\ {captured, stored} \subseteq Artifact \cup {NoArtifact}
  /\ viewers \in [Viewers -> Viewer]
  /\ \A v \in Tails : Len(viewers[v].buf) <= Buffer
  /\ lost \subseteq 1 .. MaxLines
  /\ shown \in [Viewers -> 0 .. MaxLines]
  /\ faults \in 0 .. MaxFaults

(* What a tail has received *)
Arrived(tail) == tail.seen \o tail.buf

(* A tail shows the lines in the order of the log, none twice, none that    *)
(* another runner's workers publish for the run whoever claimed it, and     *)
(* misses one only because it was behind or the line was never published.   *)
TailHasNoGaps ==
  \A v \in Tails :
    LET lines == Arrived(viewers[v])
        known == ToSet(lines) \cup viewers[v].missed \cup lost
    IN  /\ Stray \notin ToSet(lines)
        /\ \A i \in 1 .. Len(lines) - 1 : lines[i] < lines[i + 1]
        /\ lines # <<>> => \A n \in lines[1] .. lines[Len(lines)] : n \in known

(* A log that is stored as redacted holds nothing that was written to it as *)
(* to an io.Writer: writeRaw sets its flag, of which no write is rid, and   *)
(* nothing that outlives the probe writes so.                               *)
RedactedHoldsNoRaw ==
  stored # NoArtifact /\ stored.class = "redacted" =>
    \A i \in 1 .. stored.lines : log.lines[i] # "raw"

(* What the comment on rawWrites (log.go:41-45) says of a redacted log: it  *)
(* was built from the prober's own records alone, for "a prober that        *)
(* attaches a subprocess' stdout -- puppeteer pipes node's output straight  *)
(* through -- contributes bytes nobody inspected".  Puppeteer pipes it      *)
(* through a slog handler, and the flag stays down.                         *)
RedactedWasInspected ==
  stored # NoArtifact /\ stored.class = "redacted" =>
    \A i \in 1 .. stored.lines : log.lines[i] \notin {"raw", "piped"}

(* The log a viewer is served in the end has every line it was shown while  *)
(* the run went on, but for those logged after the probe had returned.      *)
LogHasWhatWasShown ==
  \A v \in Viewers :
    viewers[v].step = "served" =>
      \A n \in viewers[v].lines + 1 .. shown[v] : log.lines[n] = "late"

(* A viewer that keeps asking is served the log in the end, if one is       *)
(* stored and stays, although it may have begun to tail a run that had just *)
(* ended, and however the run ended.                                        *)
WatcherIsServed ==
  \A v \in Viewers : <>[](stored # NoArtifact) => <>(viewers[v].step = "served")
=============================================================================
