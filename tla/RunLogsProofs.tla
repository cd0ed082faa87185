---------------------------- MODULE RunLogsProofs ----------------------------
(***************************************************************************)
(* Theorems about RunLogs, for any viewers, runners, buffer and length of  *)
(* the log.                                                                *)
(*                                                                         *)
(* The log only grows, and it is captured once, when nothing but late      *)
(* records can follow (CaptureKnows); what is stored and what a viewer is  *)
(* served is that capture (StoredKnows).  Nothing is published before it   *)
(* is in the log (WireKnows), so what a viewer is shown and the capture    *)
(* lacks is a late record.                                                 *)
(***************************************************************************)
EXTENDS RunLogs, TLAPS

Tailing ==
  [step : {"tail"}, runner : Runners, buf : Seq(0 .. MaxLines), seen : Seq(0 .. MaxLines),
   missed : SUBSET (1 .. MaxLines)]

Reporting == [step : {"report"}, todo : SUBSET {"log", "status"}]

(* A raw line sets the flag before it is in the log. *)
RawIsFlagged ==
  /\ worker.step = "flagged" => log.rawWrites
  /\ ~log.rawWrites => \A i \in 1 .. Written : log.lines[i] # "raw"

(* What is captured is the log but for late records. *)
CaptureKnows ==
  captured # NoArtifact =>
    /\ worker.step = "report"
    /\ captured.lines <= Written
    /\ \A i \in captured.lines + 1 .. Written : log.lines[i] = "late"
    /\ captured.class = "redacted" => \A i \in 1 .. captured.lines : log.lines[i] # "raw"

(* A run that waits has no worker, and a log is posted once it is captured. *)
WorkerKnows ==
  /\ job.status = "pending" => worker.step = "none"
  /\ worker.step = "report" /\ "log" \in worker.todo => captured # NoArtifact

StoredKnows ==
  /\ stored # NoArtifact => stored = captured
  /\ \A v \in Viewers :
       viewers[v].step = "served" => captured # NoArtifact /\ viewers[v].lines = captured.lines

(* Lines on the wire, in a tail and with a viewer are in the log, or stray. *)
WireKnows ==
  /\ wire \in Seq(0 .. Written)
  /\ \A v \in Viewers : shown[v] <= Written
  /\ \A v \in Tails : viewers[v].buf \in Seq(0 .. Written)

(* The runner a request has read is still the run's. *)
ExecutorKnows ==
  \A v \in Viewers :
    viewers[v].step \in {"asked", "tail"} /\ viewers[v].runner # NoRunner =>
      viewers[v].runner = job.runner

IInv ==
  /\ TypeOK /\ RawIsFlagged /\ CaptureKnows /\ WorkerKnows /\ StoredKnows /\ WireKnows
  /\ ExecutorKnows

-----------------------------------------------------------------------------
LEMMA TailTypes ==
  ASSUME NEW q \in Viewer, q.step = "tail"
  PROVE  q \in Tailing
BY DEF Viewer, Tailing

LEMMA ReportTypes ==
  ASSUME NEW w \in Worker, w.step = "report"
  PROVE  w \in Reporting
BY DEF Worker, Reporting

LEMMA SeqsWiden ==
  ASSUME NEW m \in Nat, NEW n \in Nat, m <= n, NEW s \in Seq(0 .. m)
  PROVE  s \in Seq(0 .. n)
<1>1. Len(s) \in Nat /\ s \in [1 .. Len(s) -> 0 .. m]
  OBVIOUS
<1>2. s \in [1 .. Len(s) -> 0 .. n]
  BY <1>1
<1> QED
  BY <1>1, <1>2

LEMMA HeadAndTail ==
  ASSUME NEW S, NEW s \in Seq(S), s # <<>>
  PROVE  Head(s) \in S /\ Tail(s) \in Seq(S) /\ Len(Tail(s)) = Len(s) - 1
OBVIOUS

LEMMA InitIInv == Init => IInv
<1> SUFFICES ASSUME Init PROVE IInv
  OBVIOUS
<1> USE RunLogsAssumption
<1>1. Written = 0 /\ log \in [lines : Seq(Kinds), rawWrites : BOOLEAN]
  BY DEF Init, Written
<1>2. viewers \in [Viewers -> Viewer] /\ \A v \in Viewers : viewers[v].step = "idle"
  BY DEF Init, Idle, Viewer
<1>3. job \in [status : Statuses, runner : Runners \cup {NoRunner}] /\ worker \in Worker
  BY DEF Init, Statuses, Worker
<1>4. wire \in Seq(1 .. MaxLines) /\ wire \in Seq(0 .. Written)
  BY DEF Init
<1>5. shown \in [Viewers -> 0 .. MaxLines] /\ lost \subseteq 1 .. MaxLines /\ faults \in 0 .. MaxFaults
  BY DEF Init
<1>6. TypeOK
  BY <1>1, <1>2, <1>3, <1>4, <1>5 DEF Init, TypeOK, Tails
<1>7. RawIsFlagged /\ CaptureKnows /\ WorkerKnows
  BY <1>1 DEF Init, RawIsFlagged, CaptureKnows, WorkerKnows
<1>8. StoredKnows /\ WireKnows /\ ExecutorKnows
  BY <1>1, <1>2, <1>4 DEF Init, StoredKnows, WireKnows, ExecutorKnows, Tails
<1> QED
  BY <1>6, <1>7, <1>8 DEF IInv

(* A write appends to the log, and what it publishes is in it. *)
LEMMA WriteGrows ==
  ASSUME IInv, NEW kind \in Kinds, Write(kind)
  PROVE  /\ log' \in [lines : Seq(Kinds), rawWrites : BOOLEAN]
         /\ Written \in Nat /\ Written' = Written + 1 /\ Written' <= MaxLines
         /\ log'.rawWrites = log.rawWrites /\ log'.lines[Written'] = kind
         /\ \A i \in 1 .. Written : log'.lines[i] = log.lines[i]
         /\ wire' \in Seq(1 .. MaxLines) /\ wire' \in Seq(0 .. Written')
         /\ lost' \subseteq 1 .. MaxLines /\ faults' \in 0 .. MaxFaults
<1> USE RunLogsAssumption
<1>t. /\ log \in [lines : Seq(Kinds), rawWrites : BOOLEAN] /\ Written < MaxLines
      /\ wire \in Seq(1 .. MaxLines) /\ wire \in Seq(0 .. Written)
      /\ lost \subseteq 1 .. MaxLines /\ faults \in 0 .. MaxFaults
  BY DEF IInv, TypeOK, WireKnows, Write
<1>1. Written \in Nat /\ log.lines \in Seq(Kinds)
  BY <1>t DEF Written
<1>2. PICK longer : longer = Append(log.lines, kind)
  OBVIOUS
<1>l. longer \in Seq(Kinds) /\ log' = [log EXCEPT !.lines = longer]
  BY <1>1, <1>2 DEF Write
<1>3. /\ log' \in [lines : Seq(Kinds), rawWrites : BOOLEAN]
      /\ log'.lines = Append(log.lines, kind) /\ log'.rawWrites = log.rawWrites
  BY <1>t, <1>2, <1>l
<1>4. Written' = Written + 1 /\ Written' <= MaxLines
  BY <1>t, <1>1, <1>3 DEF Written
<1>5. log'.lines[Written'] = kind /\ \A i \in 1 .. Written : log'.lines[i] = log.lines[i]
  BY <1>1, <1>3, <1>4 DEF Written
<1>6. CASE wire' = Append(wire, Written + 1) /\ UNCHANGED <<lost, faults>>
  <2>1. wire' \in Seq(1 .. MaxLines)
    BY <1>t, <1>1, <1>6
  <2>2. wire \in Seq(0 .. Written')
    BY <1>t, <1>1, <1>4, SeqsWiden
  <2>3. wire' \in Seq(0 .. Written')
    BY <1>1, <1>4, <1>6, <2>2
  <2>4. lost' \subseteq 1 .. MaxLines /\ faults' \in 0 .. MaxFaults
    BY <1>t, <1>6
  <2> QED
    BY <1>1, <1>3, <1>4, <1>5, <2>1, <2>3, <2>4
<1>7. CASE Fault /\ lost' = lost \cup {Written + 1} /\ UNCHANGED wire
  <2>1. wire' \in Seq(0 .. Written')
    BY <1>t, <1>1, <1>4, <1>7, SeqsWiden
  <2>2. faults' \in 0 .. MaxFaults
    BY <1>t, <1>7 DEF Fault
  <2>3. lost' \subseteq 1 .. MaxLines /\ wire' \in Seq(1 .. MaxLines)
    BY <1>t, <1>1, <1>7
  <2> QED
    BY <1>1, <1>3, <1>4, <1>5, <2>1, <2>2, <2>3
<1> QED
  BY <1>6, <1>7 DEF Write

(* A write, and a step of the worker with it, disturb no viewer. *)
LEMMA WriteStep ==
  ASSUME IInv, NEW kind \in Kinds, Write(kind), UNCHANGED <<captured, stored, viewVars>>,
         job' \in [status : Statuses, runner : Runners \cup {NoRunner}], worker' \in Worker,
         job.runner # NoRunner => job'.runner = job.runner,
         kind = "raw" => log.rawWrites,
         worker'.step = "flagged" => log.rawWrites,
         job'.status = "pending" => worker'.step = "none",
         worker'.step = "report" /\ "log" \in worker'.todo => captured # NoArtifact,
         captured # NoArtifact => worker'.step = "report" /\ kind = "late"
  PROVE  IInv'
<1> USE RunLogsAssumption
<1>t. /\ TypeOK /\ RawIsFlagged /\ CaptureKnows /\ WorkerKnows /\ StoredKnows /\ WireKnows
      /\ ExecutorKnows
  BY DEF IInv
<1>w. /\ log' \in [lines : Seq(Kinds), rawWrites : BOOLEAN]
      /\ Written \in Nat /\ Written' = Written + 1 /\ Written' <= MaxLines
      /\ log'.rawWrites = log.rawWrites /\ log'.lines[Written'] = kind
      /\ \A i \in 1 .. Written : log'.lines[i] = log.lines[i]
      /\ wire' \in Seq(1 .. MaxLines) /\ wire' \in Seq(0 .. Written')
      /\ lost' \subseteq 1 .. MaxLines /\ faults' \in 0 .. MaxFaults
  BY WriteGrows
<1>1. TypeOK'
  BY <1>t, <1>w DEF TypeOK, Tails, viewVars
<1>2. RawIsFlagged'
  <2>1. ASSUME ~log'.rawWrites, NEW i \in 1 .. Written' PROVE log'.lines[i] # "raw"
    <3>1. i \in 1 .. Written \/ i = Written'
      BY <1>w
    <3> QED
      BY <1>t, <1>w, <2>1, <3>1 DEF RawIsFlagged
  <2> QED
    BY <1>w, <2>1 DEF RawIsFlagged
<1>3. CaptureKnows'
  <2> SUFFICES ASSUME captured # NoArtifact PROVE CaptureKnows'
    BY DEF CaptureKnows
  <2>1. captured \in Artifact /\ captured.lines \in Nat /\ captured.lines <= Written
    BY <1>t DEF TypeOK, CaptureKnows, Artifact
  <2>2. ASSUME NEW i \in captured.lines + 1 .. Written' PROVE log'.lines[i] = "late"
    <3>1. i = Written' \/ i \in captured.lines + 1 .. Written
      BY <1>w, <2>1
    <3>2. CASE i = Written'
      BY <1>w, <3>2
    <3>3. CASE i \in captured.lines + 1 .. Written
      <4>1. i \in 1 .. Written
        BY <1>w, <2>1, <3>3
      <4> QED
        BY <1>t, <1>w, <3>3, <4>1 DEF CaptureKnows
    <3> QED
      BY <3>1, <3>2, <3>3
  <2>3. ASSUME captured.class = "redacted", NEW i \in 1 .. captured.lines
        PROVE  log'.lines[i] # "raw"
    <3>1. i \in 1 .. Written
      BY <1>w, <2>1
    <3> QED
      BY <1>t, <1>w, <2>3, <3>1 DEF CaptureKnows
  <2> QED
    BY <1>w, <2>1, <2>2, <2>3 DEF CaptureKnows
<1>4. WorkerKnows' /\ StoredKnows'
  BY <1>t DEF WorkerKnows, StoredKnows, viewVars
<1>5. WireKnows'
  <2>1. ASSUME NEW v \in Viewers PROVE shown'[v] <= Written'
    BY <1>t, <1>w DEF WireKnows, TypeOK, viewVars
  <2>2. ASSUME NEW v \in Tails PROVE viewers[v].buf \in Seq(0 .. Written')
    BY <1>t, <1>w, SeqsWiden DEF WireKnows
  <2> QED
    BY <1>w, <2>1, <2>2 DEF WireKnows, Tails, viewVars
<1>6. ExecutorKnows'
  BY <1>t DEF ExecutorKnows, viewVars
<1> QED
  BY <1>1, <1>2, <1>3, <1>4, <1>5, <1>6 DEF IInv

(* A step that leaves the log and the wire alone, and captures at most what *)
(* is in the log. *)
LEMMA WorkerStep ==
  ASSUME IInv, UNCHANGED <<wire, viewVars, lost>>, log'.lines = log.lines,
         log' \in [lines : Seq(Kinds), rawWrites : BOOLEAN], log.rawWrites => log'.rawWrites,
         job' \in [status : Statuses, runner : Runners \cup {NoRunner}], worker' \in Worker,
         job.runner # NoRunner => job'.runner = job.runner,
         faults' \in 0 .. MaxFaults,
         worker'.step = "flagged" => log'.rawWrites,
         job'.status = "pending" => worker'.step = "none",
         captured' \in Artifact \cup {NoArtifact}, stored' \in {captured', NoArtifact},
         captured # NoArtifact => captured' = captured,
         worker'.step = "report" /\ "log" \in worker'.todo => captured' # NoArtifact,
         CaptureKnows'
  PROVE  IInv'
<1>t. /\ TypeOK /\ RawIsFlagged /\ CaptureKnows /\ WorkerKnows /\ StoredKnows /\ WireKnows
      /\ ExecutorKnows
  BY DEF IInv
<1>w. Written' = Written
  BY DEF Written
<1>1. TypeOK'
  BY <1>t, <1>w DEF TypeOK, Tails, viewVars
<1>2. RawIsFlagged'
  BY <1>t, <1>w DEF RawIsFlagged
<1>3. WorkerKnows' /\ StoredKnows'
  BY <1>t DEF WorkerKnows, StoredKnows, viewVars
<1>4. WireKnows'
  BY <1>t, <1>w DEF WireKnows, Tails, viewVars
<1>5. ExecutorKnows'
  BY <1>t DEF ExecutorKnows, viewVars
<1> QED
  BY <1>1, <1>2, <1>3, <1>4, <1>5 DEF IInv

(* The steps of Play *)
LEMMA PlaySteps == IInv /\ Play => IInv'
<1> SUFFICES ASSUME IInv, Play PROVE IInv'
  OBVIOUS
<1>t. /\ TypeOK /\ RawIsFlagged /\ CaptureKnows /\ WorkerKnows /\ StoredKnows /\ WireKnows
      /\ ExecutorKnows
  BY DEF IInv
<1>k. "record" \in Kinds /\ "raw" \in Kinds /\ "late" \in Kinds
  BY DEF Kinds
<1>l. log \in [lines : Seq(Kinds), rawWrites : BOOLEAN] /\ worker \in Worker /\ faults \in 0 .. MaxFaults
      /\ job \in [status : Statuses, runner : Runners \cup {NoRunner}]
      /\ captured \in Artifact \cup {NoArtifact}
  BY <1>t DEF TypeOK
<1>s. [step |-> "probing"] \in Worker /\ [step |-> "flagged"] \in Worker
      /\ [step |-> "returned"] \in Worker
      /\ \A todo \in SUBSET {"log", "status"} :
           [step |-> "report", todo |-> todo] \in Worker
  BY DEF Worker
<1>1. ASSUME NEW r \in Executors, Claim(r) PROVE IInv'
  <2>1. /\ worker.step = "none" /\ captured = NoArtifact
        /\ UNCHANGED <<log, wire, captured, stored, viewVars, lost, faults>>
        /\ job' \in [status : Statuses, runner : Runners \cup {NoRunner}]
        /\ job'.status = "running" /\ (job.runner # NoRunner => job'.runner = job.runner)
    BY <1>1, <1>t, RunLogsAssumption DEF Claim, WorkerKnows, CaptureKnows, Statuses
  <2>2. worker' \in Worker /\ worker'.step # "flagged"
        /\ (worker'.step = "report" => "log" \notin worker'.todo)
    BY <1>1, <1>s DEF Claim
  <2>3. CaptureKnows' /\ stored' \in {captured', NoArtifact}
    BY <1>t, <2>1 DEF CaptureKnows, StoredKnows
  <2> QED
    BY <1>l, <2>1, <2>2, <2>3, WorkerStep
<1>2. ASSUME NEW kind \in Kinds, ProbeLogs(kind) PROVE IInv'
  <2>1. /\ worker.step = "probing" /\ captured = NoArtifact /\ kind # "raw" /\ Write(kind)
        /\ job.status # "pending" /\ UNCHANGED <<job, worker, captured, stored, viewVars>>
    BY <1>2, <1>t DEF ProbeLogs, CaptureKnows, WorkerKnows
  <2> QED
    BY <1>l, <2>1, WriteStep
<1>3. ASSUME WriteRaw PROVE IInv'
  <2>1. /\ worker.step = "probing" /\ captured = NoArtifact /\ job.status # "pending"
        /\ UNCHANGED <<job, wire, captured, stored, viewVars, lost, faults>>
        /\ worker' = [step |-> "flagged"] /\ log' = [log EXCEPT !.rawWrites = TRUE]
    BY <1>3, <1>t DEF WriteRaw, CaptureKnows, WorkerKnows
  <2>2. /\ log' \in [lines : Seq(Kinds), rawWrites : BOOLEAN]
        /\ log'.lines = log.lines /\ log'.rawWrites
    BY <1>l, <2>1
  <2>3. CaptureKnows' /\ stored' \in {captured', NoArtifact}
    BY <1>t, <2>1 DEF CaptureKnows, StoredKnows
  <2> QED
    BY <1>l, <1>s, <2>1, <2>2, <2>3, WorkerStep
<1>4. ASSUME WriteRawContinues PROVE IInv'
  <2>1. /\ worker.step = "flagged" /\ captured = NoArtifact /\ job.status # "pending"
        /\ log.rawWrites /\ Write("raw") /\ worker' = [step |-> "probing"]
        /\ UNCHANGED <<job, captured, stored, viewVars>>
    BY <1>4, <1>t DEF WriteRawContinues, CaptureKnows, WorkerKnows, RawIsFlagged
  <2> QED
    BY <1>k, <1>l, <1>s, <2>1, WriteStep
<1>5. ASSUME ProbeReturns PROVE IInv'
  <2>1. /\ worker.step = "probing" /\ captured = NoArtifact /\ job.status # "pending"
        /\ Write("record") /\ worker' = [step |-> "returned"]
        /\ UNCHANGED <<job, captured, stored, viewVars>>
    BY <1>5, <1>t DEF ProbeReturns, CaptureKnows, WorkerKnows
  <2> QED
    BY <1>k, <1>l, <1>s, <2>1, WriteStep
<1>6. ASSUME PlayEnds PROVE IInv'
  <2>1. /\ worker.step = "returned" /\ captured = NoArtifact /\ job.status # "pending"
        /\ captured' = ToArtifact
        /\ worker' = [step |-> "report", todo |-> {"log", "status"}]
        /\ UNCHANGED <<job, log, wire, stored, viewVars, lost, faults>>
    BY <1>6, <1>t DEF PlayEnds, CaptureKnows, WorkerKnows
  <2>2. Written \in 0 .. MaxLines
    BY <1>t DEF TypeOK, Written
  <2>3. /\ ToArtifact \in Artifact /\ ToArtifact.lines = Written
        /\ ToArtifact.class = "redacted" => ~log.rawWrites
    BY <2>2 DEF ToArtifact, Artifact, Classes
  <2>4. captured' \in Artifact /\ captured' # NoArtifact
    BY <2>1, <2>3 DEF Artifact, Classes, NoArtifact
  <2>5. CaptureKnows'
    <3>1. worker'.step = "report" /\ Written' = Written /\ log' = log
      BY <2>1 DEF Written
    <3>2. captured'.lines = Written /\ Written \in Nat
      BY <2>1, <2>2, <2>3, RunLogsAssumption
    <3>3. \A i \in captured'.lines + 1 .. Written : log.lines[i] = "late"
      BY <3>2
    <3>4. captured'.class = "redacted" => \A i \in 1 .. captured'.lines : log.lines[i] # "raw"
      BY <1>t, <2>1, <2>3, <3>2 DEF RawIsFlagged
    <3> QED
      BY <3>1, <3>2, <3>3, <3>4 DEF CaptureKnows
  <2>6. stored = NoArtifact
    BY <1>t, <2>1 DEF StoredKnows
  <2> QED
    BY <1>l, <1>s, <2>1, <2>4, <2>5, <2>6, WorkerStep
<1>7. ASSUME LateRecord PROVE IInv'
  <2>1. /\ worker.step \in {"returned", "report"} /\ job.status # "pending"
        /\ worker.step = "report" => captured # NoArtifact
        /\ Write("late") /\ UNCHANGED <<job, worker, captured, stored, viewVars>>
    BY <1>7, <1>t DEF LateRecord, WorkerKnows
  <2>2. captured # NoArtifact => worker'.step = "report"
    BY <1>t, <2>1 DEF CaptureKnows
  <2> QED
    BY <1>k, <1>l, <2>1, <2>2, WriteStep
<1> QED
  BY <1>1, <1>2, <1>3, <1>4, <1>5, <1>6, <1>7 DEF Play

(* The steps of report, of the reconciler and of an operator *)
LEMMA ReportSteps == IInv /\ (Report \/ Expire \/ DeleteLog) => IInv'
<1> SUFFICES ASSUME IInv, Report \/ Expire \/ DeleteLog PROVE IInv'
  OBVIOUS
<1> USE RunLogsAssumption
<1>t. /\ TypeOK /\ RawIsFlagged /\ CaptureKnows /\ WorkerKnows /\ StoredKnows /\ WireKnows
      /\ ExecutorKnows
  BY DEF IInv
<1>l. log \in [lines : Seq(Kinds), rawWrites : BOOLEAN] /\ worker \in Worker /\ faults \in 0 .. MaxFaults
      /\ job \in [status : Statuses, runner : Runners \cup {NoRunner}]
      /\ captured \in Artifact \cup {NoArtifact} /\ stored \in {captured, NoArtifact}
  BY <1>t DEF TypeOK, StoredKnows
<1>f. Fault => faults' \in 0 .. MaxFaults
  BY <1>l DEF Fault
<1>1. ASSUME NEW part, Posted(part), job' \in {job, [job EXCEPT !.status = "completed"]},
             stored' \in {captured, stored}, faults' \in 0 .. MaxFaults
      PROVE  IInv'
  <2>1. worker \in Reporting /\ worker' = [worker EXCEPT !.todo = worker.todo \ {part}]
        /\ UNCHANGED <<log, wire, captured, viewVars, lost>>
    BY <1>1, <1>l, ReportTypes DEF Posted
  <2>2. worker' \in Reporting /\ worker'.todo \subseteq worker.todo
    BY <2>1 DEF Reporting
  <2>3. worker' \in Worker /\ worker'.step = "report" /\ worker.step = "report"
    BY <2>1, <2>2 DEF Worker, Reporting
  <2>4. CaptureKnows'
    <3>1. Written' = Written
      BY <2>1 DEF Written
    <3> QED
      BY <1>t, <2>1, <2>2, <2>3, <3>1 DEF CaptureKnows
  <2>5. job' \in [status : Statuses, runner : Runners \cup {NoRunner}] /\ job'.status # "pending"
        /\ job'.runner = job.runner
    BY <1>1, <1>l, <1>t, <2>3 DEF Statuses, WorkerKnows
  <2>6. worker'.step = "report" /\ "log" \in worker'.todo => captured' # NoArtifact
    BY <1>t, <2>1, <2>2, <2>3 DEF WorkerKnows
  <2> QED
    BY <1>1, <1>l, <2>1, <2>3, <2>4, <2>5, <2>6, WorkerStep
<1>2. Report => IInv'
  <2>1. ASSUME PostLog PROVE IInv'
    BY <1>1, <1>l, <2>1 DEF PostLog
  <2>2. ASSUME PostStatus PROVE IInv'
    BY <1>1, <1>l, <2>2 DEF PostStatus
  <2>3. ASSUME PostFails PROVE IInv'
    BY <1>1, <1>f, <2>3 DEF PostFails
  <2> QED
    BY <2>1, <2>2, <2>3 DEF Report
<1>3. ASSUME Expire PROVE IInv'
  <2>1. job' = [job EXCEPT !.status = "expired"] /\ UNCHANGED <<workerVars, stored, viewVars, faults>>
    BY <1>3 DEF Expire
  <2>2. job' \in [status : Statuses, runner : Runners \cup {NoRunner}] /\ job'.status = "expired"
        /\ job'.runner = job.runner
    BY <1>l, <2>1 DEF Statuses
  <2>3. CaptureKnows' /\ UNCHANGED <<worker, log, wire, captured, lost>>
    BY <1>t, <2>1 DEF CaptureKnows, workerVars, Written
  <2>4. worker'.step = "flagged" => log'.rawWrites
    BY <1>t, <2>3 DEF RawIsFlagged
  <2>5. worker'.step = "report" /\ "log" \in worker'.todo => captured' # NoArtifact
    BY <1>t, <2>3 DEF WorkerKnows
  <2> QED
    BY <1>l, <2>1, <2>2, <2>3, <2>4, <2>5, WorkerStep
<1>4. ASSUME DeleteLog PROVE IInv'
  <2>1. faults' \in 0 .. MaxFaults /\ stored' = NoArtifact /\ UNCHANGED <<job, workerVars, viewVars>>
    BY <1>4, <1>f DEF DeleteLog
  <2>2. CaptureKnows' /\ UNCHANGED <<worker, log, wire, captured, lost>>
    BY <1>t, <2>1 DEF CaptureKnows, workerVars, Written
  <2>3. worker'.step = "flagged" => log'.rawWrites
    BY <1>t, <2>2 DEF RawIsFlagged
  <2>4. /\ worker'.step = "report" /\ "log" \in worker'.todo => captured' # NoArtifact
        /\ job'.status = "pending" => worker'.step = "none"
    BY <1>t, <2>1, <2>2 DEF WorkerKnows
  <2> QED
    BY <1>l, <2>1, <2>2, <2>3, <2>4, WorkerStep
<1> QED
  BY <1>2, <1>3, <1>4

(* A step that only viewers and the wire take part in *)
LEMMA ViewStep ==
  ASSUME IInv, UNCHANGED <<job, worker, log, captured, stored, lost>>,
         wire' \in Seq(1 .. MaxLines), wire' \in Seq(0 .. Written), faults' \in 0 .. MaxFaults,
         viewers' \in [Viewers -> Viewer],
         shown' \in [Viewers -> 0 .. MaxLines], \A v \in Viewers : shown'[v] <= Written,
         \A v \in Viewers : viewers'[v].step = "tail" =>
           Len(viewers'[v].buf) <= Buffer /\ viewers'[v].buf \in Seq(0 .. Written),
         \A v \in Viewers : viewers'[v].step = "served" =>
           captured # NoArtifact /\ viewers'[v].lines = captured.lines,
         ExecutorKnows'
  PROVE  IInv'
<1>t. /\ TypeOK /\ RawIsFlagged /\ CaptureKnows /\ WorkerKnows /\ StoredKnows /\ WireKnows
      /\ ExecutorKnows
  BY DEF IInv
<1>w. Written' = Written
  BY DEF Written
<1>1. TypeOK'
  BY <1>t, <1>w DEF TypeOK, Tails
<1>2. RawIsFlagged' /\ CaptureKnows' /\ WorkerKnows'
  BY <1>t, <1>w DEF RawIsFlagged, CaptureKnows, WorkerKnows
<1>3. StoredKnows'
  BY <1>t DEF StoredKnows
<1>4. WireKnows'
  BY <1>w DEF WireKnows, Tails
<1> QED
  BY <1>1, <1>2, <1>3, <1>4 DEF IInv

(* A tail stays within its buffer, whatever arrives. *)
LEMMA ReceivedTypes ==
  ASSUME NEW n \in 0 .. MaxLines, NEW q \in Tailing, Len(q.buf) <= Buffer, q.buf \in Seq(0 .. n),
         NEW publisher, NEW line \in 0 .. n,
         FromExecutor(q, publisher) => line # Stray
  PROVE  /\ Received(q, publisher, line) \in Tailing
         /\ Len(Received(q, publisher, line).buf) <= Buffer
         /\ Received(q, publisher, line).buf \in Seq(0 .. n)
<1> USE RunLogsAssumption
<1>t. q.buf \in Seq(0 .. MaxLines) /\ q.missed \subseteq 1 .. MaxLines /\ line \in 0 .. MaxLines
  BY DEF Tailing
<1>1. CASE ~FromExecutor(q, publisher)
  BY <1>1 DEF Received
<1>2. CASE FromExecutor(q, publisher) /\ HasRoom(q)
  <2>1. PICK longer : longer = Append(q.buf, line)
    OBVIOUS
  <2>2. longer \in Seq(0 .. MaxLines) /\ longer \in Seq(0 .. n) /\ Len(longer) <= Buffer
    BY <1>t, <1>2, <2>1 DEF HasRoom
  <2>3. Received(q, publisher, line) = [q EXCEPT !.buf = longer]
    BY <1>2, <2>1 DEF Received
  <2> QED
    BY <2>2, <2>3 DEF Tailing
<1>3. CASE FromExecutor(q, publisher) /\ ~HasRoom(q)
  <2>1. PICK missed : missed = q.missed \cup {line}
    OBVIOUS
  <2>2. missed \subseteq 1 .. MaxLines
    BY <1>t, <1>3, <2>1 DEF Stray
  <2>3. Received(q, publisher, line) = [q EXCEPT !.missed = missed]
    BY <1>3, <2>1 DEF Received
  <2> QED
    BY <2>2, <2>3 DEF Tailing
<1> QED
  BY <1>1, <1>2, <1>3

(* A line of the log, or one that is not the executor's, is delivered. *)
LEMMA DeliverSteps == IInv /\ (Deliver \/ \E r \in Runners : DeliverStray(r)) => IInv'
<1> SUFFICES ASSUME IInv, Deliver \/ \E r \in Runners : DeliverStray(r) PROVE IInv'
  OBVIOUS
<1> USE RunLogsAssumption
<1>t. /\ TypeOK /\ RawIsFlagged /\ CaptureKnows /\ WorkerKnows /\ StoredKnows /\ WireKnows
      /\ ExecutorKnows
  BY DEF IInv
<1>l. /\ Written \in 0 .. MaxLines /\ viewers \in [Viewers -> Viewer]
      /\ wire \in Seq(1 .. MaxLines) /\ wire \in Seq(0 .. Written)
      /\ shown \in [Viewers -> 0 .. MaxLines] /\ \A v \in Viewers : shown[v] <= Written
      /\ faults \in 0 .. MaxFaults
  BY <1>t DEF TypeOK, WireKnows, Written
<1>1. ASSUME NEW publisher, NEW line \in 0 .. Written, line = Stray => publisher # job.runner,
             viewers' = [v \in Viewers |-> IF v \in Tails THEN Received(viewers[v], publisher, line)
                                                          ELSE viewers[v]],
             UNCHANGED <<job, worker, log, captured, stored, lost, shown>>,
             wire' \in Seq(1 .. MaxLines), wire' \in Seq(0 .. Written), faults' \in 0 .. MaxFaults
      PROVE  IInv'
  <2>1. ASSUME NEW v \in Tails
        PROVE  /\ v \in Viewers /\ viewers'[v] \in Tailing /\ viewers'[v].runner = viewers[v].runner
               /\ Len(viewers'[v].buf) <= Buffer /\ viewers'[v].buf \in Seq(0 .. Written)
    <3>1. /\ v \in Viewers /\ viewers[v].step = "tail" /\ viewers[v] \in Tailing
          /\ Len(viewers[v].buf) <= Buffer /\ viewers[v].buf \in Seq(0 .. Written)
      BY <1>t, <1>l, TailTypes DEF Tails, TypeOK, WireKnows
    <3>2. viewers[v].runner = job.runner
      BY <1>t, <3>1 DEF ExecutorKnows, Tailing
    <3>3. FromExecutor(viewers[v], publisher) => line # Stray
      BY <1>1, <3>2 DEF FromExecutor
    <3>4. viewers'[v] = Received(viewers[v], publisher, line)
      BY <1>1, <3>1
    <3>5. PICK q \in Tailing : q = viewers[v]
      BY <3>1
    <3>6. Received(q, publisher, line).runner = q.runner
      BY DEF Received, Tailing
    <3> QED
      BY <1>l, <1>1, <3>1, <3>3, <3>4, <3>5, <3>6, ReceivedTypes
  <2>2. ASSUME NEW v \in Viewers \ Tails PROVE viewers'[v] = viewers[v] /\ viewers[v].step # "tail"
    BY <1>1 DEF Tails
  <2>3. ASSUME NEW v \in Viewers PROVE viewers'[v] \in Viewer
    BY <1>l, <2>1, <2>2 DEF Viewer, Tailing
  <2>4. viewers' \in [Viewers -> Viewer]
    BY <1>1, <2>3
  <2>5. ExecutorKnows'
    <3> SUFFICES ASSUME NEW v \in Viewers, viewers'[v].step \in {"asked", "tail"},
                        viewers'[v].runner # NoRunner
                 PROVE  viewers'[v].runner = job.runner
      BY <1>1 DEF ExecutorKnows
    <3>1. CASE v \in Tails
      BY <1>t, <2>1, <3>1 DEF ExecutorKnows, Tails
    <3>2. CASE v \notin Tails
      BY <1>t, <2>2, <3>2 DEF ExecutorKnows
    <3> QED
      BY <3>1, <3>2
  <2>6. \A v \in Viewers : viewers'[v].step = "tail" =>
          Len(viewers'[v].buf) <= Buffer /\ viewers'[v].buf \in Seq(0 .. Written)
    BY <2>1, <2>2
  <2>7. \A v \in Viewers : viewers'[v].step = "served" =>
          captured # NoArtifact /\ viewers'[v].lines = captured.lines
    BY <1>t, <2>1, <2>2 DEF StoredKnows, Tailing
  <2> QED
    BY <1>1, <1>l, <2>4, <2>5, <2>6, <2>7, ViewStep
<1>2. ASSUME Deliver PROVE IInv'
  <2>1. wire # <<>> /\ wire' = Tail(wire)
    BY <1>2 DEF Deliver
  <2>2. Head(wire) \in 0 .. Written /\ Head(wire) # Stray
        /\ wire' \in Seq(1 .. MaxLines) /\ wire' \in Seq(0 .. Written)
    BY <1>l, <2>1, HeadAndTail DEF Stray
  <2> QED
    BY <1>1, <1>2, <1>l, <2>2 DEF Deliver
<1>3. ASSUME NEW r \in Runners, DeliverStray(r) PROVE IInv'
  <2>1. Stray \in 0 .. Written /\ faults' \in 0 .. MaxFaults /\ r # job.runner
    BY <1>3, <1>l DEF DeliverStray, Fault, Stray
  <2>2. PICK line \in 0 .. Written : line = Stray
    BY <2>1
  <2>3. /\ viewers' = [v \in Viewers |-> IF v \in Tails THEN Received(viewers[v], r, line)
                                                        ELSE viewers[v]]
        /\ UNCHANGED <<job, worker, log, wire, captured, stored, lost, shown>>
    BY <1>3, <2>2 DEF DeliverStray, workerVars
  <2> QED
    BY <1>1, <1>l, <2>1, <2>3
<1> QED
  BY <1>2, <1>3

(* The steps of runLogHandler *)
LEMMA ServeSteps == ASSUME IInv, NEW v \in Viewers, Serve(v) PROVE IInv'
<1> USE RunLogsAssumption
<1>t. /\ TypeOK /\ RawIsFlagged /\ CaptureKnows /\ WorkerKnows /\ StoredKnows /\ WireKnows
      /\ ExecutorKnows
  BY DEF IInv
<1>l. /\ Written \in 0 .. MaxLines /\ viewers \in [Viewers -> Viewer]
      /\ wire \in Seq(1 .. MaxLines) /\ wire \in Seq(0 .. Written)
      /\ shown \in [Viewers -> 0 .. MaxLines] /\ \A w \in Viewers : shown[w] <= Written
      /\ faults \in 0 .. MaxFaults
      /\ job \in [status : Statuses, runner : Runners \cup {NoRunner}]
      /\ stored \in Artifact \cup {NoArtifact}
  BY <1>t DEF TypeOK, WireKnows, Written
<1>1. ASSUME NEW q \in Viewer, viewers' = [viewers EXCEPT ![v] = q],
             UNCHANGED <<job, workerVars, stored, faults>>,
             shown' \in [Viewers -> 0 .. MaxLines], \A w \in Viewers : shown'[w] <= Written,
             q.step = "tail" => Len(q.buf) <= Buffer /\ q.buf \in Seq(0 .. Written),
             q.step = "served" => captured # NoArtifact /\ q.lines = captured.lines,
             q.step \in {"asked", "tail"} /\ q.runner # NoRunner => q.runner = job.runner
      PROVE  IInv'
  <2>1. viewers' \in [Viewers -> Viewer] /\ viewers'[v] = q
        /\ \A w \in Viewers \ {v} : viewers'[w] = viewers[w]
    BY <1>1, <1>l
  <2>2. ExecutorKnows'
    BY <1>t, <1>1, <2>1 DEF ExecutorKnows
  <2>3. \A w \in Viewers : viewers'[w].step = "tail" =>
          Len(viewers'[w].buf) <= Buffer /\ viewers'[w].buf \in Seq(0 .. Written)
    BY <1>t, <1>1, <2>1 DEF TypeOK, WireKnows, Tails
  <2>4. \A w \in Viewers : viewers'[w].step = "served" =>
          captured # NoArtifact /\ viewers'[w].lines = captured.lines
    BY <1>t, <1>1, <2>1 DEF StoredKnows
  <2>5. UNCHANGED <<job, worker, log, wire, captured, stored, lost, faults>>
    BY <1>1 DEF workerVars
  <2> QED
    BY <1>1, <1>l, <2>1, <2>2, <2>3, <2>4, <2>5, ViewStep
<1>i. Idle \in Viewer /\ Idle.step = "idle" /\ [step |-> "found"] \in Viewer
  BY DEF Idle, Viewer
<1>2. ASSUME NEW q \in Viewer, To(v, q),
             q.step = "tail" => Len(q.buf) <= Buffer /\ q.buf \in Seq(0 .. Written),
             q.step = "served" => captured # NoArtifact /\ q.lines = captured.lines,
             q.step \in {"asked", "tail"} /\ q.runner # NoRunner => q.runner = job.runner
      PROVE  IInv'
  BY <1>1, <1>2, <1>l DEF To
<1>3. ASSUME Ask(v) PROVE IInv'
  <2>1. PICK q : q = [step |-> "asked", status |-> job.status, runner |-> job.runner]
    OBVIOUS
  <2>2. q \in Viewer /\ q.step = "asked" /\ q.runner = job.runner
    BY <1>l, <2>1 DEF Viewer
  <2> QED
    BY <1>2, <1>3, <2>1, <2>2 DEF Ask
<1>4. ASSUME FindLog(v) \/ Refuse(v) \/ EndTail(v) PROVE IInv'
  BY <1>2, <1>4, <1>i DEF FindLog, Refuse, EndTail
<1>5. ASSUME ServeLog(v) PROVE IInv'
  <2>1. CASE stored = NoArtifact
    BY <1>2, <1>5, <1>i, <2>1 DEF ServeLog
  <2>2. CASE stored # NoArtifact
    <3>1. PICK q : q = [step |-> "served", lines |-> stored.lines]
      OBVIOUS
    <3>2. q \in Viewer /\ q.step = "served" /\ captured # NoArtifact /\ q.lines = captured.lines
      BY <1>l, <1>t, <2>2, <3>1 DEF Viewer, Artifact, StoredKnows
    <3> QED
      BY <1>2, <1>5, <2>2, <3>1, <3>2 DEF ServeLog
  <2> QED
    BY <2>1, <2>2
<1>6. ASSUME Subscribe(v) PROVE IInv'
  <2>1. PICK q : q = [step |-> "tail", runner |-> viewers[v].runner, buf |-> <<>>, seen |-> <<>>,
                      missed |-> {}]
    OBVIOUS
  <2>2. viewers[v].runner \in Runners /\ viewers[v].runner = job.runner
    BY <1>6, <1>l, <1>t DEF Subscribe, Viewer, ExecutorKnows
  <2>3. q \in Tailing /\ q.buf = <<>>
    BY <2>1, <2>2 DEF Tailing
  <2>4. q \in Viewer /\ q.step = "tail" /\ q.runner = job.runner
    BY <2>1, <2>2, <2>3 DEF Viewer, Tailing
  <2>5. Len(q.buf) <= Buffer /\ q.buf \in Seq(0 .. Written)
    BY <2>3
  <2>6. To(v, q)
    BY <1>6, <2>1 DEF Subscribe
  <2> QED
    BY <1>2, <2>4, <2>5, <2>6
<1>7. ASSUME Relay(v) PROVE IInv'
  <2>1. PICK q \in Tailing : q = viewers[v]
    BY <1>7, <1>l, TailTypes DEF Relay
  <2>2. /\ q.buf # <<>> /\ q.buf \in Seq(0 .. Written) /\ q.buf \in Seq(0 .. MaxLines)
        /\ q.seen \in Seq(0 .. MaxLines) /\ Len(q.buf) <= Buffer /\ q.runner = job.runner
    BY <1>7, <1>t, <2>1 DEF Relay, WireKnows, TypeOK, Tails, Tailing, ExecutorKnows
  <2>3. PICK line, buf, seen : line = Head(q.buf) /\ buf = Tail(q.buf) /\ seen = Append(q.seen, line)
    OBVIOUS
  <2>4. /\ line \in 0 .. Written /\ line \in 0 .. MaxLines /\ Len(buf) <= Buffer
        /\ buf \in Seq(0 .. Written) /\ buf \in Seq(0 .. MaxLines) /\ seen \in Seq(0 .. MaxLines)
    <3>1. line \in 0 .. Written /\ buf \in Seq(0 .. Written) /\ Len(buf) = Len(q.buf) - 1
      BY <2>2, <2>3, HeadAndTail
    <3>2. line \in 0 .. MaxLines /\ buf \in Seq(0 .. MaxLines)
      BY <2>2, <2>3, HeadAndTail
    <3>3. seen \in Seq(0 .. MaxLines)
      BY <2>2, <2>3, <3>2
    <3>4. Len(buf) <= Buffer
      BY <2>2, <3>1
    <3> QED
      BY <3>1, <3>2, <3>3, <3>4
  <2>5. PICK r : r = [q EXCEPT !.seen = seen, !.buf = buf]
    OBVIOUS
  <2>6. r \in Tailing /\ r.buf = buf /\ r.runner = q.runner
    BY <2>4, <2>5 DEF Tailing
  <2>7. r \in Viewer /\ r.step = "tail"
    BY <2>6 DEF Viewer, Tailing
  <2>8. viewers' = [viewers EXCEPT ![v] = r]
    BY <1>7, <1>l, <2>1, <2>3, <2>5 DEF Relay
  <2>9. shown' \in [Viewers -> 0 .. MaxLines] /\ \A w \in Viewers : shown'[w] <= Written
    <3>1. shown' = [shown EXCEPT ![v] = line]
      BY <1>7, <2>1, <2>3 DEF Relay
    <3> QED
      BY <1>l, <2>4, <3>1
  <2> QED
    BY <1>1, <1>7, <2>2, <2>4, <2>6, <2>7, <2>8, <2>9 DEF Relay
<1> QED
  BY <1>3, <1>4, <1>5, <1>6, <1>7 DEF Serve

-----------------------------------------------------------------------------
(* The log, its capture, what is stored of it and what is on its way to a   *)
(* viewer stay in step, for any number of viewers and lines.                *)
THEOREM IInvHolds == Spec => []IInv
<1>1. IInv /\ [Next]_vars => IInv'
  <2> SUFFICES ASSUME IInv, [Next]_vars PROVE IInv'
    OBVIOUS
  <2>1. CASE Next
    BY <2>1, PlaySteps, ReportSteps, DeliverSteps, ServeSteps DEF Next
  <2>2. CASE UNCHANGED vars
    BY <2>2
    DEF vars, workerVars, viewVars, IInv, TypeOK, RawIsFlagged, CaptureKnows, WorkerKnows,
        StoredKnows, WireKnows, ExecutorKnows, Written, Tails
  <2> QED
    BY <2>1, <2>2
<1> QED
  BY <1>1, InitIInv, PTL DEF Spec

(* Every variable keeps its type, and a tail its buffer's bound. *)
THEOREM TypeCorrect == Spec => []TypeOK
<1>1. IInv => TypeOK
  BY DEF IInv
<1> QED
  BY <1>1, IInvHolds, PTL

(* dataClass is asked after the last raw line was written, and writeRaw     *)
(* sets the flag first: a log stored as redacted holds no line that was     *)
(* written through RunLogger.Write.  It may hold piped output, which is     *)
(* not (RedactedWasInspected is false).                                     *)
THEOREM RedactedHasNoRaw == Spec => []RedactedHoldsNoRaw
<1>1. IInv => RedactedHoldsNoRaw
  BY DEF IInv, CaptureKnows, StoredKnows, RedactedHoldsNoRaw
<1> QED
  BY <1>1, IInvHolds, PTL

(* ToArtifact is made when Play has ended, so what runLogHandler serves of  *)
(* a finished run holds what its tails had been sent, but for what          *)
(* goroutines logged after the probe had returned, however much that is.    *)
THEOREM ServedHasWhatWasShown == Spec => []LogHasWhatWasShown
<1>1. IInv => LogHasWhatWasShown
  <2> SUFFICES ASSUME IInv, NEW v \in Viewers, viewers[v].step = "served",
                      NEW n \in viewers[v].lines + 1 .. shown[v]
               PROVE  log.lines[n] = "late"
    BY DEF LogHasWhatWasShown
  <2>1. captured # NoArtifact /\ viewers[v].lines = captured.lines
    BY DEF IInv, StoredKnows
  <2>2. \A i \in captured.lines + 1 .. Written : log.lines[i] = "late"
    BY <2>1 DEF IInv, CaptureKnows
  <2>3. captured.lines \in Nat /\ shown[v] \in Nat /\ shown[v] <= Written /\ Written \in Nat
    BY <2>1, RunLogsAssumption DEF IInv, TypeOK, WireKnows, Artifact, Written
  <2> QED
    BY <2>1, <2>2, <2>3
<1> QED
  BY <1>1, IInvHolds, PTL

-----------------------------------------------------------------------------
(***************************************************************************)
(* No gaps: what is on the wire follows what every tail has received, and  *)
(* between the first line a tail received and the end of the log each line *)
(* is with the tail, missed, never published or still on the wire.         *)
(***************************************************************************)
InOrder(s) == \A i, j \in 1 .. Len(s) : i < j => s[i] < s[j]

(* The wire, with n lines in the log and some of them lost *)
WireOK(w, n, gaps) ==
  /\ InOrder(w)
  /\ w # <<>> => \A k \in w[1] .. n : k \in ToSet(w) \cup gaps

(* A tail that has received the lines s, and missed some *)
LinesOK(s, missed, w, n, gaps) ==
  /\ s \in Seq(1 .. n)
  /\ InOrder(s)
  /\ \A i \in 1 .. Len(s), j \in 1 .. Len(w) : s[i] < w[j]
  /\ s # <<>> => \A k \in s[1] .. n : k \in ToSet(s) \cup missed \cup gaps \cup ToSet(w)

TailsKnow ==
  \A v \in Tails : LinesOK(Arrived(viewers[v]), viewers[v].missed, wire, Written, lost)

NoGapInv == WireOK(wire, Written, lost) /\ TailsKnow

LEMMA ArrivedAppends ==
  ASSUME NEW S, NEW s \in Seq(S), NEW t \in Seq(S), NEW x \in S
  PROVE  s \o Append(t, x) = Append(s \o t, x)
  OBVIOUS

LEMMA ArrivedShifts ==
  ASSUME NEW S, NEW s \in Seq(S), NEW t \in Seq(S), t # <<>>
  PROVE  Append(s, Head(t)) \o Tail(t) = s \o t
  OBVIOUS

LEMMA MembersAre ==
  ASSUME NEW S, NEW s \in Seq(S)
  PROVE  \A x : x \in ToSet(s) <=> \E i \in 1 .. Len(s) : s[i] = x
  BY DEF ToSet

LEMMA AppendFacts ==
  ASSUME NEW S, NEW s \in Seq(S), NEW x \in S
  PROVE  /\ Append(s, x) \in Seq(S) /\ Len(Append(s, x)) = Len(s) + 1
         /\ \A i \in 1 .. Len(s) : Append(s, x)[i] = s[i]
         /\ Append(s, x)[Len(s) + 1] = x
         /\ ToSet(Append(s, x)) = ToSet(s) \cup {x}
  BY DEF ToSet

LEMMA TailFacts ==
  ASSUME NEW S, NEW s \in Seq(S), s # <<>>
  PROVE  /\ Tail(s) \in Seq(S) /\ Len(Tail(s)) = Len(s) - 1 /\ Head(s) = s[1]
         /\ \A i \in 1 .. Len(Tail(s)) : Tail(s)[i] = s[i + 1]
         /\ ToSet(s) = ToSet(Tail(s)) \cup {Head(s)}
<1>1. /\ Tail(s) \in Seq(S) /\ Len(Tail(s)) = Len(s) - 1 /\ Head(s) = s[1] /\ Len(s) \in Nat \ {0}
      /\ \A i \in 1 .. Len(Tail(s)) : Tail(s)[i] = s[i + 1]
  OBVIOUS
<1>2. \A x \in ToSet(s) : x \in ToSet(Tail(s)) \cup {Head(s)}
  <2> SUFFICES ASSUME NEW i \in 1 .. Len(s) PROVE s[i] \in ToSet(Tail(s)) \cup {Head(s)}
    BY DEF ToSet
  <2>1. CASE i = 1
    BY <1>1, <2>1
  <2>2. CASE i # 1
    <3>1. i - 1 \in 1 .. Len(Tail(s)) /\ Tail(s)[i - 1] = s[(i - 1) + 1] /\ (i - 1) + 1 = i
      BY <1>1, <2>2
    <3> QED
      BY <1>1, <3>1, MembersAre
  <2> QED
    BY <2>1, <2>2
<1>3. \A x \in ToSet(Tail(s)) : x \in ToSet(s)
  BY <1>1 DEF ToSet
<1>4. Head(s) \in ToSet(s)
  BY <1>1 DEF ToSet
<1> QED
  BY <1>1, <1>2, <1>3, <1>4

LEMMA LongerLog ==
  ASSUME NEW n \in Nat, NEW s \in Seq(1 .. n)
  PROVE  s \in Seq(1 .. n + 1) /\ Len(s) \in Nat /\ \A i \in 1 .. Len(s) : s[i] \in 1 .. n
<1>1. Len(s) \in Nat /\ s \in [1 .. Len(s) -> 1 .. n]
  OBVIOUS
<1>2. s \in [1 .. Len(s) -> 1 .. n + 1]
  BY <1>1
<1> QED
  BY <1>1, <1>2

(* A line that is written and published is the last on the wire. *)
LEMMA Published ==
  ASSUME NEW n \in Nat, NEW w \in Seq(1 .. n), NEW gaps, WireOK(w, n, gaps)
  PROVE  /\ WireOK(Append(w, n + 1), n + 1, gaps)
         /\ \A s, missed : LinesOK(s, missed, w, n, gaps) =>
                            LinesOK(s, missed, Append(w, n + 1), n + 1, gaps)
<1>1. PICK x : x = Append(w, n + 1)
  OBVIOUS
<1>2. /\ w \in Seq(1 .. n + 1) /\ Len(w) \in Nat /\ \A i \in 1 .. Len(w) : w[i] \in 1 .. n
      /\ n + 1 \in 1 .. n + 1
  BY LongerLog
<1>3. /\ x \in Seq(1 .. n + 1) /\ Len(x) = Len(w) + 1
      /\ \A i \in 1 .. Len(w) : x[i] = w[i]
      /\ x[Len(w) + 1] = n + 1
      /\ ToSet(x) = ToSet(w) \cup {n + 1}
  BY <1>1, <1>2, AppendFacts
<1>4. InOrder(x)
  <2> SUFFICES ASSUME NEW i \in 1 .. Len(x), NEW j \in 1 .. Len(x), i < j PROVE x[i] < x[j]
    BY DEF InOrder
  <2>1. i \in 1 .. Len(w)
    BY <1>2, <1>3
  <2>2. CASE j \in 1 .. Len(w)
    BY <1>3, <2>1, <2>2 DEF WireOK, InOrder
  <2>3. CASE j = Len(w) + 1
    <3>1. x[i] \in 1 .. n /\ x[j] = n + 1
      BY <1>2, <1>3, <2>1, <2>3
    <3> QED
      BY <3>1
  <2>4. j \in 1 .. Len(w) \/ j = Len(w) + 1
    <3>1. Len(w) \in Nat /\ Len(x) = Len(w) + 1
      BY <1>2, <1>3
    <3> QED
      BY <3>1
  <2> QED
    BY <2>2, <2>3, <2>4
<1>5. \A k \in x[1] .. n + 1 : k \in ToSet(x) \cup gaps
  <2> SUFFICES ASSUME NEW k \in x[1] .. n + 1, k # n + 1 PROVE k \in ToSet(x) \cup gaps
    BY <1>3
  <2>1. CASE w = <<>>
    <3>1. x[1] = n + 1
      BY <1>2, <1>3, <2>1
    <3> QED
      BY <3>1
  <2>2. CASE w # <<>>
    <3>1. 1 \in 1 .. Len(w) /\ x[1] = w[1] /\ w[1] \in 1 .. n
      BY <1>2, <1>3, <2>2
    <3>2. k \in w[1] .. n
      BY <3>1
    <3> QED
      BY <1>3, <2>2, <3>2 DEF WireOK
  <2> QED
    BY <2>1, <2>2
<1>6. ASSUME NEW s, NEW missed, LinesOK(s, missed, w, n, gaps)
      PROVE  LinesOK(s, missed, x, n + 1, gaps)
  <2>1. s \in Seq(1 .. n) /\ InOrder(s)
    BY <1>6 DEF LinesOK
  <2>2. s \in Seq(1 .. n + 1) /\ Len(s) \in Nat /\ \A i \in 1 .. Len(s) : s[i] \in 1 .. n
    BY <2>1, LongerLog
  <2>3. ASSUME NEW i \in 1 .. Len(s), NEW j \in 1 .. Len(x) PROVE s[i] < x[j]
    <3>1. CASE j \in 1 .. Len(w)
      BY <1>3, <1>6, <3>1 DEF LinesOK
    <3>2. CASE j = Len(w) + 1
      <4>1. x[j] = n + 1 /\ s[i] \in 1 .. n
        BY <1>3, <2>2, <3>2
      <4> QED
        BY <4>1
    <3> QED
      BY <1>2, <1>3, <3>1, <3>2
  <2>4. ASSUME s # <<>>, NEW k \in s[1] .. n + 1
        PROVE  k \in ToSet(s) \cup missed \cup gaps \cup ToSet(x)
    <3>1. s[1] \in 1 .. n
      BY <2>2, <2>4
    <3>2. k = n + 1 \/ k \in s[1] .. n
      BY <3>1
    <3> QED
      BY <1>3, <1>6, <2>4, <3>2 DEF LinesOK
  <2> QED
    BY <2>1, <2>2, <2>3, <2>4 DEF LinesOK
<1> QED
  BY <1>1, <1>4, <1>5, <1>6 DEF WireOK

(* A line that could not be published is a gap. *)
LEMMA Unpublished ==
  ASSUME NEW n \in Nat, NEW w \in Seq(1 .. n), NEW gaps, WireOK(w, n, gaps)
  PROVE  /\ WireOK(w, n + 1, gaps \cup {n + 1})
         /\ \A s, missed : LinesOK(s, missed, w, n, gaps) =>
                            LinesOK(s, missed, w, n + 1, gaps \cup {n + 1})
<1>1. Len(w) \in Nat /\ \A i \in 1 .. Len(w) : w[i] \in 1 .. n
  BY LongerLog
<1>2. ASSUME w # <<>>, NEW k \in w[1] .. n + 1 PROVE k \in ToSet(w) \cup (gaps \cup {n + 1})
  <2>1. w[1] \in 1 .. n
    BY <1>1, <1>2
  <2>2. k = n + 1 \/ k \in w[1] .. n
    BY <2>1
  <2> QED
    BY <1>2, <2>2 DEF WireOK
<1>3. ASSUME NEW s, NEW missed, LinesOK(s, missed, w, n, gaps)
      PROVE  LinesOK(s, missed, w, n + 1, gaps \cup {n + 1})
  <2>1. s \in Seq(1 .. n) /\ InOrder(s)
    BY <1>3 DEF LinesOK
  <2>2. s \in Seq(1 .. n + 1) /\ Len(s) \in Nat /\ \A i \in 1 .. Len(s) : s[i] \in 1 .. n
    BY <2>1, LongerLog
  <2>3. ASSUME s # <<>>, NEW k \in s[1] .. n + 1
        PROVE  k \in ToSet(s) \cup missed \cup (gaps \cup {n + 1}) \cup ToSet(w)
    <3>1. s[1] \in 1 .. n
      BY <2>2, <2>3
    <3>2. k = n + 1 \/ k \in s[1] .. n
      BY <3>1
    <3> QED
      BY <1>3, <2>3, <3>2 DEF LinesOK
  <2> QED
    BY <1>3, <2>1, <2>2, <2>3 DEF LinesOK
<1> QED
  BY <1>2, <1>3 DEF WireOK

(* The first line on the wire follows whatever a tail has, and precedes     *)
(* what is left on the wire: it may be appended, or be missed.              *)
LEMMA Delivered ==
  ASSUME NEW n \in Nat, NEW w \in Seq(1 .. n), w # <<>>, NEW gaps, WireOK(w, n, gaps)
  PROVE  /\ WireOK(Tail(w), n, gaps)
         /\ \A s, missed : LinesOK(s, missed, w, n, gaps) =>
              /\ LinesOK(Append(s, Head(w)), missed, Tail(w), n, gaps)
              /\ LinesOK(s, missed \cup {Head(w)}, Tail(w), n, gaps)
<1>1. PICK h, x : h = Head(w) /\ x = Tail(w)
  OBVIOUS
<1>2. /\ Len(w) \in Nat \ {0} /\ \A i \in 1 .. Len(w) : w[i] \in 1 .. n
      /\ x \in Seq(1 .. n) /\ Len(x) = Len(w) - 1 /\ h = w[1] /\ h \in 1 .. n
      /\ \A i \in 1 .. Len(x) : x[i] = w[i + 1]
      /\ ToSet(w) = ToSet(x) \cup {h}
  BY <1>1, LongerLog, TailFacts
<1>s. 1 \in 1 .. Len(w) /\ \A j \in 1 .. Len(x) : j + 1 \in 1 .. Len(w) /\ 1 < j + 1
  BY <1>2
<1>3. \A j \in 1 .. Len(x) : h < x[j] /\ x[j] \in 1 .. n
  <2>1. \A i, j \in 1 .. Len(w) : i < j => w[i] < w[j]
    BY DEF WireOK, InOrder
  <2> TAKE j \in 1 .. Len(x)
  <2>2. w[1] < w[j + 1] /\ w[j + 1] \in 1 .. n
    BY <1>2, <1>s, <2>1
  <2> QED
    BY <1>2, <2>2
<1>4. InOrder(x)
  <2> SUFFICES ASSUME NEW i \in 1 .. Len(x), NEW j \in 1 .. Len(x), i < j PROVE x[i] < x[j]
    BY DEF InOrder
  <2>1. i + 1 \in 1 .. Len(w) /\ j + 1 \in 1 .. Len(w) /\ i + 1 < j + 1
    BY <1>2
  <2> QED
    BY <1>2, <2>1 DEF WireOK, InOrder
<1>5. ASSUME NEW k \in h .. n PROVE k \in ToSet(x) \cup gaps \cup {h}
  BY <1>2 DEF WireOK
<1>6. ASSUME x # <<>>, NEW k \in x[1] .. n PROVE k \in ToSet(x) \cup gaps
  <2>1. h < x[1] /\ x[1] \in 1 .. n
    BY <1>2, <1>3, <1>6
  <2>2. k \in h .. n /\ k # h
    BY <1>2, <2>1
  <2> QED
    BY <1>5, <2>2
<1>7. ASSUME NEW s, NEW missed, LinesOK(s, missed, w, n, gaps)
      PROVE  LinesOK(Append(s, h), missed, x, n, gaps) /\ LinesOK(s, missed \cup {h}, x, n, gaps)
  <2>1. /\ s \in Seq(1 .. n) /\ InOrder(s) /\ Len(s) \in Nat
        /\ \A i \in 1 .. Len(s) : s[i] \in 1 .. n
    BY <1>7, LongerLog DEF LinesOK
  <2>2. \A i \in 1 .. Len(s) : s[i] < h /\ \A j \in 1 .. Len(x) : s[i] < x[j]
    <3>1. \A i \in 1 .. Len(s), j \in 1 .. Len(w) : s[i] < w[j]
      BY <1>7 DEF LinesOK
    <3> TAKE i \in 1 .. Len(s)
    <3>2. s[i] < h
      BY <1>2, <1>s, <3>1
    <3>3. ASSUME NEW j \in 1 .. Len(x) PROVE s[i] < x[j]
      <4>1. s[i] < w[j + 1] /\ x[j] = w[j + 1]
        BY <1>2, <1>s, <3>1
      <4> QED
        BY <4>1
    <3> QED
      BY <3>2, <3>3
  <2>3. ASSUME s # <<>>, NEW k \in s[1] .. n
        PROVE  k \in ToSet(s) \cup missed \cup gaps \cup ToSet(x) \cup {h}
    BY <1>2, <1>7, <2>3 DEF LinesOK
  <2>4. LinesOK(s, missed \cup {h}, x, n, gaps)
    BY <2>1, <2>2, <2>3 DEF LinesOK
  <2>5. PICK t : t = Append(s, h)
    OBVIOUS
  <2>6. /\ t \in Seq(1 .. n) /\ Len(t) = Len(s) + 1
        /\ \A i \in 1 .. Len(s) : t[i] = s[i]
        /\ t[Len(s) + 1] = h
        /\ ToSet(t) = ToSet(s) \cup {h}
    BY <1>2, <2>1, <2>5, AppendFacts
  <2>7. \A i \in 1 .. Len(t) : i \in 1 .. Len(s) \/ i = Len(s) + 1
    BY <2>1, <2>6
  <2>8. InOrder(t)
    <3> SUFFICES ASSUME NEW i \in 1 .. Len(t), NEW j \in 1 .. Len(t), i < j PROVE t[i] < t[j]
      BY DEF InOrder
    <3>1. i \in 1 .. Len(s)
      BY <2>1, <2>6
    <3>2. CASE j \in 1 .. Len(s)
      BY <2>1, <2>6, <3>1, <3>2 DEF InOrder
    <3>3. CASE j = Len(s) + 1
      BY <2>2, <2>6, <3>1, <3>3
    <3> QED
      BY <2>7, <3>2, <3>3
  <2>9. \A i \in 1 .. Len(t), j \in 1 .. Len(x) : t[i] < x[j]
    BY <1>3, <2>2, <2>6, <2>7
  <2>10. ASSUME NEW k \in t[1] .. n PROVE k \in ToSet(t) \cup missed \cup gaps \cup ToSet(x)
    <3>1. CASE s = <<>>
      <4>1. t[1] = h
        BY <2>1, <2>6, <3>1
      <4> QED
        BY <1>5, <2>6, <4>1
    <3>2. CASE s # <<>>
      <4>1. t[1] = s[1]
        BY <2>1, <2>6, <3>2
      <4> QED
        BY <2>3, <2>6, <3>2, <4>1
    <3> QED
      BY <3>1, <3>2
  <2>11. LinesOK(t, missed, x, n, gaps)
    BY <2>6, <2>8, <2>9, <2>10 DEF LinesOK
  <2> QED
    BY <2>4, <2>5, <2>11
<1> QED
  BY <1>1, <1>4, <1>6, <1>7 DEF WireOK

-----------------------------------------------------------------------------
(* The lines on the wire are lines of the log. *)
LEMMA WireTypes ==
  ASSUME IInv
  PROVE  Written \in Nat /\ Written <= MaxLines /\ wire \in Seq(1 .. Written)
<1>1. /\ Written \in Nat /\ Written <= MaxLines
      /\ wire \in Seq(1 .. MaxLines) /\ wire \in Seq(0 .. Written)
  BY DEF IInv, TypeOK, WireKnows, Written
<1>s. ASSUME NEW S, NEW s \in Seq(S) PROVE Len(s) \in Nat /\ s \in [1 .. Len(s) -> S]
  OBVIOUS
<1>2. Len(wire) \in Nat /\ wire \in [1 .. Len(wire) -> 1 .. MaxLines]
  BY <1>1, <1>s, Zenon
<1>3. wire \in [1 .. Len(wire) -> 0 .. Written]
  BY <1>1, <1>s, Zenon
<1>4. \A i \in 1 .. Len(wire) : wire[i] \in 1 .. Written
  BY <1>1, <1>2, <1>3, RunLogsAssumption
<1>5. wire \in [1 .. Len(wire) -> 1 .. Written]
  BY <1>2, <1>4
<1> QED
  BY <1>1, <1>2, <1>5

(* A write grows the wire, or the gaps, and the tails stay behind it. *)
LEMMA WriteGaps ==
  ASSUME IInv, NoGapInv, NEW kind \in Kinds, Write(kind), UNCHANGED viewers
  PROVE  NoGapInv'
<1>1. Written \in Nat /\ wire \in Seq(1 .. Written) /\ Written' = Written + 1
  BY WireTypes, WriteGrows
<1>2. \/ wire' = Append(wire, Written + 1) /\ lost' = lost
      \/ wire' = wire /\ lost' = lost \cup {Written + 1}
  BY DEF Write
<1>3. WireOK(wire, Written, lost) /\ TailsKnow
  BY DEF NoGapInv
<1>4. WireOK(wire', Written', lost')
  BY <1>1, <1>2, <1>3, Published, Unpublished
<1>5. \A s, missed : LinesOK(s, missed, wire, Written, lost) =>
                     LinesOK(s, missed, wire', Written', lost')
  <2>1. CASE wire' = Append(wire, Written + 1) /\ lost' = lost
    <3>1. \A s, missed : LinesOK(s, missed, wire, Written, lost) =>
                         LinesOK(s, missed, Append(wire, Written + 1), Written + 1, lost)
      BY <1>1, <1>3, Published
    <3> QED
      BY <1>1, <2>1, <3>1
  <2>2. CASE wire' = wire /\ lost' = lost \cup {Written + 1}
    <3>1. \A s, missed : LinesOK(s, missed, wire, Written, lost) =>
                         LinesOK(s, missed, wire, Written + 1, lost \cup {Written + 1})
      BY <1>1, <1>3, Unpublished
    <3> QED
      BY <1>1, <2>2, <3>1
  <2> QED
    BY <1>2, <2>1, <2>2
<1>6. TailsKnow'
  BY <1>3, <1>5 DEF TailsKnow, Tails, Arrived
<1> QED
  BY <1>4, <1>6 DEF NoGapInv

(* Steps that neither write nor deliver, nor concern a viewer *)
LEMMA QuietGaps ==
  ASSUME NoGapInv, UNCHANGED <<wire, lost, viewers>>, Written' = Written
  PROVE  NoGapInv'
  BY DEF NoGapInv, TailsKnow, Tails, Arrived

(* A step of one viewer's request *)
LEMMA ViewerGaps ==
  ASSUME IInv, NoGapInv, UNCHANGED <<wire, log, lost>>, NEW v \in Viewers, NEW q,
         viewers' = [viewers EXCEPT ![v] = q],
         q.step = "tail" => LinesOK(Arrived(q), q.missed, wire, Written, lost)
  PROVE  NoGapInv'
<1>1. viewers \in [Viewers -> Viewer] /\ Written' = Written
  BY DEF IInv, TypeOK, Written
<1>2. ASSUME NEW u \in Tails'
      PROVE  LinesOK(Arrived(viewers'[u]), viewers'[u].missed, wire, Written, lost)
  BY <1>1 DEF NoGapInv, TailsKnow, Tails
<1> QED
  BY <1>1, <1>2 DEF NoGapInv, TailsKnow, Arrived

LEMMA DeliverGaps == ASSUME IInv, NoGapInv, Deliver PROVE NoGapInv'
<1>1. /\ Written \in Nat /\ wire \in Seq(1 .. Written) /\ wire # <<>> /\ wire' = Tail(wire)
      /\ lost' = lost /\ Written' = Written
  BY WireTypes DEF Deliver, Written
<1>2. WireOK(wire, Written, lost) /\ TailsKnow
  BY DEF NoGapInv
<1>3. /\ WireOK(wire', Written, lost)
      /\ \A s, missed : LinesOK(s, missed, wire, Written, lost) =>
           /\ LinesOK(Append(s, Head(wire)), missed, wire', Written, lost)
           /\ LinesOK(s, missed \cup {Head(wire)}, wire', Written, lost)
  BY <1>1, <1>2, Delivered
<1>4. Tails' = Tails
  <2>1. \A v \in Viewers : viewers[v].step = "tail" =>
          Received(viewers[v], job.runner, Head(wire)).step = "tail"
    <3> SUFFICES ASSUME NEW v \in Viewers, viewers[v].step = "tail"
                 PROVE  Received(viewers[v], job.runner, Head(wire)).step = "tail"
      OBVIOUS
    <3>1. PICK q \in Tailing : q = viewers[v]
      BY TailTypes DEF IInv, TypeOK
    <3> QED
      BY <3>1 DEF Received, Tailing
  <2> QED
    BY <2>1 DEF Tails, Deliver
<1>5. ASSUME NEW v \in Tails
      PROVE  LinesOK(Arrived(viewers'[v]), viewers'[v].missed, wire', Written, lost)
  <2>1. /\ v \in Viewers /\ viewers[v].step = "tail"
        /\ viewers'[v] = Received(viewers[v], job.runner, Head(wire))
    BY DEF Tails, Deliver
  <2>2. PICK q \in Tailing : q = viewers[v]
    BY <2>1, TailTypes DEF IInv, TypeOK
  <2>3. FromExecutor(q, job.runner)
    BY <2>1, <2>2, RunLogsAssumption DEF IInv, ExecutorKnows, FromExecutor, Tailing
  <2>4. LinesOK(Arrived(q), q.missed, wire, Written, lost)
    BY <1>2, <2>2 DEF TailsKnow
  <2>5. Head(wire) \in 0 .. MaxLines
    <3>1. Head(wire) \in 1 .. Written /\ Written <= MaxLines /\ MaxLines \in Nat
      BY <1>1, HeadAndTail, WireTypes, RunLogsAssumption
    <3> QED
      BY <1>1, <3>1
  <2>6. CASE HasRoom(q)
    <3>1. PICK longer : longer = Append(q.buf, Head(wire))
      OBVIOUS
    <3>2. viewers'[v] = [q EXCEPT !.buf = longer]
      BY <2>1, <2>2, <2>3, <2>6, <3>1 DEF Received
    <3>3. /\ viewers'[v].seen = q.seen /\ viewers'[v].missed = q.missed
          /\ viewers'[v].buf = longer
      BY <3>2 DEF Tailing
    <3>4. Arrived(viewers'[v]) = Append(Arrived(q), Head(wire))
      BY <2>5, <3>1, <3>3, ArrivedAppends DEF Arrived, Tailing
    <3> QED
      BY <1>3, <2>4, <3>3, <3>4
  <2>7. CASE ~HasRoom(q)
    <3>1. PICK missed : missed = q.missed \cup {Head(wire)}
      OBVIOUS
    <3>2. viewers'[v] = [q EXCEPT !.missed = missed]
      BY <2>1, <2>2, <2>3, <2>7, <3>1 DEF Received
    <3>3. /\ viewers'[v].seen = q.seen /\ viewers'[v].buf = q.buf
          /\ viewers'[v].missed = missed
      BY <3>2 DEF Tailing
    <3> QED
      BY <1>3, <2>4, <3>1, <3>3 DEF Arrived
  <2> QED
    BY <2>6, <2>7
<1> QED
  BY <1>1, <1>3, <1>4, <1>5 DEF NoGapInv, TailsKnow, Arrived

(* A tail takes nothing from a worker of another runner. *)
LEMMA StrayGaps == ASSUME IInv, NoGapInv, NEW r \in Runners, DeliverStray(r) PROVE NoGapInv'
<1>1. ASSUME NEW v \in Viewers PROVE viewers'[v] = viewers[v]
  <2>1. CASE v \in Tails
    <3>1. viewers[v].runner = job.runner
      <4>1. viewers[v] \in Tailing
        BY <2>1, TailTypes DEF IInv, TypeOK, Tails
      <4> QED
        BY <2>1, <4>1, RunLogsAssumption DEF IInv, ExecutorKnows, Tails, Tailing
    <3> QED
      BY <2>1, <3>1 DEF DeliverStray, Received, FromExecutor
  <2>2. CASE v \notin Tails
    BY <2>2 DEF DeliverStray
  <2> QED
    BY <2>1, <2>2
<1>2. viewers' = viewers
  BY <1>1 DEF IInv, TypeOK, DeliverStray
<1> QED
  BY <1>2, QuietGaps DEF DeliverStray, workerVars, Written

LEMMA ServeGaps == ASSUME IInv, NoGapInv, NEW v \in Viewers, Serve(v) PROVE NoGapInv'
<1>1. viewers \in [Viewers -> Viewer]
  BY DEF IInv, TypeOK
<1>2. ASSUME NEW q, To(v, q), q.step # "tail" PROVE NoGapInv'
  BY <1>2, ViewerGaps DEF To, workerVars
<1>3. CASE Ask(v) \/ FindLog(v) \/ ServeLog(v) \/ Refuse(v) \/ EndTail(v)
  <2>1. \A status, runner : [step |-> "asked", status |-> status, runner |-> runner].step # "tail"
    OBVIOUS
  <2>2. \A lines : [step |-> "served", lines |-> lines].step # "tail"
    OBVIOUS
  <2>3. Idle.step # "tail" /\ [step |-> "found"].step # "tail"
    BY DEF Idle
  <2> QED
    BY <1>2, <1>3, <2>1, <2>2, <2>3 DEF Ask, FindLog, ServeLog, Refuse, EndTail
<1>4. CASE Subscribe(v)
  <2>1. PICK q : q = [step |-> "tail", runner |-> viewers[v].runner, buf |-> <<>>, seen |-> <<>>,
                      missed |-> {}]
    OBVIOUS
  <2>2. Arrived(q) = <<>>
    BY <2>1 DEF Arrived
  <2>3. LinesOK(<<>>, q.missed, wire, Written, lost)
    BY DEF LinesOK, InOrder
  <2>4. To(v, q)
    BY <1>4, <2>1 DEF Subscribe
  <2> QED
    BY <2>2, <2>3, <2>4, ViewerGaps DEF To, workerVars
<1>5. CASE Relay(v)
  <2>1. PICK q \in Tailing : q = viewers[v]
    BY <1>1, <1>5, TailTypes DEF Relay
  <2>2. q.buf # <<>> /\ q.buf \in Seq(0 .. MaxLines) /\ q.seen \in Seq(0 .. MaxLines)
    BY <1>5, <2>1 DEF Relay, Tailing
  <2>3. PICK buf, seen : buf = Tail(q.buf) /\ seen = Append(q.seen, Head(q.buf))
    OBVIOUS
  <2>4. PICK r : r = [q EXCEPT !.seen = seen, !.buf = buf]
    OBVIOUS
  <2>5. r.seen = seen /\ r.buf = buf /\ r.missed = q.missed
    BY <2>4 DEF Tailing
  <2>6. viewers' = [viewers EXCEPT ![v] = r]
    BY <1>1, <1>5, <2>1, <2>3, <2>4 DEF Relay
  <2>7. Arrived(r) = Arrived(q)
    <3>1. Append(q.seen, Head(q.buf)) \o Tail(q.buf) = q.seen \o q.buf
      BY <2>2, ArrivedShifts
    <3> QED
      BY <2>3, <2>5, <3>1 DEF Arrived
  <2>8. LinesOK(Arrived(r), r.missed, wire, Written, lost)
    BY <1>5, <2>1, <2>5, <2>7 DEF NoGapInv, TailsKnow, Tails, Relay
  <2> QED
    BY <1>5, <2>6, <2>8, ViewerGaps DEF Relay, workerVars
<1> QED
  BY <1>3, <1>4, <1>5 DEF Serve

LEMMA PlayGaps ==
  ASSUME IInv, NoGapInv, Play \/ Report \/ Expire \/ DeleteLog
  PROVE  NoGapInv'
<1>1. \/ \E kind \in Kinds : Write(kind) /\ UNCHANGED viewers
      \/ UNCHANGED <<wire, lost, viewers>> /\ Written' = Written
  <2>1. "record" \in Kinds /\ "raw" \in Kinds /\ "late" \in Kinds
    BY DEF Kinds
  <2>2. CASE Play
    <3>1. CASE WriteRaw
      <4>1. log \in [lines : Seq(Kinds), rawWrites : BOOLEAN]
        BY DEF IInv, TypeOK
      <4>2. log'.lines = log.lines
        BY <3>1, <4>1 DEF WriteRaw
      <4> QED
        BY <3>1, <4>2 DEF WriteRaw, Written, viewVars
    <3>2. CASE PlayEnds
      BY <3>2 DEF PlayEnds, Written, viewVars
    <3>3. CASE \E r \in Executors : Claim(r)
      BY <3>3 DEF Claim, Written, viewVars
    <3>4. CASE \E kind \in Kinds : ProbeLogs(kind)
      BY <3>4 DEF ProbeLogs, viewVars
    <3>5. CASE WriteRawContinues \/ ProbeReturns \/ LateRecord
      BY <2>1, <3>5 DEF WriteRawContinues, ProbeReturns, LateRecord, viewVars
    <3> QED
      BY <2>2, <3>1, <3>2, <3>3, <3>4, <3>5 DEF Play
  <2>3. CASE Report
    BY <2>3 DEF Report, PostLog, PostStatus, PostFails, Posted, Written, viewVars
  <2>4. CASE Expire \/ DeleteLog
    BY <2>4 DEF Expire, DeleteLog, workerVars, viewVars, Written
  <2> QED
    BY <2>2, <2>3, <2>4
<1> QED
  BY <1>1, WriteGaps, QuietGaps

(* A tail shows the log's lines in order, none twice and none of another    *)
(* runner's workers; every line it lacks is one TailRunLogs dropped because *)
(* the tail was behind, or one that Write could not publish.                *)
THEOREM TailsHaveNoGaps == Spec => []TailHasNoGaps
<1>1. Init => NoGapInv
  BY DEF Init, NoGapInv, WireOK, InOrder, TailsKnow, Tails, Idle
<1>2. IInv /\ NoGapInv /\ [Next]_vars => NoGapInv'
  <2> SUFFICES ASSUME IInv, NoGapInv, [Next]_vars PROVE NoGapInv'
    OBVIOUS
  <2>1. CASE Next
    BY <2>1, PlayGaps, DeliverGaps, StrayGaps, ServeGaps DEF Next
  <2>2. CASE UNCHANGED vars
    BY <2>2, QuietGaps DEF vars, workerVars, viewVars, Written
  <2> QED
    BY <2>1, <2>2
<1>3. ASSUME IInv, NoGapInv PROVE TailHasNoGaps
  <2> SUFFICES ASSUME NEW v \in Tails, NEW s, s = Arrived(viewers[v])
               PROVE  /\ Stray \notin ToSet(s)
                      /\ \A i \in 1 .. Len(s) - 1 : s[i] < s[i + 1]
                      /\ s # <<>> => \A n \in s[1] .. s[Len(s)] :
                           n \in ToSet(s) \cup viewers[v].missed \cup lost
    BY DEF TailHasNoGaps
  <2>1. LinesOK(s, viewers[v].missed, wire, Written, lost)
    BY <1>3 DEF NoGapInv, TailsKnow
  <2>2. /\ s \in Seq(1 .. Written) /\ Written \in Nat /\ Len(s) \in Nat
        /\ \A i \in 1 .. Len(s) : s[i] \in 1 .. Written
    BY <1>3, <2>1, WireTypes, LongerLog DEF LinesOK
  <2>3. Stray \notin ToSet(s)
    BY <2>2, MembersAre DEF Stray
  <2>4. \A i \in 1 .. Len(s) - 1 : s[i] < s[i + 1]
    BY <2>1, <2>2 DEF LinesOK, InOrder
  <2>5. ASSUME s # <<>>, NEW n \in s[1] .. s[Len(s)]
        PROVE  n \in ToSet(s) \cup viewers[v].missed \cup lost
    <3>1. Len(s) \in 1 .. Len(s) /\ 1 \in 1 .. Len(s)
      BY <2>2, <2>5
    <3>2. n \in s[1] .. Written /\ n <= s[Len(s)] /\ s[Len(s)] \in Nat
      BY <2>2, <3>1
    <3>3. n \notin ToSet(wire)
      <4>1. wire \in Seq(1 .. Written)
        BY <1>3, WireTypes
      <4>2. \A j \in 1 .. Len(wire) : s[Len(s)] < wire[j]
        BY <2>1, <3>1 DEF LinesOK
      <4>3. \A j \in 1 .. Len(wire) : wire[j] # n
        BY <2>2, <3>2, <4>1, <4>2
      <4> QED
        BY <4>1, <4>3, MembersAre
    <3> QED
      BY <2>1, <2>5, <3>2, <3>3 DEF LinesOK
  <2> QED
    BY <2>3, <2>4, <2>5
<1>4. Spec => []NoGapInv
  BY <1>1, <1>2, IInvHolds, PTL DEF Spec
<1> QED
  BY <1>3, <1>4, IInvHolds, PTL
=============================================================================
