------------------------- MODULE ControlLoopsProofs -------------------------
(***************************************************************************)
(* Theorems about ControlLoops, for any processes, loops and runners and   *)
(* any number of faults.                                                   *)
(*                                                                         *)
(* The lease is the argument: a scan that is within its lease is the one   *)
(* the row names (ScansHoldTheirLease), and a live row names a scan, a     *)
(* process that died, or one that is on record as unable to give it back   *)
(* (LeasesAreAccounted).  What a scan owes shrinks with what it has yet to *)
(* look at (ScansKnow).                                                    *)
(***************************************************************************)
EXTENDS ControlLoops, TLAPS

(* A scan that has not outlasted its lease has it. *)
ScansHoldTheirLease ==
  \A p \in Procs : InScan(p) /\ ~scan[p].overran => lease.live /\ lease.holder = p

(* Whose a lease that is live may be. *)
LeasesAreAccounted ==
  \A p \in Procs :
    lease.live /\ lease.holder = p => InScan(p) \/ p \in left \/ phase[p] = "killed"

(* A scan without a failure owes only runners that are active, of those     *)
(* only the ones it has listed, and none once it is past them.              *)
Knows(s) ==
  /\ s.owed \subseteq active
  /\ s.stage = "restoring" => s.pass = 1 /\ (~s.failed => s.owed \subseteq s.targets)
  /\ s.stage = "scanning" /\ s.pass > 1 /\ ~s.failed => s.owed = {}

ScansKnow == \A p \in Procs : Knows(scan[p])

IInv ==
  /\ TypeOK
  /\ ScansHoldTheirLease
  /\ LeasesAreAccounted
  /\ ScansKnow

-----------------------------------------------------------------------------
(* There are three passes, and the runners' queues are the second. *)
LEMMA PassOrder ==
  /\ Len(Passes) = 3 /\ 0 .. Len(Passes) = 0 .. 3
  /\ Passes[1] # "runner channels" /\ Passes[2] = "runner channels"
  /\ Passes[3] # "runner channels"
BY DEF Passes

(* A wait stays within its bounds when it is doubled. *)
LEMMA DoubledIsBounded ==
  ASSUME NEW backoff \in MinBackoff .. MaxBackoff
  PROVE  Doubled(backoff) \in MinBackoff .. MaxBackoff
BY LoopsAssumption DEF Doubled

(* What supervise leaves of a loop that returned is a loop. *)
LEMMA AfterRunTypes ==
  ASSUME TypeOK, NEW p \in Procs, NEW l \in Loops, NEW long \in BOOLEAN
  PROVE  /\ AfterRun(p, l, long) \in Loop
         /\ AfterRun(p, l, long).backoff \in MinBackoff .. MaxBackoff
         /\ AfterRun(p, l, long).state # "absent"
<1> DEFINE loop == loops[p][l]
<1>1. loop \in Loop /\ loop.backoff \in MinBackoff .. MaxBackoff
  BY DEF TypeOK
<1>2. CASE phase[p] # "up"
  BY <1>1, <1>2 DEF AfterRun, Loop
<1>3. CASE phase[p] = "up"
  <2>1. PICK wait \in MinBackoff .. MaxBackoff :
          AfterRun(p, l, long) = [loop EXCEPT !.state = "waiting", !.backoff = wait]
    <3>1. MinBackoff \in MinBackoff .. MaxBackoff
      BY LoopsAssumption
    <3> QED
      BY <1>1, <1>3, <3>1, Zenon DEF AfterRun
  <2>2. wait \in Nat
    BY LoopsAssumption
  <2> QED
    BY <1>1, <2>1, <2>2 DEF Loop
<1> QED
  BY <1>2, <1>3

(* The initial state has the invariant. *)
LEMMA InitIInv == Init => IInv
<1> SUFFICES ASSUME Init PROVE IInv
  OBVIOUS
<1>1. Absent \in Loop /\ Absent.backoff \in MinBackoff .. MaxBackoff
  BY LoopsAssumption DEF Absent, Loop
<1>2. NoScan \in Scan
  <2>1. 0 \in 0 .. 3
    OBVIOUS
  <2> QED
    BY <2>1, PassOrder, Zenon DEF NoScan, Scan, Stages
<1>3. TypeOK
  BY <1>1, <1>2, LoopsAssumption DEF Init, TypeOK, Phases, Lease, NoScan
<1> QED
  BY <1>3, LoopsAssumption
  DEF Init, IInv, ScansHoldTheirLease, LeasesAreAccounted, ScansKnow, Knows, InScan, NoScan

-----------------------------------------------------------------------------
(* What the Manager does to the loops of a process that is not in a scan,   *)
(* and to its phase, is no business of the lease.                           *)
LEMMA LoopsChange ==
  ASSUME IInv, NEW p \in Procs,
         phase' \in [Procs -> Phases], loops' \in [Procs -> [Loops -> Loop]],
         faults' \in 0 .. MaxFaults,
         UNCHANGED <<scan, lease, left, active, queues>>,
         \A q \in Procs \ {p} : phase'[q] = phase[q] /\ loops'[q] = loops[q],
         \A l \in Loops : loops'[p][l].backoff \in MinBackoff .. MaxBackoff,
         scan[p].stage # "idle" =>
           phase'[p] \in {"up", "stopping"} /\ loops'[p][Reconciler].state = "running",
         phase[p] = "killed" => phase'[p] = "killed"
  PROVE  IInv'
<1>1. TypeOK'
  BY DEF IInv, TypeOK
<1>2. ScansHoldTheirLease'
  BY DEF IInv, ScansHoldTheirLease, InScan
<1>3. LeasesAreAccounted'
  BY DEF IInv, LeasesAreAccounted, InScan
<1>4. ScansKnow'
  BY DEF IInv, ScansKnow, Knows
<1> QED
  BY <1>1, <1>2, <1>3, <1>4 DEF IInv

LEMMA ManagerSteps ==
  ASSUME IInv, NEW p \in Procs,
         \/ \E enabled \in SUBSET Loops : Register(p, enabled)
         \/ Start(p)
         \/ Supervise(p)
         \/ Shutdown(p)
  PROVE  IInv'
<1> USE LoopsAssumption
<1>t. TypeOK
  BY DEF IInv
<1>a. Absent \in Loop /\ Absent.backoff \in MinBackoff .. MaxBackoff
  BY DEF Absent, Loop
<1>1. ASSUME NEW enabled \in SUBSET Loops, Register(p, enabled) PROVE IInv'
  <2>1. \A l \in Loops : loops'[p][l] \in Loop /\ loops'[p][l].backoff \in MinBackoff .. MaxBackoff
    BY <1>1, <1>t, <1>a DEF Register, TypeOK, Absent, Loop
  <2>2. loops' \in [Procs -> [Loops -> Loop]]
    BY <1>1, <1>t, <1>a DEF Register, TypeOK, Absent, Loop
  <2>3. phase' \in [Procs -> Phases] /\ phase[p] = "new" /\ faults' \in 0 .. MaxFaults
    BY <1>1, <1>t DEF Register, MayAdd, TypeOK, Phases
  <2>4. scan[p].stage = "idle"
    BY <1>t, <2>3 DEF TypeOK
  <2> QED
    BY <1>1, <1>t, <2>1, <2>2, <2>3, <2>4, LoopsChange DEF Register, TypeOK
<1>2. ASSUME Start(p) PROVE IInv'
  <2>1. \A l \in Loops : loops'[p][l] \in Loop /\ loops'[p][l].backoff \in MinBackoff .. MaxBackoff
    <3> SUFFICES ASSUME NEW l \in Loops
                 PROVE  loops'[p][l] \in Loop /\ loops'[p][l].backoff \in MinBackoff .. MaxBackoff
      OBVIOUS
    <3>1. loops[p][l] \in Loop /\ loops[p][l].backoff \in MinBackoff .. MaxBackoff
      BY <1>t DEF TypeOK
    <3>2. loops'[p][l] = IF loops[p][l].state = "registered"
                           THEN [loops[p][l] EXCEPT !.state = "running"] ELSE loops[p][l]
      BY <1>2, <1>t DEF Start, TypeOK
    <3> QED
      BY <3>1, <3>2 DEF Loop
  <2>2. loops' \in [Procs -> [Loops -> Loop]]
    BY <1>2, <1>t DEF Start, TypeOK, Loop
  <2>3. phase' \in [Procs -> Phases] /\ phase[p] = "composed" /\ faults' \in 0 .. MaxFaults
    BY <1>2, <1>t DEF Start, TypeOK, Phases
  <2>4. scan[p].stage = "idle"
    BY <1>t, <2>3 DEF TypeOK
  <2> QED
    BY <1>2, <1>t, <2>1, <2>2, <2>3, <2>4, LoopsChange DEF Start, TypeOK
<1>3. ASSUME NEW l \in Loops, Returns(p, l) PROVE IInv'
  <2>1. PICK long \in BOOLEAN : loops' = [loops EXCEPT ![p][l] = AfterRun(p, l, long)]
    BY <1>3 DEF Returns
  <2>2. /\ AfterRun(p, l, long) \in Loop
        /\ AfterRun(p, l, long).backoff \in MinBackoff .. MaxBackoff
    BY <1>t, AfterRunTypes
  <2>3. phase' \in [Procs -> Phases] /\ phase[p] = "up" /\ faults' \in 0 .. MaxFaults
    BY <1>3, <1>t DEF Returns, TypeOK, Phases, Fault
  <2>4. l = Reconciler => scan[p].stage = "idle"
    BY <1>3 DEF Returns
  <2>5. loops' \in [Procs -> [Loops -> Loop]]
    BY <1>t, <2>1, <2>2 DEF TypeOK
  <2>6. \A m \in Loops : loops'[p][m].backoff \in MinBackoff .. MaxBackoff
    BY <1>t, <2>1, <2>2 DEF TypeOK
  <2>7. scan[p].stage # "idle" => loops'[p][Reconciler] = loops[p][Reconciler]
    BY <1>t, <2>1, <2>4 DEF TypeOK
  <2> QED
    BY <1>3, <1>t, <2>1, <2>3, <2>5, <2>6, <2>7, LoopsChange DEF Returns, TypeOK
<1>4. ASSUME NEW l \in Loops, Restarts(p, l) PROVE IInv'
  <2> DEFINE loop == [loops[p][l] EXCEPT !.state = "running", !.backoff = Doubled(@)]
  <2>1. loops' = [loops EXCEPT ![p][l] = loop]
    BY <1>4, <1>t DEF Restarts, TypeOK
  <2>2. loop \in Loop /\ loop.backoff \in MinBackoff .. MaxBackoff /\ loop.state = "running"
    <3>1. loops[p][l] \in Loop /\ loops[p][l].backoff \in MinBackoff .. MaxBackoff
      BY <1>t DEF TypeOK
    <3>2. Doubled(loops[p][l].backoff) \in MinBackoff .. MaxBackoff
      BY <3>1, DoubledIsBounded
    <3>3. Doubled(loops[p][l].backoff) \in Nat
      BY <3>2
    <3> QED
      BY <3>1, <3>2, <3>3 DEF Loop
  <2>3. loops' \in [Procs -> [Loops -> Loop]]
    BY <1>t, <2>1, <2>2 DEF TypeOK
  <2>4. \A m \in Loops : loops'[p][m].backoff \in MinBackoff .. MaxBackoff
    BY <1>t, <2>1, <2>2 DEF TypeOK
  <2>5. loops[p][Reconciler].state = "running" => loops'[p][Reconciler].state = "running"
    BY <1>t, <2>1, <2>2 DEF TypeOK
  <2> QED
    BY <1>4, <1>t, <2>1, <2>3, <2>4, <2>5, LoopsChange DEF Restarts, TypeOK
<1>5. ASSUME NEW l \in Loops, Ends(p, l) PROVE IInv'
  <2> DEFINE loop == [loops[p][l] EXCEPT !.state = "ended"]
  <2>1. loops' = [loops EXCEPT ![p][l] = loop]
    BY <1>5, <1>t DEF Ends, TypeOK
  <2>2. loop \in Loop /\ loop.backoff \in MinBackoff .. MaxBackoff
    BY <1>t DEF TypeOK, Loop
  <2>3. loops' \in [Procs -> [Loops -> Loop]]
    BY <1>t, <2>1, <2>2 DEF TypeOK
  <2>4. \A m \in Loops : loops'[p][m].backoff \in MinBackoff .. MaxBackoff
    BY <1>t, <2>1, <2>2 DEF TypeOK
  <2>5. scan[p].stage # "idle" => loops'[p][Reconciler] = loops[p][Reconciler]
    BY <1>5, <1>t, <2>1 DEF Ends, TypeOK
  <2> QED
    BY <1>5, <1>t, <2>1, <2>3, <2>4, <2>5, LoopsChange DEF Ends, TypeOK
<1>6. ASSUME Stopped(p) PROVE IInv'
  <2>1. loops[p][Reconciler].state # "running"
    BY <1>6 DEF Stopped
  <2>2. phase' \in [Procs -> Phases]
    BY <1>6, <1>t DEF Stopped, TypeOK, Phases
  <2> QED
    BY <1>6, <1>t, <2>1, <2>2, LoopsChange DEF Stopped, TypeOK
<1>7. ASSUME Shutdown(p) PROVE IInv'
  <2>1. phase' \in [Procs -> Phases]
    BY <1>7, <1>t DEF Shutdown, TypeOK, Phases
  <2> QED
    BY <1>7, <1>t, <2>1, LoopsChange DEF Shutdown, TypeOK
<1> QED
  BY <1>1, <1>2, <1>3, <1>4, <1>5, <1>6, <1>7 DEF Supervise

-----------------------------------------------------------------------------
(* A scan that goes on keeps its lease or the lack of it. *)
LEMMA ScanGoesOn ==
  ASSUME IInv, NEW p \in Procs, NEW s \in Scan,
         scan' = [scan EXCEPT ![p] = s],
         InScan(p), s.stage \in {"scanning", "restoring", "releasing"},
         s.overran = scan[p].overran, Knows(s), faults' \in 0 .. MaxFaults,
         UNCHANGED <<phase, loops, lease, left, active, queues>>
  PROVE  IInv'
<1>1. TypeOK'
  BY DEF IInv, TypeOK, InScan
<1>2. ScansHoldTheirLease'
  BY DEF IInv, TypeOK, ScansHoldTheirLease, InScan
<1>3. LeasesAreAccounted'
  BY DEF IInv, TypeOK, LeasesAreAccounted, InScan
<1>4. ScansKnow'
  BY DEF IInv, TypeOK, ScansKnow, Knows
<1> QED
  BY <1>1, <1>2, <1>3, <1>4 DEF IInv

LEMMA PassSteps ==
  ASSUME IInv, NEW p \in Procs,
         \/ OtherPass(p) \/ ListRunners(p) \/ RunnersDone(p) \/ Record(p) \/ ScanPanics(p)
         \/ \E r \in Runners : RestoreFails(p, r)
  PROVE  IInv'
<1> USE LoopsAssumption
<1> DEFINE s == scan[p]
<1>t. TypeOK /\ s \in Scan /\ Knows(s) /\ faults \in 0 .. MaxFaults
  BY DEF IInv, TypeOK, ScansKnow
<1>p. s.pass \in 0 .. 3
  BY <1>t, PassOrder DEF Scan
<1>q. ASSUME Passing(p)
      PROVE  s.stage = "scanning" /\ s.pass \in {0, 1, 2} /\ (s.pass = 1 <=> Pass(p) = "runner channels")
  <2>1. s.stage = "scanning" /\ s.pass \in {0, 1, 2}
    BY <1>q, <1>p DEF Passing, Passes
  <2>2. s.pass = 0 => Pass(p) = Passes[1]
    BY DEF Pass
  <2>3. s.pass = 1 => Pass(p) = Passes[2]
    BY DEF Pass
  <2>4. s.pass = 2 => Pass(p) = Passes[3]
    BY DEF Pass
  <2> QED
    BY <2>1, <2>2, <2>3, <2>4, PassOrder
<1>f. Fault => faults' \in 0 .. MaxFaults
  BY <1>t DEF Fault
<1>1. ASSUME OtherPass(p) PROVE IInv'
  <2>1. PICK failed \in BOOLEAN :
          scan' = [scan EXCEPT ![p] = [s EXCEPT !.pass = @ + 1, !.failed = @ \/ failed]]
    BY <1>1 DEF OtherPass
  <2> DEFINE t == [s EXCEPT !.pass = @ + 1, !.failed = @ \/ failed]
  <2>2. s.stage = "scanning" /\ s.pass \in {0, 2}
    BY <1>1, <1>q DEF OtherPass
  <2>3. s.pass + 1 \in 0 .. 3
    BY <2>2
  <2>4. t \in Scan
    BY <1>t, <2>3, PassOrder DEF Scan
  <2>5. Knows(t)
    BY <1>t, <2>2 DEF Scan, Knows
  <2>6. faults' \in 0 .. MaxFaults
    BY <1>1, <1>t, <1>f DEF OtherPass
  <2>7. t.stage = s.stage /\ t.overran = s.overran
    BY <1>t DEF Scan
  <2> QED
    BY <1>1, <2>1, <2>2, <2>4, <2>5, <2>6, <2>7, ScanGoesOn DEF OtherPass, InScan
<1>2. ASSUME ListRunners(p) PROVE IInv'
  <2>1. s.stage = "scanning" /\ s.pass = 1
    BY <1>2, <1>q DEF ListRunners
  <2>2. faults' \in 0 .. MaxFaults
    BY <1>2, <1>t, <1>f DEF ListRunners
  <2>3. ASSUME scan' = [scan EXCEPT ![p].stage = "restoring", ![p].targets = active] PROVE IInv'
    <3> DEFINE t == [s EXCEPT !.stage = "restoring", !.targets = active]
    <3>1. scan' = [scan EXCEPT ![p] = t]
      BY <2>3
    <3>2. t \in Scan
      BY <1>t DEF Scan, Stages, TypeOK
    <3>3. Knows(t)
      BY <1>t, <2>1 DEF Scan, Knows
    <3> QED
      BY <1>2, <1>t, <2>1, <2>2, <3>1, <3>2, <3>3, ScanGoesOn DEF ListRunners, InScan, Scan
  <2>4. ASSUME scan' = [scan EXCEPT ![p].pass = @ + 1, ![p].failed = TRUE] PROVE IInv'
    <3> DEFINE t == [s EXCEPT !.pass = @ + 1, !.failed = TRUE]
    <3>1. scan' = [scan EXCEPT ![p] = t]
      BY <2>4
    <3>2. s.pass + 1 \in 0 .. 3
      BY <2>1
    <3>3. t \in Scan
      BY <1>t, <3>2, PassOrder DEF Scan
    <3>4. Knows(t)
      BY <1>t, <2>1 DEF Scan, Knows
    <3> QED
      BY <1>2, <1>t, <2>1, <2>2, <3>1, <3>3, <3>4, ScanGoesOn DEF ListRunners, InScan, Scan
  <2> QED
    BY <1>2, <2>3, <2>4 DEF ListRunners
<1>3. ASSUME RunnersDone(p) PROVE IInv'
  <2> DEFINE t == [s EXCEPT !.stage = "scanning", !.pass = @ + 1]
  <2>1. s.stage = "restoring" /\ s.pass = 1 /\ s.targets = {}
    BY <1>3, <1>t DEF RunnersDone, Knows
  <2>2. s.pass + 1 \in 0 .. 3
    BY <2>1
  <2>3. t \in Scan
    BY <1>t, <2>2, PassOrder DEF Scan, Stages
  <2>4. Knows(t)
    BY <1>t, <2>1 DEF Scan, Knows
  <2>5. scan' = [scan EXCEPT ![p] = t]
    BY <1>3 DEF RunnersDone
  <2> QED
    BY <1>3, <1>t, <2>1, <2>3, <2>4, <2>5, ScanGoesOn DEF RunnersDone, InScan, Scan
<1>4. ASSUME Record(p) PROVE IInv'
  <2> DEFINE t == [s EXCEPT !.stage = "releasing"]
  <2>1. t \in Scan
    BY <1>t DEF Scan, Stages
  <2>2. Knows(t)
    BY <1>t DEF Scan, Knows
  <2>3. scan' = [scan EXCEPT ![p] = t]
    BY <1>4 DEF Record
  <2> QED
    BY <1>4, <1>t, <2>1, <2>2, <2>3, ScanGoesOn DEF Record, InScan, Scan
<1>5. ASSUME ScanPanics(p) PROVE IInv'
  <2> DEFINE t == [s EXCEPT !.stage = "releasing", !.panicked = TRUE]
  <2>1. t \in Scan
    BY <1>t DEF Scan, Stages
  <2>2. Knows(t)
    BY <1>t DEF Scan, Knows
  <2>3. scan' = [scan EXCEPT ![p] = t]
    BY <1>5 DEF ScanPanics
  <2> QED
    BY <1>5, <1>t, <1>f, <2>1, <2>2, <2>3, ScanGoesOn DEF ScanPanics, InScan, Scan
<1>6. ASSUME NEW r \in Runners, RestoreFails(p, r) PROVE IInv'
  <2> DEFINE t == [s EXCEPT !.targets = @ \ {r}, !.failed = TRUE]
  <2>1. t \in Scan
    BY <1>t DEF Scan, Stages
  <2>2. Knows(t)
    BY <1>t DEF Scan, Knows
  <2>3. scan' = [scan EXCEPT ![p] = t]
    BY <1>6 DEF RestoreFails
  <2>4. faults' \in 0 .. MaxFaults
    BY <1>6, <1>t, <1>f DEF RestoreFails
  <2> QED
    BY <1>6, <1>t, <2>1, <2>2, <2>3, <2>4, ScanGoesOn DEF RestoreFails, InScan, Scan
<1> QED
  BY <1>1, <1>2, <1>3, <1>4, <1>5, <1>6

-----------------------------------------------------------------------------
(* A scan that begins while no other holds the lease begins with it. *)
LEMMA ScanBeginsSafely ==
  ASSUME IInv, NEW p \in Procs, ScanBegins(p),
         phase[p] = "up", loops[p][Reconciler].state = "running",
         \A q \in Procs \ {p} : ~(lease.live /\ lease.holder = q),
         UNCHANGED <<phase, loops, left, active, queues, faults>>
  PROVE  IInv'
<1> DEFINE s == [NoScan EXCEPT !.stage = "scanning", !.owed = Missing]
<1>0. scan' = [scan EXCEPT ![p] = s] /\ lease' = [holder |-> p, live |-> TRUE]
  BY DEF ScanBegins
<1>t. TypeOK
  BY DEF IInv
<1>1. s \in Scan /\ s.stage = "scanning" /\ ~s.overran /\ s.pass = 0 /\ s.owed \subseteq active
  <2>1. 0 \in 0 .. Len(Passes)
    BY DEF Passes
  <2>2. Missing \subseteq active /\ Missing \subseteq Runners
    BY <1>t DEF Missing, TypeOK
  <2> QED
    BY <2>1, <2>2 DEF NoScan, Scan, Stages
<1>2. Knows(s)
  BY <1>1 DEF Knows
<1>3. TypeOK'
  BY <1>0, <1>1, <1>t DEF TypeOK, Lease
<1>4. ScansHoldTheirLease'
  BY <1>0, <1>1, <1>t DEF IInv, TypeOK, ScansHoldTheirLease, InScan
<1>5. LeasesAreAccounted'
  BY <1>0, <1>1, <1>t DEF IInv, TypeOK, LeasesAreAccounted, InScan
<1>6. ScansKnow'
  BY <1>0, <1>2, <1>t DEF IInv, TypeOK, ScansKnow, Knows
<1> QED
  BY <1>3, <1>4, <1>5, <1>6 DEF IInv

LEMMA AcquireSteps ==
  ASSUME IInv, NEW p \in Procs, TakeLease(p) \/ CreateLease(p) \/ AcquireFails(p)
  PROVE  IInv'
<1> USE LoopsAssumption
<1>t. TypeOK /\ NoScan \in Scan /\ NoScan.stage = "idle" /\ NoScan.owed = {}
  <2>1. 0 \in 0 .. Len(Passes)
    BY DEF Passes
  <2> QED
    BY <2>1 DEF IInv, NoScan, Scan, Stages
<1>n. Knows(NoScan)
  BY <1>t DEF Knows
<1>1. ASSUME TakeLease(p) PROVE IInv'
  <2>1. CASE Available(p)
    BY <1>1, <2>1, ScanBeginsSafely DEF TakeLease, MayAsk, Available
  <2>2. CASE ~Available(p)
    <3> DEFINE s == [scan[p] EXCEPT !.stage = "creating"]
    <3>1. scan' = [scan EXCEPT ![p] = s] /\ scan[p].stage = "idle"
      BY <1>1, <2>2 DEF TakeLease
    <3>2. s \in Scan /\ s.stage = "creating" /\ Knows(s)
      BY <1>t DEF IInv, TypeOK, Scan, Stages, ScansKnow, Knows
    <3>3. TypeOK'
      BY <1>1, <1>t, <2>2, <3>1, <3>2 DEF TakeLease, MayAsk, TypeOK
    <3>4. ScansHoldTheirLease' /\ LeasesAreAccounted'
      BY <1>1, <1>t, <2>2, <3>1, <3>2
      DEF TakeLease, IInv, TypeOK, ScansHoldTheirLease, LeasesAreAccounted, InScan
    <3>5. ScansKnow'
      BY <1>1, <1>t, <2>2, <3>1, <3>2 DEF TakeLease, IInv, TypeOK, ScansKnow, Knows
    <3> QED
      BY <3>3, <3>4, <3>5 DEF IInv
  <2> QED
    BY <2>1, <2>2
<1>2. ASSUME CreateLease(p) PROVE IInv'
  <2>0. loops[p][Reconciler].state = "running" /\ phase[p] = "up" /\ scan[p].stage = "creating"
    BY <1>2, <1>t DEF CreateLease, MayAsk, TypeOK
  <2>1. CASE lease.holder = NoProc
    BY <1>2, <2>0, <2>1, ScanBeginsSafely DEF CreateLease
  <2>2. CASE lease.holder # NoProc
    <3>1. scan' = [scan EXCEPT ![p] = NoScan] /\ UNCHANGED <<phase, loops, lease, left, active, queues, faults>>
      BY <1>2, <2>2 DEF CreateLease
    <3>2. TypeOK'
      BY <1>t, <3>1 DEF TypeOK
    <3>3. ScansHoldTheirLease' /\ LeasesAreAccounted'
      BY <1>t, <2>0, <3>1 DEF IInv, TypeOK, ScansHoldTheirLease, LeasesAreAccounted, InScan
    <3>4. ScansKnow'
      BY <1>t, <1>n, <3>1 DEF IInv, TypeOK, ScansKnow, Knows
    <3> QED
      BY <3>2, <3>3, <3>4 DEF IInv
  <2> QED
    BY <2>1, <2>2
<1>3. ASSUME AcquireFails(p) PROVE IInv'
  <2>1. /\ scan' = [scan EXCEPT ![p] = NoScan] /\ scan[p].stage \in {"idle", "creating"}
        /\ UNCHANGED <<phase, loops, active, queues>>
    BY <1>3 DEF AcquireFails
  <2>2. faults' \in 0 .. MaxFaults
    BY <1>3, <1>t DEF AcquireFails, TypeOK, Fault
  <2>3. \/ UNCHANGED <<lease, left>>
        \/ Available(p) /\ lease' = [holder |-> p, live |-> TRUE] /\ left' = left \cup {p}
    BY <1>3 DEF AcquireFails
  <2>4. TypeOK'
    <3>1. lease' \in Lease /\ left' \subseteq Procs
      <4>1. lease \in Lease /\ left \subseteq Procs
        BY <1>t DEF TypeOK
      <4>2. [holder |-> p, live |-> TRUE] \in Lease
        BY DEF Lease
      <4> QED
        BY <2>3, <4>1, <4>2
    <3> QED
      BY <1>t, <2>1, <2>2, <3>1 DEF TypeOK
  <2>5. ScansHoldTheirLease'
    BY <1>t, <2>1, <2>3 DEF IInv, TypeOK, ScansHoldTheirLease, InScan, Available
  <2>6. LeasesAreAccounted'
    BY <1>t, <2>1, <2>3 DEF IInv, TypeOK, LeasesAreAccounted, InScan
  <2>7. ScansKnow'
    BY <1>t, <1>n, <2>1 DEF IInv, TypeOK, ScansKnow, Knows
  <2> QED
    BY <2>4, <2>5, <2>6, <2>7 DEF IInv
<1> QED
  BY <1>1, <1>2, <1>3

-----------------------------------------------------------------------------
(* Process p is in no scan any more, and its lease, if it had one, was      *)
(* released, is on record as kept, or died with it.                         *)
LEMMA ScanIsOver ==
  ASSUME IInv, NEW p \in Procs,
         scan' = [scan EXCEPT ![p] = NoScan],
         phase' \in [Procs -> Phases], loops' \in [Procs -> [Loops -> Loop]],
         \A l \in Loops : loops'[p][l].backoff \in MinBackoff .. MaxBackoff,
         \A q \in Procs \ {p} : phase'[q] = phase[q] /\ loops'[q] = loops[q],
         lease' \in Lease, left \subseteq left', left' \subseteq Procs,
         lease.holder # p => lease' = lease,
         lease'.live => lease' = lease,
         lease'.live /\ lease'.holder = p => p \in left' \/ phase'[p] = "killed",
         UNCHANGED <<active, queues>>, faults' \in 0 .. MaxFaults
  PROVE  IInv'
<1>t. TypeOK /\ NoScan \in Scan /\ NoScan.stage = "idle" /\ NoScan.owed = {}
  <2>1. 0 \in 0 .. Len(Passes)
    BY DEF Passes
  <2> QED
    BY <2>1 DEF IInv, NoScan, Scan, Stages
<1>1. TypeOK'
  BY <1>t DEF TypeOK
<1>2. ScansHoldTheirLease'
  BY <1>t DEF IInv, TypeOK, ScansHoldTheirLease, InScan
<1>3. LeasesAreAccounted'
  BY <1>t DEF IInv, TypeOK, LeasesAreAccounted, InScan
<1>4. ScansKnow'
  BY <1>t DEF IInv, TypeOK, ScansKnow, Knows
<1> QED
  BY <1>1, <1>2, <1>3, <1>4 DEF IInv

LEMMA EndSteps ==
  ASSUME IInv, NEW p \in Procs, Release(p) \/ ReleaseFails(p) \/ Killed(p)
  PROVE  IInv'
<1> USE LoopsAssumption
<1>t. TypeOK
  BY DEF IInv
<1>f. Fault => faults' \in 0 .. MaxFaults
  BY <1>t DEF Fault, TypeOK
<1>1. ASSUME ScanEnds(p)
      PROVE  /\ scan' = [scan EXCEPT ![p] = NoScan]
             /\ loops' \in [Procs -> [Loops -> Loop]]
             /\ \A l \in Loops : loops'[p][l].backoff \in MinBackoff .. MaxBackoff
             /\ \A q \in Procs \ {p} : loops'[q] = loops[q]
  <2>1. CASE UNCHANGED loops
    BY <1>1, <1>t, <2>1 DEF ScanEnds, TypeOK
  <2>2. CASE loops' # loops
    <3>1. PICK long \in BOOLEAN :
            loops' = [loops EXCEPT ![p][Reconciler] = AfterRun(p, Reconciler, long)]
      BY <1>1, <2>2 DEF ScanEnds
    <3>2. /\ AfterRun(p, Reconciler, long) \in Loop
          /\ AfterRun(p, Reconciler, long).backoff \in MinBackoff .. MaxBackoff
      BY <1>t, AfterRunTypes
    <3> QED
      BY <1>1, <1>t, <3>1, <3>2 DEF ScanEnds, TypeOK
  <2> QED
    BY <2>1, <2>2
<1>2. ASSUME Release(p) PROVE IInv'
  <2>1. lease' = IF lease.holder = p THEN [lease EXCEPT !.live = FALSE] ELSE lease
    BY <1>2 DEF Release, Released
  <2>2. lease' \in Lease /\ (lease.holder = p => ~lease'.live) /\ lease'.holder = lease.holder
    BY <1>t, <2>1 DEF TypeOK, Lease
  <2>3. ScanEnds(p) /\ UNCHANGED <<phase, left, active, queues, faults>>
    BY <1>2 DEF Release
  <2>4. /\ phase' \in [Procs -> Phases] /\ left \subseteq left' /\ left' \subseteq Procs
        /\ faults' \in 0 .. MaxFaults
    BY <1>t, <2>3 DEF TypeOK
  <2> QED
    BY <1>1, <2>1, <2>2, <2>3, <2>4, ScanIsOver
<1>3. ASSUME ReleaseFails(p) PROVE IInv'
  <2>1. Fault /\ left' = left \cup {p} /\ ScanEnds(p) /\ UNCHANGED <<phase, lease, active, queues>>
    BY <1>3 DEF ReleaseFails
  <2>2. /\ phase' \in [Procs -> Phases] /\ left \subseteq left' /\ left' \subseteq Procs
        /\ lease' \in Lease /\ p \in left'
    BY <1>t, <2>1 DEF TypeOK
  <2> QED
    BY <1>1, <1>f, <2>1, <2>2, ScanIsOver
<1>4. ASSUME Killed(p) PROVE IInv'
  <2>1. Absent \in Loop /\ Absent.backoff \in MinBackoff .. MaxBackoff
    BY DEF Absent, Loop
  <2>2. /\ loops' = [loops EXCEPT ![p] = [l \in Loops |-> Absent]]
        /\ phase' = [phase EXCEPT ![p] = "killed"]
        /\ scan' = [scan EXCEPT ![p] = NoScan] /\ UNCHANGED <<lease, left, active, queues>>
    BY <1>4 DEF Killed
  <2>3. loops' \in [Procs -> [Loops -> Loop]] /\ phase' \in [Procs -> Phases] /\ phase'[p] = "killed"
    BY <1>t, <2>1, <2>2 DEF TypeOK, Phases
  <2>4. faults' \in 0 .. MaxFaults
    BY <1>4, <1>t, <1>f DEF Killed, TypeOK
  <2>5. lease' \in Lease /\ left' \subseteq Procs
    BY <1>t, <2>2 DEF TypeOK
  <2>6. /\ \A l \in Loops : loops'[p][l].backoff \in MinBackoff .. MaxBackoff
        /\ \A q \in Procs \ {p} : phase'[q] = phase[q] /\ loops'[q] = loops[q]
    BY <1>t, <2>1, <2>2 DEF TypeOK
  <2> QED
    BY <2>2, <2>3, <2>4, <2>5, <2>6, ScanIsOver
<1> QED
  BY <1>2, <1>3, <1>4

(* A lease that expires under a scan is the scan's to have outlasted. *)
LEMMA ExpiryStep ==
  ASSUME IInv, LeaseExpires
  PROVE  IInv'
<1>t. TypeOK
  BY DEF IInv
<1>0. UNCHANGED <<phase, loops, left, active, queues, faults>>
  BY DEF LeaseExpires
<1>1. lease' \in Lease /\ ~lease'.live /\ lease.live
  BY <1>t DEF LeaseExpires, TypeOK, Lease
<1>2. /\ scan' \in [Procs -> Scan]
      /\ \A p \in Procs :
           /\ scan'[p].stage = scan[p].stage /\ scan'[p].pass = scan[p].pass
           /\ scan'[p].targets = scan[p].targets /\ scan'[p].failed = scan[p].failed
           /\ scan'[p].owed = scan[p].owed
           /\ InScan(p) /\ ~scan'[p].overran => ~scan[p].overran /\ lease.holder # p
  <2>1. CASE lease.holder \in Procs
    <3>1. InScan(lease.holder) \in BOOLEAN
      BY DEF InScan
    <3>2. [scan[lease.holder] EXCEPT !.overran = InScan(lease.holder)] \in Scan
      <4>1. \A s \in Scan, b \in BOOLEAN : [s EXCEPT !.overran = b] \in Scan
        BY DEF Scan
      <4> QED
        BY <1>t, <2>1, <3>1, <4>1 DEF TypeOK
    <3> QED
      BY <1>t, <2>1, <3>1, <3>2 DEF LeaseExpires, TypeOK, Scan
  <2>2. CASE lease.holder \notin Procs
    BY <1>t, <2>2 DEF LeaseExpires, TypeOK
  <2> QED
    BY <2>1, <2>2
<1>3. TypeOK'
  BY <1>t, <1>0, <1>1, <1>2 DEF TypeOK
<1>4. ScansHoldTheirLease'
  BY <1>t, <1>0, <1>1, <1>2 DEF IInv, ScansHoldTheirLease, InScan
<1>5. LeasesAreAccounted'
  BY <1>1 DEF LeasesAreAccounted
<1>6. ScansKnow'
  BY <1>0, <1>2 DEF IInv, ScansKnow, Knows
<1> QED
  BY <1>3, <1>4, <1>5, <1>6 DEF IInv

-----------------------------------------------------------------------------
(* Runner r is owed by no scan any more; one scan may have looked at it. *)
LEMMA OwedNoMore ==
  ASSUME IInv, NEW r \in Runners, NEW looked \in SUBSET Procs,
         scan' = [q \in Procs |->
                    [scan[q] EXCEPT !.owed = @ \ {r},
                                    !.targets = IF q \in looked THEN @ \ {r} ELSE @]],
         active' \subseteq Runners, active \ {r} \subseteq active', queues' \subseteq Runners,
         UNCHANGED <<phase, loops, lease, left, faults>>
  PROVE  IInv'
<1>t. TypeOK
  BY DEF IInv
<1>1. ASSUME NEW q \in Procs
      PROVE  /\ scan'[q] \in Scan
             /\ scan'[q].stage = scan[q].stage /\ scan'[q].pass = scan[q].pass
             /\ scan'[q].failed = scan[q].failed /\ scan'[q].overran = scan[q].overran
             /\ scan'[q].owed = scan[q].owed \ {r}
             /\ scan[q].targets \ {r} \subseteq scan'[q].targets
  <2> DEFINE targets == IF q \in looked THEN scan[q].targets \ {r} ELSE scan[q].targets
  <2>1. scan[q] \in Scan /\ scan[q].targets \subseteq Runners /\ scan[q].owed \subseteq Runners
    BY <1>t DEF TypeOK, Scan
  <2>2. targets \subseteq Runners /\ scan[q].targets \ {r} \subseteq targets
    BY <2>1
  <2>3. scan'[q] = [scan[q] EXCEPT !.owed = scan[q].owed \ {r}, !.targets = targets]
    OBVIOUS
  <2> HIDE DEF targets
  <2> QED
    BY <2>1, <2>2, <2>3 DEF Scan
<1>2. TypeOK'
  BY <1>t, <1>1 DEF TypeOK
<1>3. ScansHoldTheirLease' /\ LeasesAreAccounted'
  BY <1>1 DEF IInv, ScansHoldTheirLease, LeasesAreAccounted, InScan
<1>4. ScansKnow'
  <2> SUFFICES ASSUME NEW q \in Procs PROVE Knows(scan[q])'
    BY DEF ScansKnow
  <2>1. Knows(scan[q])
    BY DEF IInv, ScansKnow
  <2>2. /\ scan'[q].stage = scan[q].stage /\ scan'[q].pass = scan[q].pass
        /\ scan'[q].failed = scan[q].failed
        /\ scan'[q].owed = scan[q].owed \ {r}
        /\ scan[q].targets \ {r} \subseteq scan'[q].targets
    BY <1>1
  <2>3. scan'[q].owed \subseteq active'
    <3>1. scan[q].owed \subseteq active
      BY <2>1 DEF Knows
    <3> QED
      BY <2>2, <3>1
  <2>4. ASSUME scan'[q].stage = "restoring"
        PROVE  scan'[q].pass = 1 /\ (~scan'[q].failed => scan'[q].owed \subseteq scan'[q].targets)
    <3>1. scan[q].pass = 1 /\ (~scan[q].failed => scan[q].owed \subseteq scan[q].targets)
      BY <2>1, <2>2, <2>4 DEF Knows
    <3> QED
      BY <2>2, <3>1
  <2>5. ASSUME scan'[q].stage = "scanning", scan'[q].pass > 1, ~scan'[q].failed
        PROVE  scan'[q].owed = {}
    <3>1. scan[q].owed = {}
      BY <2>1, <2>2, <2>5 DEF Knows
    <3> QED
      BY <2>2, <3>1
  <2> QED
    BY <2>3, <2>4, <2>5 DEF Knows
<1> QED
  BY <1>2, <1>3, <1>4 DEF IInv

LEMMA RunnerSteps ==
  ASSUME IInv, NEW r \in Runners,
         \/ SetActive(r) \/ WorkerRegisters(r) \/ QueueLost(r)
         \/ \E p \in Procs : RestoreQueue(p, r)
  PROVE  IInv'
<1>t. TypeOK
  BY DEF IInv
<1>n. PICK nobody \in SUBSET Procs : \A q \in Procs : q \notin nobody
  <2> WITNESS {} \in SUBSET Procs
  <2> QED
    OBVIOUS
<1>s. \A q \in Procs : [scan[q] EXCEPT !.owed = @ \ {r}]
        = [scan[q] EXCEPT !.owed = @ \ {r}, !.targets = IF q \in nobody THEN @ \ {r} ELSE @]
  BY <1>n, <1>t DEF TypeOK, Scan
<1>1. CASE SetActive(r)
  <2>1. active' \subseteq Runners /\ active \ {r} \subseteq active' /\ queues' \subseteq Runners
    BY <1>1, <1>t DEF SetActive, TypeOK
  <2>2. scan' = [q \in Procs |->
                   [scan[q] EXCEPT !.owed = @ \ {r}, !.targets = IF q \in nobody THEN @ \ {r} ELSE @]]
    BY <1>1, <1>s DEF SetActive
  <2> QED
    BY <1>1, <2>1, <2>2, OwedNoMore DEF SetActive
<1>2. CASE WorkerRegisters(r)
  <2>1. active' \subseteq Runners /\ active \ {r} \subseteq active' /\ queues' \subseteq Runners
    BY <1>2, <1>t DEF WorkerRegisters, Restored, TypeOK
  <2>2. scan' = [q \in Procs |->
                   [scan[q] EXCEPT !.owed = @ \ {r}, !.targets = IF q \in nobody THEN @ \ {r} ELSE @]]
    BY <1>2, <1>s DEF WorkerRegisters, Restored
  <2> QED
    BY <1>2, <2>1, <2>2, OwedNoMore DEF WorkerRegisters
<1>3. CASE QueueLost(r)
  <2>1. faults' \in 0 .. MaxFaults
    BY <1>3, <1>t, LoopsAssumption DEF QueueLost, Fault, TypeOK
  <2>2. TypeOK'
    BY <1>3, <1>t, <2>1 DEF QueueLost, TypeOK
  <2>3. UNCHANGED <<phase, loops, scan, lease, left, active>>
    BY <1>3 DEF QueueLost
  <2> QED
    BY <2>2, <2>3 DEF IInv, ScansHoldTheirLease, LeasesAreAccounted, ScansKnow, Knows, InScan
<1>4. ASSUME NEW p \in Procs, RestoreQueue(p, r) PROVE IInv'
  <2>1. active' \subseteq Runners /\ active \ {r} \subseteq active' /\ queues' \subseteq Runners
    BY <1>4, <1>t DEF RestoreQueue, TypeOK
  <2>2. scan' = [q \in Procs |->
                   [scan[q] EXCEPT !.owed = @ \ {r}, !.targets = IF q \in {p} THEN @ \ {r} ELSE @]]
    BY <1>4 DEF RestoreQueue
  <2> QED
    BY <1>4, <2>1, <2>2, OwedNoMore DEF RestoreQueue
<1> QED
  BY <1>1, <1>2, <1>3, <1>4

-----------------------------------------------------------------------------
(* The invariant holds in every reachable state, of any number of replicas. *)
THEOREM IInvHolds == Spec => []IInv
<1>1. IInv /\ [Next]_vars => IInv'
  <2> SUFFICES ASSUME IInv, [Next]_vars PROVE IInv'
    OBVIOUS
  <2>1. ASSUME UNCHANGED vars PROVE IInv'
    BY <2>1 DEF vars, IInv, TypeOK, ScansHoldTheirLease, LeasesAreAccounted, ScansKnow, Knows, InScan
  <2>2. ASSUME NEW p \in Procs, RunOnce(p) PROVE IInv'
    BY <2>2, PassSteps, AcquireSteps, EndSteps, RunnerSteps DEF RunOnce
  <2> QED
    BY <2>1, <2>2, ManagerSteps, EndSteps, ExpiryStep, RunnerSteps DEF Next
<1> QED
  BY <1>1, InitIInv, PTL DEF Spec

(* Type correctness, with waits within their bounds and scans only in       *)
(* processes whose reconciler runs.                                         *)
THEOREM TypeCorrect == Spec => []TypeOK
<1>1. IInv => TypeOK
  BY DEF IInv
<1> QED
  BY <1>1, IInvHolds, PTL

(* Of any number of replicas, at most one is in a scan within its lease:    *)
(* what AcquireScanLease and ReleaseScanLease are for.                      *)
THEOREM SingleScan == Spec => []OneScanWithinLease
<1>1. IInv => OneScanWithinLease
  BY DEF IInv, ScansHoldTheirLease, OneScanWithinLease
<1> QED
  BY <1>1, IInvHolds, PTL

(* An orderly shutdown never leaves the lease to run out, unless a call to  *)
(* the store failed.                                                        *)
THEOREM ShutdownReleases == Spec => []ShutdownFreesLease
<1>1. IInv => ShutdownFreesLease
  BY DEF IInv, TypeOK, LeasesAreAccounted, ShutdownFreesLease, InScan
<1> QED
  BY <1>1, IInvHolds, PTL

(* A scan that record counts as a success has left no queue missing that    *)
(* was missing when it began.                                               *)
THEOREM SuccessIsEarned == Spec => SuccessMeansRestored
<1>1. IInv /\ [Next]_vars =>
        [\A p \in Procs : Record(p) /\ ~scan[p].failed => scan[p].owed = {}]_vars
  <2> SUFFICES ASSUME IInv, NEW p \in Procs, Record(p), ~scan[p].failed PROVE scan[p].owed = {}
    OBVIOUS
  <2>1. scan[p].stage = "scanning" /\ scan[p].pass = 3
    BY DEF Record, Passes
  <2> QED
    BY <2>1 DEF IInv, ScansKnow, Knows
<1> QED
  BY <1>1, IInvHolds, PTL DEF Spec, SuccessMeansRestored
=============================================================================
