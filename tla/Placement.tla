------------------------------ MODULE Placement ------------------------------
(***************************************************************************)
(* Creating a run: the scenario is read and snapshotted, a runner is        *)
(* chosen by requirements and load, and the run is stored.  Meanwhile       *)
(* clients edit, delete and apply scenarios and runners, workers come and   *)
(* go, and runs are claimed and end.                                        *)
(*                                                                          *)
(* An edit names the version of the form its client has open.  It checks    *)
(* the version when it reads, and then saves the whole row with the read    *)
(* version moved on by one, over whatever is stored by then.  A request     *)
(* that is refused changes nothing and is not a step.                       *)
(***************************************************************************)
EXTENDS Integers, FiniteSets, FiniteSetsExt

CONSTANTS
  Clients,        \* requests that may be in progress at once
  Runners,        \* runner UIDs; their order is the tie-break
  Scenario,       \* the scenario
  ScenarioSpecs,  \* contents a client may send: [active, requires, prob]
  RunnerSpecs,    \* contents a client may send: [active, labels]
  Workers,
  Fleets,         \* bound: fleets to start from: [runners, specs, online, out]
  HomeOf,         \* HomeOf[w]: the runner worker w registered with
  Runs,
  NoRunner,
  MaxVersion,     \* bound: version up to which a row is written
  MaxEvents       \* bound: edits, failed queries, ends of runs, workers that come or go

ASSUME PlacementAssumption ==
  /\ Runners \subseteq Nat
  /\ IsFiniteSet(Runners)
  /\ IsFiniteSet(Workers)
  /\ IsFiniteSet(Runs)
  /\ NoRunner \notin Runners
  /\ Fleets \subseteq [runners : SUBSET Runners, specs : [Runners -> RunnerSpecs],
                        online : SUBSET Workers, out : SUBSET Workers]
  /\ Scenario \notin Runners
  /\ \A spec \in ScenarioSpecs :
       spec = [active |-> spec.active, requires |-> spec.requires, prob |-> spec.prob]
  /\ HomeOf \in [Workers -> Runners]
  /\ MaxVersion \in Nat
  /\ MaxEvents \in Nat

VARIABLES
  rows,      \* rows[x]: the stored scenario or runner x
  workers,   \* workers[w]: what placement reads of worker w
  runs,      \* runs[u]: the Result u
  reqs,      \* reqs[c]: client c's form, or the request it has sent
  raced,     \* history: a save has overwritten a write it had not seen
  events     \* edits, faults, ends of runs and workers' changes so far

vars == <<rows, workers, runs, reqs, raced, events>>

-----------------------------------------------------------------------------
(* Stored resources *)

Resources == Runners \cup {Scenario}

SpecsOf(x) == IF x = Scenario THEN ScenarioSpecs ELSE RunnerSpecs

(* A script can be replaced alone; *)
WithProb(spec, prob) == [spec EXCEPT !.prob = prob]

(* hence what a scenario may come to hold. *)
Contents == {WithProb(spec, other.prob) : spec, other \in ScenarioSpecs}

Row == [state : {"absent", "live", "deleted"}, version : Nat, spec : Contents \cup RunnerSpecs]

(* A selector that does not parse: stored only by what predates validation. *)
Malformed == "malformed"

Parses(spec) == spec.requires # Malformed

(* validateRequirements, and the runner's counterpart *)
Valid(x, spec) == x = Scenario => Parses(spec)

(* Mutation: the query also finds deleted rows *)
FoundEvenDeleted(x, version) == rows[x].state # "absent" /\ rows[x].version = version

(* GetByUID with WithVersion *)
Found(x, version) == rows[x].state = "live" /\ rows[x].version = version

Live(r) == rows[r].state = "live"

-----------------------------------------------------------------------------
(* Runs and capacity *)

Revision == [version : Nat, spec : Contents]

Reasons == {"", "no-eligible-runner", "invalid-requirements"}

(* in flight: pending or running (see Results) *)
AbsentRun == [state |-> "absent"]

(* A run has a runner, or the reason why not. *)
Run ==
  {AbsentRun}
    \cup [state : {"in flight", "ended"}, runner : Runners, reason : {""}, of : Revision]
    \cup [state : {"errored"}, runner : {NoRunner}, reason : Reasons \ {""}, of : Revision]

(* out: registered, and paused or silent on one of its signals *)
Presence == {"online", "out", "gone"}

(* The runners whose labels meet the requirements *)
Matching(requires) == {r \in Runners : Live(r) /\ (requires = "any" \/ requires \in rows[r].spec.labels)}

Eligible(requires) == {r \in Matching(requires) : rows[r].spec.active}

(* workerCapacity *)
WorkerCapacity(r) ==
  LET mine == {w \in Workers : HomeOf[w] = r /\ workers[w] # "gone"}
  IN  [registered |-> Cardinality(mine),
       online     |-> Cardinality({w \in mine : workers[w] = "online"})]

(* Mutation: runs in flight are not asked for *)
CommittedUnknown(r) == 0

(* InFlightRuns: queued and running *)
Committed(r) ==
  Cardinality({u \in Runs : runs[u].state = "in flight" /\ runs[u].runner = r})

Spare(cap) == cap.online - cap.committed

(* Pressure, left below right; both have workers online. *)
LowerPressure(a, b) == a.committed * b.online < b.committed * a.online

-----------------------------------------------------------------------------
(* Requests *)

Idle == [step |-> "idle"]

(* form: the client, or CreateOrUpdate on its behalf, has read the row.     *)
(* edit, script: the row was found at that version and is to be written.    *)
(* place to commit: Create of a run, up to its transaction.  drift          *)
(* (history): changes of capacity since it was measured.                    *)
Req ==
  {Idle}
    \cup [step : {"form"}, x : Resources, seen : Row]
    \cup [step : {"edit", "script"}, x : Resources, seen : Row, to : Contents \cup RunnerSpecs]
    \cup [step : {"place"}, of : Revision]
    \cup [step : {"count"}, of : Revision, among : SUBSET Runners]
    \cup [step : {"commit"}, of : Revision, runner : Runners \cup {NoRunner}, reason : Reasons,
          regime : {"", "sole-candidate", "unmeasured", "spare-capacity", "saturated"},
          among : SUBSET Runners, drift : Nat]

(* load: the workers of the runners it is to choose among are counted. *)
Measuring(among) ==
  [step : {"load"}, of : Revision, among : {among}, drift : Nat,
   found : [among -> [registered : Nat, online : Nat]]]

Counted == events < MaxEvents /\ events' = events + 1

(* Client c is at q; when capacity has changed, the others have drifted.    *)
Now(c, q) == reqs' = [reqs EXCEPT ![c] = q]

Drift(q) == IF q.step \in {"load", "commit"} THEN [q EXCEPT !.drift = @ + 1] ELSE q

NowDrifting(c, q) == reqs' = [d \in Clients |-> IF d = c THEN q ELSE Drift(reqs[d])]

-----------------------------------------------------------------------------
(* Choosing among eligible runners *)

Better(a, b, cap) ==
  \/ Spare(cap[a]) > Spare(cap[b])
  \/ /\ Spare(cap[a]) = Spare(cap[b])
     /\ \/ LowerPressure(cap[a], cap[b])
        \/ ~LowerPressure(cap[b], cap[a]) /\ a < b

(* Regime 1: the best of the runners with room *)
BySpare(among, cap) ==
  {r \in among : /\ Spare(cap[r]) > 0
                 /\ \A s \in among : Spare(cap[s]) > 0 /\ s # r => Better(r, s, cap)}

(* What each of some runners has, summed *)
Total(f, among) == MapThenSumSet(LAMBDA r : f[r], among)

(* Regime 2: workers online, or else registered, or else one each *)
Weights(among, cap) ==
  LET online == [r \in among |-> cap[r].online]
      registered == [r \in among |-> cap[r].registered]
  IN  IF Total(online, among) > 0 THEN online
      ELSE IF Total(registered, among) > 0 THEN registered
      ELSE [r \in among |-> 1]

TotalWeight(weights) == Total(weights, DOMAIN weights)

(* Mutation: the boundary of a share belongs to the runner before it *)
DrawnLate(weights, target) ==
  LET upTo(r) == Total(weights, {s \in DOMAIN weights : s <= r})
      within == {r \in DOMAIN weights : target <= upTo(r)}
  IN  IF within = {} THEN Min(DOMAIN weights) ELSE Min(within)

(* The runner whose share of 0 .. total-1, in UID order, holds the target   *)
Drawn(weights, target) ==
  LET upTo(r) == Total(weights, {s \in DOMAIN weights : s <= r})
      within == {r \in DOMAIN weights : target < upTo(r)}
  IN  IF within = {} THEN Min(DOMAIN weights) ELSE Min(within)

(* selectRunner, for every draw *)
Selected(among, cap) ==
  IF BySpare(among, cap) # {}
    THEN BySpare(among, cap)
    ELSE LET weights == Weights(among, cap)
         IN  {Drawn(weights, target) : target \in 0 .. TotalWeight(weights) - 1}

(* Mutation: runners that are behind take from the room elsewhere *)
SpareSumNetted(among, cap) == Total([r \in among |-> Spare(cap[r])], among)

(* SpareCapacity of a preview *)
SpareSum(among, cap) ==
  Total([r \in among |-> Spare(cap[r])], {r \in among : Spare(cap[r]) > 0})

CapacityOf(among) ==
  [r \in among |-> LET mine == WorkerCapacity(r)
                   IN  [committed |-> Committed(r), online |-> mine.online,
                        registered |-> mine.registered]]

(* Preview *)
Preview(requires) ==
  LET eligible == IF requires = Malformed THEN {} ELSE Eligible(requires)
  IN  [schedulable |-> eligible # {},
       reason |-> IF requires = Malformed THEN "invalid-requirements"
                  ELSE IF eligible = {} THEN "no-eligible-runner" ELSE "",
       spare |-> SpareSum(eligible, CapacityOf(eligible))]

-----------------------------------------------------------------------------
(* Create of a run *)

(* A scenario that is missing or inactive, or has nothing to execute, is    *)
(* refused.                                                                 *)
ReadScenario(c) ==
  /\ reqs[c] = Idle
  /\ Live(Scenario)
  /\ rows[Scenario].spec.active
  /\ rows[Scenario].spec.prob # "none"
  /\ Now(c, [step |-> "place",
             of |-> [version |-> rows[Scenario].version, spec |-> rows[Scenario].spec]])
  /\ UNCHANGED <<rows, workers, runs, raced, events>>

Unplaced(of, reason) ==
  [step |-> "commit", of |-> of, runner |-> NoRunner, reason |-> reason, regime |-> "",
   among |-> {}, drift |-> 0]

PlacedOn(of, among, runner, regime, drift) ==
  [step |-> "commit", of |-> of, runner |-> runner, reason |-> "", regime |-> regime,
   among |-> among, drift |-> drift]

(* Place up to the capacity: a listing that failed is handled like a        *)
(* selector that does not parse.                                            *)
ListRunners(c) ==
  /\ reqs[c].step = "place"
  /\ LET of == reqs[c].of
         eligible == Eligible(of.spec.requires)
     IN  \/ /\ Counted
            /\ Now(c, Unplaced(of, "invalid-requirements"))
         \/ /\ ~Parses(of.spec)
            /\ Now(c, Unplaced(of, "invalid-requirements"))
            /\ UNCHANGED events
         \/ /\ Parses(of.spec)
            /\ Now(c, CASE eligible = {} -> Unplaced(of, "no-eligible-runner")
                        [] Cardinality(eligible) = 1 ->
                             PlacedOn(of, eligible, Min(eligible), "sole-candidate", 0)
                        [] OTHER -> [step |-> "count", of |-> of, among |-> eligible])
            /\ UNCHANGED events
  /\ UNCHANGED <<rows, workers, runs, raced>>

CountWorkers(c) ==
  /\ reqs[c].step = "count"
  /\ Now(c, [step |-> "load", of |-> reqs[c].of, among |-> reqs[c].among, drift |-> 0,
             found |-> [r \in reqs[c].among |-> WorkerCapacity(r)]])
  /\ UNCHANGED <<rows, workers, runs, raced, events>>

(* Capacity as the request knows it: workers as counted, runs as they are   *)
Measured(q) ==
  [r \in q.among |-> [committed |-> Committed(r), online |-> q.found[r].online,
                      registered |-> q.found[r].registered]]

CountRuns(c) ==
  /\ reqs[c].step = "load"
  /\ LET q == reqs[c]
         cap == Measured(q)
     IN  \E r \in Selected(q.among, cap) :
           Now(c, PlacedOn(q.of, q.among, r,
                           IF BySpare(q.among, cap) # {} THEN "spare-capacity" ELSE "saturated", q.drift))
  /\ UNCHANGED <<rows, workers, runs, raced, events>>

(* Either count failed: the lowest UID *)
CountFails(c) ==
  /\ reqs[c].step \in {"count", "load"}
  /\ Counted
  /\ Now(c, PlacedOn(reqs[c].of, reqs[c].among, Min(reqs[c].among), "unmeasured", 0))
  /\ UNCHANGED <<rows, workers, runs, raced>>

(* Mutation: a run nothing can take waits with the others *)
CommitPending(c, u) ==
  /\ reqs[c].step = "commit"
  /\ runs[u] = AbsentRun
  /\ runs' = [runs EXCEPT ![u] = [state |-> "in flight", runner |-> reqs[c].runner,
                                 reason |-> reqs[c].reason, of |-> reqs[c].of]]
  /\ Now(c, Idle)
  /\ UNCHANGED <<rows, workers, raced, events>>

(* createWithDispatch, and failRun for a run nothing can take *)
Commit(c, u) ==
  /\ reqs[c].step = "commit"
  /\ runs[u] = AbsentRun
  /\ runs' = [runs EXCEPT ![u] =
               [state |-> IF reqs[c].runner = NoRunner THEN "errored" ELSE "in flight",
                runner |-> reqs[c].runner, reason |-> reqs[c].reason, of |-> reqs[c].of]]
  /\ IF reqs[c].runner = NoRunner THEN Now(c, Idle) ELSE NowDrifting(c, Idle)
  /\ UNCHANGED <<rows, workers, raced, events>>

CommitFails(c) ==
  /\ reqs[c].step = "commit"
  /\ Counted
  /\ Now(c, Idle)
  /\ UNCHANGED <<rows, workers, runs, raced>>

-----------------------------------------------------------------------------
(* Edits of scenarios and runners *)

(* Get, or the GetByName of CreateOrUpdate *)
OpenForm(c, x) ==
  /\ reqs[c] = Idle
  /\ events < MaxEvents
  /\ Live(x)
  /\ Now(c, [step |-> "form", x |-> x, seen |-> rows[x]])
  /\ UNCHANGED <<rows, workers, runs, raced, events>>

(* create; of two that race, the name's unique index refuses one. *)
CreateRow(c, x, spec) ==
  /\ reqs[c] = Idle
  /\ rows[x].state = "absent"
  /\ Valid(x, spec)
  /\ rows' = [rows EXCEPT ![x] = [state |-> "live", version |-> 1, spec |-> spec]]
  /\ Counted
  /\ UNCHANGED <<workers, runs, reqs, raced>>

(* Mutation: an edit need not name a version *)
EditReadAnyVersion(c, spec) ==
  /\ reqs[c].step = "form"
  /\ Found(reqs[c].x, rows[reqs[c].x].version)
  /\ rows[reqs[c].x].version < MaxVersion
  /\ Valid(reqs[c].x, spec)
  /\ Now(c, [step |-> "edit", x |-> reqs[c].x, to |-> spec,
             seen |-> [reqs[c].seen EXCEPT !.version = rows[reqs[c].x].version]])
  /\ Counted
  /\ UNCHANGED <<rows, workers, runs, raced>>

(* update, its read and its checks *)
EditRead(c, spec) ==
  /\ reqs[c].step = "form"
  /\ Found(reqs[c].x, reqs[c].seen.version)
  /\ reqs[c].seen.version < MaxVersion
  /\ Valid(reqs[c].x, spec)
  /\ Now(c, [step |-> "edit", x |-> reqs[c].x, to |-> spec, seen |-> reqs[c].seen])
  /\ Counted
  /\ UNCHANGED <<rows, workers, runs, raced>>

(* saveResource *)
EditSave(c) ==
  /\ reqs[c].step = "edit"
  /\ LET q == reqs[c]
     IN  /\ rows' = [rows EXCEPT ![q.x] =
                      [state |-> "live", version |-> q.seen.version + 1, spec |-> q.to]]
         /\ raced' = (raced \/ ~Found(q.x, q.seen.version))
  /\ Now(c, Idle)
  /\ UNCHANGED <<workers, runs, events>>

(* UpdateScript, its read.  Requirements and the rest stay as read. *)
ScriptRead(c, prob) ==
  /\ reqs[c].step = "form"
  /\ reqs[c].x = Scenario
  /\ Found(Scenario, reqs[c].seen.version)
  /\ reqs[c].seen.version < MaxVersion
  /\ Now(c, [step |-> "script", x |-> Scenario, seen |-> reqs[c].seen,
             to |-> WithProb(rows[Scenario].spec, prob)])
  /\ Counted
  /\ UNCHANGED <<rows, workers, runs, raced>>

(* Mutation: the script is saved like any other edit *)
ScriptWriteUnguarded(c) ==
  /\ reqs[c].step = "script"
  /\ rows' = [rows EXCEPT ![Scenario] =
               [state |-> "live", version |-> reqs[c].seen.version + 1, spec |-> reqs[c].to]]
  /\ Now(c, Idle)
  /\ UNCHANGED <<workers, runs, raced, events>>

(* UpdateScript, its guarded write: nothing, if the row has moved.  The     *)
(* store's Updates leaves the zero fields of the copy as they are stored,   *)
(* which are those of the copy unless a save has raced (raced).             *)
ScriptWrite(c) ==
  /\ reqs[c].step = "script"
  /\ rows' = IF Found(Scenario, reqs[c].seen.version)
               THEN [rows EXCEPT ![Scenario].version = @ + 1, ![Scenario].spec = reqs[c].to]
               ELSE rows
  /\ Now(c, Idle)
  /\ UNCHANGED <<workers, runs, raced, events>>

(* Delete, guarded by the form's version *)
Delete(c) ==
  /\ reqs[c].step = "form"
  /\ Found(reqs[c].x, reqs[c].seen.version)
  /\ rows' = [rows EXCEPT ![reqs[c].x].state = "deleted"]
  /\ Now(c, Idle)
  /\ Counted
  /\ UNCHANGED <<workers, runs, raced>>

(* The edit is refused, or never sent. *)
CloseForm(c) ==
  /\ reqs[c].step = "form"
  /\ Now(c, Idle)
  /\ UNCHANGED <<rows, workers, runs, raced, events>>

-----------------------------------------------------------------------------
(* Workers and runs (see Fleet and Results) *)

WorkerChanges(w, presence) ==
  /\ workers[w] # presence
  /\ Counted
  /\ workers' = [workers EXCEPT ![w] = presence]
  /\ reqs' = [c \in Clients |-> Drift(reqs[c])]
  /\ UNCHANGED <<rows, runs, raced>>

RunEnds(u) ==
  /\ runs[u].state = "in flight"
  /\ Counted
  /\ runs' = [runs EXCEPT ![u].state = "ended"]
  /\ reqs' = [c \in Clients |-> Drift(reqs[c])]
  /\ UNCHANGED <<rows, workers, raced>>

-----------------------------------------------------------------------------
(* A runner may not exist yet; a stored scenario may predate validation. *)
Init ==
  /\ \E fleet \in Fleets, first \in ScenarioSpecs :
       /\ rows = [x \in Resources |->
                    [state |-> IF x \in fleet.runners \cup {Scenario} THEN "live" ELSE "absent",
                     version |-> 1, spec |-> IF x = Scenario THEN first ELSE fleet.specs[x]]]
       /\ workers = [w \in Workers |-> IF w \in fleet.online THEN "online"
                                      ELSE IF w \in fleet.out THEN "out" ELSE "gone"]
  /\ runs = [u \in Runs |-> AbsentRun]
  /\ reqs = [c \in Clients |-> Idle]
  /\ raced = FALSE
  /\ events = 0

Create(c) ==
  \/ ReadScenario(c) \/ ListRunners(c) \/ CountWorkers(c) \/ CountRuns(c) \/ CountFails(c)
  \/ \E u \in Runs : Commit(c, u)
  \/ CommitFails(c)

Edit(c) ==
  \/ \E x \in Resources :
       \/ OpenForm(c, x)
       \/ \E spec \in SpecsOf(x) : CreateRow(c, x, spec)
  \/ reqs[c].step = "form" /\ \E spec \in SpecsOf(reqs[c].x) : EditRead(c, spec)
  \/ EditSave(c)
  \/ \E spec \in ScenarioSpecs : ScriptRead(c, spec.prob)
  \/ ScriptWrite(c)
  \/ Delete(c) \/ CloseForm(c)

Next ==
  \/ \E c \in Clients : Create(c) \/ Edit(c)
  \/ \E w \in Workers, presence \in Presence : WorkerChanges(w, presence)
  \/ \E u \in Runs : RunEnds(u)

Spec == Init /\ [][Next]_vars

-----------------------------------------------------------------------------
(* Properties *)

(* Every variable has its type; a stored run waits for a runner only if it  *)
(* has one, and otherwise says why it failed.                               *)
TypeOK ==
  /\ rows \in [Resources -> Row]
  /\ workers \in [Workers -> Presence]
  /\ runs \in [Runs -> Run]
  /\ \A c \in Clients :
       reqs[c] \in Req \/ \E among \in SUBSET Runners : reqs[c] \in Measuring(among)
  /\ raced \in BOOLEAN
  /\ events \in 0 .. MaxEvents

(* urth/scenario.version names the revision a run executes: runs with the   *)
(* same version executed the same content, as long as no save has           *)
(* overwritten a write it had not seen.                                     *)
VersionNamesContent ==
  ~raced =>
    \A u, v \in Runs :
      runs[u] # AbsentRun /\ runs[v] # AbsentRun /\ runs[u].of.version = runs[v].of.version
        => runs[u].of.spec = runs[v].of.spec

(* An edit replaces what its client saw and nothing else, and what was      *)
(* deleted does not come back, unless another write came between the read   *)
(* and the save of an edit.                                                 *)
NoLostUpdate ==
  [][~raced' =>
       /\ \A c \in Clients :
            reqs[c].step \in {"edit", "script"} /\ reqs'[c] = Idle
              => rows[reqs[c].x] \in {reqs[c].seen, rows'[reqs[c].x]}
       /\ \A x \in Resources : rows[x].state = "deleted" => rows'[x].state = "deleted"]_vars

(* What a runner could take on now *)
Room(r) ==
  Cardinality({w \in Workers : HomeOf[w] = r /\ workers[w] = "online"})
    - Cardinality({u \in Runs : runs[u].state = "in flight" /\ runs[u].runner = r})

(* Runs spread over the fleet although requests choose from counts that are *)
(* old by the time they commit: a run goes where there is room, and where   *)
(* there is most, within as many runs and workers as have come or gone      *)
(* since its request counted; and is drawn for only if there was none.      *)
SpreadsWithinDrift ==
  [][\A c \in Clients, u \in Runs : Commit(c, u) =>
       LET q == reqs[c]
       IN  /\ q.regime = "spare-capacity" =>
                /\ Room(q.runner) + q.drift > 0
                /\ \A r \in q.among : Room(q.runner) + q.drift >= Room(r)
           /\ q.regime = "saturated" => \A r \in q.among : Room(r) <= q.drift]_vars

(* When nobody has room, each runner is drawn for exactly its share of the  *)
(* draws, and no draw falls off the end.                                    *)
DrawIsProportional ==
  \A weights \in {Weights(among, CapacityOf(among)) : among \in SUBSET Runners \ {{}}} :
    \A r \in DOMAIN weights :
      Cardinality({target \in 0 .. TotalWeight(weights) - 1 : Drawn(weights, target) = r})
        = weights[r]

(* Client c's placement is about to be decided, from what is stored now. *)
DecidesFromNow(c) ==
  \/ reqs[c].step = "place"
  \/ /\ reqs[c].step = "load"
     /\ reqs[c].drift = 0
     /\ reqs[c].among = Eligible(reqs[c].of.spec.requires)

(* A preview and a run created at the same moment cannot disagree: whether  *)
(* the run is placed, the reason if not, and whether there is room for it.  *)
(* (This is of a scenario for which Create has passed its checks: one that  *)
(* is inactive or has no script has a preview, and Create refuses it.)      *)
PreviewAgrees ==
  [][\A c \in Clients :
       DecidesFromNow(c) /\ reqs'[c].step = "commit" /\ events' = events
         => LET shown == Preview(reqs[c].of.spec.requires)
                q == reqs'[c]
            IN  /\ shown.schedulable = (q.runner # NoRunner)
                /\ shown.reason = q.reason
                /\ q.regime = "spare-capacity" => shown.spare > 0
                /\ q.regime = "saturated" => shown.spare = 0]_vars
=============================================================================
