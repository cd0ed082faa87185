-------------------------------- MODULE Fleet --------------------------------
(***************************************************************************)
(* The worker records of one runner: admission under its instance limit,   *)
(* re-registration, the two liveness signals and the farewell, what they   *)
(* are read as, pausing, dropping and the reconciler's eviction of workers *)
(* that have gone silent.                                                  *)
(*                                                                         *)
(* A registration, a pause and an eviction are a read and, later, a write. *)
(* Registration and eviction name the version they read; a pause saves the *)
(* whole row it read, with that row's version moved on by one, over        *)
(* whatever is stored.  Liveness stamps leave the version alone.           *)
(***************************************************************************)
EXTENDS Integers, FiniteSets

CONSTANTS
  Names,         \* worker processes, by the name they register under
  NoName,
  Watched,       \* bound: workers that do more than ask to be admitted
  MaxInstances,  \* Runner.Spec.MaxInstances; 0 is no limit
  MaxRecords,    \* bound: WorkerInstance UIDs handed out
  MaxVersion,    \* bound: version up to which a record is read for a write
  MaxCalls       \* bound: requests and scans between their read and their write

ASSUME FleetAssumption ==
  /\ NoName \notin Names
  /\ Watched \subseteq Names
  /\ MaxInstances \in Nat
  /\ MaxRecords \in Nat
  /\ MaxVersion \in Nat
  /\ MaxCalls \in Nat

VARIABLES
  records,   \* records[u]: the WorkerInstance with UID u
  procs,     \* procs[n]: the worker process named n
  calls,     \* requests and evictions that have read and not yet written
  torn       \* history: live records a pause has saved over a write it had not seen

vars == <<records, procs, calls, torn>>

-----------------------------------------------------------------------------
(* Types *)

(* UIDs are handed out in order; 0 is none. *)
Uids == 1 .. MaxRecords

(* A liveness stamp: never set, set within offlineAfter, older than that,   *)
(* or older than the retention too.                                         *)
Signal == {"never", "fresh", "stale", "silent"}

(* LeftAt: none, a farewell not before either stamp, or one before a stamp. *)
Farewell == {"none", "last", "past"}

Record ==
  [state   : {"none", "live", "dropped"},
   name    : Names \cup {NoName},
   version : Nat,
   paused  : BOOLEAN,
   api     : Signal,      \* LastSeenTime
   nats    : Signal,      \* NATSLastSeenTime
   left    : Farewell]    \* LeftAt

NoRecord ==
  [state |-> "none", name |-> NoName, version |-> 0, paused |-> FALSE,
   api |-> "never", nats |-> "never", left |-> "none"]

(* A soft-deleted row is out of every query's sight. *)
Dropped == [NoRecord EXCEPT !.state = "dropped"]

(* NewWorkerInstance *)
NewRecord(n) == [NoRecord EXCEPT !.state = "live", !.name = n, !.version = 1]

(* A worker process: the record its session names, 0 before it has one,     *)
(* whether the session is within its TTL, the record it announces on its    *)
(* runner's subject, and whether it has said goodbye.                       *)
Proc == [session : Uids \cup {0}, valid : BOOLEAN, announces : Uids \cup {0}, left : BOOLEAN]

NoProc == [session |-> 0, valid |-> FALSE, announces |-> 0, left |-> FALSE]

(* What n asked for goes on; it does not wait for it any longer. *)
Forsaken(n) == {IF c.name = n THEN [c EXCEPT !.awaited = FALSE] ELSE c : c \in calls}

Ops == {"admit", "pause", "evict"}

(* uid 0 is an admission that found no record.  awaited: the process that   *)
(* asked still waits.  overtaken (history): the row was written since.      *)
Call ==
  [op : Ops, name : Names \cup {NoName}, uid : Uids \cup {0}, seen : Record,
   to : BOOLEAN, awaited : BOOLEAN, overtaken : BOOLEAN]

Live == {u \in Uids : records[u].state = "live"}

Named(n) == {u \in Live : records[u].name = n}

Unused == {u \in Uids : records[u].state = "none"}

-----------------------------------------------------------------------------
(* The store *)

Begin(op, n, u, seen, to) ==
  /\ Cardinality(calls) < MaxCalls
  /\ calls' = calls \cup {[op |-> op, name |-> n, uid |-> u, seen |-> seen, to |-> to,
                           awaited |-> op = "admit", overtaken |-> FALSE]}

(* The calls still under way once row u has been written by those in done *)
Wrote(done, u) ==
  calls' = {IF d.uid = u THEN [d EXCEPT !.overtaken = TRUE] ELSE d : d \in calls \ done}

(* Mutation: the write does not name the version it is based on *)
AnyVersion(c) == c.uid \in Live

(* dbstore.WithVersion *)
Current(c) == c.uid \in Live /\ records[c.uid].version = c.seen.version

(* Mutation: every field is written, as Save does *)
UpdatesEverything(seen, stored) ==
  [seen EXCEPT !.version = stored.version + 1]

(* dbstore.Update: the fields of the copy that are set are written, stamps  *)
(* set since among those overwritten.                                       *)
Updates(seen, stored) ==
  [stored EXCEPT
     !.version = @ + 1,
     !.paused  = @ \/ seen.paused,
     !.api     = IF seen.api = "never" THEN @ ELSE seen.api,
     !.nats    = IF seen.nats = "never" THEN @ ELSE seen.nats,
     !.left    = IF seen.left = "none" THEN @
                 ELSE IF seen.nats = "never" /\ stored.nats # "never" THEN "past"
                 ELSE seen.left]

(* dbstore.CreateOrUpdate, gorm's Save: every field of the copy is written, *)
(* with the copy's version moved on.                                        *)
Save(seen) == [seen EXCEPT !.version = @ + 1]

-----------------------------------------------------------------------------
(* admitWorker *)

(* Mutation: the limit is read as a maximum to exceed *)
HasRoomForOneMore == MaxInstances = 0 \/ Cardinality(Live) <= MaxInstances

(* Business rule: up to MaxInstances workers, if the limit is set *)
HasRoom == MaxInstances = 0 \/ Cardinality(Live) < MaxInstances

(* Run registers once, and renewSession again at any time; one at a time. *)
MayRegister(n) ==
  ~procs[n].left /\ \A c \in calls : ~(c.awaited /\ c.name = n)

(* The runner is loaded with its instance of this name and its count.  An   *)
(* inactive runner, or requirements that are not met, refuse the worker.    *)
AdmitRead(n) ==
  /\ MayRegister(n)
  /\ \/ \E u \in Named(n) : /\ n \in Watched /\ records[u].version < MaxVersion
                            /\ Begin("admit", n, u, records[u], FALSE)
     \/ Named(n) = {} /\ HasRoom /\ Begin("admit", n, 0, NoRecord, FALSE)
  /\ UNCHANGED <<records, procs, torn>>

(* Run builds the announcer once, from its first registration. *)
AnnouncerOf(proc, u) == IF proc.session = 0 THEN u ELSE proc.announces

(* AuthWorker: a session for a worker that was admitted *)
Enrolled(proc, u) ==
  [session |-> u, valid |-> TRUE, announces |-> AnnouncerOf(proc, u), left |-> FALSE]

(* register takes the session, if the process that asked still waits. *)
Admitted(c, u) ==
  procs' = IF c.awaited THEN [procs EXCEPT ![c.name] = Enrolled(@, u)] ELSE procs

(* The record is inserted; a name is taken once. *)
AdmitCreate(c) ==
  /\ c.op = "admit" /\ c.uid = 0
  /\ Named(c.name) = {}
  /\ \E u \in Unused :
       /\ \A v \in Unused : u <= v
       /\ records' = [records EXCEPT ![u] = NewRecord(c.name)]
       /\ Admitted(c, u)
  /\ calls' = calls \ {c}
  /\ UNCHANGED torn

(* A worker that is on record is refreshed.  Whether the guarded write      *)
(* applied is not looked at: the session is issued either way.              *)
AdmitUpdate(c) ==
  /\ c.op = "admit" /\ c.uid # 0
  /\ IF Current(c)
       THEN /\ records' = [records EXCEPT ![c.uid] = Updates(c.seen, @)]
            /\ Wrote({c}, c.uid)
       ELSE UNCHANGED records /\ calls' = calls \ {c}
  /\ Admitted(c, c.uid)
  /\ UNCHANGED torn

(* A store failure, a name that is taken by now, or a server that dies. *)
CallFails(c) ==
  /\ calls' = calls \ {c}
  /\ UNCHANGED <<records, procs, torn>>

-----------------------------------------------------------------------------
(* Presence *)

(* touch stamps a live record, or nothing, and leaves its version alone. *)
touch(u, stamped) ==
  /\ u \in Live
  /\ records' = [records EXCEPT ![u] = stamped]

(* Whatever is heard that is not a farewell clears one. *)
RecordContact(u, leaving) ==
  touch(u, [records[u] EXCEPT !.api = "fresh", !.left = IF leaving THEN "last" ELSE "none"])

RecordNATSPresence(u) ==
  touch(u, [records[u] EXCEPT !.nats = "fresh", !.left = "none"])

(* ParseWorkerSession refuses a session that is past its TTL. *)
HasSession(n) == procs[n].valid

(* Heartbeat, and recordClaimContact of a claim.  One that a worker sent    *)
(* before its farewell may be recorded after it.                            *)
Contact(n) ==
  /\ HasSession(n)
  /\ RecordContact(procs[n].session, FALSE)
  /\ UNCHANGED <<procs, calls, torn>>

(* leave, of a worker that shuts down in good order *)
Leave(n) ==
  /\ HasSession(n) /\ ~procs[n].left
  /\ RecordContact(procs[n].session, TRUE)
  /\ procs' = [procs EXCEPT ![n].left = TRUE]
  /\ calls' = Forsaken(n)
  /\ UNCHANGED torn

(* An announcement of n names a record, and that is all it says. *)
Announcement(n) == procs[n].announces

(* PresenceWatcher, of an announcement made at any time since the process   *)
(* started, which may have stopped by now.                                  *)
Heard(n) ==
  /\ Announcement(n) # 0
  /\ RecordNATSPresence(Announcement(n))
  /\ UNCHANGED <<procs, calls, torn>>

(* What one signal says of a worker, and both *)
WorkerPresence == {"online", "offline", "unknown"}

WorkerCondition == WorkerPresence \cup {"api-unreachable", "nats-unreachable"}

WorkerPresenceReport ==
  [api : WorkerPresence, nats : WorkerPresence, condition : WorkerCondition]

(* presenceOf grades one stamp *)
presenceOf(seen) ==
  CASE seen = "never" -> "unknown"
    [] seen = "fresh" -> "online"
    [] OTHER          -> "offline"

downgradeToOffline(presence) == IF presence = "unknown" THEN "unknown" ELSE "offline"

conditionOf(api, nats) ==
  CASE api = "online" /\ nats = "online"   -> "online"
    [] api = "online" /\ nats # "online"   -> "nats-unreachable"
    [] api # "online" /\ nats = "online"   -> "api-unreachable"
    [] api = "unknown" /\ nats = "unknown" -> "unknown"
    [] OTHER                              -> "offline"

(* Mutation: a farewell counts however long ago it was *)
PresenceAtAnyFarewell(status) ==
  LET graded(seen) == IF status.left # "none" THEN downgradeToOffline(presenceOf(seen))
                                              ELSE presenceOf(seen)
  IN [api       |-> graded(status.api),
      nats      |-> graded(status.nats),
      condition |-> conditionOf(graded(status.api), graded(status.nats))]

(* A farewell takes both signals down, unless either was heard since. *)
WorkerPresenceAt(status) ==
  LET graded(seen) == IF status.left = "last" THEN downgradeToOffline(presenceOf(seen))
                                              ELSE presenceOf(seen)
  IN [api       |-> graded(status.api),
      nats      |-> graded(status.nats),
      condition |-> conditionOf(graded(status.api), graded(status.nats))]

(* What Get and List show of a worker *)
withPresence(u) == WorkerPresenceAt(records[u])

-----------------------------------------------------------------------------
(* Operators *)

PauseRead(u, to) ==
  /\ u \in Live /\ records[u].name \in Watched
  /\ records[u].paused # to
  /\ records[u].version < MaxVersion
  /\ Begin("pause", NoName, u, records[u], to)
  /\ UNCHANGED <<records, procs, torn>>

(* SetPaused saves what it read.  A row dropped meanwhile is created again  *)
(* by the save, unless its name is taken, or the save comes to nothing.     *)
PauseWrite(c) ==
  /\ c.op = "pause"
  /\ c.uid \in Live \/ Named(c.seen.name) = {}
  /\ records' = [records EXCEPT ![c.uid] = Save([c.seen EXCEPT !.paused = c.to])]
  /\ torn' = IF c.overtaken THEN torn \cup {c.uid} ELSE torn
  /\ Wrote({c}, c.uid)
  /\ UNCHANGED <<procs>>

(* Delete, at the version the operator was shown *)
Drop(u) ==
  /\ u \in Live /\ records[u].name \in Watched
  /\ records' = [records EXCEPT ![u] = Dropped]
  /\ Wrote({}, u)
  /\ torn' = torn \ {u}
  /\ UNCHANGED procs

-----------------------------------------------------------------------------
(* evictSilentWorkers *)

(* Heard once, and on neither path since the cutoff *)
IsSilent(u) ==
  /\ records[u].api # "never" \/ records[u].nats # "never"
  /\ {records[u].api, records[u].nats} \subseteq {"never", "silent"}

EvictRead(u) ==
  /\ u \in Live
  /\ IsSilent(u)
  /\ Begin("evict", NoName, u, [NoRecord EXCEPT !.version = records[u].version], FALSE)
  /\ UNCHANGED <<records, procs, torn>>

(* DropWorker, at the version that was listed *)
EvictDrop(c) ==
  /\ c.op = "evict"
  /\ IF Current(c)
       THEN /\ records' = [records EXCEPT ![c.uid] = Dropped]
            /\ Wrote({c}, c.uid)
            /\ torn' = torn \ {c.uid}
       ELSE calls' = calls \ {c} /\ UNCHANGED <<records, torn>>
  /\ UNCHANGED procs

-----------------------------------------------------------------------------
(* Processes and time *)

(* The process ends, after its farewell or without one, and may be started  *)
(* again.  What it announced goes on.                                       *)
Stop(n) ==
  /\ procs' = [procs EXCEPT ![n] = [NoProc EXCEPT !.announces = procs[n].announces]]
  /\ calls' = Forsaken(n)
  /\ UNCHANGED <<records, torn>>

(* offlineAfter passes since a stamp was set.  No request takes as long. *)
SignalLapses(u) ==
  /\ u \in Live
  /\ \A c \in calls : c.uid # u
  /\ \E which \in {"api", "nats"} :
       /\ records[u][which] = "fresh"
       /\ records' = [records EXCEPT ![u][which] = "stale"]
  /\ UNCHANGED <<procs, calls, torn>>

(* The retention passes with nothing heard.  It is longer than a session    *)
(* lasts, so the sessions from before have expired.                         *)
RetentionPasses(u) ==
  /\ u \in Live
  /\ \A c \in calls : c.uid # u
  /\ "stale" \in {records[u].api, records[u].nats}
  /\ "fresh" \notin {records[u].api, records[u].nats}
  /\ LET aged(seen) == IF seen = "stale" THEN "silent" ELSE seen IN
       records' = [records EXCEPT ![u].api = aged(@), ![u].nats = aged(@)]
  /\ procs' = [n \in Names |-> IF procs[n].session = u THEN [procs[n] EXCEPT !.valid = FALSE]
                                                       ELSE procs[n]]
  /\ UNCHANGED <<calls, torn>>

-----------------------------------------------------------------------------
Init ==
  /\ records = [u \in Uids |-> NoRecord]
  /\ procs = [n \in Names |-> NoProc]
  /\ calls = {}
  /\ torn = {}

Process(n) ==
  \/ Contact(n)
  \/ Leave(n)
  \/ Heard(n)
  \/ Stop(n)

Row(u) ==
  \/ \E to \in BOOLEAN : PauseRead(u, to)
  \/ Drop(u)
  \/ EvictRead(u)
  \/ SignalLapses(u)
  \/ RetentionPasses(u)

End(c) ==
  \/ AdmitCreate(c)
  \/ AdmitUpdate(c)
  \/ PauseWrite(c)
  \/ EvictDrop(c)
  \/ CallFails(c)

Next ==
  \/ \E n \in Names : AdmitRead(n)
  \/ \E n \in Watched : Process(n)
  \/ \E u \in Uids : Row(u)
  \/ \E c \in calls : End(c)

Spec == Init /\ [][Next]_vars

-----------------------------------------------------------------------------
(* Properties *)

(* Every variable and what is shown of a worker has its type, a name has    *)
(* one live record, and a session names a record that was created.          *)
TypeOK ==
  /\ records \in [Uids -> Record]
  /\ procs \in [Names -> Proc]
  /\ calls \subseteq Call
  /\ torn \subseteq Uids
  /\ \A u \in Live : withPresence(u) \in WorkerPresenceReport
  /\ \A u, v \in Live : records[u].name = records[v].name => u = v
  /\ \A n \in Names : procs[n].session \notin Unused

(* The limit is checked on a count read before the record is created, so    *)
(* racing admissions may exceed it.  Records and admissions that will add   *)
(* one are together never as many above it as requests can be in flight.    *)
OvershootIsBounded ==
  MaxInstances > 0 =>
    Cardinality(Live) + Cardinality({c \in calls : c.op = "admit" /\ c.uid = 0})
      < MaxInstances + MaxCalls

(* The records that a step writes and that are in sight before and after *)
Rewritten ==
  {u \in Uids : /\ records'[u] # records[u]
                /\ records[u].state = "live" /\ records'[u].state = "live"}

(* A worker cannot take itself out of a pause, nor does its registration    *)
(* bring one back: however registrations race with operators, only a resume *)
(* lifts a pause, and only a pause sets one, unless operators saved over    *)
(* one another's or a worker's write.                                       *)
PauseHolds ==
  [][\A u \in Rewritten :
       records'[u].paused # records[u].paused /\ (records'[u].paused => u \notin torn') =>
         \E c \in calls :
           c.uid = u /\ c.op = "pause" /\ c.to = records'[u].paused /\ PauseWrite(c)]_vars

(* evictSilentWorkers: a worker that "re-registered between this scan       *)
(* reading it and the delete" is not evicted.                               *)
ReturnedIsNotEvicted ==
  [][\A c \in calls \ calls' :
       c.op = "evict" /\ c.overtaken /\ c.uid \in Live \ torn => c.uid \in Live']_vars

(* An operator's save puts back what had been read of record u before. *)
PutBack(u) == \E c \in calls : c.uid = u /\ c.seen # records[u] /\ PauseWrite(c)

(* A worker that said goodbye is shown gone until it is heard again.  No    *)
(* registration under way brings it back, unless it had read an earlier     *)
(* farewell and writes that; an operator's save may, with the row from      *)
(* before.                                                                  *)
FarewellHolds ==
  [][\A u \in Rewritten :
       records[u].left = "last" =>
         \/ withPresence(u)'.condition \in {"offline", "unknown"}
         \/ \E n \in Names : Contact(n) /\ procs[n].session = u
         \/ \E n \in Names : Heard(n) /\ procs[n].announces = u
         \/ \E c \in calls : c.uid = u /\ c.seen.left # "none" /\ AdmitUpdate(c)
         \/ PutBack(u)]_vars

(* WorkerPresenceAt: "a worker which left and has since come back is not    *)
(* held down by its own farewell".  A signal that is shown online is taken  *)
(* down by its age, by a farewell, by an operator's save as above, or by a  *)
(* registration that had read an earlier report on that same path.          *)
HeardIsShown ==
  [][\A u \in Rewritten, which \in {"api", "nats"} :
       withPresence(u)[which] = "online" =>
         \/ withPresence(u)'[which] = "online"
         \/ records'[u][which] = "stale"
         \/ \E n \in Names : Leave(n) /\ procs[n].session = u
         \/ \E c \in calls : c.uid = u /\ c.seen[which] # "never" /\ AdmitUpdate(c)
         \/ PutBack(u)]_vars

(* Heartbeat: a worker whose record is gone "registers again instead of     *)
(* reporting into a record that no longer exists".  What it announces once  *)
(* it has registered is the record it registered as.                        *)
AnnouncesItsRecord ==
  \A n \in Names :
    procs[n].session \in Live /\ procs[n].valid => procs[n].announces = procs[n].session
=============================================================================
