----------------------------- MODULE FleetProofs -----------------------------
(***************************************************************************)
(* Theorems about Fleet, for any workers, limit, records, versions and     *)
(* calls in flight.                                                        *)
(*                                                                         *)
(* A pause saves without a guard, so a version says nothing of a row that  *)
(* such a save has torn.  Of every other row a call that was not overtaken *)
(* has read what is stored, and one that was has read an older version     *)
(* (CallKnows): that is what keeps a registration from undoing an          *)
(* operator's word and an eviction from dropping a worker that is back.    *)
(***************************************************************************)
EXTENDS Fleet, FiniteSetTheorems, TLAPS

(* A call that has read a whole row *)
Reads(c) == c.op # "evict" /\ c.uid # 0

(* What a call in flight knows of the row it is about. *)
CallKnows(c) ==
  /\ c.uid = 0 => c.op = "admit"
  /\ c.op = "evict" => c.name = NoName
  /\ c.uid # 0 => records[c.uid].state # "none" /\ (c.overtaken \/ c.uid \in Live)
  /\ Reads(c) => c.seen.state = "live" /\ (c.uid \in Live => c.seen.name = records[c.uid].name)
  /\ c.uid \in Live \ torn /\ c.overtaken => c.seen.version < records[c.uid].version
  /\ c.uid \in Live \ torn /\ ~c.overtaken =>
       /\ c.seen.version = records[c.uid].version
       /\ Reads(c) => (c.seen.paused <=> records[c.uid].paused)

CallsKnow == \A c \in calls : CallKnows(c)

(* Calls about one record have read one name. *)
NamesAgree ==
  \A c, d \in calls : Reads(c) /\ Reads(d) /\ c.uid = d.uid => c.seen.name = d.seen.name

IInv == TypeOK /\ CallsKnow /\ NamesAgree

-----------------------------------------------------------------------------
(* What is shown of a worker is a report, whatever its record says. *)
LEMMA PresenceTypes ==
  ASSUME NEW status \in Record
  PROVE  WorkerPresenceAt(status) \in WorkerPresenceReport
<1> DEFINE graded(seen) == IF status.left = "last" THEN downgradeToOffline(presenceOf(seen))
                                                   ELSE presenceOf(seen)
<1>1. \A seen \in Signal : graded(seen) \in WorkerPresence
  BY DEF Signal, downgradeToOffline, presenceOf, WorkerPresence
<1>2. \A api, nats \in WorkerPresence : conditionOf(api, nats) \in WorkerCondition
  BY DEF WorkerPresence, WorkerCondition, conditionOf
<1>3. status.api \in Signal /\ status.nats \in Signal
  BY DEF Record
<1> HIDE DEF graded
<1>4. /\ graded(status.api) \in WorkerPresence /\ graded(status.nats) \in WorkerPresence
      /\ conditionOf(graded(status.api), graded(status.nats)) \in WorkerCondition
  BY <1>1, <1>2, <1>3
<1>5. WorkerPresenceAt(status) =
        [api |-> graded(status.api), nats |-> graded(status.nats),
         condition |-> conditionOf(graded(status.api), graded(status.nats))]
  BY DEF WorkerPresenceAt, graded
<1> QED
  BY <1>4, <1>5 DEF WorkerPresenceReport

(* The initial state has the invariant. *)
LEMMA InitIInv == Init => IInv
<1> SUFFICES ASSUME Init PROVE IInv
  OBVIOUS
<1>1. NoRecord \in Record /\ NoRecord.state = "none"
  BY DEF NoRecord, Record, Signal, Farewell
<1>2. NoProc \in Proc /\ NoProc.session = 0
  BY DEF NoProc, Proc
<1>3. Live = {} /\ 0 \notin Unused
  BY <1>1 DEF Init, Live, Unused, Uids
<1> QED
  BY <1>1, <1>2, <1>3 DEF Init, IInv, TypeOK, CallsKnow, NamesAgree

-----------------------------------------------------------------------------
(* What a call keeps while others write and its process gives it up. *)
Carried(e, d) ==
  /\ e \in Call
  /\ e.op = d.op /\ e.name = d.name /\ e.uid = d.uid /\ e.seen = d.seen /\ e.to = d.to

LEMMA WroteCarries ==
  ASSUME TypeOK, NEW done, NEW u, Wrote(done, u), NEW e \in calls'
  PROVE  \E d \in calls \ done : Carried(e, d) /\ (e.overtaken <=> d.overtaken \/ d.uid = u)
<1>1. PICK d \in calls \ done : e = IF d.uid = u THEN [d EXCEPT !.overtaken = TRUE] ELSE d
  BY DEF Wrote
<1>2. d \in Call
  BY DEF TypeOK
<1>3. CASE d.uid = u
  BY <1>1, <1>2, <1>3 DEF Call, Carried
<1>4. CASE d.uid # u
  BY <1>1, <1>2, <1>4 DEF Carried
<1> QED
  BY <1>3, <1>4

LEMMA ForsakenCarries ==
  ASSUME TypeOK, NEW n, calls' = Forsaken(n), NEW e \in calls'
  PROVE  \E d \in calls : Carried(e, d) /\ (e.overtaken <=> d.overtaken)
<1>1. PICK d \in calls : e = IF d.name = n THEN [d EXCEPT !.awaited = FALSE] ELSE d
  BY DEF Forsaken
<1>2. d \in Call
  BY DEF TypeOK
<1>3. CASE d.name = n
  BY <1>1, <1>2, <1>3 DEF Call, Carried
<1>4. CASE d.name # n
  BY <1>1, <1>2, <1>4 DEF Carried
<1> QED
  BY <1>3, <1>4

-----------------------------------------------------------------------------
(* Row u, which exists, becomes rec: every call about it is overtaken.      *)
(* Either the row is dropped, or it counts as torn from now on, or its      *)
(* version moves on.                                                        *)
LEMMA RowIsWritten ==
  ASSUME IInv, NEW u \in Uids, NEW rec \in Record, NEW done,
         records[u].state # "none", rec.state # "none",
         records' = [records EXCEPT ![u] = rec],
         Wrote(done, u),
         procs' \in [Names -> Proc], \A n \in Names : procs'[n].session \notin Unused,
         torn' \subseteq Uids, \A v \in Uids \ {u} : v \in torn' <=> v \in torn,
         rec.state = "live" => \A v \in Live \ {u} : records[v].name # rec.name,
         rec.state = "live" => \A c \in calls \ done : Reads(c) /\ c.uid = u => c.seen.name = rec.name,
         rec.state = "live" =>
           u \in torn' \/ (u \in Live \ torn /\ records[u].version < rec.version)
  PROVE  IInv'
<1>t. TypeOK /\ CallsKnow /\ NamesAgree
  BY DEF IInv
<1>0. /\ records' \in [Uids -> Record] /\ records'[u] = rec
      /\ \A v \in Uids \ {u} : records'[v] = records[v]
      /\ Unused' = Unused
      /\ \A v \in Uids \ {u} : v \in Live' <=> v \in Live
      /\ u \in Live' <=> rec.state = "live"
  BY <1>t DEF TypeOK, Unused, Live
<1>1. TypeOK'
  <2>1. calls' \subseteq Call
    BY <1>t, WroteCarries DEF Carried
  <2>2. \A v \in Live' : withPresence(v)' \in WorkerPresenceReport
    BY <1>0, PresenceTypes DEF withPresence, Live
  <2>3. \A v, w \in Live' : records'[v].name = records'[w].name => v = w
    BY <1>t, <1>0 DEF TypeOK, Live
  <2> QED
    BY <1>t, <1>0, <2>1, <2>2, <2>3 DEF TypeOK
<1>2. CallsKnow'
  <2> SUFFICES ASSUME NEW e \in calls' PROVE CallKnows(e)'
    BY DEF CallsKnow
  <2>1. PICK d \in calls \ done : Carried(e, d) /\ (e.overtaken <=> d.overtaken \/ d.uid = u)
    BY <1>t, WroteCarries
  <2>2. CallKnows(d) /\ d \in Call /\ d.uid \in Uids \cup {0}
    BY <1>t DEF CallsKnow, TypeOK, Call
  <2>3. CASE d.uid = u
    <3>1. u # 0
      BY DEF Uids
    <3>2. Reads(e) => e.seen.state = "live" /\ (u \in Live' => e.seen.name = rec.name)
      BY <1>0, <2>1, <2>2, <2>3 DEF Carried, Reads, CallKnows
    <3>3. u \in Live' \ torn' => e.seen.version < rec.version
      BY <1>t, <1>0, <2>1, <2>2, <2>3 DEF Carried, CallKnows, TypeOK, Call, Record
    <3> QED
      BY <1>0, <2>1, <2>2, <2>3, <3>1, <3>2, <3>3 DEF Carried, CallKnows
  <2>4. CASE d.uid # u
    BY <1>0, <2>1, <2>2, <2>4 DEF Carried, CallKnows, Reads, Live
  <2> QED
    BY <2>3, <2>4
<1>3. NamesAgree'
  <2> SUFFICES ASSUME NEW e \in calls', NEW f \in calls', Reads(e), Reads(f), e.uid = f.uid
               PROVE  e.seen.name = f.seen.name
    BY DEF NamesAgree, Reads
  <2>1. PICK d \in calls \ done : Carried(e, d)
    BY <1>t, WroteCarries
  <2>2. PICK g \in calls \ done : Carried(f, g)
    BY <1>t, WroteCarries
  <2>3. Reads(d) /\ Reads(g) /\ d.uid = g.uid
    BY <2>1, <2>2 DEF Carried, Reads
  <2>4. d.seen.name = g.seen.name
    BY <1>t, <2>3 DEF NamesAgree
  <2> QED
    BY <2>1, <2>2, <2>4 DEF Carried
<1> QED
  BY <1>1, <1>2, <1>3 DEF IInv

(* Row u keeps all but its stamps and its farewell. *)
LEMMA RowIsStamped ==
  ASSUME IInv, NEW u \in Uids, NEW rec \in Record,
         records' = [records EXCEPT ![u] = rec],
         rec.state = records[u].state, rec.name = records[u].name,
         rec.version = records[u].version, rec.paused = records[u].paused,
         calls' \subseteq Call,
         \A e \in calls' : \E d \in calls : Carried(e, d) /\ (e.overtaken <=> d.overtaken),
         procs' \in [Names -> Proc], \A n \in Names : procs'[n].session \notin Unused,
         UNCHANGED torn
  PROVE  IInv'
<1>t. TypeOK /\ CallsKnow /\ NamesAgree
  BY DEF IInv
<1>0. /\ records' \in [Uids -> Record]
      /\ \A v \in Uids : /\ records'[v].state = records[v].state
                         /\ records'[v].name = records[v].name
                         /\ records'[v].version = records[v].version
                         /\ records'[v].paused = records[v].paused
  BY <1>t DEF TypeOK
<1>l. Live' = Live /\ Unused' = Unused
  BY <1>0 DEF Live, Unused
<1>1. TypeOK'
  <2>1. \A v \in Live' : withPresence(v)' \in WorkerPresenceReport
    BY <1>0, PresenceTypes DEF withPresence, Live
  <2>2. \A v, w \in Live' : records'[v].name = records'[w].name => v = w
    BY <1>t, <1>0, <1>l DEF TypeOK, Live
  <2> QED
    BY <1>t, <1>0, <1>l, <2>1, <2>2 DEF TypeOK
<1>2. CallsKnow'
  <2> SUFFICES ASSUME NEW e \in calls' PROVE CallKnows(e)'
    BY DEF CallsKnow
  <2>1. PICK d \in calls : Carried(e, d) /\ (e.overtaken <=> d.overtaken)
    OBVIOUS
  <2>2. CallKnows(d) /\ d.uid \in Uids \cup {0}
    BY <1>t DEF CallsKnow, TypeOK, Call
  <2> QED
    BY <1>0, <1>l, <2>1, <2>2 DEF Carried, CallKnows, Reads
<1>3. NamesAgree'
  <2> SUFFICES ASSUME NEW e \in calls', NEW f \in calls', Reads(e), Reads(f), e.uid = f.uid
               PROVE  e.seen.name = f.seen.name
    BY DEF NamesAgree, Reads
  <2> QED
    BY <1>t DEF NamesAgree, Carried, Reads
<1> QED
  BY <1>1, <1>2, <1>3 DEF IInv

(* Calls end, and one may begin that knows its row. *)
LEMMA CallsChange ==
  ASSUME IInv, NEW new \in SUBSET Call,
         calls' \subseteq calls \cup new,
         \A c \in new : CallKnows(c) /\ (Reads(c) => c.uid \in Live),
         \A c, d \in new : c = d,
         procs' \in [Names -> Proc], \A n \in Names : procs'[n].session \notin Unused,
         UNCHANGED <<records, torn>>
  PROVE  IInv'
<1>t. TypeOK /\ CallsKnow /\ NamesAgree
  BY DEF IInv
<1>l. Live' = Live /\ Unused' = Unused
  BY DEF Live, Unused
<1>1. TypeOK'
  BY <1>t, <1>l DEF TypeOK, withPresence
<1>2. CallsKnow'
  BY <1>t, <1>l DEF CallsKnow, CallKnows, Reads
<1>3. NamesAgree'
  <2> SUFFICES ASSUME NEW e \in calls', NEW f \in calls', Reads(e), Reads(f), e.uid = f.uid
               PROVE  e.seen.name = f.seen.name
    BY DEF NamesAgree, Reads
  <2>1. CallKnows(e) /\ CallKnows(f)
    BY <1>t DEF CallsKnow
  <2>2. CASE e \in calls /\ f \in calls
    BY <1>t, <2>2 DEF NamesAgree
  <2>3. CASE e \in new \/ f \in new
    BY <2>1, <2>3 DEF CallKnows
  <2> QED
    BY <2>2, <2>3
<1> QED
  BY <1>1, <1>2, <1>3 DEF IInv

-----------------------------------------------------------------------------
(* Registrations, pauses and evictions read their row. *)
LEMMA ReadSteps ==
  ASSUME IInv,
         \/ \E n \in Names : AdmitRead(n)
         \/ \E u \in Uids : EvictRead(u) \/ \E to \in BOOLEAN : PauseRead(u, to)
  PROVE  IInv'
<1> USE FleetAssumption
<1>t. /\ TypeOK /\ procs \in [Names -> Proc] /\ (\A n \in Names : procs[n].session \notin Unused)
      /\ records \in [Uids -> Record]
  BY DEF IInv, TypeOK
<1>r. NoRecord \in Record
  BY DEF NoRecord, Record, Signal, Farewell
<1> DEFINE Asked(op, n, u, seen, to) ==
      [op |-> op, name |-> n, uid |-> u, seen |-> seen, to |-> to,
       awaited |-> op = "admit", overtaken |-> FALSE]
<1>b. ASSUME NEW op \in Ops, NEW n \in Names \cup {NoName}, NEW u \in Uids \cup {0},
             NEW seen \in Record, NEW to \in BOOLEAN, Begin(op, n, u, seen, to),
             CallKnows(Asked(op, n, u, seen, to)), u \in Live \cup {0},
             UNCHANGED <<records, procs, torn>>
      PROVE  IInv'
  <2> DEFINE c == Asked(op, n, u, seen, to)
  <2>1. c \in Call
    <3>1. (op = "admit") \in BOOLEAN
      OBVIOUS
    <3> QED
      BY <1>b, <3>1 DEF Call
  <2>2. calls' = calls \cup {c}
    BY <1>b DEF Begin
  <2>3. Reads(c) => c.uid \in Live
    BY <1>b DEF Reads
  <2>4. CallKnows(c)
    BY <1>b
  <2> HIDE DEF c
  <2>5. {c} \in SUBSET Call /\ calls' \subseteq calls \cup {c}
    BY <2>1, <2>2
  <2>6. (\A d \in {c} : CallKnows(d) /\ (Reads(d) => d.uid \in Live)) /\ (\A d, e \in {c} : d = e)
    BY <2>3, <2>4
  <2>7. procs' \in [Names -> Proc] /\ \A m \in Names : procs'[m].session \notin Unused
    BY <1>b, <1>t
  <2> QED
    BY <1>b, <2>5, <2>6, <2>7, CallsChange
<1>1. ASSUME NEW n \in Names, AdmitRead(n) PROVE IInv'
  <2>1. ASSUME NEW u \in Named(n), Begin("admit", n, u, records[u], FALSE) PROVE IInv'
    <3>1. u \in Uids /\ u \in Live /\ records[u].state = "live" /\ u # 0 /\ records[u] \in Record
      BY <1>t, <2>1 DEF Named, Live, Uids
    <3>2. CallKnows(Asked("admit", n, u, records[u], FALSE))
      BY <3>1 DEF CallKnows, Reads
    <3> QED
      BY <1>b, <1>1, <2>1, <3>1, <3>2 DEF AdmitRead, Ops
  <2>2. ASSUME Begin("admit", n, 0, NoRecord, FALSE) PROVE IInv'
    <3>1. 0 \notin Live
      BY DEF Live, Uids
    <3>2. CallKnows(Asked("admit", n, 0, NoRecord, FALSE))
      BY <3>1 DEF CallKnows, Reads
    <3> QED
      BY <1>b, <1>r, <1>1, <2>2, <3>2 DEF AdmitRead, Ops
  <2> QED
    BY <1>1, <2>1, <2>2 DEF AdmitRead
<1>2. ASSUME NEW u \in Uids, NEW to \in BOOLEAN, PauseRead(u, to) PROVE IInv'
  <2>1. u \in Live /\ records[u].state = "live" /\ u # 0 /\ records[u] \in Record
    BY <1>t, <1>2 DEF PauseRead, Live, Uids
  <2>2. CallKnows(Asked("pause", NoName, u, records[u], to))
    BY <2>1 DEF CallKnows, Reads
  <2> QED
    BY <1>b, <1>2, <2>1, <2>2 DEF PauseRead, Ops
<1>3. ASSUME NEW u \in Uids, EvictRead(u) PROVE IInv'
  <2> DEFINE seen == [NoRecord EXCEPT !.version = records[u].version]
  <2>1. u \in Live /\ records[u].state = "live" /\ u # 0 /\ records[u] \in Record
    BY <1>t, <1>3 DEF EvictRead, Live, Uids
  <2>2. seen \in Record /\ seen.version = records[u].version
    BY <1>r, <2>1 DEF Record
  <2>3. CallKnows(Asked("evict", NoName, u, seen, FALSE))
    BY <2>1, <2>2 DEF CallKnows, Reads
  <2> QED
    BY <1>b, <1>3, <2>1, <2>2, <2>3 DEF EvictRead, Ops
<1> QED
  BY <1>1, <1>2, <1>3

-----------------------------------------------------------------------------
(* Reports, farewells, restarts and the passing of time. *)
LEMMA PresenceSteps ==
  ASSUME IInv,
         \/ \E n \in Watched : Process(n)
         \/ \E u \in Uids : SignalLapses(u) \/ RetentionPasses(u)
  PROVE  IInv'
<1> USE FleetAssumption
<1>t. /\ TypeOK /\ procs \in [Names -> Proc] /\ (\A n \in Names : procs[n].session \notin Unused)
      /\ records \in [Uids -> Record] /\ calls \subseteq Call
  BY DEF IInv, TypeOK
<1>c. ASSUME UNCHANGED calls
      PROVE  /\ calls' \subseteq Call
             /\ \A e \in calls' : \E d \in calls : Carried(e, d) /\ (e.overtaken <=> d.overtaken)
  BY <1>c, <1>t DEF Carried
<1>f. ASSUME NEW n, calls' = Forsaken(n)
      PROVE  /\ calls' \subseteq Call
             /\ \A e \in calls' : \E d \in calls : Carried(e, d) /\ (e.overtaken <=> d.overtaken)
  BY <1>f, <1>t, ForsakenCarries DEF Carried
<1>p. ASSUME UNCHANGED procs
      PROVE  procs' \in [Names -> Proc] /\ \A n \in Names : procs'[n].session \notin Unused
  BY <1>p, <1>t
<1>1. ASSUME NEW n \in Names, Contact(n) PROVE IInv'
  <2> DEFINE u == procs[n].session
  <2> DEFINE rec == [records[u] EXCEPT !.api = "fresh", !.left = "none"]
  <2>1. u \in Uids /\ records' = [records EXCEPT ![u] = rec] /\ UNCHANGED <<procs, calls, torn>>
    BY <1>1 DEF Contact, RecordContact, touch, Live
  <2>2. /\ rec \in Record /\ rec.state = records[u].state /\ rec.name = records[u].name
        /\ rec.version = records[u].version /\ rec.paused = records[u].paused
    <3>1. records[u] \in Record
      BY <1>t, <2>1
    <3> HIDE DEF u
    <3> QED
      BY <3>1 DEF Record, Signal, Farewell
  <2> QED
    BY <1>c, <1>p, <2>1, <2>2, RowIsStamped
<1>2. ASSUME NEW n \in Names, Leave(n) PROVE IInv'
  <2> DEFINE u == procs[n].session
  <2> DEFINE rec == [records[u] EXCEPT !.api = "fresh", !.left = "last"]
  <2>1. u \in Uids /\ records' = [records EXCEPT ![u] = rec] /\ UNCHANGED torn /\ calls' = Forsaken(n)
    BY <1>2 DEF Leave, RecordContact, touch, Live
  <2>2. /\ rec \in Record /\ rec.state = records[u].state /\ rec.name = records[u].name
        /\ rec.version = records[u].version /\ rec.paused = records[u].paused
    <3>1. records[u] \in Record
      BY <1>t, <2>1
    <3> HIDE DEF u
    <3> QED
      BY <3>1 DEF Record, Signal, Farewell
  <2>3. procs' \in [Names -> Proc] /\ \A m \in Names : procs'[m].session \notin Unused
    BY <1>t, <1>2 DEF Leave, Proc
  <2> QED
    BY <1>f, <2>1, <2>2, <2>3, RowIsStamped
<1>3. ASSUME NEW n \in Names, Heard(n) PROVE IInv'
  <2> DEFINE u == procs[n].announces
  <2> DEFINE rec == [records[u] EXCEPT !.nats = "fresh", !.left = "none"]
  <2>1. u \in Uids /\ records' = [records EXCEPT ![u] = rec] /\ UNCHANGED <<procs, calls, torn>>
    BY <1>3 DEF Heard, RecordNATSPresence, Announcement, touch, Live
  <2>2. /\ rec \in Record /\ rec.state = records[u].state /\ rec.name = records[u].name
        /\ rec.version = records[u].version /\ rec.paused = records[u].paused
    <3>1. records[u] \in Record
      BY <1>t, <2>1
    <3> HIDE DEF u
    <3> QED
      BY <3>1 DEF Record, Signal, Farewell
  <2> QED
    BY <1>c, <1>p, <2>1, <2>2, RowIsStamped
<1>4. ASSUME NEW n \in Names, Stop(n) PROVE IInv'
  <2>1. [NoProc EXCEPT !.announces = procs[n].announces] \in Proc
    BY <1>t DEF NoProc, Proc
  <2>2. [NoProc EXCEPT !.announces = procs[n].announces].session = 0 /\ 0 \notin Unused
    BY DEF NoProc, Unused, Uids
  <2>3. procs' \in [Names -> Proc] /\ \A m \in Names : procs'[m].session \notin Unused
    BY <1>t, <1>4, <2>1, <2>2 DEF Stop
  <2>4. CASE Uids = {}
    <3>1. TypeOK'
      BY <1>f, <1>t, <1>4, <2>3, <2>4 DEF Stop, TypeOK, Unused, Live, withPresence
    <3>2. CallsKnow' /\ NamesAgree'
      BY <1>f, <1>4 DEF Stop, IInv, CallsKnow, CallKnows, NamesAgree, Carried, Reads, Live
    <3> QED
      BY <3>1, <3>2 DEF IInv
  <2>5. CASE Uids # {}
    <3>1. PICK u \in Uids : TRUE
      BY <2>5
    <3>2. records' = [records EXCEPT ![u] = records[u]] /\ records[u] \in Record
      BY <1>t, <1>4 DEF Stop
    <3> QED
      BY <1>f, <1>4, <2>3, <3>2, RowIsStamped DEF Stop
  <2> QED
    BY <2>4, <2>5
<1>5. ASSUME NEW u \in Uids, SignalLapses(u) PROVE IInv'
  <2>1. PICK which \in {"api", "nats"} : records' = [records EXCEPT ![u][which] = "stale"]
    BY <1>5 DEF SignalLapses
  <2> DEFINE rec == [records[u] EXCEPT ![which] = "stale"]
  <2>2. records' = [records EXCEPT ![u] = rec]
    BY <2>1
  <2>3. /\ rec \in Record /\ rec.state = records[u].state /\ rec.name = records[u].name
        /\ rec.version = records[u].version /\ rec.paused = records[u].paused
    <3>1. CASE which = "api"
      BY <1>t, <3>1 DEF Record, Signal
    <3>2. CASE which = "nats"
      BY <1>t, <3>2 DEF Record, Signal
    <3> QED
      BY <3>1, <3>2
  <2> QED
    BY <1>c, <1>p, <1>5, <2>2, <2>3, RowIsStamped DEF SignalLapses
<1>6. ASSUME NEW u \in Uids, RetentionPasses(u) PROVE IInv'
  <2> DEFINE aged(seen) == IF seen = "stale" THEN "silent" ELSE seen
  <2> DEFINE rec == [records[u] EXCEPT !.api = aged(@), !.nats = aged(@)]
  <2>1. records' = [records EXCEPT ![u] = rec]
    BY <1>6 DEF RetentionPasses
  <2>2. aged(records[u].api) \in Signal /\ aged(records[u].nats) \in Signal
    BY <1>t DEF Record, Signal
  <2>3. /\ rec \in Record /\ rec.state = records[u].state /\ rec.name = records[u].name
        /\ rec.version = records[u].version /\ rec.paused = records[u].paused
    BY <1>t, <2>2 DEF Record
  <2>4. procs' \in [Names -> Proc] /\ \A m \in Names : procs'[m].session \notin Unused
    <3> SUFFICES ASSUME NEW m \in Names PROVE procs'[m] \in Proc /\ procs'[m].session \notin Unused
      BY <1>6 DEF RetentionPasses
    <3>1. procs'[m] = IF procs[m].session = u THEN [procs[m] EXCEPT !.valid = FALSE] ELSE procs[m]
      BY <1>6 DEF RetentionPasses
    <3> QED
      BY <1>t, <3>1 DEF Proc
  <2>5. UNCHANGED <<calls, torn>>
    BY <1>6 DEF RetentionPasses
  <2> HIDE DEF rec
  <2> QED
    BY <1>c, <2>1, <2>3, <2>4, <2>5, RowIsStamped
<1> QED
  BY <1>1, <1>2, <1>3, <1>4, <1>5, <1>6 DEF Process

-----------------------------------------------------------------------------
(* The session of a worker that was admitted names its record. *)
LEMMA AdmittedTypes ==
  ASSUME TypeOK, NEW c \in calls, NEW u \in Uids, Admitted(c, u)
  PROVE  /\ procs' \in [Names -> Proc]
         /\ \A n \in Names : procs'[n].session \in {procs[n].session, u}
<1>1. c.name \in Names \cup {NoName} /\ procs \in [Names -> Proc]
  BY DEF TypeOK, Call
<1>2. \A n \in Names : Enrolled(procs[n], u) \in Proc /\ Enrolled(procs[n], u).session = u
  BY <1>1 DEF Proc, Enrolled, AnnouncerOf
<1>3. \/ procs' = procs
      \/ procs' = [procs EXCEPT ![c.name] = Enrolled(@, u)]
  BY DEF Admitted
<1>4. CASE c.name \in Names
  BY <1>1, <1>2, <1>3, <1>4
<1>5. CASE c.name \notin Names
  BY <1>1, <1>3, <1>5
<1> QED
  BY <1>4, <1>5

(* A call ends with its write, or without one. *)
LEMMA AdmitCreateStep ==
  ASSUME IInv, NEW c \in calls, AdmitCreate(c)
  PROVE  IInv'
<1> USE FleetAssumption
<1>t. TypeOK /\ CallsKnow /\ NamesAgree
  BY DEF IInv
<1>1. PICK u \in Unused : records' = [records EXCEPT ![u] = NewRecord(c.name)] /\ Admitted(c, u)
  BY DEF AdmitCreate
<1>2. u \in Uids /\ u \notin Live /\ records[u].state = "none"
  BY DEF Unused, Live
<1>3. NewRecord(c.name) \in Record /\ NewRecord(c.name).state = "live" /\ NewRecord(c.name).name = c.name
  <2>1. c.name \in Names \cup {NoName}
    BY <1>t DEF TypeOK, Call
  <2> QED
    BY <2>1 DEF NewRecord, NoRecord, Record, Signal, Farewell
<1>4. /\ records' \in [Uids -> Record] /\ Live' = Live \cup {u} /\ Unused' = Unused \ {u}
      /\ \A v \in Uids \ {u} : records'[v] = records[v]
      /\ records'[u].name = c.name
  BY <1>t, <1>1, <1>2, <1>3 DEF TypeOK, Live, Unused
<1>5. \A v \in Live : records[v].name # c.name
  BY DEF AdmitCreate, Named
<1>6. calls' \subseteq calls /\ UNCHANGED torn
  BY DEF AdmitCreate
<1>7. \A d \in calls : d.uid # u
  BY <1>t, <1>2 DEF CallsKnow, CallKnows, Uids
<1>8. TypeOK'
  <2>1. procs' \in [Names -> Proc] /\ \A n \in Names : procs'[n].session \notin Unused'
    BY <1>t, <1>1, <1>2, <1>4, AdmittedTypes DEF TypeOK
  <2>2. \A v \in Live' : withPresence(v)' \in WorkerPresenceReport
    BY <1>4, PresenceTypes DEF withPresence, Live
  <2>3. \A v, w \in Live' : records'[v].name = records'[w].name => v = w
    BY <1>t, <1>2, <1>4, <1>5 DEF TypeOK, Live
  <2> QED
    BY <1>t, <1>4, <1>6, <2>1, <2>2, <2>3 DEF TypeOK
<1>9. CallsKnow'
  <2> SUFFICES ASSUME NEW d \in calls' PROVE CallKnows(d)'
    BY DEF CallsKnow
  <2>1. CallKnows(d) /\ d.uid # u /\ d.uid \in Uids \cup {0}
    BY <1>t, <1>6, <1>7 DEF CallsKnow, TypeOK, Call
  <2>2. 0 \notin Live' /\ 0 \notin Live
    BY DEF Live, Uids
  <2>3. d.uid # 0 => records'[d.uid] = records[d.uid] /\ (d.uid \in Live' <=> d.uid \in Live)
    BY <1>4, <2>1
  <2> QED
    BY <1>6, <2>1, <2>2, <2>3 DEF CallKnows, Reads
<1>10. NamesAgree'
  BY <1>t, <1>6 DEF NamesAgree, Reads
<1> QED
  BY <1>8, <1>9, <1>10 DEF IInv

LEMMA WriteSteps ==
  ASSUME IInv,
         \/ \E u \in Uids : Drop(u)
         \/ \E c \in calls : AdmitUpdate(c) \/ PauseWrite(c) \/ EvictDrop(c) \/ CallFails(c)
  PROVE  IInv'
<1> USE FleetAssumption
<1>t. /\ TypeOK /\ procs \in [Names -> Proc] /\ (\A n \in Names : procs[n].session \notin Unused)
      /\ records \in [Uids -> Record] /\ calls \subseteq Call /\ torn \subseteq Uids
      /\ (\A v, w \in Live : records[v].name = records[w].name => v = w)
  BY DEF IInv, TypeOK
<1>d. Dropped \in Record /\ Dropped.state = "dropped"
  BY DEF Dropped, NoRecord, Record, Signal, Farewell
<1>k. ASSUME NEW c \in calls, c.uid # 0
      PROVE  /\ c.uid \in Uids /\ c.seen \in Record /\ c.to \in BOOLEAN /\ CallKnows(c)
             /\ records[c.uid] \in Record /\ records[c.uid].state # "none"
  BY <1>k, <1>t DEF Call, IInv, CallsKnow, CallKnows
<1>e. ASSUME NEW c \in calls, calls' = calls \ {c}, UNCHANGED <<records, torn>>,
             procs' \in [Names -> Proc], \A n \in Names : procs'[n].session \notin Unused
      PROVE  IInv'
  <2>1. PICK none \in SUBSET Call : none = {}
    OBVIOUS
  <2>2. calls' \subseteq calls \cup none
    BY <1>e
  <2> QED
    BY <1>e, <2>1, <2>2, CallsChange
<1>1. ASSUME NEW u \in Uids, Drop(u) PROVE IInv'
  <2>1. records[u].state = "live"
    BY <1>1 DEF Drop, Live
  <2>2. /\ records' = [records EXCEPT ![u] = Dropped] /\ Wrote({}, u)
        /\ torn' = torn \ {u} /\ UNCHANGED procs
    BY <1>1 DEF Drop
  <2>3. /\ procs' \in [Names -> Proc] /\ (\A n \in Names : procs'[n].session \notin Unused)
        /\ torn' \subseteq Uids /\ \A v \in Uids \ {u} : v \in torn' <=> v \in torn
    BY <1>t, <2>2
  <2> QED
    BY <1>d, <2>1, <2>2, <2>3, RowIsWritten
<1>2. ASSUME NEW c \in calls, EvictDrop(c) PROVE IInv'
  <2>1. CASE Current(c)
    <3> DEFINE u == c.uid
    <3>1. u \in Live /\ u \in Uids /\ records[u].state = "live"
      BY <2>1 DEF Current, Live
    <3>2. /\ records' = [records EXCEPT ![u] = Dropped] /\ Wrote({c}, u)
          /\ torn' = torn \ {u} /\ UNCHANGED procs
      BY <1>2, <2>1 DEF EvictDrop
    <3>3. /\ procs' \in [Names -> Proc] /\ (\A n \in Names : procs'[n].session \notin Unused)
          /\ torn' \subseteq Uids /\ \A v \in Uids \ {u} : v \in torn' <=> v \in torn
      BY <1>t, <3>2
    <3> QED
      BY <1>d, <3>1, <3>2, <3>3, RowIsWritten
  <2>2. CASE ~Current(c)
    BY <1>2, <1>e, <1>t, <2>2 DEF EvictDrop
  <2> QED
    BY <2>1, <2>2
<1>3. ASSUME NEW c \in calls, CallFails(c) PROVE IInv'
  BY <1>3, <1>e, <1>t DEF CallFails
<1>4. ASSUME NEW c \in calls, AdmitUpdate(c) PROVE IInv'
  <2> DEFINE u == c.uid
  <2>0. u # 0 /\ c.op = "admit" /\ Admitted(c, u) /\ UNCHANGED torn
    BY <1>4 DEF AdmitUpdate
  <2>1. /\ u \in Uids /\ c.seen \in Record /\ CallKnows(c)
        /\ records[u] \in Record /\ records[u].state # "none"
    BY <1>k, <2>0
  <2>2. procs' \in [Names -> Proc] /\ \A n \in Names : procs'[n].session \notin Unused
    BY <1>t, <2>0, <2>1, AdmittedTypes DEF Unused
  <2>3. CASE Current(c)
    <3> DEFINE rec == Updates(c.seen, records[u])
    <3>1. u \in Live /\ records[u].state = "live"
      BY <2>3 DEF Current, Live
    <3>2. records' = [records EXCEPT ![u] = rec] /\ Wrote({c}, u)
      BY <1>4, <2>3 DEF AdmitUpdate
    <3>3. /\ rec \in Record /\ rec.state = records[u].state /\ rec.name = records[u].name
          /\ rec.version = records[u].version + 1
      <4> DEFINE api == IF c.seen.api = "never" THEN records[u].api ELSE c.seen.api
                 nats == IF c.seen.nats = "never" THEN records[u].nats ELSE c.seen.nats
                 left == IF c.seen.left = "none" THEN records[u].left
                         ELSE IF c.seen.nats = "never" /\ records[u].nats # "never" THEN "past"
                         ELSE c.seen.left
                 paused == records[u].paused \/ c.seen.paused
      <4>1. api \in Signal /\ nats \in Signal /\ left \in Farewell /\ paused \in BOOLEAN
        BY <2>1 DEF Record, Farewell
      <4>2. rec = [records[u] EXCEPT !.version = @ + 1, !.paused = paused, !.api = api,
                                     !.nats = nats, !.left = left]
        BY DEF Updates
      <4>3. records[u].version + 1 \in Nat
        BY <2>1 DEF Record
      <4> HIDE DEF api, nats, left, paused, u, rec
      <4> QED
        BY <2>1, <4>1, <4>2, <4>3 DEF Record
    <3>4. records[u].version < rec.version
      BY <2>1, <3>3 DEF Record
    <3>5. \A v \in Live \ {u} : records[v].name # rec.name
      BY <1>t, <3>1, <3>3
    <3>6. \A d \in calls \ {c} : Reads(d) /\ d.uid = u => d.seen.name = rec.name
      BY <3>1, <3>3 DEF IInv, CallsKnow, CallKnows
    <3>7. u \in torn' \/ (u \in Live \ torn /\ records[u].version < rec.version)
      BY <2>0, <3>1, <3>4
    <3>8. torn' \subseteq Uids /\ \A v \in Uids \ {u} : v \in torn' <=> v \in torn
      BY <1>t, <2>0
    <3> HIDE DEF u, rec
    <3> QED
      BY <2>1, <2>2, <3>1, <3>2, <3>3, <3>5, <3>6, <3>7, <3>8, RowIsWritten
  <2>4. CASE ~Current(c)
    BY <1>4, <1>e, <2>0, <2>2, <2>4 DEF AdmitUpdate
  <2> QED
    BY <2>3, <2>4
<1>5. ASSUME NEW c \in calls, PauseWrite(c) PROVE IInv'
  <2> DEFINE u == c.uid
  <2> DEFINE rec == Save([c.seen EXCEPT !.paused = c.to])
  <2>0. /\ c.op = "pause" /\ (u \in Live \/ Named(c.seen.name) = {})
        /\ records' = [records EXCEPT ![u] = rec] /\ Wrote({c}, u) /\ UNCHANGED procs
        /\ torn' = IF c.overtaken THEN torn \cup {u} ELSE torn
    BY <1>5 DEF PauseWrite
  <2>z. u # 0
    BY <2>0 DEF IInv, CallsKnow, CallKnows
  <2>1. /\ u \in Uids /\ c.seen \in Record /\ c.to \in BOOLEAN /\ CallKnows(c)
        /\ records[u] \in Record /\ records[u].state # "none"
    BY <1>k, <2>z
  <2>2. Reads(c) /\ c.seen.state = "live"
    BY <2>0, <2>1, <2>z DEF Reads, CallKnows
  <2>3. /\ rec \in Record /\ rec.state = "live" /\ rec.name = c.seen.name
        /\ rec.version = c.seen.version + 1
    <3> DEFINE copy == [c.seen EXCEPT !.paused = c.to]
    <3>1. /\ copy \in Record /\ copy.state = "live" /\ copy.name = c.seen.name
          /\ copy.version = c.seen.version
      BY <2>1, <2>2 DEF Record
    <3>2. rec = [copy EXCEPT !.version = @ + 1]
      BY DEF Save
    <3> HIDE DEF copy, rec
    <3> QED
      BY <3>1, <3>2 DEF Record
  <2>4. \A v \in Live \ {u} : records[v].name # rec.name
    BY <1>t, <2>0, <2>1, <2>2, <2>3 DEF CallKnows, Named
  <2>5. \A d \in calls \ {c} : Reads(d) /\ d.uid = u => d.seen.name = rec.name
    BY <2>2, <2>3 DEF IInv, NamesAgree
  <2>6. u \in torn' \/ (u \in Live \ torn /\ records[u].version < rec.version)
    <3>1. CASE c.overtaken
      BY <2>0, <3>1
    <3>2. CASE ~c.overtaken
      <4>1. u \in Live
        BY <2>1, <2>z, <3>2 DEF CallKnows
      <4>2. CASE u \in torn
        BY <2>0, <3>2, <4>2
      <4>3. CASE u \notin torn
        <5>1. c.seen.version = records[u].version
          BY <2>1, <3>2, <4>1, <4>3 DEF CallKnows
        <5> QED
          BY <2>1, <2>3, <4>1, <4>3, <5>1 DEF Record
      <4> QED
        BY <4>2, <4>3
    <3> QED
      BY <3>1, <3>2
  <2>7. /\ torn' \subseteq Uids /\ (\A v \in Uids \ {u} : v \in torn' <=> v \in torn)
        /\ procs' \in [Names -> Proc] /\ \A n \in Names : procs'[n].session \notin Unused
    BY <1>t, <2>0, <2>1
  <2> HIDE DEF u, rec
  <2> QED
    BY <2>0, <2>1, <2>3, <2>4, <2>5, <2>6, <2>7, RowIsWritten
<1> QED
  BY <1>1, <1>2, <1>3, <1>4, <1>5

-----------------------------------------------------------------------------
(* The invariant holds in every reachable state. *)
THEOREM IInvHolds == Spec => []IInv
<1>1. IInv /\ [Next]_vars => IInv'
  <2> SUFFICES ASSUME IInv, [Next]_vars PROVE IInv'
    OBVIOUS
  <2>1. CASE UNCHANGED vars
    BY <2>1
    DEF vars, IInv, TypeOK, CallsKnow, CallKnows, NamesAgree, Reads, Live, Unused, withPresence
  <2>2. CASE Next
    <3>1. ASSUME NEW u \in Uids, Row(u) PROVE IInv'
      BY <3>1, ReadSteps, WriteSteps, PresenceSteps DEF Row
    <3>2. ASSUME NEW c \in calls, End(c) PROVE IInv'
      BY <3>2, AdmitCreateStep, WriteSteps DEF End
    <3> QED
      BY <2>2, <3>1, <3>2, ReadSteps, PresenceSteps DEF Next
  <2> QED
    BY <2>1, <2>2
<1> QED
  BY <1>1, InitIInv, PTL DEF Spec

(* Type correctness: one live record for a name, and sessions of records    *)
(* that exist.                                                              *)
THEOREM TypeCorrect == Spec => []TypeOK
<1>1. IInv => TypeOK
  BY DEF IInv
<1> QED
  BY <1>1, IInvHolds, PTL

(* A call that was not overtaken, of a row that is not torn, has read what  *)
(* is stored; a guarded write by one that was does not apply.               *)
LEMMA CurrentIsSeen ==
  ASSUME IInv, NEW c \in calls, Current(c), c.uid \notin torn
  PROVE  ~c.overtaken /\ (Reads(c) => (c.seen.paused <=> records[c.uid].paused))
<1>1. CallKnows(c) /\ c \in Call /\ c.uid \in Live /\ c.uid \in Uids
  BY DEF IInv, CallsKnow, Current, TypeOK, Live
<1>2. c.seen.version \in Nat /\ records[c.uid].version = c.seen.version
  BY <1>1 DEF Call, Record, Current
<1> QED
  BY <1>1, <1>2 DEF CallKnows

(* The paused flag follows operators only, however many calls are in flight *)
(* between admitWorker, SetPaused, Delete and the reconciler.               *)
THEOREM PausesHold == Spec => PauseHolds
<1> DEFINE Held ==
      \A u \in Rewritten :
        records'[u].paused # records[u].paused /\ (records'[u].paused => u \notin torn') =>
          \E c \in calls :
            c.uid = u /\ c.op = "pause" /\ c.to = records'[u].paused /\ PauseWrite(c)
<1>1. IInv /\ [Next]_vars => [Held]_vars
  <2> SUFFICES ASSUME IInv, Next, NEW u \in Rewritten, records'[u].paused # records[u].paused,
                      records'[u].paused => u \notin torn'
               PROVE  \E c \in calls :
                        c.uid = u /\ c.op = "pause" /\ c.to = records'[u].paused /\ PauseWrite(c)
    OBVIOUS
  <2>t. /\ records \in [Uids -> Record] /\ u \in Uids /\ calls \subseteq Call
        /\ records[u].state = "live" /\ records'[u].state = "live"
    BY DEF IInv, TypeOK, Rewritten
  <2>d. Dropped.state = "dropped"
    BY DEF Dropped, NoRecord
  <2>1. ASSUME NEW c \in calls, PauseWrite(c)
        PROVE  c.uid = u /\ c.op = "pause" /\ c.to = records'[u].paused
    <3>1. /\ c.op = "pause" /\ c \in Call
          /\ records' = [records EXCEPT ![c.uid] = Save([c.seen EXCEPT !.paused = c.to])]
      BY <2>1, <2>t DEF PauseWrite
    <3>2. c.uid = u
      BY <2>t, <3>1
    <3>3. Save([c.seen EXCEPT !.paused = c.to]).paused = c.to
      BY <3>1 DEF Save, Call, Record
    <3> QED
      BY <2>t, <3>1, <3>2, <3>3
  <2>2. ASSUME NEW c \in calls, AdmitUpdate(c) PROVE FALSE
    <3>1. /\ c.op = "admit" /\ c.uid # 0 /\ UNCHANGED torn /\ c \in Call
          /\ Current(c) /\ records' = [records EXCEPT ![c.uid] = Updates(c.seen, @)]
      BY <2>2, <2>t DEF AdmitUpdate
    <3>2. c.uid = u /\ records'[u] = Updates(c.seen, records[u])
      BY <2>t, <3>1
    <3>3. records'[u].paused <=> records[u].paused \/ c.seen.paused
      BY <2>t, <3>2 DEF Updates, Record
    <3>b. /\ records[u].paused \in BOOLEAN /\ c.seen.paused \in BOOLEAN
          /\ records'[u].paused = (records[u].paused \/ c.seen.paused)
      <4>1. records[u] \in Record /\ c.seen \in Record
        BY <2>t, <3>1 DEF Call
      <4>2. records[u].paused \in BOOLEAN /\ c.seen.paused \in BOOLEAN
        BY <4>1 DEF Record
      <4>3. records'[u].paused = (records[u].paused \/ c.seen.paused)
        BY <3>2, <4>1 DEF Updates, Record
      <4> QED
        BY <4>2, <4>3
    <3>c. ~records[u].paused
      <4> SUFFICES ASSUME records[u].paused = TRUE PROVE FALSE
        BY <3>b
      <4>1. records'[u].paused = TRUE
        BY <3>b
      <4> QED
        BY <4>1
    <3>e. c.seen.paused
      <4> SUFFICES ASSUME c.seen.paused = FALSE PROVE FALSE
        BY <3>b
      <4>1. records'[u].paused = records[u].paused
        BY <3>b
      <4> QED
        BY <4>1
    <3>4. u \notin torn /\ c.seen.paused /\ ~records[u].paused
      BY <3>1, <3>3, <3>c, <3>e
    <3> QED
      BY <3>1, <3>2, <3>4, CurrentIsSeen DEF Reads
  <2>3. ASSUME NEW c \in calls, AdmitCreate(c) PROVE FALSE
    <3>1. PICK v \in Unused : records' = [records EXCEPT ![v] = NewRecord(c.name)]
      BY <2>3 DEF AdmitCreate
    <3> QED
      BY <2>t, <3>1 DEF Unused
  <2>4. ASSUME NEW c \in calls, EvictDrop(c) PROVE FALSE
    BY <2>4, <2>t, <2>d DEF EvictDrop
  <2>5. ASSUME NEW v \in Uids, Drop(v) PROVE FALSE
    BY <2>5, <2>t, <2>d DEF Drop
  <2>6. ASSUME NEW n \in Watched, Process(n) PROVE FALSE
    <3>1. ASSUME NEW v, NEW leaving \in BOOLEAN, RecordContact(v, leaving) PROVE FALSE
      BY <3>1, <2>t DEF RecordContact, touch, Live, Record
    <3>2. ASSUME NEW v, RecordNATSPresence(v) PROVE FALSE
      BY <3>2, <2>t DEF RecordNATSPresence, touch, Live, Record
    <3>3. records' # records
      OBVIOUS
    <3>4. ~Contact(n)
      BY <3>1 DEF Contact
    <3>5. ~Leave(n)
      BY <3>1 DEF Leave
    <3>6. ~Heard(n)
      BY <3>2 DEF Heard
    <3>7. ~Stop(n)
      BY <3>3 DEF Stop
    <3> QED
      BY <2>6, <3>4, <3>5, <3>6, <3>7 DEF Process
  <2>7. ASSUME NEW v \in Uids, SignalLapses(v) \/ RetentionPasses(v) PROVE FALSE
    BY <2>7, <2>t DEF SignalLapses, RetentionPasses, Record
  <2>8. records' # records
    OBVIOUS
  <2>9. /\ \A n \in Names : ~AdmitRead(n)
        /\ \A v \in Uids : ~EvictRead(v) /\ \A to \in BOOLEAN : ~PauseRead(v, to)
        /\ \A c \in calls : ~CallFails(c)
    BY <2>8 DEF AdmitRead, EvictRead, PauseRead, CallFails
  <2> QED
    BY <2>1, <2>2, <2>3, <2>4, <2>5, <2>6, <2>7, <2>9 DEF Next, Row, End
<1> QED
  BY <1>1, IInvHolds, PTL DEF Spec, PauseHolds

(* A call that was overtaken stays what it is when its row is written again. *)
LEMMA OvertakenStays ==
  ASSUME IInv, NEW c \in calls, c.overtaken, NEW done, c \notin done, NEW u, Wrote(done, u)
  PROVE  c \in calls'
<1>1. c \in Call
  BY DEF IInv, TypeOK
<1>2. c.overtaken = TRUE
  BY <1>1 DEF Call
<1>3. [c EXCEPT !.overtaken = TRUE] = c
  BY <1>1, <1>2 DEF Call
<1>4. (IF c.uid = u THEN [c EXCEPT !.overtaken = TRUE] ELSE c) \in calls'
  BY DEF Wrote
<1> QED
  BY <1>3, <1>4

(* DropWorker names the version evictSilentWorkers listed, so a worker that *)
(* registered again in between, or was written by an operator, is kept.     *)
THEOREM ReturnedStays == Spec => ReturnedIsNotEvicted
<1> DEFINE Kept ==
      \A c \in calls \ calls' :
        c.op = "evict" /\ c.overtaken /\ c.uid \in Live \ torn => c.uid \in Live'
<1>1. IInv /\ [Next]_vars => [Kept]_vars
  <2> SUFFICES ASSUME IInv, Next, NEW c \in calls, c \notin calls',
                      c.op = "evict", c.overtaken, c.uid \in Live, c.uid \notin torn,
                      c.uid \notin Live'
               PROVE  FALSE
    OBVIOUS
  <2>t. /\ records \in [Uids -> Record] /\ c.uid \in Uids /\ calls \subseteq Call
        /\ records[c.uid].state = "live" /\ records'[c.uid].state # "live"
    BY DEF IInv, TypeOK, Live
  <2>1. ASSUME NEW d \in calls, PauseWrite(d) PROVE FALSE
    BY <2>1, OvertakenStays DEF PauseWrite
  <2>2. ASSUME NEW d \in calls, AdmitUpdate(d) PROVE FALSE
    <3>1. c # d /\ (Wrote({d}, d.uid) \/ calls' = calls \ {d})
      BY <2>2 DEF AdmitUpdate
    <3> QED
      BY <3>1, OvertakenStays
  <2>3. ASSUME NEW d \in calls, AdmitCreate(d) PROVE FALSE
    BY <2>3 DEF AdmitCreate
  <2>4. ASSUME NEW d \in calls, EvictDrop(d) PROVE FALSE
    <3>1. CASE ~Current(d)
      BY <2>4, <2>t, <3>1 DEF EvictDrop
    <3>2. CASE Current(d)
      <4>1. Wrote({d}, d.uid)
        BY <2>4, <3>2 DEF EvictDrop
      <4>2. c = d
        BY <4>1, OvertakenStays
      <4> QED
        BY <3>2, <4>2, CurrentIsSeen
    <3> QED
      BY <3>1, <3>2
  <2>5. ASSUME NEW v \in Uids, Drop(v) PROVE FALSE
    <3>1. PICK none : none = {}
      OBVIOUS
    <3>2. Wrote(none, v) /\ c \notin none
      BY <2>5, <3>1 DEF Drop
    <3> QED
      BY <3>2, OvertakenStays
  <2>6. ASSUME NEW n \in Watched, Process(n) PROVE FALSE
    <3>1. ASSUME NEW v, NEW leaving \in BOOLEAN, RecordContact(v, leaving) PROVE FALSE
      BY <3>1, <2>t DEF RecordContact, touch, Live, Record
    <3>2. ASSUME NEW v, RecordNATSPresence(v) PROVE FALSE
      BY <3>2, <2>t DEF RecordNATSPresence, touch, Live, Record
    <3>3. records' # records
      BY <2>t
    <3>4. ~Contact(n) /\ ~Leave(n)
      BY <3>1 DEF Contact, Leave
    <3>5. ~Heard(n) /\ ~Stop(n)
      BY <3>2, <3>3 DEF Heard, Stop
    <3> QED
      BY <2>6, <3>4, <3>5 DEF Process
  <2>7. ASSUME NEW v \in Uids, SignalLapses(v) \/ RetentionPasses(v) PROVE FALSE
    BY <2>7 DEF SignalLapses, RetentionPasses
  <2>8. records' # records
    BY <2>t
  <2>9. /\ \A n \in Names : ~AdmitRead(n)
        /\ \A v \in Uids : ~EvictRead(v) /\ \A to \in BOOLEAN : ~PauseRead(v, to)
        /\ \A d \in calls : ~CallFails(d)
    BY <2>8 DEF AdmitRead, EvictRead, PauseRead, CallFails
  <2> QED
    BY <2>1, <2>2, <2>3, <2>4, <2>5, <2>6, <2>7, <2>9 DEF Next, Row, End
<1> QED
  BY <1>1, IInvHolds, PTL DEF Spec, ReturnedIsNotEvicted

-----------------------------------------------------------------------------
(***************************************************************************)
(* The instance limit.  What counts is not the records alone: a pause that *)
(* has read its row may bring it back once it is dropped.                  *)
(***************************************************************************)

(* Admissions under way that found no record of their name *)
Creations == {c \in calls : c.op = "admit" /\ c.uid = 0}

Pauses == {c \in calls : c.op = "pause"}

(* The records there are, or that a pause under way may bring back *)
Expected == Live \cup {c.uid : c \in Pauses}

RoomInv ==
  /\ IsFiniteSet(calls) /\ Cardinality(calls) <= MaxCalls
  /\ MaxInstances > 0 => Cardinality(Expected) + Cardinality(Creations) < MaxInstances + MaxCalls


LEMMA ImageBound ==
  ASSUME NEW S, IsFiniteSet(S), NEW R, NEW f \in [S -> R], NEW T, \A t \in T : \E x \in S : f[x] = t
  PROVE  IsFiniteSet(T) /\ Cardinality(T) \in Nat /\ Cardinality(T) <= Cardinality(S)
<1>1. PICK U : U = {f[x] : x \in S}
  OBVIOUS
<1>2. f \in Surjection(S, U)
  BY <1>1 DEF Surjection
<1>3. IsFiniteSet(U) /\ Cardinality(U) <= Cardinality(S)
  BY <1>2, FS_Surjection
<1>4. T \in SUBSET U
  BY <1>1
<1>5. IsFiniteSet(T) /\ Cardinality(T) <= Cardinality(U)
  BY <1>3, <1>4, FS_Subset
<1> QED
  BY <1>3, <1>5, FS_CardinalityType

LEMMA ExpectedTypes ==
  ASSUME IInv
  PROVE  /\ Expected \subseteq Uids /\ IsFiniteSet(Expected) /\ Cardinality(Expected) \in Nat
         /\ IsFiniteSet(Live) /\ Cardinality(Live) \in Nat
<1>1. Live \subseteq Uids
  BY DEF Live
<1>2. \A c \in Pauses : c.uid \in Uids
  BY DEF Pauses, IInv, TypeOK, Call, CallsKnow, CallKnows
<1>3. Expected \subseteq Uids
  BY <1>1, <1>2 DEF Expected
<1>4. IsFiniteSet(Uids)
  BY FleetAssumption, FS_Interval DEF Uids
<1> QED
  BY <1>1, <1>3, <1>4, FS_Subset, FS_CardinalityType

(* A step that begins no call, whatever becomes of those under way, and     *)
(* that puts no record in sight but one that was expected.                  *)
LEMMA RoomKept ==
  ASSUME IInv, RoomInv, NEW f \in [calls -> Call], calls' \subseteq {f[c] : c \in calls},
         \A c \in calls : f[c].op = c.op /\ f[c].uid = c.uid,
         Live' \subseteq Expected
  PROVE  RoomInv'
<1> USE FleetAssumption
<1>t. IsFiniteSet(calls) /\ Cardinality(calls) \in Nat /\ Cardinality(calls) <= MaxCalls
  BY FS_CardinalityType DEF RoomInv
<1>1. IsFiniteSet(calls') /\ Cardinality(calls') \in Nat /\ Cardinality(calls') <= Cardinality(calls)
  <2>1. \A d \in calls' : \E c \in calls : f[c] = d
    OBVIOUS
  <2> QED
    BY <1>t, <2>1, ImageBound
<1>2. Expected' \subseteq Expected
  BY DEF Expected, Pauses
<1>3. Cardinality(Expected') \in Nat /\ Cardinality(Expected') <= Cardinality(Expected)
  BY <1>2, ExpectedTypes, FS_Subset, FS_CardinalityType
<1>4. /\ Cardinality(Creations) \in Nat /\ Cardinality(Creations') \in Nat
      /\ Cardinality(Creations') <= Cardinality(Creations)
  <2>1. IsFiniteSet(Creations) /\ Creations \subseteq calls
    <3>1. Creations \in SUBSET calls
      BY DEF Creations
    <3> QED
      BY <1>t, <3>1, FS_Subset
  <2>2. PICK g : g = [c \in Creations |-> f[c]]
    OBVIOUS
  <2>3. g \in [Creations -> Call] /\ \A c \in Creations : g[c] = f[c]
    BY <2>1, <2>2
  <2>4. \A d \in Creations' : \E c \in Creations : g[c] = d
    BY <2>3 DEF Creations
  <2>5. PICK T : T = Creations'
    OBVIOUS
  <2>6. IsFiniteSet(T) /\ Cardinality(T) \in Nat /\ Cardinality(T) <= Cardinality(Creations)
    BY <2>1, <2>3, <2>4, <2>5, ImageBound
  <2> QED
    BY <2>1, <2>5, <2>6, FS_CardinalityType
<1>5. /\ Cardinality(Expected) \in Nat
      /\ MaxInstances > 0 => Cardinality(Expected) + Cardinality(Creations) < MaxInstances + MaxCalls
  BY ExpectedTypes DEF RoomInv
<1>6. Cardinality(calls') <= MaxCalls
  BY <1>t, <1>1
<1>7. MaxInstances > 0 => Cardinality(Expected') + Cardinality(Creations') < MaxInstances + MaxCalls
  BY <1>3, <1>4, <1>5
<1> QED
  BY <1>1, <1>6, <1>7 DEF RoomInv

LEMMA RoomKeptAsIs ==
  ASSUME IInv, RoomInv, calls' \subseteq calls, Live' \subseteq Expected
  PROVE  RoomInv'
<1>1. PICK f : f = [c \in calls |-> c]
  OBVIOUS
<1>2. f \in [calls -> Call] /\ \A c \in calls : f[c] = c
  BY <1>1 DEF IInv, TypeOK
<1>3. calls' \subseteq {f[c] : c \in calls}
  BY <1>2
<1> QED
  BY <1>2, <1>3, RoomKept

LEMMA RoomKeptWrote ==
  ASSUME IInv, RoomInv, NEW done, NEW u, Wrote(done, u), Live' \subseteq Expected
  PROVE  RoomInv'
<1>1. PICK f : f = [c \in calls |-> IF c.uid = u THEN [c EXCEPT !.overtaken = TRUE] ELSE c]
  OBVIOUS
<1>2. ASSUME NEW c \in calls PROVE f[c] \in Call /\ f[c].op = c.op /\ f[c].uid = c.uid
  <2>1. c \in Call
    BY DEF IInv, TypeOK
  <2>2. PICK d : d = [c EXCEPT !.overtaken = TRUE]
    OBVIOUS
  <2>3. d \in Call /\ d.op = c.op /\ d.uid = c.uid
    BY <2>1, <2>2 DEF Call
  <2>4. f[c] = c \/ f[c] = d
    BY <1>1, <2>2
  <2> QED
    BY <2>1, <2>3, <2>4
<1>3. f \in [calls -> Call]
  BY <1>1, <1>2
<1>4. calls' \subseteq {f[c] : c \in calls}
  BY <1>1 DEF Wrote
<1> QED
  BY <1>2, <1>3, <1>4, RoomKept

LEMMA RoomKeptForsaken ==
  ASSUME IInv, RoomInv, NEW n, calls' = Forsaken(n), Live' \subseteq Expected
  PROVE  RoomInv'
<1>1. PICK f : f = [c \in calls |-> IF c.name = n THEN [c EXCEPT !.awaited = FALSE] ELSE c]
  OBVIOUS
<1>2. ASSUME NEW c \in calls PROVE f[c] \in Call /\ f[c].op = c.op /\ f[c].uid = c.uid
  <2>1. c \in Call
    BY DEF IInv, TypeOK
  <2>2. PICK d : d = [c EXCEPT !.awaited = FALSE]
    OBVIOUS
  <2>3. d \in Call /\ d.op = c.op /\ d.uid = c.uid
    BY <2>1, <2>2 DEF Call
  <2>4. f[c] = c \/ f[c] = d
    BY <1>1, <2>2
  <2> QED
    BY <2>1, <2>3, <2>4
<1>3. f \in [calls -> Call]
  BY <1>1, <1>2
<1>4. calls' \subseteq {f[c] : c \in calls}
  BY <1>1 DEF Forsaken
<1> QED
  BY <1>2, <1>3, <1>4, RoomKept

(* A call begins.  If it is to create a record, there was room when it      *)
(* counted, so that all of the calls together make up the overshoot.        *)
LEMMA RoomBegins ==
  ASSUME IInv, RoomInv, UNCHANGED records, NEW op \in Ops, NEW n, NEW u, NEW seen, NEW to,
         Begin(op, n, u, seen, to),
         \/ op # "admit" /\ u \in Live
         \/ op = "admit" /\ u # 0
         \/ op = "admit" /\ u = 0 /\ HasRoom
  PROVE  RoomInv'
<1> USE FleetAssumption
<1>t. IsFiniteSet(calls) /\ Cardinality(calls) \in Nat /\ Cardinality(calls) < MaxCalls
  BY FS_CardinalityType DEF RoomInv, Begin
<1>1. PICK c : c = [op |-> op, name |-> n, uid |-> u, seen |-> seen, to |-> to,
                    awaited |-> op = "admit", overtaken |-> FALSE]
  OBVIOUS
<1>2. calls' = calls \cup {c} /\ c.op = op /\ c.uid = u
  BY <1>1 DEF Begin
<1>3. IsFiniteSet(calls') /\ Cardinality(calls') \in Nat /\ Cardinality(calls') <= MaxCalls
  <2>0. /\ IsFiniteSet(calls \cup {c})
        /\ \/ Cardinality(calls \cup {c}) = Cardinality(calls)
           \/ Cardinality(calls \cup {c}) = Cardinality(calls) + 1
    <3>1. /\ IsFiniteSet(calls \cup {c})
          /\ c \in calls => Cardinality(calls \cup {c}) = Cardinality(calls)
          /\ c \notin calls => Cardinality(calls \cup {c}) = Cardinality(calls) + 1
      BY <1>t, FS_AddElement, Zenon
    <3> QED
      BY <3>1, Zenon
  <2>1. IsFiniteSet(calls') /\ Cardinality(calls') <= Cardinality(calls) + 1
    BY <1>t, <1>2, <2>0
  <2> QED
    BY <1>t, <2>1, FS_CardinalityType
<1>4. Live' = Live
  BY DEF Live
<1>5. CASE ~(op = "admit" /\ u = 0)
  <2>1. Creations' = Creations
    BY <1>2, <1>5 DEF Creations
  <2>2. Expected' = Expected
    <3>1. CASE op = "pause"
      BY <1>2, <1>4, <3>1 DEF Expected, Pauses
    <3>2. CASE op # "pause"
      BY <1>2, <1>4, <3>2 DEF Expected, Pauses
    <3> QED
      BY <3>1, <3>2
  <2> QED
    BY <1>3, <2>1, <2>2 DEF RoomInv
<1>6. CASE op = "admit" /\ u = 0
  <2>1. Pauses' = Pauses /\ Expected' = Expected
    BY <1>2, <1>4, <1>6 DEF Expected, Pauses
  <2>2. /\ Pauses \in SUBSET calls' /\ Creations' \in SUBSET calls' /\ Pauses \cap Creations' = {}
        /\ Pauses \subseteq calls
    BY <1>2 DEF Pauses, Creations
  <2>3. IsFiniteSet(Pauses) /\ IsFiniteSet(Creations')
    BY <1>3, <2>2, FS_Subset
  <2>4. Cardinality(Pauses) + Cardinality(Creations') <= Cardinality(calls')
    <3>1. Pauses \cup Creations' \in SUBSET calls'
      BY <2>2
    <3>2. Cardinality(Pauses \cup Creations') <= Cardinality(calls')
      BY <1>3, <3>1, FS_Subset
    <3>3. Cardinality(Pauses \cup Creations') =
            Cardinality(Pauses) + Cardinality(Creations') - Cardinality(Pauses \cap Creations')
      BY <2>3, FS_Union
    <3>4. Cardinality(Pauses \cap Creations') = 0
      BY <2>2, FS_EmptySet
    <3>5. Cardinality(Pauses) \in Nat /\ Cardinality(Creations') \in Nat
      BY <2>3, FS_CardinalityType
    <3> QED
      BY <1>3, <3>2, <3>3, <3>4, <3>5
  <2>5. Cardinality(Expected) <= Cardinality(Live) + Cardinality(Pauses)
    <3>1. PICK f : f = [d \in Pauses |-> d.uid]
      OBVIOUS
    <3>2. PICK R : R = {d.uid : d \in Pauses}
      OBVIOUS
    <3>3. f \in [Pauses -> R] /\ \A r \in R : \E d \in Pauses : f[d] = r
      BY <3>1, <3>2
    <3>4. IsFiniteSet(R) /\ Cardinality(R) <= Cardinality(Pauses)
      BY <2>3, <3>3, ImageBound
    <3>5. Expected = Live \cup R /\ IsFiniteSet(Live)
      BY <3>2, ExpectedTypes DEF Expected
    <3>6. Cardinality(Live \cup R) = Cardinality(Live) + Cardinality(R) - Cardinality(Live \cap R)
      BY <3>4, <3>5, FS_Union
    <3>7. IsFiniteSet(Live \cap R)
      <4>1. Live \cap R \in SUBSET R
        OBVIOUS
      <4> QED
        BY <3>4, <4>1, FS_Subset
    <3>8. /\ Cardinality(Live) \in Nat /\ Cardinality(R) \in Nat /\ Cardinality(Live \cap R) \in Nat
          /\ Cardinality(Pauses) \in Nat
      BY <2>3, <3>4, <3>5, <3>7, FS_CardinalityType
    <3> QED
      BY <3>4, <3>5, <3>6, <3>8
  <2>6. MaxInstances > 0 => Cardinality(Live) < MaxInstances
    BY <1>6 DEF HasRoom
  <2>7. /\ Cardinality(Live) \in Nat /\ Cardinality(Expected) \in Nat
        /\ Cardinality(Pauses) \in Nat /\ Cardinality(Creations') \in Nat
    BY <2>3, ExpectedTypes, FS_CardinalityType
  <2>8. MaxInstances > 0 =>
          Cardinality(Expected) + Cardinality(Creations') < MaxInstances + MaxCalls
    BY <1>3, <2>4, <2>5, <2>6, <2>7
  <2> QED
    BY <1>3, <2>1, <2>8 DEF RoomInv
<1> QED
  BY <1>5, <1>6

(* An admission that is done is one fewer under way and one more on record. *)
LEMMA RoomCreated == ASSUME IInv, RoomInv, NEW c \in calls, AdmitCreate(c) PROVE RoomInv'
<1> USE FleetAssumption
<1>t. IsFiniteSet(calls) /\ Cardinality(calls) \in Nat /\ Cardinality(calls) <= MaxCalls
  BY FS_CardinalityType DEF RoomInv
<1>1. PICK u \in Unused : records' = [records EXCEPT ![u] = NewRecord(c.name)]
  BY DEF AdmitCreate
<1>2. calls' = calls \ {c} /\ c.op = "admit" /\ c.uid = 0
  BY DEF AdmitCreate
<1>3. Live' \subseteq Live \cup {u}
  BY <1>1 DEF Live, IInv, TypeOK
<1>4. Expected' \subseteq Expected \cup {u}
  BY <1>2, <1>3 DEF Expected, Pauses
<1>5. Creations' = Creations \ {c} /\ c \in Creations
  BY <1>2 DEF Creations
<1>6. IsFiniteSet(calls') /\ Cardinality(calls') \in Nat /\ Cardinality(calls') <= MaxCalls
  <2>1. calls' \in SUBSET calls
    BY <1>2
  <2>2. IsFiniteSet(calls') /\ Cardinality(calls') <= Cardinality(calls)
    BY <1>t, <2>1, FS_Subset
  <2> QED
    BY <1>t, <2>2, FS_CardinalityType
<1>7. /\ Cardinality(Creations) \in Nat
      /\ Cardinality(Creations') = Cardinality(Creations) - 1
  <2>1. Creations \in SUBSET calls
    BY DEF Creations
  <2>2. IsFiniteSet(Creations)
    BY <1>t, <2>1, FS_Subset
  <2> QED
    BY <1>5, <2>2, FS_RemoveElement, FS_CardinalityType
<1>8. /\ Cardinality(Expected) \in Nat /\ Cardinality(Expected') \in Nat
      /\ Cardinality(Expected') <= Cardinality(Expected) + 1
  <2>1. PICK T : T = Expected \cup {u}
    OBVIOUS
  <2>2. IsFiniteSet(Expected) /\ Cardinality(Expected) \in Nat
    BY ExpectedTypes
  <2>3. IsFiniteSet(T) /\ Cardinality(T) <= Cardinality(Expected) + 1
    BY <2>1, <2>2, FS_AddElement
  <2>4. Expected' \in SUBSET T
    BY <1>4, <2>1
  <2>5. IsFiniteSet(Expected') /\ Cardinality(Expected') <= Cardinality(T)
    BY <2>3, <2>4, FS_Subset
  <2> QED
    BY <2>2, <2>3, <2>5, FS_CardinalityType
<1>9. MaxInstances > 0 => Cardinality(Expected') + Cardinality(Creations') < MaxInstances + MaxCalls
  BY <1>7, <1>8 DEF RoomInv
<1> QED
  BY <1>6, <1>9 DEF RoomInv

(* A stamp leaves a record in sight. *)
LEMMA RoomStamped ==
  ASSUME IInv, NEW u \in Live, NEW rec \in Record, rec.state = "live",
         records' = [records EXCEPT ![u] = rec]
  PROVE  Live' = Live
  BY DEF Live, IInv, TypeOK

LEMMA RoomPresence ==
  ASSUME IInv, RoomInv,
         \/ \E n \in Watched : Process(n)
         \/ \E u \in Uids : SignalLapses(u) \/ RetentionPasses(u)
  PROVE  RoomInv'
<1>t. records \in [Uids -> Record] /\ Live \subseteq Expected
  BY DEF IInv, TypeOK, Expected
<1>1. ASSUME NEW u, NEW leaving \in BOOLEAN, RecordContact(u, leaving) PROVE Live' = Live
  <2>1. u \in Live /\ u \in Uids /\ records[u] \in Record /\ records[u].state = "live"
    BY <1>1, <1>t DEF RecordContact, touch, Live
  <2>2. PICK left \in Farewell :
          records' = [records EXCEPT ![u] = [records[u] EXCEPT !.api = "fresh", !.left = left]]
    BY <1>1 DEF RecordContact, touch, Farewell
  <2>3. PICK rec : rec = [records[u] EXCEPT !.api = "fresh", !.left = left]
    OBVIOUS
  <2>4. rec \in Record /\ rec.state = "live"
    BY <2>1, <2>3 DEF Record, Signal
  <2> QED
    BY <2>1, <2>2, <2>3, <2>4, RoomStamped
<1>2. ASSUME NEW u, RecordNATSPresence(u) PROVE Live' = Live
  <2>1. u \in Live /\ u \in Uids /\ records[u] \in Record /\ records[u].state = "live"
    BY <1>2, <1>t DEF RecordNATSPresence, touch, Live
  <2>2. PICK rec : rec = [records[u] EXCEPT !.nats = "fresh", !.left = "none"]
    OBVIOUS
  <2>3. rec \in Record /\ rec.state = "live"
    BY <2>1, <2>2 DEF Record, Signal, Farewell
  <2>4. records' = [records EXCEPT ![u] = rec]
    BY <1>2, <2>2 DEF RecordNATSPresence, touch
  <2> QED
    BY <2>1, <2>3, <2>4, RoomStamped
<1>3. ASSUME NEW n \in Watched, Process(n) PROVE RoomInv'
  <2>1. CASE Contact(n)
    BY <1>1, <1>t, <2>1, RoomKeptAsIs DEF Contact
  <2>2. CASE Leave(n)
    BY <1>1, <1>t, <2>2, RoomKeptForsaken DEF Leave
  <2>3. CASE Heard(n)
    BY <1>2, <1>t, <2>3, RoomKeptAsIs DEF Heard
  <2>4. CASE Stop(n)
    <3>1. Live' = Live
      BY <2>4 DEF Stop, Live
    <3> QED
      BY <1>t, <2>4, <3>1, RoomKeptForsaken DEF Stop
  <2> QED
    BY <1>3, <2>1, <2>2, <2>3, <2>4 DEF Process
<1>4. ASSUME NEW u \in Uids, SignalLapses(u) \/ RetentionPasses(u) PROVE RoomInv'
  <2>1. u \in Live /\ records[u] \in Record /\ records[u].state = "live" /\ UNCHANGED calls
    BY <1>4, <1>t DEF SignalLapses, RetentionPasses, Live
  <2>2. \A v \in Uids : records'[v].state = records[v].state
    BY <1>4, <1>t DEF SignalLapses, RetentionPasses, Record
  <2>3. Live' = Live
    BY <2>2 DEF Live
  <2> QED
    BY <1>t, <2>1, <2>3, RoomKeptAsIs
<1> QED
  BY <1>3, <1>4

LEMMA RoomWritten ==
  ASSUME IInv, RoomInv,
         \/ \E u \in Uids : Drop(u)
         \/ \E c \in calls : AdmitUpdate(c) \/ PauseWrite(c) \/ EvictDrop(c) \/ CallFails(c)
  PROVE  RoomInv'
<1>t. records \in [Uids -> Record] /\ Live \subseteq Expected
  BY DEF IInv, TypeOK, Expected
<1>d. Dropped.state = "dropped"
  BY DEF Dropped, NoRecord
<1>1. ASSUME NEW u \in Uids, Drop(u) PROVE RoomInv'
  <2>1. Live' \subseteq Live
    BY <1>1, <1>t, <1>d DEF Drop, Live
  <2> QED
    BY <1>1, <1>t, <2>1, RoomKeptWrote DEF Drop
<1>2. ASSUME NEW c \in calls, EvictDrop(c) PROVE RoomInv'
  <2>1. Live' \subseteq Live
    BY <1>2, <1>t, <1>d DEF EvictDrop, Live
  <2>2. Wrote({c}, c.uid) \/ calls' \subseteq calls
    BY <1>2 DEF EvictDrop
  <2> QED
    BY <1>t, <2>1, <2>2, RoomKeptWrote, RoomKeptAsIs
<1>3. ASSUME NEW c \in calls, CallFails(c) PROVE RoomInv'
  <2>1. Live' = Live /\ calls' \subseteq calls
    BY <1>3 DEF CallFails, Live
  <2> QED
    BY <1>t, <2>1, RoomKeptAsIs
<1>4. ASSUME NEW c \in calls, AdmitUpdate(c) PROVE RoomInv'
  <2>1. Wrote({c}, c.uid) \/ calls' \subseteq calls
    BY <1>4 DEF AdmitUpdate
  <2>2. Live' \subseteq Live
    <3>1. CASE Current(c)
      <4>1. /\ records' = [records EXCEPT ![c.uid] = Updates(c.seen, records[c.uid])]
            /\ c.uid \in Live
        BY <1>4, <1>t, <3>1 DEF AdmitUpdate, Current
      <4> QED
        BY <1>t, <4>1 DEF Live
    <3>2. CASE ~Current(c)
      BY <1>4, <3>2 DEF AdmitUpdate, Live
    <3> QED
      BY <3>1, <3>2
  <2> QED
    BY <1>t, <2>1, <2>2, RoomKeptWrote, RoomKeptAsIs
<1>5. ASSUME NEW c \in calls, PauseWrite(c) PROVE RoomInv'
  <2>1. c.uid \in Expected
    BY <1>5 DEF PauseWrite, Expected, Pauses
  <2>2. Live' \subseteq Live \cup {c.uid}
    BY <1>5, <1>t DEF PauseWrite, Live
  <2> QED
    BY <1>5, <1>t, <2>1, <2>2, RoomKeptWrote DEF PauseWrite
<1> QED
  BY <1>1, <1>2, <1>3, <1>4, <1>5

LEMMA RoomRead ==
  ASSUME IInv, RoomInv,
         \/ \E n \in Names : AdmitRead(n)
         \/ \E u \in Uids : EvictRead(u) \/ \E to \in BOOLEAN : PauseRead(u, to)
  PROVE  RoomInv'
<1>o. "admit" \in Ops /\ "pause" \in Ops /\ "evict" \in Ops
  BY DEF Ops
<1>1. ASSUME NEW n \in Names, AdmitRead(n) PROVE RoomInv'
  <2>0. UNCHANGED records
    BY <1>1 DEF AdmitRead
  <2>1. CASE \E u \in Named(n) : Begin("admit", n, u, records[u], FALSE)
    <3>1. PICK u \in Named(n) : Begin("admit", n, u, records[u], FALSE)
      BY <2>1
    <3>2. u # 0
      BY FleetAssumption DEF Named, Live, Uids
    <3> QED
      BY <1>o, <2>0, <3>1, <3>2, RoomBegins
  <2>2. CASE HasRoom /\ Begin("admit", n, 0, NoRecord, FALSE)
    BY <1>o, <2>0, <2>2, RoomBegins
  <2> QED
    BY <1>1, <2>1, <2>2 DEF AdmitRead
<1>2. ASSUME NEW u \in Uids, EvictRead(u) PROVE RoomInv'
  <2>1. PICK seen : seen = [NoRecord EXCEPT !.version = records[u].version]
    OBVIOUS
  <2>2. UNCHANGED records /\ u \in Live /\ Begin("evict", NoName, u, seen, FALSE)
    BY <1>2, <2>1 DEF EvictRead
  <2> QED
    BY <1>o, <2>2, RoomBegins
<1>3. ASSUME NEW u \in Uids, NEW to \in BOOLEAN, PauseRead(u, to) PROVE RoomInv'
  <2>1. UNCHANGED records /\ u \in Live /\ Begin("pause", NoName, u, records[u], to)
    BY <1>3 DEF PauseRead
  <2> QED
    BY <1>o, <2>1, RoomBegins
<1> QED
  BY <1>1, <1>2, <1>3

(* admitWorker counts before it creates, and SetPaused may bring a dropped  *)
(* record back: even so records and admissions under way stay within the    *)
(* limit and one fewer than the calls there can be, for any of the three.   *)
THEOREM OvershootBounded == Spec => []OvershootIsBounded
<1> USE FleetAssumption
<1>1. Init => RoomInv
  <2> SUFFICES ASSUME Init PROVE RoomInv
    OBVIOUS
  <2>1. Live = {}
    BY DEF Init, Live, NoRecord
  <2>2. Expected = {} /\ Creations = {}
    BY <2>1 DEF Init, Expected, Pauses, Creations
  <2> QED
    BY <2>2, FS_EmptySet DEF Init, RoomInv
<1>2. IInv /\ RoomInv /\ [Next]_vars => RoomInv'
  <2> SUFFICES ASSUME IInv, RoomInv, [Next]_vars PROVE RoomInv'
    OBVIOUS
  <2>1. CASE UNCHANGED vars
    BY <2>1 DEF vars, RoomInv, Expected, Pauses, Creations, Live
  <2>2. CASE Next
    <3>1. ASSUME NEW u \in Uids, Row(u) PROVE RoomInv'
      BY <3>1, RoomRead, RoomWritten, RoomPresence DEF Row
    <3>2. ASSUME NEW c \in calls, End(c) PROVE RoomInv'
      BY <3>2, RoomCreated, RoomWritten DEF End
    <3> QED
      BY <2>2, <3>1, <3>2, RoomRead, RoomPresence DEF Next
  <2> QED
    BY <2>1, <2>2
<1>3. ASSUME IInv, RoomInv PROVE OvershootIsBounded
  <2>1. Live \in SUBSET Expected /\ IsFiniteSet(Expected) /\ Cardinality(Expected) \in Nat
    BY <1>3, ExpectedTypes DEF Expected
  <2>2. Cardinality(Live) \in Nat /\ Cardinality(Live) <= Cardinality(Expected)
    BY <1>3, <2>1, ExpectedTypes, FS_Subset
  <2>3. IsFiniteSet(Creations) /\ Cardinality(Creations) \in Nat
    <3>1. Creations \in SUBSET calls /\ IsFiniteSet(calls)
      BY <1>3 DEF Creations, RoomInv
    <3> QED
      BY <3>1, FS_Subset, FS_CardinalityType
  <2>4. MaxInstances > 0 => Cardinality(Live) + Cardinality(Creations) < MaxInstances + MaxCalls
    BY <1>3, <2>1, <2>2, <2>3 DEF RoomInv
  <2> QED
    BY <2>4 DEF OvershootIsBounded, Creations
<1>4. Spec => []RoomInv
  BY <1>1, <1>2, IInvHolds, PTL DEF Spec
<1> QED
  BY <1>3, <1>4, IInvHolds, PTL

-----------------------------------------------------------------------------
(***************************************************************************)
(* What is shown of a worker.  A farewell is a contact over the API too,   *)
(* so a record, or the copy a call has read, that has one has that stamp.  *)
(***************************************************************************)
FarewellKnown(rec) == rec.left # "none" => rec.api # "never"

FarewellInv ==
  /\ \A u \in Uids : FarewellKnown(records[u])
  /\ \A c \in calls : FarewellKnown(c.seen)

(* What a call has read is what it had read before, or a row, or nothing. *)
LEMMA SeenBefore ==
  ASSUME IInv, Next, NEW d \in calls'
  PROVE  \/ \E c \in calls : d.seen = c.seen
         \/ \E u \in Uids : d.seen = records[u]
         \/ d.seen.left = "none"
<1>t. calls \subseteq Call /\ NoRecord.left = "none"
  BY DEF IInv, TypeOK, NoRecord
<1>1. ASSUME NEW op, NEW n, NEW u, NEW seen, NEW to, Begin(op, n, u, seen, to)
      PROVE  d \in calls \/ d.seen = seen
  BY <1>1 DEF Begin
<1>2. ASSUME NEW done, NEW u, Wrote(done, u) PROVE \E c \in calls : d.seen = c.seen
  BY <1>2, <1>t DEF Wrote, Call
<1>3. ASSUME NEW n, calls' = Forsaken(n) PROVE \E c \in calls : d.seen = c.seen
  BY <1>3, <1>t DEF Forsaken, Call
<1>4. ASSUME NEW n \in Names, AdmitRead(n)
      PROVE  d \in calls \/ (\E u \in Uids : d.seen = records[u]) \/ d.seen = NoRecord
  BY <1>1, <1>4 DEF AdmitRead, Named, Live
<1>5. ASSUME NEW u \in Uids, Row(u)
      PROVE  \/ \E c \in calls : d.seen = c.seen
             \/ \E v \in Uids : d.seen = records[v]
             \/ d.seen.left = "none"
  <2>1. [NoRecord EXCEPT !.version = records[u].version].left = "none"
    BY DEF NoRecord
  <2>2. CASE EvictRead(u)
    BY <1>1, <2>1, <2>2 DEF EvictRead
  <2>3. CASE \E to \in BOOLEAN : PauseRead(u, to)
    BY <1>1, <2>3 DEF PauseRead
  <2>4. CASE Drop(u)
    BY <1>2, <2>4 DEF Drop
  <2>5. CASE SignalLapses(u) \/ RetentionPasses(u)
    BY <2>5 DEF SignalLapses, RetentionPasses
  <2> QED
    BY <1>5, <2>2, <2>3, <2>4, <2>5 DEF Row
<1>6. ASSUME NEW c \in calls, End(c) PROVE \E e \in calls : d.seen = e.seen
  <2>1. (\E done, u : Wrote(done, u)) \/ calls' = calls \ {c}
    BY <1>6 DEF End, AdmitCreate, AdmitUpdate, PauseWrite, EvictDrop, CallFails
  <2> QED
    BY <1>2, <2>1
<1>7. ASSUME NEW n \in Watched, Process(n) PROVE \E c \in calls : d.seen = c.seen
  <2>1. calls' = Forsaken(n) \/ calls' = calls
    BY <1>7 DEF Process, Contact, Leave, Heard, Stop
  <2> QED
    BY <1>3, <2>1
<1> QED
  BY <1>4, <1>5, <1>6, <1>7, <1>t DEF Next

(* One row changes at a time, and the ways there are. *)
LEMMA RowChanges ==
  ASSUME IInv, Next, NEW u \in Uids, records'[u] # records[u]
  PROVE  \/ records'[u].left = "none" /\ u \notin Rewritten
         \/ \E n \in Watched : /\ Contact(n) /\ procs[n].session = u
                               /\ records'[u].left = "none" /\ records'[u].api = "fresh"
                               /\ records'[u].nats = records[u].nats
         \/ \E n \in Watched : /\ Heard(n) /\ procs[n].announces = u
                               /\ records'[u].left = "none" /\ records'[u].nats = "fresh"
                               /\ records'[u].api = records[u].api
         \/ \E n \in Watched : /\ Leave(n) /\ procs[n].session = u
                               /\ records'[u].left = "last" /\ records'[u].api = "fresh"
         \/ \E c \in calls : /\ AdmitUpdate(c) /\ c.uid = u /\ c.seen \in Record
                             /\ records'[u] = Updates(c.seen, records[u])
         \/ \E c \in calls : /\ PauseWrite(c) /\ c.uid = u /\ c.seen \in Record
                             /\ records'[u].left = c.seen.left
                             /\ records'[u].api = c.seen.api /\ records'[u].nats = c.seen.nats
         \/ \E which \in {"api", "nats"} : records'[u] = [records[u] EXCEPT ![which] = "stale"]
         \/ /\ RetentionPasses(u) /\ records'[u].left = records[u].left
            /\ records[u].api # "never" => records'[u].api # "never"
<1>t. records \in [Uids -> Record] /\ calls \subseteq Call /\ records[u] \in Record
  BY DEF IInv, TypeOK
<1>d. /\ Dropped.left = "none" /\ Dropped.state = "dropped"
      /\ \A n : NewRecord(n).left = "none"
  BY DEF Dropped, NewRecord, NoRecord
<1>1. ASSUME NEW c \in calls, End(c)
      PROVE  \/ records'[u].left = "none" /\ u \notin Rewritten
             \/ \E e \in calls : /\ AdmitUpdate(e) /\ e.uid = u /\ e.seen \in Record
                                 /\ records'[u] = Updates(e.seen, records[u])
             \/ \E e \in calls : /\ PauseWrite(e) /\ e.uid = u /\ e.seen \in Record
                                 /\ records'[u].left = e.seen.left
                                 /\ records'[u].api = e.seen.api /\ records'[u].nats = e.seen.nats
  <2>0. c.seen \in Record /\ c \in Call
    BY <1>t DEF Call
  <2>1. CASE AdmitCreate(c)
    BY <1>t, <1>d, <2>1 DEF AdmitCreate, Unused, Rewritten
  <2>2. CASE AdmitUpdate(c)
    <3>1. records' = [records EXCEPT ![c.uid] = Updates(c.seen, @)]
      BY <2>2 DEF AdmitUpdate
    <3> QED
      BY <1>t, <2>0, <2>2, <3>1
  <2>3. CASE PauseWrite(c)
    <3>1. PICK rec : rec = Save([c.seen EXCEPT !.paused = c.to])
      OBVIOUS
    <3>2. rec.left = c.seen.left /\ rec.api = c.seen.api /\ rec.nats = c.seen.nats
      BY <2>0, <3>1 DEF Save, Record
    <3>3. records' = [records EXCEPT ![c.uid] = rec]
      BY <2>3, <3>1 DEF PauseWrite
    <3> QED
      BY <1>t, <2>0, <2>3, <3>2, <3>3
  <2>4. CASE EvictDrop(c)
    BY <1>t, <1>d, <2>4 DEF EvictDrop, Rewritten
  <2>5. CASE CallFails(c)
    BY <2>5 DEF CallFails
  <2> QED
    BY <1>1, <2>1, <2>2, <2>3, <2>4, <2>5 DEF End
<1>2. ASSUME NEW v \in Uids, Row(v)
      PROVE  \/ records'[u].left = "none" /\ u \notin Rewritten
             \/ \E which \in {"api", "nats"} : records'[u] = [records[u] EXCEPT ![which] = "stale"]
             \/ /\ RetentionPasses(u) /\ records'[u].left = records[u].left
                /\ records[u].api # "never" => records'[u].api # "never"
  <2>1. CASE Drop(v)
    BY <1>t, <1>d, <2>1 DEF Drop, Rewritten
  <2>2. CASE EvictRead(v) \/ \E to \in BOOLEAN : PauseRead(v, to)
    BY <2>2 DEF EvictRead, PauseRead
  <2>3. CASE SignalLapses(v)
    <3>1. PICK which \in {"api", "nats"} : records' = [records EXCEPT ![v][which] = "stale"]
      BY <2>3 DEF SignalLapses
    <3>2. v = u
      BY <1>t, <3>1
    <3>3. records'[u] = [records[u] EXCEPT ![which] = "stale"]
      BY <1>t, <3>1, <3>2
    <3> QED
      BY <3>3
  <2>4. CASE RetentionPasses(v)
    <3>1. v = u
      BY <1>t, <2>4 DEF RetentionPasses
    <3> DEFINE aged(seen) == IF seen = "stale" THEN "silent" ELSE seen
    <3>2. records'[u] = [records[u] EXCEPT !.api = aged(@), !.nats = aged(@)]
      BY <1>t, <2>4, <3>1 DEF RetentionPasses
    <3> QED
      BY <1>t, <2>4, <3>1, <3>2 DEF Record
  <2> QED
    BY <1>2, <2>1, <2>2, <2>3, <2>4 DEF Row
<1>3. ASSUME NEW n \in Watched, Process(n)
      PROVE  \/ /\ Contact(n) /\ procs[n].session = u
                /\ records'[u].left = "none" /\ records'[u].api = "fresh"
                /\ records'[u].nats = records[u].nats
             \/ /\ Heard(n) /\ procs[n].announces = u
                /\ records'[u].left = "none" /\ records'[u].nats = "fresh"
                /\ records'[u].api = records[u].api
             \/ /\ Leave(n) /\ procs[n].session = u
                /\ records'[u].left = "last" /\ records'[u].api = "fresh"
  <2>1. CASE Contact(n)
    <3>1. records' = [records EXCEPT ![procs[n].session] =
                        [records[procs[n].session] EXCEPT !.api = "fresh", !.left = "none"]]
      BY <2>1 DEF Contact, RecordContact, touch
    <3>2. procs[n].session = u
      BY <1>t, <3>1
    <3> QED
      BY <1>t, <2>1, <3>1, <3>2 DEF Record
  <2>2. CASE Leave(n)
    <3>1. records' = [records EXCEPT ![procs[n].session] =
                        [records[procs[n].session] EXCEPT !.api = "fresh", !.left = "last"]]
      BY <2>2 DEF Leave, RecordContact, touch
    <3>2. procs[n].session = u
      BY <1>t, <3>1
    <3> QED
      BY <1>t, <2>2, <3>1, <3>2 DEF Record
  <2>3. CASE Heard(n)
    <3>1. records' = [records EXCEPT ![procs[n].announces] =
                        [records[procs[n].announces] EXCEPT !.nats = "fresh", !.left = "none"]]
      BY <2>3 DEF Heard, Announcement, RecordNATSPresence, touch
    <3>2. procs[n].announces = u
      BY <1>t, <3>1
    <3> QED
      BY <1>t, <2>3, <3>1, <3>2 DEF Record
  <2>4. CASE Stop(n)
    BY <2>4 DEF Stop
  <2> QED
    BY <1>3, <2>1, <2>2, <2>3, <2>4 DEF Process
<1>4. \A n \in Names : ~AdmitRead(n)
  BY DEF AdmitRead
<1> QED
  BY <1>1, <1>2, <1>3, <1>4 DEF Next

LEMMA FarewellStep == IInv /\ FarewellInv /\ [Next]_vars => FarewellInv'
<1> SUFFICES ASSUME IInv, FarewellInv, Next PROVE FarewellInv'
  BY DEF FarewellInv, vars
<1>1. ASSUME NEW u \in Uids PROVE FarewellKnown(records'[u])
  <2>0. records \in [Uids -> Record] /\ records[u] \in Record /\ FarewellKnown(records[u])
    BY DEF IInv, TypeOK, FarewellInv
  <2>1. ASSUME NEW seen \in Record, FarewellKnown(seen), records'[u] = Updates(seen, records[u])
        PROVE  FarewellKnown(records'[u])
    <3>1. /\ records'[u].api = IF seen.api = "never" THEN records[u].api ELSE seen.api
          /\ records'[u].left \in {records[u].left, seen.left, "past"}
          /\ seen.left = "none" => records'[u].left = records[u].left
      BY <2>0, <2>1 DEF Updates, Record
    <3> QED
      BY <2>0, <2>1, <3>1 DEF FarewellKnown
  <2>2. \A which \in {"api", "nats"} :
          /\ [records[u] EXCEPT ![which] = "stale"].left = records[u].left
          /\ records[u].api # "never" => [records[u] EXCEPT ![which] = "stale"].api # "never"
    BY <2>0 DEF Record
  <2>3. \A c \in calls : FarewellKnown(c.seen)
    BY DEF FarewellInv
  <2>4. CASE records'[u] = records[u]
    BY <2>0, <2>4
  <2>5. CASE records'[u] # records[u]
    BY <2>0, <2>1, <2>2, <2>3, <2>5, RowChanges DEF FarewellKnown
  <2> QED
    BY <2>4, <2>5
<1>2. ASSUME NEW d \in calls' PROVE FarewellKnown(d.seen)
  BY SeenBefore DEF FarewellInv, FarewellKnown
<1> QED
  BY <1>1, <1>2 DEF FarewellInv

LEMMA FarewellInvHolds == Spec => []FarewellInv
<1>1. Init => FarewellInv
  BY DEF Init, FarewellInv, FarewellKnown, NoRecord
<1> QED
  BY <1>1, FarewellStep, IInvHolds, PTL DEF Spec

(* WorkerPresenceAt grades a signal online if it is fresh and no farewell   *)
(* is later, and shows nobody online who has said goodbye last.             *)
LEMMA PresenceShown ==
  ASSUME NEW rec \in Record
  PROVE  /\ rec.left = "last" => WorkerPresenceAt(rec).condition \in {"offline", "unknown"}
         /\ \A which \in {"api", "nats"} :
              WorkerPresenceAt(rec)[which] = "online" <=> rec[which] = "fresh" /\ rec.left # "last"
<1> DEFINE graded(seen) == IF rec.left = "last" THEN downgradeToOffline(presenceOf(seen))
                                                ELSE presenceOf(seen)
<1>1. rec.api \in Signal /\ rec.nats \in Signal
  BY DEF Record
<1>2. \A seen \in Signal : /\ graded(seen) = "online" <=> seen = "fresh" /\ rec.left # "last"
                           /\ rec.left = "last" => graded(seen) \in {"offline", "unknown"}
  BY DEF Signal, downgradeToOffline, presenceOf
<1> HIDE DEF graded
<1>3. WorkerPresenceAt(rec) =
        [api |-> graded(rec.api), nats |-> graded(rec.nats),
         condition |-> conditionOf(graded(rec.api), graded(rec.nats))]
  BY DEF WorkerPresenceAt, graded
<1>4. rec.left = "last" => conditionOf(graded(rec.api), graded(rec.nats)) \in {"offline", "unknown"}
  BY <1>1, <1>2 DEF conditionOf
<1> QED
  BY <1>1, <1>2, <1>3, <1>4

(* Leave's farewell stands until RecordContact or RecordNATSPresence hears  *)
(* the worker again: a registration under way, a lapse or a second operator *)
(* never shows it back, unless with an earlier farewell or an older row.    *)
THEOREM FarewellsHold == Spec => FarewellHolds
<1> DEFINE Held ==
      \A u \in Rewritten :
        records[u].left = "last" =>
          \/ withPresence(u)'.condition \in {"offline", "unknown"}
          \/ \E n \in Names : Contact(n) /\ procs[n].session = u
          \/ \E n \in Names : Heard(n) /\ procs[n].announces = u
          \/ \E c \in calls : c.uid = u /\ c.seen.left # "none" /\ AdmitUpdate(c)
          \/ PutBack(u)
<1>1. IInv /\ IInv' /\ [Next]_vars => [Held]_vars
  <2> SUFFICES ASSUME IInv, IInv', Next, NEW u \in Rewritten, records[u].left = "last",
                      ~\E n \in Names : Contact(n) /\ procs[n].session = u,
                      ~\E n \in Names : Heard(n) /\ procs[n].announces = u,
                      ~\E c \in calls : c.uid = u /\ c.seen.left # "none" /\ AdmitUpdate(c),
                      ~PutBack(u)
               PROVE  withPresence(u)'.condition \in {"offline", "unknown"}
    OBVIOUS
  <2>t. /\ u \in Uids /\ records[u] \in Record /\ records'[u] \in Record /\ records'[u] # records[u]
        /\ Watched \subseteq Names
    BY FleetAssumption DEF IInv, TypeOK, Rewritten
  <2>1. \A which \in {"api", "nats"} :
          [records[u] EXCEPT ![which] = "stale"].left = records[u].left
    BY <2>t DEF Record
  <2>2. ASSUME NEW c \in calls, AdmitUpdate(c), c.uid = u, records'[u] = Updates(c.seen, records[u])
        PROVE  records'[u].left = records[u].left
    <3>1. c.seen.left = "none"
      BY <2>2
    <3> QED
      BY <2>t, <2>2, <3>1 DEF Updates, Record
  <2>3. \A c \in calls : PauseWrite(c) /\ c.uid = u => c.seen = records[u]
    BY DEF PutBack
  <2>4. /\ \A n \in Watched : ~(Contact(n) /\ procs[n].session = u)
        /\ \A n \in Watched : ~(Heard(n) /\ procs[n].announces = u)
    BY <2>t
  <2>5. \/ records'[u].left = "last"
        \/ \E c \in calls : /\ AdmitUpdate(c) /\ c.uid = u
                            /\ records'[u] = Updates(c.seen, records[u])
        \/ \E c \in calls : PauseWrite(c) /\ c.uid = u /\ records'[u].left = c.seen.left
        \/ \E which \in {"api", "nats"} : records'[u] = [records[u] EXCEPT ![which] = "stale"]
        \/ records'[u].left = records[u].left
    BY <2>t, <2>4, RowChanges
  <2>6. records'[u].left = "last"
    BY <2>1, <2>2, <2>3, <2>5
  <2> QED
    BY <2>t, <2>6, PresenceShown DEF withPresence
<1> QED
  BY <1>1, IInvHolds, PTL DEF Spec, FarewellHolds

(* A worker that touch has stamped stays online on that path: only its age, *)
(* its own farewell, an operator's older row or a registration that had     *)
(* read an earlier report on it take it down, never a farewell it outlived. *)
THEOREM HeardStaysShown == Spec => HeardIsShown
<1> DEFINE Shown ==
      \A u \in Rewritten, which \in {"api", "nats"} :
        withPresence(u)[which] = "online" =>
          \/ withPresence(u)'[which] = "online"
          \/ records'[u][which] = "stale"
          \/ \E n \in Names : Leave(n) /\ procs[n].session = u
          \/ \E c \in calls : c.uid = u /\ c.seen[which] # "never" /\ AdmitUpdate(c)
          \/ PutBack(u)
<1>1. IInv /\ IInv' /\ FarewellInv /\ [Next]_vars => [Shown]_vars
  <2> SUFFICES ASSUME IInv, IInv', FarewellInv, Next,
                      NEW u \in Rewritten, NEW which \in {"api", "nats"},
                      withPresence(u)[which] = "online",
                      records'[u][which] # "stale",
                      ~\E n \in Names : Leave(n) /\ procs[n].session = u,
                      ~\E c \in calls : c.uid = u /\ c.seen[which] # "never" /\ AdmitUpdate(c),
                      ~PutBack(u)
               PROVE  withPresence(u)'[which] = "online"
    OBVIOUS
  <2>t. /\ u \in Uids /\ records[u] \in Record /\ records'[u] \in Record /\ records'[u] # records[u]
        /\ Watched \subseteq Names
    BY FleetAssumption DEF IInv, TypeOK, Rewritten
  <2>1. records[u][which] = "fresh" /\ records[u].left # "last"
    BY <2>t, PresenceShown DEF withPresence
  <2>2. ASSUME NEW other \in {"api", "nats"}, records'[u] = [records[u] EXCEPT ![other] = "stale"]
        PROVE  records'[u][which] = "fresh" /\ records'[u].left # "last"
    <3>1. other # which
      BY <2>t, <2>2 DEF Record
    <3> QED
      BY <2>t, <2>1, <2>2, <3>1 DEF Record
  <2>3. ASSUME NEW c \in calls, c.uid = u, AdmitUpdate(c), c.seen \in Record,
               records'[u] = Updates(c.seen, records[u])
        PROVE  records'[u][which] = "fresh" /\ records'[u].left # "last"
    <3>1. c.seen[which] = "never" /\ FarewellKnown(c.seen)
      BY <2>3 DEF FarewellInv
    <3>2. /\ records'[u].api = IF c.seen.api = "never" THEN records[u].api ELSE c.seen.api
          /\ records'[u].nats = IF c.seen.nats = "never" THEN records[u].nats ELSE c.seen.nats
          /\ records'[u].left = IF c.seen.left = "none" THEN records[u].left
                                ELSE IF c.seen.nats = "never" /\ records[u].nats # "never" THEN "past"
                                ELSE c.seen.left
      BY <2>t, <2>3 DEF Updates, Record
    <3> QED
      BY <2>1, <3>1, <3>2 DEF FarewellKnown
  <2>4. \A c \in calls : PauseWrite(c) /\ c.uid = u => c.seen = records[u]
    BY DEF PutBack
  <2>5. ~RetentionPasses(u)
    BY <2>1 DEF RetentionPasses
  <2>6. records'[u][which] = "fresh" /\ records'[u].left # "last"
    BY <2>t, <2>1, <2>2, <2>3, <2>4, <2>5, RowChanges
  <2> QED
    BY <2>t, <2>6, PresenceShown DEF withPresence
<1> QED
  BY <1>1, IInvHolds, FarewellInvHolds, PTL DEF Spec, HeardIsShown
=============================================================================
