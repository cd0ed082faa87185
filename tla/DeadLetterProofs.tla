-------------------------- MODULE DeadLetterProofs --------------------------
(***************************************************************************)
(* Theorems about DeadLetter, for any runs, reasons and number of clients. *)
(*                                                                         *)
(* A client that is about to write a record holds what it read; either the *)
(* version has not moved and the record is still that, or somebody has     *)
(* retried or resolved it (CallsKnow, RecordsKnow).                        *)
(***************************************************************************)
EXTENDS DeadLetter, TLAPS

(* A record is written first when it is filed and again only to link a      *)
(* retry or to resolve it.                                                  *)
RecordsKnow ==
  \A k \in Keys :
    /\ ~failures[k].filed => failures[k] = Unfiled
    /\ failures[k].filed => failures[k].version >= 1
    /\ failures[k].version > 1 => failures[k].retry # NoRun \/ failures[k].resolved
    /\ failures[k].filed => state[RunOf(k)] \notin {"absent", "pending"}

(* What a request in progress still knows of the record and of its run. *)
CallKnows(c) ==
  /\ Serving(c, "lookup") \/ Serving(c, "strand") => state[RunOf(Key(c))] # "absent"
  /\ Serving(c, "strand") /\ ~calls[c].pending => state[RunOf(Key(c))] # "pending"
  /\ Serving(c, "retry") \/ Serving(c, "resolve") =>
       /\ failures[Key(c)].filed
       /\ 1 <= calls[c].seen.version
       /\ calls[c].seen.version <= failures[Key(c)].version
       /\ Current(c) => calls[c].seen.retry = failures[Key(c)].retry
  /\ Serving(c, "retry") => calls[c].seen.retry = NoRun

CallsKnow == \A c \in Clients : CallKnows(c)

(* A run that does not exist is nobody's retry. *)
UnbornRuns == \A u \in Runs : state[u] = "absent" => retryOf[u] = NoKey

IInv ==
  /\ TypeOK
  /\ RecordsKnow
  /\ CallsKnow
  /\ UnbornRuns
  /\ OneRetryPerFailure
  /\ RetryAnswerHolds

-----------------------------------------------------------------------------
(* The run of a key is a run. *)
LEMMA RunOfKey == \A k \in Keys : RunOf(k) \in Runs
BY DeadLetterAssumption DEF RunOf

LEMMA InitIInv == Init => IInv
<1> SUFFICES ASSUME Init PROVE IInv
  OBVIOUS
<1>1. Unfiled \in Failure /\ Idle \in Call
  BY DEF Unfiled, Failure, Idle, Call, Ops
<1>2. TypeOK
  BY <1>1, DeadLetterAssumption DEF Init, TypeOK, L!TypeOK, L!JobStates, Serving, Key, Idle
<1>3. RecordsKnow
  BY DEF Init, RecordsKnow, Unfiled
<1>4. CallsKnow
  BY DEF Init, CallsKnow, CallKnows, Serving, Idle
<1> QED
  BY <1>2, <1>3, <1>4 DEF Init, IInv, UnbornRuns, OneRetryPerFailure, RetryAnswerHolds

-----------------------------------------------------------------------------
(* A run that moves leaves "absent" and "pending" for good: nothing that a  *)
(* record or a request knows of its run is undone.                          *)
LEMMA RunsAdvance ==
  ASSUME IInv, NEW u \in Runs,
         \/ L!Submit(u) \/ (\E w \in Workers : L!Start(u, w))
         \/ L!Finish(u) \/ L!Expire(u) \/ L!Fail(u)
  PROVE  /\ L!TypeOK'
         /\ \A v \in Runs : state[v] # "absent" => state'[v] # "absent"
         /\ \A v \in Runs : state[v] \notin {"absent", "pending"} =>
                              state'[v] \notin {"absent", "pending"}
         /\ \A v \in Runs : v # u => state'[v] = state[v]
<1> USE DEF IInv, TypeOK, L!TypeOK, L!JobStates, L!TerminalStates, L!Move
<1>1. CASE L!Submit(u)
  BY <1>1 DEF L!Submit
<1>2. CASE \E w \in Workers : L!Start(u, w)
  BY <1>2 DEF L!Start
<1>3. CASE L!Finish(u)
  BY <1>3 DEF L!Finish
<1>4. CASE L!Expire(u)
  BY <1>4 DEF L!Expire
<1>5. CASE L!Fail(u)
  BY <1>5 DEF L!Fail
<1> QED
  BY <1>1, <1>2, <1>3, <1>4, <1>5

(* Steps of runs that no request takes. *)
LEMMA RunStep ==
  ASSUME IInv, NEW u \in Runs, Create(u) \/ RunMoves(u)
  PROVE  IInv'
<1>1. /\ \/ L!Submit(u) \/ (\E w \in Workers : L!Start(u, w)) \/ L!Finish(u) \/ L!Expire(u)
      /\ UNCHANGED <<failures, retryOf, calls, answered>>
  BY DEF Create, RunMoves
<1>2. /\ L!TypeOK'
      /\ \A v \in Runs : state[v] # "absent" => state'[v] # "absent"
      /\ \A v \in Runs : state[v] \notin {"absent", "pending"} =>
                           state'[v] \notin {"absent", "pending"}
  BY <1>1, RunsAdvance
<1>3. TypeOK'
  BY <1>1, <1>2 DEF IInv, TypeOK, Serving, Key
<1>4. RecordsKnow'
  BY <1>1, <1>2, RunOfKey DEF IInv, RecordsKnow
<1>5. CallsKnow'
  <2> SUFFICES ASSUME NEW c \in Clients PROVE CallKnows(c)'
    BY DEF CallsKnow
  <2>1. CallKnows(c) /\ (Serving(c, "lookup") \/ Serving(c, "strand") => Key(c) \in Keys)
    BY DEF IInv, CallsKnow, TypeOK, Call, Serving, Key
  <2>2. Serving(c, "lookup") \/ Serving(c, "strand") => RunOf(Key(c)) \in Runs
    BY <2>1, RunOfKey
  <2> QED
    BY <1>1, <1>2, <2>1, <2>2 DEF CallKnows, Serving, Key, Current
<1>6. UnbornRuns'
  BY <1>1, <1>2 DEF IInv, UnbornRuns, TypeOK, L!TypeOK
<1> QED
  BY <1>1, <1>3, <1>4, <1>5, <1>6 DEF IInv, OneRetryPerFailure, RetryAnswerHolds

-----------------------------------------------------------------------------
(* A request that begins knows what it has just read. *)
LEMMA RequestStep ==
  ASSUME IInv, NEW c \in Clients, NEW k \in Keys, Request(c, k)
  PROVE  IInv'
<1>1. PICK op \in Ops, close \in BOOLEAN :
        /\ Ask(c, op, k, FALSE, close)
        /\ \/ op = "lookup" /\ state[RunOf(k)] # "absent"
           \/ op = "retry" /\ failures[k].filed /\ failures[k].retry = NoRun
           \/ op = "resolve" /\ failures[k].filed
        /\ UNCHANGED <<runVars, failures, retryOf, answered>>
  BY DEF Request, RecordLookup, RetryRead, ResolveRead, Ops
<1> DEFINE new == [op |-> op, key |-> k, seen |-> failures[k], pending |-> FALSE, close |-> close]
<1>2. new \in Call /\ new.op = op /\ new.key = k /\ new.seen = failures[k]
  BY DEF IInv, TypeOK, Call
<1>3. /\ calls' = [calls EXCEPT ![c] = new]
      /\ UNCHANGED <<state, holder, failures, retryOf, answered>>
  BY <1>1 DEF Ask, runVars
<1> HIDE DEF new
<1>4. calls'[c] = new /\ \A d \in Clients : d # c => calls'[d] = calls[d]
  BY <1>3 DEF IInv, TypeOK
<1>5. TypeOK'
  <2>1. new.op # "idle" /\ new.key # NoKey
    BY <1>1, <1>2, DeadLetterAssumption
  <2> QED
    BY <1>2, <1>3, <1>4, <2>1 DEF IInv, TypeOK, L!TypeOK, Serving, Key
<1>6. CallsKnow'
  <2> SUFFICES ASSUME NEW d \in Clients PROVE CallKnows(d)'
    BY DEF CallsKnow
  <2>1. CASE d # c
    BY <1>3, <1>4, <2>1 DEF IInv, CallsKnow, CallKnows, Serving, Key, Current
  <2>2. CASE d = c
    <3>1. failures[k] \in Failure /\ (failures[k].filed => failures[k].version >= 1)
      BY DEF IInv, TypeOK, RecordsKnow
    <3> QED
      BY <1>1, <1>2, <1>3, <1>4, <2>2, <3>1 DEF CallKnows, Serving, Key, Current, Failure
  <2> QED
    BY <2>1, <2>2
<1> QED
  BY <1>3, <1>5, <1>6
     DEF IInv, RecordsKnow, UnbornRuns, OneRetryPerFailure, RetryAnswerHolds

(* strandRunTx's read. *)
LEMMA StrandReadStep ==
  ASSUME IInv, NEW c \in Clients, StrandRead(c)
  PROVE  IInv'
<1> DEFINE new == [calls[c] EXCEPT !.op = "strand", !.pending = state[RunOf(Key(c))] = "pending"]
<1>1. /\ Serving(c, "lookup")
      /\ calls' = [calls EXCEPT ![c] = new]
      /\ UNCHANGED <<state, holder, failures, retryOf, answered>>
  BY DEF StrandRead, runVars, IInv, TypeOK, Call
<1>2. calls[c] \in Call
  BY DEF IInv, TypeOK
<1>3. /\ new \in Call /\ new.op = "strand" /\ new.key = Key(c)
      /\ new.pending = (state[RunOf(Key(c))] = "pending")
  BY <1>2 DEF Call, Key, Ops
<1> HIDE DEF new
<1>4. calls'[c] = new /\ \A d \in Clients : d # c => calls'[d] = calls[d]
  BY <1>1 DEF IInv, TypeOK
<1>5. TypeOK'
  <2>1. Key(c) # NoKey
    BY <1>1 DEF IInv, TypeOK, Serving
  <2> QED
    BY <1>1, <1>3, <1>4, <2>1 DEF IInv, TypeOK, L!TypeOK, Serving, Key
<1>6. CallsKnow'
  <2> SUFFICES ASSUME NEW d \in Clients PROVE CallKnows(d)'
    BY DEF CallsKnow
  <2>1. CASE d # c
    BY <1>1, <1>4, <2>1 DEF IInv, CallsKnow, CallKnows, Serving, Key, Current
  <2>2. CASE d = c
    <3>1. calls'[d].op = "strand" /\ Key(d)' = Key(c) /\ state' = state
      BY <1>1, <1>3, <1>4, <2>2 DEF Key
    <3>2. state[RunOf(Key(c))] # "absent"
      BY <1>1 DEF IInv, CallsKnow, CallKnows
    <3>3. ~calls'[d].pending => state[RunOf(Key(c))] # "pending"
      BY <1>3, <1>4, <2>2
    <3> QED
      BY <3>1, <3>2, <3>3 DEF CallKnows, Serving
  <2> QED
    BY <2>1, <2>2
<1> QED
  BY <1>1, <1>5, <1>6
     DEF IInv, RecordsKnow, UnbornRuns, OneRetryPerFailure, RetryAnswerHolds
-----------------------------------------------------------------------------
(* What a request that ends leaves to show: it keeps every version it did   *)
(* not move, moves one forward only to link or to resolve, and lets runs    *)
(* advance.                                                                 *)
LEMMA ReturnStep ==
  ASSUME IInv, NEW c \in Clients, Return(c), TypeOK',
         \A v \in Runs : state[v] # "absent" => state'[v] # "absent",
         \A v \in Runs : state[v] \notin {"absent", "pending"} =>
                            state'[v] \notin {"absent", "pending"},
         \A k \in Keys :
           \/ failures'[k] = failures[k]
           \/ /\ failures[k].filed => failures'[k].filed
              /\ failures'[k].version > failures[k].version
  PROVE  CallsKnow'
<1> SUFFICES ASSUME NEW d \in Clients PROVE CallKnows(d)'
  BY DEF CallsKnow
<1>1. CASE d = c
  BY <1>1 DEF Return, Idle, CallKnows, Serving, IInv, TypeOK
<1>2. CASE d # c
  <2>1. calls'[d] = calls[d] /\ CallKnows(d)
    BY <1>2 DEF Return, IInv, TypeOK, CallsKnow
  <2>2. CASE Serving(d, "idle")
    BY <2>1, <2>2 DEF CallKnows, Serving
  <2>3. CASE ~Serving(d, "idle")
    <3>1. Key(d) \in Keys /\ calls[d] \in Call
      BY <2>3 DEF IInv, TypeOK, Call, Key
    <3>2. RunOf(Key(d)) \in Runs /\ failures[Key(d)] \in Failure /\ failures'[Key(d)] \in Failure
      BY <3>1, RunOfKey DEF IInv, TypeOK
    <3>3. calls[d].seen.version \in Nat /\ failures[Key(d)].version \in Nat
            /\ failures'[Key(d)].version \in Nat
      BY <3>1, <3>2 DEF Call, Failure
    <3>4. CASE failures'[Key(d)] = failures[Key(d)]
      BY <2>1, <3>2, <3>4 DEF CallKnows, Serving, Key, Current
    <3>5. CASE /\ failures[Key(d)].filed => failures'[Key(d)].filed
               /\ failures'[Key(d)].version > failures[Key(d)].version
      BY <2>1, <3>2, <3>3, <3>5 DEF CallKnows, Serving, Key, Current
    <3> QED
      BY <3>1, <3>4, <3>5
  <2> QED
    BY <2>2, <2>3
<1> QED
  BY <1>1, <1>2

(* A request that writes nothing but its answer. *)
LEMMA QuietStep ==
  ASSUME IInv, NEW c \in Clients, FileRaced(c) \/ RetryLost(c) \/ CallDies(c)
  PROVE  IInv'
<1>1. /\ Return(c)
      /\ UNCHANGED <<state, holder, failures, retryOf>>
      /\ \/ UNCHANGED answered
         \/ RetryLost(c)
  BY DEF FileRaced, RetryLost, CallDies, runVars
<1>2. Idle \in Call /\ Idle.op = "idle" /\ Idle.key = NoKey
  BY DEF Idle, Call, Ops, Unfiled, Failure
<1>3. RetryLost(c) => Key(c) \in Keys /\ answered' = answered \cup {Key(c)}
  BY DEF RetryLost, Serving, Key, IInv, TypeOK, Call
<1>4. TypeOK'
  BY <1>1, <1>2, <1>3 DEF Return, IInv, TypeOK, L!TypeOK, Serving, Key
<1>5. CallsKnow'
  BY <1>1, <1>4, ReturnStep
<1>6. RetryAnswerHolds'
  <2>1. CASE UNCHANGED answered
    BY <1>1, <2>1 DEF IInv, RetryAnswerHolds
  <2>2. CASE RetryLost(c)
    <3>1. /\ 1 <= calls[c].seen.version
          /\ calls[c].seen.version <= failures[Key(c)].version
          /\ calls[c].seen.version # failures[Key(c)].version
      BY <2>2 DEF RetryLost, Current, IInv, CallsKnow, CallKnows
    <3>2. calls[c].seen.version \in Nat /\ failures[Key(c)].version \in Nat
      BY <2>2, <1>3 DEF IInv, TypeOK, Call, Failure
    <3>3. failures[Key(c)].version > 1
      BY <3>1, <3>2
    <3>4. failures[Key(c)].retry # NoRun \/ failures[Key(c)].resolved
      BY <2>2, <1>3, <3>3 DEF IInv, RecordsKnow
    <3> QED
      BY <1>1, <1>3, <2>2, <3>4 DEF IInv, RetryAnswerHolds
  <2> QED
    BY <1>1, <2>1, <2>2
<1> QED
  BY <1>1, <1>4, <1>5, <1>6 DEF IInv, RecordsKnow, UnbornRuns, OneRetryPerFailure

(* Filing: the record and the stranding of its run. *)
LEMMA FileStep ==
  ASSUME IInv, NEW c \in Clients, FileCommit(c)
  PROVE  IInv'
<1> DEFINE k == Key(c)
<1>1. k \in Keys /\ RunOf(k) \in Runs /\ ~failures[k].filed
  BY RunOfKey DEF FileCommit, Serving, Key, IInv, TypeOK, Call
<1>2. /\ Return(c)
      /\ failures' = [failures EXCEPT ![k] = Filed]
      /\ UNCHANGED <<retryOf, answered>>
  BY DEF FileCommit
<1>3. L!Fail(RunOf(k)) \/ UNCHANGED <<state, holder>>
  <2>1. CASE calls[c].pending /\ state[RunOf(k)] = "pending"
    BY <2>1 DEF FileCommit, Strand, L!Fail, L!Move
  <2>2. CASE ~(calls[c].pending /\ state[RunOf(k)] = "pending")
    BY <2>2 DEF FileCommit, Strand
  <2> QED
    BY <2>1, <2>2
<1>4. /\ L!TypeOK'
      /\ \A v \in Runs : state[v] # "absent" => state'[v] # "absent"
      /\ \A v \in Runs : state[v] \notin {"absent", "pending"} =>
                           state'[v] \notin {"absent", "pending"}
  BY <1>1, <1>3, RunsAdvance DEF IInv, TypeOK, L!TypeOK
<1>5. state'[RunOf(k)] \notin {"absent", "pending"}
  <2>1. state[RunOf(k)] # "absent" /\ (~calls[c].pending => state[RunOf(k)] # "pending")
    BY DEF FileCommit, IInv, CallsKnow, CallKnows
  <2>2. CASE calls[c].pending /\ state[RunOf(k)] = "pending"
    BY <1>1, <2>2 DEF FileCommit, Strand, IInv, TypeOK, L!TypeOK
  <2>3. CASE ~(calls[c].pending /\ state[RunOf(k)] = "pending")
    <3>1. state' = state
      BY <2>3 DEF FileCommit, Strand
    <3>2. state[RunOf(k)] # "pending"
      BY <2>1, <2>3
    <3> QED
      BY <2>1, <3>1, <3>2
  <2> QED
    BY <2>2, <2>3
<1>6. /\ Filed \in Failure /\ Filed.version = 1 /\ Filed.filed
      /\ Filed.retry = NoRun
  BY DEF Filed, Unfiled, Failure
<1>7. failures'[k] = Filed /\ \A j \in Keys : j # k => failures'[j] = failures[j]
  BY <1>1, <1>2 DEF IInv, TypeOK
<1>8. TypeOK'
  <2>1. Idle \in Call /\ Idle.op = "idle" /\ Idle.key = NoKey
    BY DEF Idle, Call, Ops, Unfiled, Failure
  <2> QED
    BY <1>1, <1>2, <1>4, <1>6, <2>1 DEF Return, IInv, TypeOK, Serving, Key
<1>9. failures[k] = Unfiled /\ Unfiled.version = 0 /\ Unfiled.retry = NoRun /\ ~Unfiled.resolved
  BY <1>1 DEF IInv, RecordsKnow, Unfiled
<1>10. CallsKnow'
  BY <1>1, <1>2, <1>4, <1>6, <1>7, <1>8, <1>9, ReturnStep
<1>11. RecordsKnow'
  <2> SUFFICES ASSUME NEW j \in Keys
               PROVE  /\ ~failures'[j].filed => failures'[j] = Unfiled
                      /\ failures'[j].filed => failures'[j].version >= 1
                      /\ failures'[j].version > 1 =>
                           failures'[j].retry # NoRun \/ failures'[j].resolved
                      /\ failures'[j].filed => state'[RunOf(j)] \notin {"absent", "pending"}
    BY DEF RecordsKnow, RunOf, Unfiled
  <2>1. CASE j = k
    BY <1>5, <1>6, <1>7, <2>1
  <2>2. CASE j # k
    BY <1>4, <1>7, <2>2, RunOfKey DEF IInv, RecordsKnow
  <2> QED
    BY <2>1, <2>2
<1>12. OneRetryPerFailure' /\ RetryAnswerHolds'
  <2>1. \A u \in Runs : retryOf[u] # k
    BY <1>1, <1>9, DeadLetterAssumption DEF IInv, OneRetryPerFailure
  <2>2. k \notin answered
    BY <1>1, <1>9 DEF IInv, RetryAnswerHolds
  <2> QED
    BY <1>2, <1>7, <2>1, <2>2 DEF IInv, TypeOK, OneRetryPerFailure, RetryAnswerHolds
<1>13. UnbornRuns'
  BY <1>2, <1>4 DEF IInv, UnbornRuns
<1> QED
  BY <1>8, <1>10, <1>11, <1>12, <1>13 DEF IInv

-----------------------------------------------------------------------------
(* A guarded write of a filed record moves its version, keeps it filed and  *)
(* leaves it linked or resolved.                                            *)
LEMMA SaveEffect ==
  ASSUME IInv, NEW c \in Clients, Key(c) \in Keys, failures[Key(c)].filed,
         NEW new \in Failure, Save(c, new)
  PROVE  /\ failures' \in [Keys -> Failure]
         /\ \A j \in Keys : j # Key(c) => failures'[j] = failures[j]
         /\ failures'[Key(c)].filed
         /\ failures'[Key(c)].version = failures[Key(c)].version + 1
         /\ new.retry # NoRun => failures'[Key(c)].retry = new.retry
         /\ new.retry = NoRun => failures'[Key(c)].retry = failures[Key(c)].retry
         /\ failures[Key(c)].resolved \/ new.resolved => failures'[Key(c)].resolved
<1>1. failures[Key(c)] \in Failure
  BY DEF IInv, TypeOK
<1> DEFINE old == failures[Key(c)]
           saved == Saved(old, new)
<1>2. failures' = [failures EXCEPT ![Key(c)] = saved]
  BY DEF Save
<1>3. (old.resolved \/ new.resolved) \in BOOLEAN
  OBVIOUS
<1>4. /\ saved \in Failure
      /\ saved.filed = old.filed
      /\ saved.version = old.version + 1
      /\ saved.retry = IF new.retry = NoRun THEN old.retry ELSE new.retry
      /\ saved.resolved = (old.resolved \/ new.resolved)
  BY <1>1, <1>3 DEF Failure, Saved
<1> HIDE DEF saved
<1>5. failures'[Key(c)] = saved /\ \A j \in Keys : j # Key(c) => failures'[j] = failures[j]
  BY <1>2 DEF IInv, TypeOK
<1>6. failures' \in [Keys -> Failure]
  BY <1>2, <1>4 DEF IInv, TypeOK
<1> QED
  BY <1>4, <1>5, <1>6

(* A new attempt: its run, and the link to it. *)
LEMMA RetryStep ==
  ASSUME IInv, NEW c \in Clients, NEW n \in Runs, RetryCommit(c, n)
  PROVE  IInv'
<1> DEFINE k == Key(c)
<1>1. /\ calls[c] \in Call /\ k \in Keys /\ RunOf(k) \in Runs
      /\ failures[k].filed /\ failures[k].version \in Nat /\ failures[k].version >= 1
      /\ failures[k].retry = NoRun
  <2>1. Serving(c, "retry") /\ Current(c) /\ CallKnows(c)
    BY DEF RetryCommit, IInv, CallsKnow
  <2>2. k \in Keys /\ calls[c] \in Call
    BY <2>1 DEF Serving, Key, IInv, TypeOK, Call
  <2> QED
    BY <2>1, <2>2, RunOfKey DEF CallKnows, IInv, TypeOK, Failure, RecordsKnow
<1>2. /\ L!Submit(n) /\ state'[n] = "pending" /\ state[n] = "absent"
      /\ retryOf' = [retryOf EXCEPT ![n] = k]
      /\ Save(c, Linked(c, n)) /\ Return(c) /\ UNCHANGED answered
  BY DEF RetryCommit, L!Submit, L!Move
<1>3. Linked(c, n) \in Failure /\ Linked(c, n).retry = n
  BY <1>1 DEF Linked, Call, Failure
<1>4. /\ failures' \in [Keys -> Failure]
      /\ \A j \in Keys : j # k => failures'[j] = failures[j]
      /\ failures'[k].filed
      /\ failures'[k].version = failures[k].version + 1
      /\ failures'[k].retry = n
  BY <1>1, <1>2, <1>3, SaveEffect, DeadLetterAssumption
<1>5. /\ L!TypeOK'
      /\ \A v \in Runs : state[v] # "absent" => state'[v] # "absent"
      /\ \A v \in Runs : state[v] \notin {"absent", "pending"} =>
                           state'[v] \notin {"absent", "pending"}
  BY <1>2, RunsAdvance
<1>6. TypeOK'
  <2>1. Idle \in Call /\ Idle.op = "idle" /\ Idle.key = NoKey
    BY DEF Idle, Call, Ops, Unfiled, Failure
  <2> QED
    BY <1>1, <1>2, <1>4, <1>5, <2>1 DEF Return, IInv, TypeOK, Serving, Key
<1>7. CallsKnow'
  BY <1>1, <1>2, <1>4, <1>5, <1>6, ReturnStep
<1>8. RecordsKnow'
  <2> SUFFICES ASSUME NEW j \in Keys
               PROVE  /\ ~failures'[j].filed => failures'[j] = Unfiled
                      /\ failures'[j].filed => failures'[j].version >= 1
                      /\ failures'[j].version > 1 =>
                           failures'[j].retry # NoRun \/ failures'[j].resolved
                      /\ failures'[j].filed => state'[RunOf(j)] \notin {"absent", "pending"}
    BY DEF RecordsKnow, RunOf, Unfiled
  <2>1. CASE j = k
    <3>1. state[RunOf(k)] \notin {"absent", "pending"}
      BY <1>1 DEF IInv, RecordsKnow
    <3>2. n # NoRun
      BY DeadLetterAssumption
    <3> QED
      BY <1>1, <1>4, <1>5, <2>1, <3>1, <3>2
  <2>2. CASE j # k
    BY <1>4, <1>5, <2>2, RunOfKey DEF IInv, RecordsKnow
  <2> QED
    BY <2>1, <2>2
<1>9. OneRetryPerFailure'
  <2>1. \A u \in Runs : retryOf[u] # k
    BY <1>1, DeadLetterAssumption DEF IInv, OneRetryPerFailure
  <2> QED
    BY <1>2, <1>4, <2>1 DEF IInv, TypeOK, OneRetryPerFailure
<1>10. RetryAnswerHolds'
  BY <1>2, <1>4, DeadLetterAssumption DEF IInv, TypeOK, RetryAnswerHolds
<1>11. UnbornRuns'
  BY <1>2, <1>5 DEF IInv, TypeOK, UnbornRuns
<1> QED
  BY <1>6, <1>7, <1>8, <1>9, <1>10, <1>11 DEF IInv

(* A resolution, or one that comes too late. *)
LEMMA ResolveStep ==
  ASSUME IInv, NEW c \in Clients, ResolveCommit(c)
  PROVE  IInv'
<1> DEFINE k == Key(c)
<1>1. calls[c] \in Call /\ k \in Keys /\ failures[k].filed /\ failures[k] \in Failure
  <2>1. Serving(c, "resolve") /\ CallKnows(c)
    BY DEF ResolveCommit, IInv, CallsKnow
  <2> QED
    BY <2>1 DEF CallKnows, Serving, Key, IInv, TypeOK, Call
<1>2. Return(c) /\ UNCHANGED <<state, holder, retryOf, answered>>
  BY DEF ResolveCommit, runVars
<1>3. Idle \in Call /\ Idle.op = "idle" /\ Idle.key = NoKey
  BY DEF Idle, Call, Ops, Unfiled, Failure
<1>4. CASE UNCHANGED failures
  <2>1. TypeOK'
    BY <1>2, <1>3, <1>4 DEF Return, IInv, TypeOK, L!TypeOK, Serving, Key
  <2>2. CallsKnow'
    BY <1>2, <1>4, <2>1, ReturnStep
  <2> QED
    BY <1>2, <1>4, <2>1, <2>2
       DEF IInv, RecordsKnow, UnbornRuns, OneRetryPerFailure, RetryAnswerHolds
<1>5. CASE Current(c)
  <2> DEFINE new == [calls[c].seen EXCEPT !.resolved = TRUE]
  <2>1. new \in Failure /\ new.resolved /\ Save(c, new)
    BY <1>1, <1>5 DEF ResolveCommit, Call, Failure
  <2>2. /\ failures' \in [Keys -> Failure]
        /\ \A j \in Keys : j # k => failures'[j] = failures[j]
        /\ failures'[k].filed
        /\ failures'[k].version = failures[k].version + 1
        /\ failures'[k].resolved
        /\ failures[k].retry # NoRun => failures'[k].retry # NoRun
    BY <1>1, <2>1, SaveEffect
  <2>3. TypeOK'
    BY <1>2, <1>3, <2>2 DEF Return, IInv, TypeOK, L!TypeOK, Serving, Key
  <2>4. CallsKnow'
    BY <1>1, <1>2, <2>2, <2>3, ReturnStep DEF Failure
  <2>5. RecordsKnow'
    <3> SUFFICES ASSUME NEW j \in Keys
                 PROVE  /\ ~failures'[j].filed => failures'[j] = Unfiled
                        /\ failures'[j].filed => failures'[j].version >= 1
                        /\ failures'[j].version > 1 =>
                             failures'[j].retry # NoRun \/ failures'[j].resolved
                        /\ failures'[j].filed => state'[RunOf(j)] \notin {"absent", "pending"}
      BY DEF RecordsKnow, RunOf, Unfiled
    <3>1. CASE j = k
      <4>1. state'[RunOf(k)] \notin {"absent", "pending"} /\ failures[k].version >= 1
        BY <1>1, <1>2 DEF IInv, RecordsKnow
      <4> QED
        BY <1>1, <2>2, <3>1, <4>1 DEF Failure
    <3>2. CASE j # k
      BY <1>2, <2>2, <3>2 DEF IInv, RecordsKnow
    <3> QED
      BY <3>1, <3>2
  <2>6. OneRetryPerFailure' /\ RetryAnswerHolds'
    <3>1. failures'[k].retry = failures[k].retry \/ failures[k].retry = NoRun
      <4>1. new.retry = failures[k].retry
        BY <1>1, <1>5 DEF ResolveCommit, IInv, CallsKnow, CallKnows, Call, Failure
      <4> QED
        BY <1>1, <2>1, <4>1, SaveEffect
    <3>2. OneRetryPerFailure'
      BY <1>1, <1>2, <2>2, <3>1, DeadLetterAssumption DEF IInv, TypeOK, OneRetryPerFailure
    <3>3. RetryAnswerHolds'
      BY <1>2, <2>2 DEF IInv, TypeOK, RetryAnswerHolds
    <3> QED
      BY <3>2, <3>3
  <2>7. UnbornRuns'
    BY <1>2 DEF IInv, UnbornRuns
  <2> QED
    BY <2>3, <2>4, <2>5, <2>6, <2>7 DEF IInv
<1> QED
  BY <1>4, <1>5 DEF ResolveCommit

-----------------------------------------------------------------------------
(* Every step preserves the inductive invariant. *)
LEMMA StepIInv == IInv /\ [Next]_vars => IInv'
<1> SUFFICES ASSUME IInv, [Next]_vars PROVE IInv'
  OBVIOUS
<1>1. CASE UNCHANGED vars
  BY <1>1 DEF vars, IInv, TypeOK, L!TypeOK, RecordsKnow, CallsKnow, CallKnows, Serving, Key,
              Current, UnbornRuns, OneRetryPerFailure, RetryAnswerHolds
<1>2. ASSUME NEW u \in Runs, Create(u) \/ RunMoves(u) PROVE IInv'
  BY <1>2, RunStep
<1>3. ASSUME NEW c \in Clients, NEW k \in Keys, Request(c, k) PROVE IInv'
  BY <1>3, RequestStep
<1>4. ASSUME NEW c \in Clients, Serve(c) PROVE IInv'
  BY <1>4, StrandReadStep, FileStep, QuietStep, RetryStep, ResolveStep DEF Serve
<1>5. ASSUME NEW k \in Keys, RetryRepeated(k) PROVE IInv'
  <2>1. /\ UNCHANGED <<state, holder, failures, retryOf, calls>>
        /\ answered' = answered \cup {k}
        /\ failures[k].retry # NoRun
    BY <1>5 DEF RetryRepeated, runVars
  <2> QED
    BY <2>1 DEF IInv, TypeOK, L!TypeOK, RecordsKnow, CallsKnow, CallKnows, Serving, Key,
                Current, UnbornRuns, OneRetryPerFailure, RetryAnswerHolds
<1> QED
  BY <1>1, <1>2, <1>3, <1>4, <1>5 DEF Next

(* The inductive invariant: records change only to be linked or resolved,   *)
(* and a request in progress still knows of its record and its run what it  *)
(* has checked.                                                             *)
THEOREM IInvHolds == Spec => []IInv
<1> QED
  BY InitIInv, StepIInv, PTL DEF Spec

(* Type correctness, for any runs, reasons and clients. *)
THEOREM TypeCorrect == Spec => []TypeOK
<1>1. IInv => TypeOK
  BY DEF IInv
<1> QED
  BY <1>1, IInvHolds, PTL

(* However many operators retry a failure at once, it is retried as at most *)
(* one run, which its record links to.                                      *)
THEOREM SingleRetry == Spec => []OneRetryPerFailure
<1>1. IInv => OneRetryPerFailure
  BY DEF IInv
<1> QED
  BY <1>1, IInvHolds, PTL

(* No record says that a dispatch is dead while its run waits for it.       *)
THEOREM RecordedRunsDoNotWait == Spec => []RecordedRunIsNotWaiting
<1>1. IInv => RecordedRunIsNotWaiting
  BY DEF IInv, RecordsKnow, RecordedRunIsNotWaiting
<1> QED
  BY <1>1, IInvHolds, PTL

(* A Retry that made no run finds one, or finds the record resolved.        *)
THEOREM RetryAnswersHold == Spec => []RetryAnswerHolds
<1>1. IInv => RetryAnswerHolds
  BY DEF IInv
<1> QED
  BY <1>1, IInvHolds, PTL

(* A Resolve is answered of a record that is resolved, or that was retried  *)
(* while it was being resolved, for any number of clients.                  *)
THEOREM ResolveAnswersHold == Spec => [][ResolveAnswerHolds]_vars
<1>1. ASSUME IInv, NEW c \in Clients, ResolveCommit(c)
      PROVE  failures'[Key(c)].resolved \/ failures'[Key(c)].retry # NoRun
  <2>1. /\ Serving(c, "resolve") /\ CallKnows(c)
        /\ calls[c] \in Call /\ Key(c) \in Keys /\ failures[Key(c)] \in Failure
    <3>1. Serving(c, "resolve") /\ CallKnows(c)
      BY <1>1 DEF ResolveCommit, IInv, CallsKnow
    <3> QED
      BY <1>1, <3>1 DEF Serving, Key, IInv, TypeOK, Call
  <2>2. CASE Current(c)
    <3> DEFINE new == [calls[c].seen EXCEPT !.resolved = TRUE]
    <3>1. new \in Failure /\ new.resolved /\ Save(c, new)
      BY <1>1, <2>1, <2>2 DEF ResolveCommit, Call, Failure
    <3>2. failures[Key(c)].filed
      BY <2>1 DEF CallKnows
    <3> QED
      BY <1>1, <2>1, <3>1, <3>2, SaveEffect
  <2>3. CASE ~Current(c)
    <3>1. failures[Key(c)].version > 1
      BY <2>1, <2>3 DEF CallKnows, Current, Call, Failure
    <3>2. failures[Key(c)].retry # NoRun \/ failures[Key(c)].resolved
      BY <1>1, <2>1, <3>1 DEF IInv, RecordsKnow
    <3>3. failures' = failures
      BY <1>1, <2>3 DEF ResolveCommit
    <3> QED
      BY <3>2, <3>3
  <2> QED
    BY <2>2, <2>3
<1>2. IInv /\ [Next]_vars => [ResolveAnswerHolds]_vars
  BY <1>1 DEF ResolveAnswerHolds
<1> QED
  BY <1>2, IInvHolds, PTL DEF Spec

(* Operators are told what is so of a record, for any number of clients.    *)
THEOREM OperatorsAreToldWhatHolds == Spec => AnswersHold
<1>1. RetryAnswerHolds' /\ [ResolveAnswerHolds]_vars => [RetryAnswerHolds' /\ ResolveAnswerHolds]_vars
  OBVIOUS
<1> QED
  BY <1>1, RetryAnswersHold, ResolveAnswersHold, PTL DEF AnswersHold
=============================================================================
