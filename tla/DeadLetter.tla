----------------------------- MODULE DeadLetter -----------------------------
(***************************************************************************)
(* The dead-letter records of dispatches (DispatchFailure): filed once per *)
(* dispatch and reason while the run they strand may be claimed through    *)
(* another delivery, then retried as a new run or resolved by operators.   *)
(*                                                                         *)
(* A run moves as RunLifecycle says, which module Results implements: of a *)
(* pending run, "its version is still the one read" is "it is still        *)
(* pending".  A handler is a read and, later, a transaction guarded by     *)
(* what was read.                                                          *)
(***************************************************************************)
EXTENDS Integers, FiniteSets

CONSTANTS
  Runs,
  Workers,
  NoWorker,
  Reasons,       \* DispatchFailureReason
  Keys,          \* bound: the dispatches that fail, and for which reason
  Clients,       \* bound: concurrent callers (workers, the control plane, operators)
  NoRun,
  NoKey

ASSUME DeadLetterAssumption ==
  /\ NoRun \notin Runs
  /\ NoWorker \notin Workers
  /\ Keys \subseteq Runs \X Reasons
  /\ NoKey \notin Keys

VARIABLES
  state, holder,  \* RunLifecycle
  failures,       \* failures[k]: the record named DispatchFailureName(k)
  retryOf,        \* retryOf[u]: LabelRetryOfFailure of run u
  calls,          \* calls[c]: the request of client c that is being served
  answered        \* records of which a Retry was answered without a new run

runVars == <<state, holder>>
vars == <<state, holder, failures, retryOf, calls, answered>>

L == INSTANCE RunLifecycle

-----------------------------------------------------------------------------
(* DispatchFailureName: a dispatch, which is its run's only one, and reason. *)
RunOf(k) == k[1]

(* DispatchFailureStatus; the spec of a record is its key. *)
Failure ==
  [filed : BOOLEAN, resolved : BOOLEAN, retry : Runs \cup {NoRun}, version : Nat]

Unfiled == [filed |-> FALSE, resolved |-> FALSE, retry |-> NoRun, version |-> 0]

Filed == [Unfiled EXCEPT !.filed = TRUE, !.version = 1]

Ops == {"idle", "lookup", "strand", "retry", "resolve"}

(* What a request in progress has read: the record, and for a strand        *)
(* whether the run was pending.                                             *)
Call ==
  [op : Ops, key : Keys \cup {NoKey}, seen : Failure, pending : BOOLEAN, close : BOOLEAN]

Idle == [op |-> "idle", key |-> NoKey, seen |-> Unfiled, pending |-> FALSE, close |-> FALSE]

Ask(c, op, k, pending, close) ==
  calls' = [calls EXCEPT ![c] = [op |-> op, key |-> k, seen |-> failures[k],
                                 pending |-> pending, close |-> close]]

Return(c) == calls' = [calls EXCEPT ![c] = Idle]

Serving(c, op) == calls[c].op = op

(* The record client c is about, and whether it is as c read it. *)
Key(c) == calls[c].key

(* Mutation: the store writes whatever the version *)
UnguardedWrite(c) == TRUE

(* dbstore.WithVersion *)
Current(c) == failures[Key(c)].version = calls[c].seen.version

(* dbstore.Update writes the fields of the copy that are set; a zero field  *)
(* is left as it is stored.                                                 *)
Saved(old, new) ==
  [filed    |-> old.filed,
   resolved |-> old.resolved \/ new.resolved,
   retry    |-> IF new.retry = NoRun THEN old.retry ELSE new.retry,
   version  |-> old.version + 1]

Save(c, new) == failures' = [failures EXCEPT ![Key(c)] = Saved(@, new)]

-----------------------------------------------------------------------------
(* Runs *)

(* createWithDispatch, of a run that was placed *)
Create(u) ==
  /\ L!Submit(u)
  /\ state'[u] = "pending"
  /\ UNCHANGED <<failures, retryOf, calls, answered>>

(* Claims, reports and the reconciler. *)
RunMoves(u) ==
  /\ (\E w \in Workers : L!Start(u, w)) \/ L!Finish(u) \/ L!Expire(u)
  /\ UNCHANGED <<failures, retryOf, calls, answered>>

-----------------------------------------------------------------------------
(* recordDispatchFailure: for a worker's report, an advisory or the relay *)

(* The failure is not on record yet (a repeated report ends here). *)
RecordLookup(c, k) ==
  /\ Serving(c, "idle")
  /\ state[RunOf(k)] # "absent"
  /\ ~failures[k].filed
  /\ Ask(c, "lookup", k, FALSE, FALSE)
  /\ UNCHANGED <<runVars, failures, retryOf, answered>>

(* In the transaction: the record is inserted and strandRunTx loads the run. *)
StrandRead(c) ==
  /\ Serving(c, "lookup")
  /\ calls' = [calls EXCEPT ![c].op = "strand", ![c].pending = state[RunOf(Key(c))] = "pending"]
  /\ UNCHANGED <<runVars, failures, retryOf, answered>>

(* Mutation: the record is committed and the run left to the reconciler *)
StrandSkipped(c) == UNCHANGED runVars

(* strandRunTx: writes the run as failed if it was pending when read and    *)
(* still is.                                                                *)
Strand(c) ==
  /\ state' = IF calls[c].pending /\ state[RunOf(Key(c))] = "pending"
                THEN [state EXCEPT ![RunOf(Key(c))] = "errored"]
                ELSE state
  /\ UNCHANGED holder

FileCommit(c) ==
  /\ Serving(c, "strand")
  /\ ~failures[Key(c)].filed
  /\ failures' = [failures EXCEPT ![Key(c)] = Filed]
  /\ Strand(c)
  /\ Return(c)
  /\ UNCHANGED <<retryOf, answered>>

(* Another reporter of the same failure was first: the name is taken, the   *)
(* transaction is rolled back and the record that exists is returned.       *)
FileRaced(c) ==
  /\ Serving(c, "strand")
  /\ failures[Key(c)].filed
  /\ Return(c)
  /\ UNCHANGED <<runVars, failures, retryOf, answered>>

-----------------------------------------------------------------------------
(* Retry and Resolve *)

(* The record is loaded, and was not retried.  The run it names carries its *)
(* snapshot: of one stored before snapshots a Retry is refused.             *)
RetryRead(c, k, close) ==
  /\ Serving(c, "idle")
  /\ failures[k].filed
  /\ failures[k].retry = NoRun
  /\ Ask(c, "retry", k, FALSE, close)
  /\ UNCHANGED <<runVars, failures, retryOf, answered>>

(* Already retried: answered with the run that exists. *)
RetryRepeated(k) ==
  /\ failures[k].filed
  /\ failures[k].retry # NoRun
  /\ answered' = answered \cup {k}
  /\ UNCHANGED <<runVars, failures, retryOf, calls>>

(* Mutation: the retry is not noted on the record *)
LinkForgotten(c, n) == [calls[c].seen EXCEPT !.resolved = @ \/ calls[c].close]

(* RetryResultUID, and markResolved if the request asks for it *)
Linked(c, n) == [calls[c].seen EXCEPT !.retry = n, !.resolved = @ \/ calls[c].close]

(* The new run, its dispatch and the link to it commit together. *)
RetryCommit(c, n) ==
  /\ Serving(c, "retry")
  /\ Current(c)
  /\ L!Submit(n)
  /\ state'[n] = "pending"
  /\ retryOf' = [retryOf EXCEPT ![n] = Key(c)]
  /\ Save(c, Linked(c, n))
  /\ Return(c)
  /\ UNCHANGED answered

(* Mutation: a transaction that failed is answered as a lost race *)
RetryFailsQuietly(c) ==
  /\ Serving(c, "retry")
  /\ Return(c)
  /\ answered' = answered \cup {Key(c)}
  /\ UNCHANGED <<runVars, failures, retryOf>>

(* The record changed meanwhile: rolled back, and answered without error. *)
RetryLost(c) ==
  /\ Serving(c, "retry")
  /\ ~Current(c)
  /\ Return(c)
  /\ answered' = answered \cup {Key(c)}
  /\ UNCHANGED <<runVars, failures, retryOf>>

ResolveRead(c, k) ==
  /\ Serving(c, "idle")
  /\ failures[k].filed
  /\ ~failures[k].resolved
  /\ Ask(c, "resolve", k, FALSE, TRUE)
  /\ UNCHANGED <<runVars, failures, retryOf, answered>>

(* resolveDispatchFailure; a lost write is answered like one that landed. *)
ResolveCommit(c) ==
  /\ Serving(c, "resolve")
  /\ IF Current(c) THEN Save(c, [calls[c].seen EXCEPT !.resolved = TRUE])
                   ELSE UNCHANGED failures
  /\ Return(c)
  /\ UNCHANGED <<runVars, retryOf, answered>>

(* The process dies or the transaction fails: nothing is written. *)
CallDies(c) ==
  /\ ~Serving(c, "idle")
  /\ Return(c)
  /\ UNCHANGED <<runVars, failures, retryOf, answered>>

-----------------------------------------------------------------------------
Init ==
  /\ state = [u \in Runs |-> "absent"]
  /\ holder = [u \in Runs |-> NoWorker]
  /\ failures = [k \in Keys |-> Unfiled]
  /\ retryOf = [u \in Runs |-> NoKey]
  /\ calls = [c \in Clients |-> Idle]
  /\ answered = {}

Serve(c) ==
  \/ StrandRead(c)
  \/ FileCommit(c)
  \/ FileRaced(c)
  \/ \E n \in Runs : RetryCommit(c, n)
  \/ RetryLost(c)
  \/ ResolveCommit(c)
  \/ CallDies(c)

Request(c, k) ==
  \/ RecordLookup(c, k)
  \/ \E close \in BOOLEAN : RetryRead(c, k, close)
  \/ ResolveRead(c, k)

Next ==
  \/ \E u \in Runs : Create(u) \/ RunMoves(u)
  \/ \E c \in Clients : Serve(c) \/ \E k \in Keys : Request(c, k)
  \/ \E k \in Keys : RetryRepeated(k)

Spec == Init /\ [][Next]_vars

-----------------------------------------------------------------------------
(* Properties *)

(* Every variable has its type, and an idle client has nothing in hand. *)
TypeOK ==
  /\ L!TypeOK
  /\ failures \in [Keys -> Failure]
  /\ retryOf \in [Runs -> Keys \cup {NoKey}]
  /\ calls \in [Clients -> Call]
  /\ \A c \in Clients : Serving(c, "idle") <=> Key(c) = NoKey
  /\ answered \subseteq Keys

(* However many operators press retry at once, and whoever resolves the     *)
(* record meanwhile, a record has one retry run, the one it links to.       *)
OneRetryPerFailure ==
  \A u \in Runs : retryOf[u] # NoKey => failures[retryOf[u]].retry = u

(* A record never says that a dispatch is dead while its run still waits    *)
(* for it: filing and stranding commit together.                            *)
RecordedRunIsNotWaiting ==
  \A k \in Keys : failures[k].filed => state[RunOf(k)] # "pending"

(* A Retry that is answered without a new run finds one, or finds that      *)
(* somebody has resolved the record.                                        *)
RetryAnswerHolds ==
  \A k \in answered : failures[k].retry # NoRun \/ failures[k].resolved

(* Resolve does not look whether its write applied.  What it answers is     *)
(* still so, unless somebody has retried the record meanwhile, and then     *)
(* it links to that run.                                                    *)
ResolveAnswerHolds ==
  \A c \in Clients :
    ResolveCommit(c) => failures'[Key(c)].resolved \/ failures'[Key(c)].retry # NoRun

(* What operators are told of a record is so, whoever else is at work on it. *)
AnswersHold == [][RetryAnswerHolds' /\ ResolveAnswerHolds]_vars
=============================================================================
