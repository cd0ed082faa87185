------------------------------- MODULE Outbox -------------------------------
(***************************************************************************)
(* The dispatch outbox, the relays that drain it and the job stream they   *)
(* publish to.  A relay leases a batch of due rows, publishes each to the  *)
(* broker and records the outcome on the row; nothing holds the row in     *)
(* between, so a lease may lapse under a slow relay, another may take the   *)
(* row over, and either may crash between any two steps.  The broker       *)
(* suppresses a message whose ID it has stored within its duplicate window.*)
(*                                                                         *)
(* Time appears as steps that may happen at any moment: a lease lapses, a  *)
(* backoff elapses, the duplicate window of a message passes.              *)
(***************************************************************************)
EXTENDS Integers, FiniteSets

CONSTANTS
  Events,        \* outbox rows, by event UID (one per run: its UID and version)
  Unroutable,    \* events whose row names no runner
  Relays,        \* relay processes
  NoRelay,
  NoEvent,
  BatchSize,
  MaxFaults      \* bound: crashes, refusals, lost answers and store failures

ASSUME OutboxAssumption ==
  /\ Unroutable \subseteq Events
  /\ NoRelay \notin Relays
  /\ NoEvent \notin Events
  /\ BatchSize \in Nat
  /\ MaxFaults \in Nat

VARIABLES
  rows,           \* rows[e]: the outbox row of event e
  relays,         \* relays[r]: where relay r is in its batch
  stream,         \* messages held by the job stream
  window,         \* message IDs stored, with their sequence and whether the
                  \* broker still suppresses them
  lastSeq,        \* last stream sequence given out
  gone,           \* events of which a message has left the stream
  undeliverable,  \* events handed to the PermanentDispatchSink
  faults          \* faults so far

vars == <<rows, relays, stream, window, lastSeq, gone, undeliverable, faults>>

-----------------------------------------------------------------------------
(* Types *)

(* DispatchOutboxEntry *)
Row ==
  [written   : BOOLEAN,                   \* the row exists
   routed    : BOOLEAN,                   \* it names a runner
   published : BOOLEAN,                   \* published_at is set
   seq       : Nat,                       \* published_seq
   retired   : BOOLEAN,                   \* retired_at is set
   holder    : Relays \cup {NoRelay},     \* claimed_by
   lapsed    : BOOLEAN,                   \* claim_expires_at has passed
   due       : BOOLEAN]                   \* not_before has passed

NoRow ==
  [written |-> FALSE, routed |-> FALSE, published |-> FALSE, seq |-> 0, retired |-> FALSE,
   holder |-> NoRelay, lapsed |-> FALSE, due |-> FALSE]

(* NewDispatchOutboxEntry *)
NewRow(routed) == [NoRow EXCEPT !.written = TRUE, !.routed = routed, !.due = TRUE]

Stages == {"next", "acked", "failed", "permanent"}

(* A relay's batch, the entry in hand and what became of its publication. *)
Relay == [batch : SUBSET Events, event : Events \cup {NoEvent}, stage : Stages, seq : Nat]

Idle == [batch |-> {}, event |-> NoEvent, stage |-> "next", seq |-> 0]

Fault == faults < MaxFaults /\ faults' = faults + 1

-----------------------------------------------------------------------------
(* The outbox table *)

Enqueue(e, routed) ==
  /\ ~rows[e].written
  /\ rows' = [rows EXCEPT ![e] = NewRow(routed)]
  /\ UNCHANGED <<relays, stream, window, lastSeq, gone, undeliverable, faults>>

(* Mutation: a lapsed lease is not taken over *)
ClaimableUnleased(e) ==
  /\ rows[e].written
  /\ ~rows[e].published
  /\ ~rows[e].retired
  /\ rows[e].due
  /\ rows[e].holder = NoRelay

(* The rows Claim's query selects *)
Claimable(e) ==
  /\ rows[e].written
  /\ ~rows[e].published
  /\ ~rows[e].retired
  /\ rows[e].due
  /\ rows[e].holder = NoRelay \/ rows[e].lapsed

(* Claim.  SKIP LOCKED passes over rows another relay is claiming, so a     *)
(* batch may miss some.                                                     *)
Claim(r, batch) ==
  /\ relays[r] = Idle
  /\ batch # {}
  /\ Cardinality(batch) <= BatchSize
  /\ \A e \in batch : Claimable(e)
  /\ rows' = [e \in Events |->
                IF e \in batch THEN [rows[e] EXCEPT !.holder = r, !.lapsed = FALSE]
                               ELSE rows[e]]
  /\ relays' = [relays EXCEPT ![r].batch = batch]
  /\ UNCHANGED <<stream, window, lastSeq, gone, undeliverable, faults>>

(* RetireDispatch, of the stale-dispatch sweep *)
RetireDispatch(e) ==
  /\ rows[e].written
  /\ ~rows[e].retired
  /\ rows' = [rows EXCEPT ![e].retired = TRUE, ![e].holder = NoRelay, ![e].lapsed = FALSE]
  /\ UNCHANGED <<relays, stream, window, lastSeq, gone, undeliverable, faults>>

(* ReleaseAbandonedDispatches, one row of it *)
ReleaseAbandoned(e) ==
  /\ rows[e].written /\ ~rows[e].published /\ ~rows[e].retired
  /\ rows[e].holder # NoRelay /\ rows[e].lapsed
  /\ rows' = [rows EXCEPT ![e].holder = NoRelay, ![e].lapsed = FALSE]
  /\ UNCHANGED <<relays, stream, window, lastSeq, gone, undeliverable, faults>>

LeaseLapses(e) ==
  /\ rows[e].holder # NoRelay
  /\ ~rows[e].lapsed
  /\ rows' = [rows EXCEPT ![e].lapsed = TRUE]
  /\ UNCHANGED <<relays, stream, window, lastSeq, gone, undeliverable, faults>>

BackoffElapses(e) ==
  /\ rows[e].written
  /\ ~rows[e].due
  /\ rows' = [rows EXCEPT ![e].due = TRUE]
  /\ UNCHANGED <<relays, stream, window, lastSeq, gone, undeliverable, faults>>

-----------------------------------------------------------------------------
(* The job stream *)

(* Mutation: a message ID of the attempt's own *)
FreshMsgID(e, r) == <<e, r>>

(* jetstream.WithMsgID(entry.EventUID) *)
MsgID(e, r) == e

Suppressed(id) == {w \in window : w.id = id /\ w.live}

(* The broker stores the message, or recognises it as a duplicate. *)
Store(id, e) ==
  IF Suppressed(id) # {}
    THEN UNCHANGED <<stream, window, lastSeq>>
    ELSE /\ lastSeq' = lastSeq + 1
         /\ stream' = stream \cup {[event |-> e, seq |-> lastSeq + 1]}
         /\ window' = window \cup {[id |-> id, event |-> e, seq |-> lastSeq + 1, live |-> TRUE]}

(* The acknowledged sequence: the original's, for a duplicate. *)
AckSeq(id) ==
  IF Suppressed(id) # {} THEN (CHOOSE w \in Suppressed(id) : TRUE).seq ELSE lastSeq + 1

(* A message is acknowledged by a worker, withdrawn, or ages out. *)
Consume(m) ==
  /\ stream' = stream \ {m}
  /\ gone' = gone \cup {m.event}
  /\ UNCHANGED <<rows, relays, window, lastSeq, undeliverable, faults>>

(* The duplicate window passes: the broker no longer knows the message ID. *)
WindowPasses(w) ==
  /\ w.live
  /\ window' = (window \ {w}) \cup {[w EXCEPT !.live = FALSE]}
  /\ UNCHANGED <<rows, relays, stream, lastSeq, gone, undeliverable, faults>>

-----------------------------------------------------------------------------
(* The relay: publish and recordFailure, entry by entry *)

InHand(r, stage) == relays[r].event # NoEvent /\ relays[r].stage = stage

(* The outcome of the entry in hand is recorded; the batch goes on. *)
NextEntry(r) ==
  relays' = [relays EXCEPT ![r] = [Idle EXCEPT !.batch = relays[r].batch \ {relays[r].event}]]

Outcome(r, e, stage, seq) ==
  relays' = [relays EXCEPT ![r].event = e, ![r].stage = stage, ![r].seq = seq]

Starting(r, e) == relays[r].event = NoEvent /\ e \in relays[r].batch

PublishPermanent(r, e) ==
  /\ Starting(r, e)
  /\ ~rows[e].routed
  /\ Outcome(r, e, "permanent", 0)
  /\ UNCHANGED <<rows, stream, window, lastSeq, gone, undeliverable, faults>>

PublishAcked(r, e) ==
  /\ Starting(r, e)
  /\ rows[e].routed
  /\ Store(MsgID(e, r), e)
  /\ Outcome(r, e, "acked", AckSeq(MsgID(e, r)))
  /\ UNCHANGED <<rows, gone, undeliverable, faults>>

(* The broker stored the message; its acknowledgement did not arrive.       *)
PublishUnacked(r, e) ==
  /\ Starting(r, e)
  /\ rows[e].routed
  /\ Fault
  /\ Store(MsgID(e, r), e)
  /\ Outcome(r, e, "failed", 0)
  /\ UNCHANGED <<rows, gone, undeliverable>>

(* Mutation: the publisher does not wait for the storage acknowledgement *)
PublishNotAwaited(r, e) ==
  /\ Starting(r, e)
  /\ rows[e].routed
  /\ Fault
  /\ Outcome(r, e, "acked", lastSeq + 1)
  /\ UNCHANGED <<rows, stream, window, lastSeq, gone, undeliverable>>

(* The broker is down, or the stream is full and discards the new message.  *)
PublishRefused(r, e) ==
  /\ Starting(r, e)
  /\ rows[e].routed
  /\ Fault
  /\ Outcome(r, e, "failed", 0)
  /\ UNCHANGED <<rows, stream, window, lastSeq, gone, undeliverable>>

(* Mutation: the receipt is not stored *)
MarkPublishedNoSeq(r) ==
  /\ InHand(r, "acked")
  /\ rows' = [rows EXCEPT ![relays[r].event].published = TRUE,
                          ![relays[r].event].holder = NoRelay,
                          ![relays[r].event].lapsed = FALSE]
  /\ NextEntry(r)
  /\ UNCHANGED <<stream, window, lastSeq, gone, undeliverable, faults>>

(* MarkPublished: by row ID only, whoever holds the lease by now. *)
MarkPublished(r) ==
  /\ InHand(r, "acked")
  /\ rows' = [rows EXCEPT ![relays[r].event].published = TRUE,
                          ![relays[r].event].seq = relays[r].seq,
                          ![relays[r].event].holder = NoRelay,
                          ![relays[r].event].lapsed = FALSE]
  /\ NextEntry(r)
  /\ UNCHANGED <<stream, window, lastSeq, gone, undeliverable, faults>>

(* The update failed: recorded as a failure of the entry. *)
MarkPublishedFails(r) ==
  /\ InHand(r, "acked")
  /\ Fault
  /\ Outcome(r, relays[r].event, "failed", 0)
  /\ UNCHANGED <<rows, stream, window, lastSeq, gone, undeliverable>>

(* RecordUndeliverable, before the failure is recorded; its own failure is  *)
(* only logged.                                                             *)
Settle(r) ==
  /\ InHand(r, "permanent")
  /\ Outcome(r, relays[r].event, "failed", 0)
  /\ undeliverable' = undeliverable \cup {relays[r].event}
  /\ UNCHANGED <<rows, stream, window, lastSeq, gone, faults>>

SettleFails(r) ==
  /\ InHand(r, "permanent")
  /\ Fault
  /\ Outcome(r, relays[r].event, "failed", 0)
  /\ UNCHANGED <<rows, stream, window, lastSeq, gone, undeliverable>>

(* MarkFailed: backs the entry off and releases the lease, whoever's it is. *)
MarkFailed(r) ==
  /\ InHand(r, "failed")
  /\ rows' = [rows EXCEPT ![relays[r].event].due = FALSE,
                          ![relays[r].event].holder = NoRelay,
                          ![relays[r].event].lapsed = FALSE]
  /\ NextEntry(r)
  /\ UNCHANGED <<stream, window, lastSeq, gone, undeliverable, faults>>

(* The failure could not be recorded either: the lease is left to lapse. *)
MarkFailedFails(r) ==
  /\ InHand(r, "failed")
  /\ Fault
  /\ NextEntry(r)
  /\ UNCHANGED <<rows, stream, window, lastSeq, gone, undeliverable>>

(* The process dies, and is started again with an empty batch. *)
Crash(r) ==
  /\ relays[r] # Idle
  /\ Fault
  /\ relays' = [relays EXCEPT ![r] = Idle]
  /\ UNCHANGED <<rows, stream, window, lastSeq, gone, undeliverable>>

-----------------------------------------------------------------------------
Init ==
  /\ rows = [e \in Events |-> NoRow]
  /\ relays = [r \in Relays |-> Idle]
  /\ stream = {}
  /\ window = {}
  /\ lastSeq = 0
  /\ gone = {}
  /\ undeliverable = {}
  /\ faults = 0

Publish(r) ==
  \E e \in relays[r].batch :
    \/ PublishPermanent(r, e)
    \/ PublishAcked(r, e)
    \/ PublishUnacked(r, e)
    \/ PublishRefused(r, e)

Record(r) ==
  \/ MarkPublished(r)
  \/ MarkPublishedFails(r)
  \/ Settle(r)
  \/ SettleFails(r)
  \/ MarkFailed(r)
  \/ MarkFailedFails(r)

Table(e) ==
  \/ Enqueue(e, e \notin Unroutable)
  \/ RetireDispatch(e)
  \/ ReleaseAbandoned(e)
  \/ LeaseLapses(e)
  \/ BackoffElapses(e)

Next ==
  \/ \E e \in Events : Table(e)
  \/ \E r \in Relays :
       \/ \E batch \in SUBSET Events : Claim(r, batch)
       \/ Publish(r)
       \/ Record(r)
       \/ Crash(r)
  \/ \E m \in stream : Consume(m)
  \/ \E w \in window : WindowPasses(w)

Spec == Init /\ [][Next]_vars

(* A relay that is running goes on, clocks advance, and because the due row *)
(* that has waited longest is claimed first no row is passed over for ever. *)
ClaimOf(e) == \E r \in Relays, batch \in SUBSET Events : e \in batch /\ Claim(r, batch)

Fairness ==
  /\ \A r \in Relays : WF_vars(Publish(r)) /\ WF_vars(Record(r))
  /\ \A e \in Events :
       WF_vars(LeaseLapses(e)) /\ WF_vars(BackoffElapses(e)) /\ SF_vars(ClaimOf(e))

FairSpec == Spec /\ Fairness

-----------------------------------------------------------------------------
(* Properties *)

(* Every variable has its type, and a relay has an outcome in hand only for *)
(* an entry of its batch.                                                   *)
TypeOK ==
  /\ rows \in [Events -> Row]
  /\ relays \in [Relays -> Relay]
  /\ \A r \in Relays :
       IF relays[r].event = NoEvent THEN relays[r].stage = "next"
                                    ELSE relays[r].event \in relays[r].batch
  /\ stream \subseteq [event : Events, seq : 1 .. lastSeq]
  /\ lastSeq \in Nat
  /\ gone \subseteq Events
  /\ undeliverable \subseteq Events
  /\ faults \in 0 .. MaxFaults

(* No message of the event has outlived its duplicate window. *)
Deduplicated(e) == \A w \in window : w.event = e => w.live

(* However many relays publish an event between them, and whoever crashes   *)
(* before recording it, within the duplicate window the stream never holds  *)
(* two messages for it, nor one after its first was consumed.               *)
OneMessagePerEvent ==
  \A m \in stream : Deduplicated(m.event) =>
    m.event \notin gone /\ \A n \in stream : m.event = n.event => m = n

(* A row never says published of a dispatch that the broker never stored,   *)
(* and the sequence it records is that of the message that is queued, so    *)
(* that DropDispatch withdraws it and not another.                          *)
Withdrawable ==
  \A e \in Events : rows[e].published =>
    /\ e \in gone \/ \E m \in stream : m.event = e
    /\ Deduplicated(e) => \A m \in stream : m.event = e => m.seq = rows[e].seq

(* A dispatch that is neither published nor retired yet becomes so, once    *)
(* faults stop; one that names no runner is settled instead.                *)
EveryRowSettles ==
  \A e \in Events :
    rows[e].written ~> rows[e].published \/ rows[e].retired \/ e \in undeliverable
=============================================================================
