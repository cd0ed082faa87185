----------------------------- MODULE OutboxProofs -----------------------------
(***************************************************************************)
(* Theorems about Outbox, for any events, relays, batch size and faults.   *)
(*                                                                         *)
(* The argument rests on the broker's record of the messages it stored.    *)
(* Of one event it suppresses at most one of them (OneSuppressed), and     *)
(* every message in the stream, every acknowledgement in a relay's hand    *)
(* and every receipt on a row is of a message it stored (Known).  While    *)
(* nothing of an event has outlived the duplicate window, then, all of     *)
(* them are of the same message.                                           *)
(***************************************************************************)
EXTENDS Outbox, TLAPS

(* The broker has stored a message of the event, at the sequence. *)
Known(e, seq) == \E w \in window : w.event = e /\ w.seq = seq

Entry == [id : Events, event : Events, seq : Nat, live : BOOLEAN]

(* Messages are identified by their event. *)
WindowTypes == window \subseteq Entry /\ \A w \in window : w.id = w.event

OneSuppressed ==
  \A v, w \in window : v.event = w.event /\ v.live /\ w.live => v = w

StreamKnown == \A m \in stream : Known(m.event, m.seq)

(* What was stored is queued still, unless it left the stream. *)
EntriesKept ==
  \A w \in window : w.event \in gone \/ [event |-> w.event, seq |-> w.seq] \in stream

GoneKnown == \A e \in gone : \E w \in window : w.event = e

GoneOnce == \A m \in stream : Deduplicated(m.event) => m.event \notin gone

AcksKnown == \A r \in Relays : InHand(r, "acked") => Known(relays[r].event, relays[r].seq)

ReceiptsKnown == \A e \in Events : rows[e].published => Known(e, rows[e].seq)

IInv ==
  /\ TypeOK
  /\ WindowTypes
  /\ OneSuppressed
  /\ StreamKnown
  /\ EntriesKept
  /\ GoneKnown
  /\ GoneOnce
  /\ AcksKnown
  /\ ReceiptsKnown

-----------------------------------------------------------------------------
(* Rows and relays as the operations write them *)

LEMMA RowTypes ==
  /\ NoRow \in Row
  /\ \A routed \in BOOLEAN : NewRow(routed) \in Row /\ ~NewRow(routed).published
  BY DEF NoRow, NewRow, Row

LEMMA IdleTypes ==
  /\ Idle \in Relay /\ Idle.event = NoEvent /\ Idle.stage = "next"
  BY DEF Idle, Relay, Stages

LEMMA InitIInv == Init => IInv
<1> SUFFICES ASSUME Init PROVE IInv
  OBVIOUS
<1>1. TypeOK
  BY RowTypes, IdleTypes, OutboxAssumption DEF Init, TypeOK
<1>2. WindowTypes /\ OneSuppressed /\ StreamKnown /\ EntriesKept /\ GoneKnown /\ GoneOnce
  BY DEF Init, WindowTypes, OneSuppressed, StreamKnown, EntriesKept, GoneKnown, GoneOnce
<1>3. AcksKnown
  BY IdleTypes DEF Init, AcksKnown, InHand
<1>4. ReceiptsKnown
  BY DEF Init, ReceiptsKnown, NoRow
<1> QED
  BY <1>1, <1>2, <1>3, <1>4 DEF IInv

(* A relay's step on the entry in hand leaves it a well-formed batch. *)
LEMMA OutcomeTypes ==
  ASSUME TypeOK, NEW r \in Relays, NEW e \in relays[r].batch, NEW stage \in Stages, NEW seq \in Nat,
         Outcome(r, e, stage, seq)
  PROVE  /\ relays' \in [Relays -> Relay]
         /\ relays'[r].event = e /\ relays'[r].stage = stage /\ relays'[r].seq = seq
         /\ relays'[r].batch = relays[r].batch
         /\ \A q \in Relays \ {r} : relays'[q] = relays[q]
         /\ e \in Events /\ e # NoEvent
<1>1. relays \in [Relays -> Relay] /\ relays[r] \in Relay
  BY DEF TypeOK
<1>2. e \in Events /\ e # NoEvent
  BY <1>1, OutboxAssumption DEF Relay
<1>3. relays' = [relays EXCEPT ![r] = [relays[r] EXCEPT !.event = e, !.stage = stage, !.seq = seq]]
  BY <1>1 DEF Outcome
<1>4. [relays[r] EXCEPT !.event = e, !.stage = stage, !.seq = seq] \in Relay
  BY <1>1, <1>2 DEF Relay
<1>5. relays'[r] = [relays[r] EXCEPT !.event = e, !.stage = stage, !.seq = seq]
  BY <1>1, <1>3
<1>6. /\ relays'[r].event = e /\ relays'[r].stage = stage /\ relays'[r].seq = seq
      /\ relays'[r].batch = relays[r].batch
  BY <1>1, <1>5 DEF Relay
<1>7. relays' \in [Relays -> Relay] /\ \A q \in Relays \ {r} : relays'[q] = relays[q]
  BY <1>1, <1>3, <1>4
<1> QED
  BY <1>2, <1>6, <1>7

LEMMA NextEntryTypes ==
  ASSUME TypeOK, NEW r \in Relays, NextEntry(r)
  PROVE  /\ relays' \in [Relays -> Relay]
         /\ relays'[r].event = NoEvent /\ relays'[r].stage = "next"
         /\ \A q \in Relays \ {r} : relays'[q] = relays[q]
<1>1. relays \in [Relays -> Relay] /\ relays[r] \in Relay
  BY DEF TypeOK
<1>2. [Idle EXCEPT !.batch = relays[r].batch \ {relays[r].event}] \in Relay
  BY <1>1, IdleTypes DEF Relay
<1>3. relays'[r] = [Idle EXCEPT !.batch = relays[r].batch \ {relays[r].event}]
  BY <1>1 DEF NextEntry
<1>4. relays'[r].event = NoEvent /\ relays'[r].stage = "next"
  BY <1>3 DEF Idle
<1> QED
  BY <1>1, <1>2, <1>4 DEF NextEntry

-----------------------------------------------------------------------------
(* A step that writes rows or a relay's own state, and nothing of the       *)
(* broker's, has only its acknowledgements and receipts to answer for.      *)
LEMMA BrokerUntouched ==
  ASSUME IInv, TypeOK', UNCHANGED <<stream, window, gone>>, AcksKnown', ReceiptsKnown'
  PROVE  IInv'
<1>1. /\ WindowTypes /\ OneSuppressed /\ StreamKnown
      /\ EntriesKept /\ GoneKnown /\ GoneOnce
  BY DEF IInv
<1>2. WindowTypes' /\ OneSuppressed'
  BY <1>1 DEF WindowTypes, OneSuppressed
<1>3. StreamKnown' /\ EntriesKept' /\ GoneKnown'
  BY <1>1 DEF StreamKnown, EntriesKept, GoneKnown, Known
<1>4. GoneOnce'
  BY <1>1 DEF GoneOnce, Deduplicated
<1> QED
  BY <1>2, <1>3, <1>4 DEF IInv

(* An operation on one row of the table that marks nothing published *)
LEMMA RowStep ==
  ASSUME IInv, UNCHANGED <<relays, stream, window, lastSeq, gone, undeliverable, faults>>,
         NEW e \in Events, NEW row \in Row, rows' = [rows EXCEPT ![e] = row],
         row.published => rows[e].published /\ row.seq = rows[e].seq
  PROVE  IInv'
<1>1. TypeOK /\ AcksKnown /\ ReceiptsKnown
  BY DEF IInv
<1>2. TypeOK'
  BY <1>1 DEF TypeOK
<1>3. AcksKnown'
  BY <1>1 DEF AcksKnown, InHand, Known
<1>4. ReceiptsKnown'
  BY <1>1 DEF ReceiptsKnown, Known, TypeOK
<1> QED
  BY <1>2, <1>3, <1>4, BrokerUntouched

LEMMA TableKeeps == ASSUME IInv, NEW e \in Events, Table(e) PROVE IInv'
<1>0. rows \in [Events -> Row] /\ rows[e] \in Row
  BY DEF IInv, TypeOK
<1>1. CASE Enqueue(e, e \notin Unroutable)
  BY <1>1, RowTypes, RowStep DEF Enqueue
<1>2. CASE RetireDispatch(e)
  <2> DEFINE row == [rows[e] EXCEPT !.retired = TRUE, !.holder = NoRelay, !.lapsed = FALSE]
  <2>1. row \in Row /\ row.published = rows[e].published /\ row.seq = rows[e].seq
    BY <1>0 DEF Row
  <2>2. rows' = [rows EXCEPT ![e] = row]
    BY <1>0, <1>2 DEF RetireDispatch
  <2> QED
    BY <1>2, <2>1, <2>2, RowStep DEF RetireDispatch
<1>3. CASE ReleaseAbandoned(e)
  <2> DEFINE row == [rows[e] EXCEPT !.holder = NoRelay, !.lapsed = FALSE]
  <2>1. row \in Row /\ row.published = rows[e].published /\ row.seq = rows[e].seq
    BY <1>0 DEF Row
  <2>2. rows' = [rows EXCEPT ![e] = row]
    BY <1>0, <1>3 DEF ReleaseAbandoned
  <2> QED
    BY <1>3, <2>1, <2>2, RowStep DEF ReleaseAbandoned
<1>4. CASE LeaseLapses(e)
  <2> DEFINE row == [rows[e] EXCEPT !.lapsed = TRUE]
  <2>1. row \in Row /\ row.published = rows[e].published /\ row.seq = rows[e].seq
    BY <1>0 DEF Row
  <2>2. rows' = [rows EXCEPT ![e] = row]
    BY <1>0, <1>4 DEF LeaseLapses
  <2> QED
    BY <1>4, <2>1, <2>2, RowStep DEF LeaseLapses
<1>5. CASE BackoffElapses(e)
  <2> DEFINE row == [rows[e] EXCEPT !.due = TRUE]
  <2>1. row \in Row /\ row.published = rows[e].published /\ row.seq = rows[e].seq
    BY <1>0 DEF Row
  <2>2. rows' = [rows EXCEPT ![e] = row]
    BY <1>0, <1>5 DEF BackoffElapses
  <2> QED
    BY <1>5, <2>1, <2>2, RowStep DEF BackoffElapses
<1> QED
  BY <1>1, <1>2, <1>3, <1>4, <1>5 DEF Table

LEMMA ClaimKeeps ==
  ASSUME IInv, NEW r \in Relays, NEW batch \in SUBSET Events, Claim(r, batch)
  PROVE  IInv'
<1>1. TypeOK /\ AcksKnown /\ ReceiptsKnown
  BY DEF IInv
<1>2. ASSUME NEW e \in Events
      PROVE  /\ rows'[e] \in Row
             /\ rows'[e].published = rows[e].published /\ rows'[e].seq = rows[e].seq
  <2>1. rows[e] \in Row
    BY <1>1 DEF TypeOK
  <2>2. [rows[e] EXCEPT !.holder = r, !.lapsed = FALSE] \in Row
    BY <2>1 DEF Row
  <2>3. rows'[e] = rows[e] \/ rows'[e] = [rows[e] EXCEPT !.holder = r, !.lapsed = FALSE]
    BY DEF Claim
  <2> QED
    BY <2>1, <2>2, <2>3 DEF Row
<1>3. /\ relays' = [relays EXCEPT ![r] = [Idle EXCEPT !.batch = batch]]
      /\ [Idle EXCEPT !.batch = batch] \in Relay
      /\ [Idle EXCEPT !.batch = batch].event = NoEvent
      /\ [Idle EXCEPT !.batch = batch].stage = "next"
  BY <1>1, IdleTypes DEF Claim, TypeOK, Relay
<1>4. rows' \in [Events -> Row]
  BY <1>2 DEF Claim
<1>5. TypeOK'
  BY <1>1, <1>3, <1>4 DEF TypeOK, Claim
<1>6. AcksKnown'
  BY <1>1, <1>3 DEF AcksKnown, InHand, Known, Claim, TypeOK
<1>7. ReceiptsKnown'
  <2>1. \A e, seq : Known(e, seq) => Known(e, seq)'
    BY DEF Known, Claim
  <2> QED
    BY <1>1, <1>2, <2>1 DEF ReceiptsKnown
<1> QED
  BY <1>5, <1>6, <1>7, BrokerUntouched DEF Claim

-----------------------------------------------------------------------------
(* A publication, stored or suppressed, is known at the sequence the broker *)
(* acknowledges, and breaks nothing of what the broker keeps.               *)
LEMMA StoreKeeps ==
  ASSUME IInv, NEW e \in Events, Store(e, e), UNCHANGED gone
  PROVE  /\ lastSeq' \in Nat /\ stream' \subseteq [event : Events, seq : 1 .. lastSeq']
         /\ WindowTypes' /\ OneSuppressed' /\ StreamKnown'
         /\ EntriesKept' /\ GoneKnown' /\ GoneOnce'
         /\ AckSeq(e) \in Nat /\ \A seq : seq = AckSeq(e) => Known(e, seq)'
         /\ \A f, seq : Known(f, seq) => Known(f, seq)'
<1>t. /\ TypeOK /\ WindowTypes /\ OneSuppressed /\ StreamKnown
      /\ EntriesKept /\ GoneKnown /\ GoneOnce
  BY DEF IInv
<1>1. CASE Suppressed(e) # {}
  <2>1. UNCHANGED <<stream, window, lastSeq, gone>>
    BY <1>1 DEF Store
  <2>2. PICK w \in Suppressed(e) : AckSeq(e) = w.seq
    BY <1>1 DEF AckSeq
  <2>3. w \in window /\ w \in Entry /\ w.event = e
    BY <1>t, <2>2 DEF Suppressed, WindowTypes
  <2>4. AckSeq(e) \in Nat /\ Known(e, AckSeq(e))
    BY <2>2, <2>3 DEF Known, Entry
  <2>5. WindowTypes' /\ OneSuppressed'
    BY <1>t, <2>1 DEF WindowTypes, OneSuppressed
  <2>6. \A f, seq : Known(f, seq) <=> Known(f, seq)'
    BY <2>1 DEF Known
  <2>7. StreamKnown' /\ EntriesKept' /\ GoneKnown'
    BY <1>t, <2>1 DEF StreamKnown, EntriesKept, GoneKnown, Known
  <2>8. GoneOnce'
    BY <1>t, <2>1 DEF GoneOnce, Deduplicated
  <2>9. \A seq : seq = AckSeq(e) => Known(e, seq)'
    BY <2>4, <2>6
  <2> QED
    BY <1>t, <2>1, <2>4, <2>5, <2>6, <2>7, <2>8, <2>9 DEF TypeOK
<1>2. CASE Suppressed(e) = {}
  <2> DEFINE m == [event |-> e, seq |-> lastSeq + 1]
             w == [id |-> e, event |-> e, seq |-> lastSeq + 1, live |-> TRUE]
  <2>1. lastSeq' = lastSeq + 1 /\ stream' = stream \cup {m} /\ window' = window \cup {w}
    BY <1>2 DEF Store
  <2>2. lastSeq \in Nat /\ AckSeq(e) = lastSeq + 1 /\ AckSeq(e) \in Nat
    BY <1>t, <1>2 DEF AckSeq, TypeOK
  <2>3. stream' \subseteq [event : Events, seq : 1 .. lastSeq']
    BY <1>t, <2>1, <2>2 DEF TypeOK
  <2>4. w \in Entry /\ w.id = e /\ w.event = e /\ w.seq = lastSeq + 1 /\ w.live
    BY <2>2 DEF Entry
  <2>m. m.event = e /\ m.seq = lastSeq + 1
    OBVIOUS
  <2>5. \A v \in window : v.event = e => ~v.live
    BY <1>t, <1>2 DEF Suppressed, WindowTypes
  <2>6. [event |-> w.event, seq |-> w.seq] = m
    BY <2>4
  <2> HIDE DEF m, w
  <2>7. WindowTypes'
    BY <1>t, <2>1, <2>4 DEF WindowTypes
  <2>8. OneSuppressed'
    BY <1>t, <2>1, <2>4, <2>5 DEF OneSuppressed
  <2>9. \A f, seq : Known(f, seq) => Known(f, seq)'
    BY <2>1 DEF Known
  <2>10. \A seq : seq = AckSeq(e) => Known(e, seq)'
    BY <2>1, <2>2, <2>4 DEF Known
  <2>11. StreamKnown'
    <3> SUFFICES ASSUME NEW n \in stream' PROVE Known(n.event, n.seq)'
      BY DEF StreamKnown
    <3>1. CASE n \in stream
      BY <1>t, <3>1, <2>9 DEF StreamKnown
    <3>2. CASE n = m
      BY <3>2, <2>1, <2>4, <2>m DEF Known
    <3> QED
      BY <3>1, <3>2, <2>1
  <2>12. EntriesKept'
    BY <1>t, <2>1, <2>6 DEF EntriesKept
  <2>13. GoneKnown'
    BY <1>t, <2>1 DEF GoneKnown
  <2>14. GoneOnce'
    <3> SUFFICES ASSUME NEW n \in stream', Deduplicated(n.event)', n.event \in gone' PROVE FALSE
      BY DEF GoneOnce
    <3>1. Deduplicated(n.event)
      BY <2>1 DEF Deduplicated
    <3>2. n = m
      BY <1>t, <3>1, <2>1 DEF GoneOnce
    <3>3. PICK v \in window : v.event = e
      BY <1>t, <3>2, <2>m DEF GoneKnown
    <3> QED
      BY <3>1, <3>2, <3>3, <2>5, <2>m DEF Deduplicated
  <2> QED
    BY <2>1, <2>2, <2>3, <2>7, <2>8, <2>9, <2>10, <2>11, <2>12,
       <2>13, <2>14
<1> QED
  BY <1>1, <1>2

LEMMA PublishKeeps == ASSUME IInv, NEW r \in Relays, Publish(r) PROVE IInv'
<1>t. TypeOK /\ AcksKnown /\ ReceiptsKnown
  BY DEF IInv
<1>1. PICK e \in relays[r].batch :
        \/ PublishPermanent(r, e)
        \/ PublishAcked(r, e)
        \/ PublishUnacked(r, e)
        \/ PublishRefused(r, e)
  BY DEF Publish
<1>2. e \in Events /\ relays[r].event = NoEvent
  BY <1>1, <1>t DEF TypeOK, Relay, PublishPermanent, PublishAcked, PublishUnacked, PublishRefused,
                    Starting
<1>3. CASE \/ PublishPermanent(r, e)
           \/ PublishRefused(r, e)
  <2>1. PICK stage \in {"permanent", "failed"} : Outcome(r, e, stage, 0)
    BY <1>3 DEF PublishPermanent, PublishRefused
  <2>2. /\ UNCHANGED <<rows, stream, window, lastSeq, gone, undeliverable>>
        /\ faults' \in 0 .. MaxFaults
    BY <1>t, <1>3, OutboxAssumption DEF PublishPermanent, PublishRefused, Fault, TypeOK
  <2>3. stage \in Stages /\ stage # "acked" /\ 0 \in Nat
    BY DEF Stages
  <2>4. /\ relays' \in [Relays -> Relay]
        /\ relays'[r].event = e /\ relays'[r].stage = stage
        /\ relays'[r].batch = relays[r].batch
        /\ \A q \in Relays \ {r} : relays'[q] = relays[q]
        /\ e # NoEvent
    BY <1>t, <2>1, <2>3, OutcomeTypes
  <2>5. TypeOK'
    BY <1>t, <2>2, <2>4 DEF TypeOK
  <2>6. AcksKnown'
    BY <1>t, <2>2, <2>3, <2>4 DEF AcksKnown, InHand, Known
  <2>7. ReceiptsKnown'
    BY <1>t, <2>2 DEF ReceiptsKnown, Known
  <2> QED
    BY <2>2, <2>5, <2>6, <2>7, BrokerUntouched
<1>4. CASE PublishAcked(r, e) \/ PublishUnacked(r, e)
  <2>1. /\ Store(e, e) /\ UNCHANGED <<rows, gone, undeliverable>>
        /\ faults' \in 0 .. MaxFaults
    BY <1>t, <1>4, OutboxAssumption DEF PublishAcked, PublishUnacked, MsgID, Fault, TypeOK
  <2>2. /\ lastSeq' \in Nat /\ stream' \subseteq [event : Events, seq : 1 .. lastSeq']
        /\ WindowTypes' /\ OneSuppressed' /\ StreamKnown'
        /\ EntriesKept' /\ GoneKnown' /\ GoneOnce'
        /\ AckSeq(e) \in Nat /\ \A seq : seq = AckSeq(e) => Known(e, seq)'
        /\ \A f, seq : Known(f, seq) => Known(f, seq)'
    BY <1>2, <2>1, StoreKeeps
  <2>3. \/ Outcome(r, e, "acked", AckSeq(e))
        \/ Outcome(r, e, "failed", 0)
    BY <1>4 DEF PublishAcked, PublishUnacked, MsgID
  <2>4. /\ relays' \in [Relays -> Relay]
        /\ relays'[r].event = e
        /\ \/ relays'[r].stage = "acked" /\ relays'[r].seq = AckSeq(e)
           \/ relays'[r].stage = "failed"
        /\ relays'[r].batch = relays[r].batch
        /\ \A q \in Relays \ {r} : relays'[q] = relays[q]
        /\ e # NoEvent
    <3>1. "acked" \in Stages /\ "failed" \in Stages /\ 0 \in Nat
      BY DEF Stages
    <3> QED
      BY <1>t, <2>2, <2>3, <3>1, OutcomeTypes
  <2>5. TypeOK'
    BY <1>t, <2>1, <2>2, <2>4 DEF TypeOK
  <2>6. AcksKnown'
    <3> SUFFICES ASSUME NEW q \in Relays, InHand(q, "acked")'
                 PROVE  Known(relays[q].event, relays[q].seq)'
      BY DEF AcksKnown
    <3>1. CASE q = r
      BY <3>1, <2>2, <2>4 DEF InHand
    <3>2. CASE q # r
      BY <1>t, <3>2, <2>2, <2>4 DEF InHand, AcksKnown
    <3> QED
      BY <3>1, <3>2
  <2>7. ReceiptsKnown'
    BY <1>t, <2>1, <2>2 DEF ReceiptsKnown
  <2> QED
    BY <2>2, <2>5, <2>6, <2>7 DEF IInv
<1> QED
  BY <1>1, <1>3, <1>4

(* A relay that gives up its entry, or its batch, keeps what it recorded.   *)
LEMMA RelayStep ==
  ASSUME IInv, NEW r \in Relays, UNCHANGED <<stream, window, lastSeq, gone>>,
         rows' \in [Events -> Row], undeliverable' \subseteq Events, faults' \in 0 .. MaxFaults,
         relays' \in [Relays -> Relay],
         \A q \in Relays \ {r} : relays'[q] = relays[q],
         \/ relays'[r].event = NoEvent /\ relays'[r].stage = "next"
         \/ relays'[r].event \in relays'[r].batch /\ relays'[r].stage = "failed",
         \A e \in Events : rows'[e].published =>
           \/ rows[e].published /\ rows'[e].seq = rows[e].seq
           \/ Known(e, rows'[e].seq)
  PROVE  IInv'
<1>t. TypeOK /\ AcksKnown /\ ReceiptsKnown
  BY DEF IInv
<1>1. TypeOK'
  BY <1>t, OutboxAssumption DEF TypeOK, Relay
<1>2. \A e, seq : Known(e, seq) => Known(e, seq)'
  BY DEF Known
<1>3. AcksKnown'
  BY <1>t, <1>2 DEF AcksKnown, InHand
<1>4. ReceiptsKnown'
  BY <1>t, <1>2 DEF ReceiptsKnown
<1> QED
  BY <1>1, <1>3, <1>4, BrokerUntouched

LEMMA RecordKeeps == ASSUME IInv, NEW r \in Relays, Record(r) PROVE IInv'
<1> DEFINE e == relays[r].event
<1>t. TypeOK /\ AcksKnown /\ ReceiptsKnown
  BY DEF IInv
<1>h. e # NoEvent
  BY DEF Record, MarkPublished, MarkPublishedFails, Settle, SettleFails, MarkFailed, MarkFailedFails,
         InHand
<1>0. /\ e \in relays[r].batch /\ e \in Events
      /\ rows[e] \in Row /\ relays[r] \in Relay /\ relays[r].seq \in Nat
      /\ undeliverable \subseteq Events /\ faults \in 0 .. MaxFaults
      /\ rows \in [Events -> Row]
      /\ "failed" \in Stages /\ 0 \in Nat
  BY <1>t, <1>h DEF TypeOK, Relay, Stages
<1>f. Fault => faults' \in 0 .. MaxFaults
  BY <1>0, OutboxAssumption DEF Fault
<1> HIDE DEF e
<1>1. CASE MarkPublished(r)
  <2> DEFINE row == [rows[e] EXCEPT !.published = TRUE, !.seq = relays[r].seq,
                                    !.holder = NoRelay, !.lapsed = FALSE]
  <2>1. row \in Row /\ row.seq = relays[r].seq
    BY <1>0 DEF Row
  <2>2. rows' = [rows EXCEPT ![e] = row]
    BY <1>0, <1>1 DEF MarkPublished, e
  <2>3. Known(e, row.seq)
    BY <1>t, <1>1, <2>1 DEF MarkPublished, AcksKnown, e
  <2> HIDE DEF row
  <2>4. rows' \in [Events -> Row] /\ \A f \in Events : f # e => rows'[f] = rows[f]
    BY <1>0, <2>1, <2>2
  <2>5. rows'[e] = row
    BY <1>0, <2>2
  <2> QED
    <3>1. /\ relays' \in [Relays -> Relay]
          /\ relays'[r].event = NoEvent /\ relays'[r].stage = "next"
          /\ \A q \in Relays \ {r} : relays'[q] = relays[q]
      BY <1>t, <1>1, NextEntryTypes DEF MarkPublished
    <3>2. \A f \in Events : rows'[f].published =>
            \/ rows[f].published /\ rows'[f].seq = rows[f].seq
            \/ Known(f, rows'[f].seq)
      BY <2>3, <2>4, <2>5
    <3> QED
      BY <1>0, <1>1, <2>4, <3>1, <3>2, RelayStep DEF MarkPublished
<1>2. CASE MarkFailed(r)
  <2> DEFINE row == [rows[e] EXCEPT !.due = FALSE, !.holder = NoRelay, !.lapsed = FALSE]
  <2>1. row \in Row /\ row.seq = rows[e].seq /\ row.published = rows[e].published
    BY <1>0 DEF Row
  <2>2. rows' = [rows EXCEPT ![e] = row]
    BY <1>0, <1>2 DEF MarkFailed, e
  <2> HIDE DEF row
  <2>4. rows' \in [Events -> Row] /\ \A f \in Events : f # e => rows'[f] = rows[f]
    BY <1>0, <2>1, <2>2
  <2>5. rows'[e] = row
    BY <1>0, <2>2
  <2> QED
    BY <1>t, <1>0, <1>2, <2>1, <2>4, <2>5, NextEntryTypes, RelayStep DEF MarkFailed
<1>3. CASE MarkFailedFails(r)
  BY <1>t, <1>0, <1>f, <1>3, NextEntryTypes, RelayStep DEF MarkFailedFails
<1>4. CASE MarkPublishedFails(r) \/ SettleFails(r) \/ Settle(r)
  <2>1. /\ Outcome(r, e, "failed", 0)
        /\ UNCHANGED <<rows, stream, window, lastSeq, gone>>
        /\ faults' \in 0 .. MaxFaults /\ undeliverable' \subseteq Events
    BY <1>0, <1>f, <1>4 DEF MarkPublishedFails, SettleFails, Settle, e
  <2>2. /\ relays' \in [Relays -> Relay]
        /\ relays'[r].event = e /\ relays'[r].stage = "failed"
        /\ relays'[r].batch = relays[r].batch
        /\ \A q \in Relays \ {r} : relays'[q] = relays[q]
    BY <1>t, <1>0, <2>1, OutcomeTypes
  <2> QED
    BY <1>0, <2>1, <2>2, RelayStep
<1> QED
  BY <1>1, <1>2, <1>3, <1>4 DEF Record

LEMMA CrashKeeps == ASSUME IInv, NEW r \in Relays, Crash(r) PROVE IInv'
<1>1. TypeOK /\ relays \in [Relays -> Relay] /\ undeliverable \subseteq Events
  BY DEF IInv, TypeOK
<1>2. faults' \in 0 .. MaxFaults
  BY <1>1, OutboxAssumption DEF Crash, Fault, TypeOK
<1>3. /\ relays' \in [Relays -> Relay] /\ relays'[r] = Idle
      /\ \A q \in Relays \ {r} : relays'[q] = relays[q]
  BY <1>1, IdleTypes DEF Crash
<1>4. rows' \in [Events -> Row]
  BY <1>1 DEF Crash, TypeOK
<1> QED
  BY <1>1, <1>2, <1>3, <1>4, IdleTypes, RelayStep DEF Crash

-----------------------------------------------------------------------------
(* The message that leaves is the only one, or its window has passed. *)
LEMMA ConsumeKeeps == ASSUME IInv, NEW m \in stream, Consume(m) PROVE IInv'
<1>t. /\ TypeOK /\ WindowTypes /\ OneSuppressed /\ StreamKnown
      /\ EntriesKept /\ GoneKnown /\ GoneOnce /\ AcksKnown /\ ReceiptsKnown
  BY DEF IInv
<1>1. m.event \in Events /\ \A n \in stream : n = [event |-> n.event, seq |-> n.seq]
  BY <1>t DEF TypeOK
<1>2. TypeOK'
  BY <1>t, <1>1 DEF TypeOK, Consume
<1>3. WindowTypes' /\ OneSuppressed'
  BY <1>t DEF WindowTypes, OneSuppressed, Consume
<1>4. \A e, seq : Known(e, seq) => Known(e, seq)'
  BY DEF Known, Consume
<1>5. StreamKnown' /\ AcksKnown' /\ ReceiptsKnown'
  BY <1>t, <1>4 DEF StreamKnown, AcksKnown, ReceiptsKnown, InHand, Consume
<1>6. EntriesKept'
  <2> SUFFICES ASSUME NEW w \in window, w.event \notin gone'
               PROVE  [event |-> w.event, seq |-> w.seq] \in stream'
    BY DEF EntriesKept, Consume
  <2>1. w.event # m.event /\ [event |-> w.event, seq |-> w.seq] \in stream
    BY <1>t DEF EntriesKept, Consume
  <2>2. [event |-> w.event, seq |-> w.seq] # m
    BY <2>1
  <2> QED
    BY <2>1, <2>2 DEF Consume
<1>7. GoneKnown'
  BY <1>t DEF GoneKnown, StreamKnown, Known, Consume
<1>8. GoneOnce'
  <2> SUFFICES ASSUME NEW n \in stream', Deduplicated(n.event)', n.event \in gone'
               PROVE  FALSE
    BY DEF GoneOnce
  <2>1. n \in stream /\ n # m /\ Deduplicated(n.event) /\ n.event = m.event
    BY <1>t DEF Consume, Deduplicated, GoneOnce
  <2>2. PICK v \in window : v.event = n.event /\ v.seq = n.seq
    BY <1>t, <2>1 DEF StreamKnown, Known
  <2>3. PICK w \in window : w.event = m.event /\ w.seq = m.seq
    BY <1>t DEF StreamKnown, Known
  <2>4. v = w
    BY <1>t, <2>1, <2>2, <2>3 DEF Deduplicated, OneSuppressed
  <2> QED
    BY <1>1, <2>1, <2>2, <2>3, <2>4
<1> QED
  BY <1>2, <1>3, <1>5, <1>6, <1>7, <1>8 DEF IInv

LEMMA WindowPassesKeeps == ASSUME IInv, NEW w \in window, WindowPasses(w) PROVE IInv'
<1>t. /\ TypeOK /\ WindowTypes /\ OneSuppressed /\ StreamKnown
      /\ EntriesKept /\ GoneKnown /\ GoneOnce /\ AcksKnown /\ ReceiptsKnown
  BY DEF IInv
<1>1. PICK v : v = [w EXCEPT !.live = FALSE]
  OBVIOUS
<1>2. v \in Entry /\ ~v.live /\ v.id = w.id /\ v.event = w.event /\ v.seq = w.seq
  BY <1>t, <1>1 DEF WindowTypes, Entry
<1>3. window' = (window \ {w}) \cup {v}
  BY <1>1 DEF WindowPasses
<1>4. TypeOK'
  BY <1>t DEF TypeOK, WindowPasses
<1>5. WindowTypes' /\ OneSuppressed'
  BY <1>t, <1>2, <1>3 DEF WindowTypes, OneSuppressed
<1>6. \A e, seq : Known(e, seq) => Known(e, seq)'
  BY <1>2, <1>3 DEF Known
<1>7. StreamKnown' /\ AcksKnown' /\ ReceiptsKnown'
  BY <1>t, <1>6 DEF StreamKnown, AcksKnown, ReceiptsKnown, InHand, WindowPasses
<1>8. EntriesKept'
  <2>1. stream' = stream /\ gone' = gone
    BY DEF WindowPasses
  <2>2. \A u \in window' : \E x \in window : u.event = x.event /\ u.seq = x.seq
    BY <1>2, <1>3
  <2> QED
    BY <1>t, <2>1, <2>2 DEF EntriesKept
<1>9. GoneKnown'
  BY <1>t, <1>2, <1>3 DEF GoneKnown, WindowPasses
<1>10. GoneOnce'
  <2>1. \A e : Deduplicated(e)' => Deduplicated(e)
    BY <1>2, <1>3 DEF Deduplicated
  <2> QED
    BY <1>t, <2>1 DEF GoneOnce, WindowPasses
<1> QED
  BY <1>4, <1>5, <1>7, <1>8, <1>9, <1>10 DEF IInv

LEMMA StutterKeeps == ASSUME IInv, UNCHANGED vars PROVE IInv'
<1>1. TypeOK' /\ AcksKnown' /\ ReceiptsKnown'
  BY DEF IInv, TypeOK, AcksKnown, ReceiptsKnown, InHand, Known, vars
<1> QED
  BY <1>1, BrokerUntouched DEF vars

LEMMA NextKeeps == IInv /\ [Next]_vars => IInv'
  BY TableKeeps, ClaimKeeps, PublishKeeps, RecordKeeps, CrashKeeps, ConsumeKeeps, WindowPassesKeeps,
     StutterKeeps
  DEF Next

LEMMA IInvHolds == Spec => []IInv
  BY InitIInv, NextKeeps, PTL DEF Spec

-----------------------------------------------------------------------------
(* Rows, relays and the stream keep their types, and a relay has an outcome *)
(* in hand only for an entry of the batch it leased: publish and             *)
(* recordFailure are never run for a row the relay did not claim.           *)
THEOREM TypeCorrect == Spec => []TypeOK
<1>1. IInv => TypeOK
  BY DEF IInv
<1> QED
  BY <1>1, IInvHolds, PTL

(* Whatever relays publish an event twice, crash before they record it or   *)
(* lose an acknowledgement, the message ID keeps the stream to one message  *)
(* of it within the duplicate window, and to none once that was consumed.   *)
THEOREM PublishedOnce == Spec => []OneMessagePerEvent
<1>1. ASSUME IInv PROVE OneMessagePerEvent
  <2>t. TypeOK /\ OneSuppressed /\ StreamKnown /\ GoneOnce
    BY <1>1 DEF IInv
  <2> SUFFICES ASSUME NEW m \in stream, Deduplicated(m.event)
               PROVE  m.event \notin gone /\ \A n \in stream : m.event = n.event => m = n
    BY DEF OneMessagePerEvent
  <2>1. m.event \notin gone
    BY <2>t DEF GoneOnce
  <2>2. ASSUME NEW n \in stream, m.event = n.event PROVE m = n
    <3>1. PICK v \in window : v.event = n.event /\ v.seq = n.seq
      BY <2>t DEF StreamKnown, Known
    <3>2. PICK w \in window : w.event = m.event /\ w.seq = m.seq
      BY <2>t DEF StreamKnown, Known
    <3>3. v = w
      BY <2>t, <2>2, <3>1, <3>2 DEF Deduplicated, OneSuppressed
    <3>4. m = [event |-> m.event, seq |-> m.seq] /\ n = [event |-> n.event, seq |-> n.seq]
      BY <2>t DEF TypeOK
    <3> QED
      BY <2>2, <3>1, <3>2, <3>3, <3>4
  <2> QED
    BY <2>1, <2>2
<1> QED
  BY <1>1, IInvHolds, PTL

(* The receipt MarkPublished stores is of a message that was queued, and    *)
(* within the duplicate window of the one that is queued: DropDispatch,     *)
(* which deletes by that sequence, withdraws the dispatch and no other.     *)
THEOREM ReceiptsWithdraw == Spec => []Withdrawable
<1>1. ASSUME IInv PROVE Withdrawable
  <2>t. OneSuppressed /\ StreamKnown /\ EntriesKept /\ ReceiptsKnown
    BY <1>1 DEF IInv
  <2> SUFFICES ASSUME NEW e \in Events, rows[e].published
               PROVE  /\ e \in gone \/ \E m \in stream : m.event = e
                      /\ Deduplicated(e) => \A m \in stream : m.event = e => m.seq = rows[e].seq
    BY DEF Withdrawable
  <2>1. PICK w \in window : w.event = e /\ w.seq = rows[e].seq
    BY <2>t DEF ReceiptsKnown, Known
  <2>2. e \in gone \/ \E m \in stream : m.event = e
    BY <2>t, <2>1 DEF EntriesKept
  <2>3. ASSUME Deduplicated(e), NEW m \in stream, m.event = e PROVE m.seq = rows[e].seq
    <3>1. PICK v \in window : v.event = e /\ v.seq = m.seq
      BY <2>t, <2>3 DEF StreamKnown, Known
    <3> QED
      BY <2>t, <2>1, <2>3, <3>1 DEF Deduplicated, OneSuppressed
  <2> QED
    BY <2>2, <2>3
<1> QED
  BY <1>1, IInvHolds, PTL
=============================================================================
