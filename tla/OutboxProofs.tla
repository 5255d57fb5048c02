----------------------------- MODULE OutboxProofs -----------------------------
(***************************************************************************)
(* Proofs about Outbox, for any set of events, relays and consumers and any*)
(* number of outages: the amounts on both sides are the sums of their rows,*)
(* a row marked sent was published, the acknowledged offset skips nothing, *)
(* and the whole implements ActivityFeed.                                  *)
(*                                                                         *)
(* The argument.  What a relay is about to mark it has appended to the log,*)
(* and the log only grows.  A consumer acknowledges the record behind its  *)
(* own offset, and only the member that reads at the acknowledged offset is*)
(* assigned the partition, so a consumer that lost it moves nothing.  An   *)
(* amount changes by one row's delta in the transaction that writes the row.*)
(***************************************************************************)
EXTENDS Outbox, SumLemmas

USE EventAssumption, GroupAssumption, LimitAssumption

OwnEvents == Events \ ForeignEvents

\* A row holds an event under the event's own id; the outbox holds only what its own
\* producer enqueued, the log only what is in the outbox or came from another producer.
RowsInv ==
  /\ \A i \in Ids : outbox[i] # NoEvent => outbox[i].id = i /\ outbox[i] \in OwnEvents
  /\ \A i \in Ids : inbox[i] # NoEvent => inbox[i].id = i
  /\ \A k \in DOMAIN log : log[k] \in ForeignEvents \/ outbox[log[k].id] = log[k]

\* A relay at work has rows left, all of them in the outbox; the one it is about to mark
\* is in the log.
RelayInv ==
  \A r \in Relays :
    /\ relay[r].pc # "idle" => relay[r].batch # {}
    /\ \A i \in relay[r].batch : outbox[i] # NoEvent
    /\ relay[r].pc = "mark" => \E k \in DOMAIN log : log[k] = outbox[Min(relay[r].batch)]

\* A consumer that handles a record has one, one about to acknowledge it has dealt with
\* it, and the member that is assigned the partition reads at the acknowledged offset.
ConsumerInv ==
  \A c \in Consumers :
    /\ consumer[c].pc \in {"lookup", "effect", "bury", "acknowledge"}
         => consumer[c].offset < Len(log)
    /\ consumer[c].pc = "acknowledge"
         => inbox[Record(c).id] = Record(c) \/ consumer[c].offset \in dead
    /\ owner = c => consumer[c].offset = committed

\* Finitely many rows have been written, and the amounts are their sums.
AmountsInv ==
  /\ IsFiniteSet({i \in Ids : outbox[i] # NoEvent})
  /\ IsFiniteSet({i \in Ids : inbox[i] # NoEvent})
  /\ \A t \in Tickets : source[t] = Total(outbox, t) /\ projection[t] = Total(inbox, t)

OutboxInv == TypeOK /\ RowsInv /\ RelayInv /\ ConsumerInv /\ SentIsPublished /\ AcknowledgedIsHandled
-----------------------------------------------------------------------------
(* Data.                                                                   *)

\* The fields of an event that the proofs refer to.
LEMMA EventFields ==
  /\ Ids \subseteq Nat
  /\ \A e \in Events : e.id \in Ids /\ e.ticket \in Tickets /\ e.delta \in Nat
BY DEF Ids, Tickets

\* A nonempty set of naturals has a least element.
LEMMA MinInSet ==
  ASSUME NEW S \in SUBSET Nat, S # {}
  PROVE  Min(S) \in S /\ \A n \in S : Min(S) <= n
<1>1. PICK n \in S : TRUE
  OBVIOUS
<1> DEFINE Q == {0..m : m \in S \cap 0..n}
<1>2. IsFiniteSet(0..n)
  <2>1. 0 \in Int /\ n \in Int
    OBVIOUS
  <2> QED BY <2>1, FS_Interval
<1>3. Q \in SUBSET (SUBSET (0..n)) /\ Q # {}
  <2>1. \A m \in S \cap 0..n : 0..m \subseteq 0..n
    OBVIOUS
  <2> QED BY <2>1
<1>4. PICK T \in Q : \A U \in Q : U \subseteq T => U = T
  <2> HIDE DEF Q
  <2> QED BY <1>2, <1>3, SmallestSubset
<1>5. PICK m \in S \cap 0..n : T = 0..m
  OBVIOUS
<1>6. \A k \in S : m <= k
  <2> SUFFICES ASSUME NEW k \in S, k < m PROVE FALSE
    OBVIOUS
  <2>1. 0..k \in Q
    BY <1>5
  <2>2. 0..k = 0..m
    BY <1>4, <1>5, <2>1
  <2>3. m \in 0..k
    BY <1>5, <2>2
  <2> QED BY <2>3
<1> QED BY <1>5, <1>6 DEF Min

\* A log that is appended to keeps its records.
LEMMA LogGrows ==
  ASSUME NEW s \in Seq(Events), NEW e \in Events
  PROVE  /\ Append(s, e) \in Seq(Events)
         /\ Len(Append(s, e)) = Len(s) + 1
         /\ DOMAIN s = 1..Len(s) /\ DOMAIN Append(s, e) = 1..Len(s) + 1
         /\ \A k \in 1..Len(s) : Append(s, e)[k] = s[k]
         /\ Append(s, e)[Len(s) + 1] = e
OBVIOUS

\* The positions of a log are among those of the log with one record more.
LEMMA LongerRange ==
  ASSUME NEW n \in Nat
  PROVE  /\ \A k \in 0..n : k \in 0..(n + 1)
         /\ \A k \in 0..(n - 1) : k \in 0..((n + 1) - 1)
         /\ \A k \in 1..n : k \in 1..(n + 1)
         /\ \A k \in 1..(n + 1) : k \in 1..n \/ k = n + 1
         /\ n + 1 \in 1..(n + 1)
<1>1. \A k \in 0..n : k \in 0..(n + 1)
  OBVIOUS
<1>2. \A k \in 0..(n - 1) : k \in 0..((n + 1) - 1)
  OBVIOUS
<1>3. \A k \in 1..n : k \in 1..(n + 1)
  OBVIOUS
<1>4. \A k \in 1..(n + 1) : k \in 1..n \/ k = n + 1
  OBVIOUS
<1>5. n + 1 \in 1..(n + 1)
  OBVIOUS
<1> QED BY <1>1, <1>2, <1>3, <1>4, <1>5, Zenon

\* While rows are pending, the query returns some of them.
LEMMA FirstRowsExist ==
  ASSUME Pending # {}
  PROVE  FirstRows # {} /\ FirstRows \subseteq Pending
<1> DEFINE i == Min(Pending)
<1>1. i \in Pending /\ \A j \in Pending : i <= j
  BY MinInSet, EventFields DEF Pending
<1> HIDE DEF i
<1>2. Pending \subseteq Nat
  BY EventFields DEF Pending
<1>3. {j \in Pending : j < i} = {}
  BY <1>1, <1>2
<1>4. Cardinality({j \in Pending : j < i}) = 0
  BY <1>3, FS_EmptySet
<1>5. i \in FirstRows
  BY <1>1, <1>4 DEF FirstRows
<1> QED BY <1>5 DEF FirstRows

\* The totals after an event is written to a table of rows, against those before.
Grows(rows, new, e) ==
  /\ IsFiniteSet({i \in Ids : new[i] # NoEvent})
  /\ \A t \in Tickets :
       Total(new, t) = IF t = e.ticket THEN Total(rows, t) + e.delta ELSE Total(rows, t)

\* A row that is written at a free id adds its delta to its ticket's total, and to no other.
LEMMA TotalGrows ==
  ASSUME NEW rows \in [Ids -> Events \cup {NoEvent}], NEW e \in Events, rows[e.id] = NoEvent,
         IsFiniteSet({i \in Ids : rows[i] # NoEvent}),
         NEW new, new = [rows EXCEPT ![e.id] = e]
  PROVE  Grows(rows, new, e)
<1> DEFINE Taken == {i \in Ids : rows[i] # NoEvent}
           f == [i \in Ids |-> rows[i].delta]
           g == [i \in Ids |-> new[i].delta]
<1>1. e.id \in Ids /\ e # NoEvent /\ e.delta \in Nat
  BY EventFields
<1>2. {i \in Ids : new[i] # NoEvent} = Taken \cup {e.id}
  BY <1>1
<1>3. IsFiniteSet(Taken \cup {e.id})
  BY FS_AddElement
<1>4. ASSUME NEW t \in Tickets
      PROVE  Total(new, t) = IF t = e.ticket THEN Total(rows, t) + e.delta ELSE Total(rows, t)
  <2> DEFINE S == RowsOf(rows, t)
  <2>1. IsFiniteSet(S) /\ e.id \notin S
    <3>1. S \in SUBSET Taken
      BY DEF RowsOf
    <3> QED BY <3>1, FS_Subset DEF RowsOf
  <2>2. \A i \in S : g[i] = f[i] /\ f[i] \in Nat
    BY <1>1, EventFields DEF RowsOf
  <2>3. SumFunctionOnSet(g, S) = SumFunctionOnSet(f, S) /\ SumFunctionOnSet(f, S) \in Nat
    <3> HIDE DEF f, g, S
    <3> QED BY <2>1, <2>2, SumSame, SumType
  <2>4. Total(rows, t) = SumFunctionOnSet(f, S)
    BY DEF Total
  <2>5. CASE t # e.ticket
    <3>1. RowsOf(new, t) = S
      BY <1>1, <2>5 DEF RowsOf
    <3> QED BY <2>3, <2>4, <2>5, <3>1 DEF Total
  <2>6. CASE t = e.ticket
    <3>1. RowsOf(new, t) = S \cup {e.id}
      BY <1>1, <2>6 DEF RowsOf
    <3>2. g[e.id] = e.delta
      BY <1>1
    <3>3. \A i \in S \cup {e.id} : g[i] \in Nat
      BY <1>1, <2>2, <3>2
    <3>4. SumFunctionOnSet(g, S \cup {e.id}) = g[e.id] + SumFunctionOnSet(g, S)
      <4> HIDE DEF g, S
      <4> QED BY <2>1, <3>3, SumAdd
    <3>5. Total(new, t) = g[e.id] + SumFunctionOnSet(g, S)
      BY <3>1, <3>4 DEF Total
    <3> QED BY <1>1, <2>3, <2>4, <2>6, <3>2, <3>5
  <2> QED BY <2>5, <2>6
<1> QED BY <1>2, <1>3, <1>4 DEF Grows
-----------------------------------------------------------------------------
(* The inductive invariant.                                                *)

\* An empty outbox, log and inbox, with nobody at work, is sound.
LEMMA InitInv == Init => OutboxInv /\ AmountsInv
<1> SUFFICES ASSUME Init PROVE OutboxInv /\ AmountsInv
  OBVIOUS
<1>1. TypeOK
  BY DEF Init, TypeOK, IdleRelay, Detached
<1>2. RowsInv /\ SentIsPublished /\ AcknowledgedIsHandled
  BY DEF Init, RowsInv, SentIsPublished, AcknowledgedIsHandled
<1>3. RelayInv /\ ConsumerInv
  BY DEF Init, RelayInv, ConsumerInv, IdleRelay, Detached, nobody
<1>4. AmountsInv
  <2>1. \A t \in Tickets : Total([i \in Ids |-> NoEvent], t) = 0
    <3>1. \A t \in Tickets : RowsOf([i \in Ids |-> NoEvent], t) = {}
      BY DEF RowsOf
    <3> QED BY <3>1, SumEmpty DEF Total
  <2> QED BY <2>1, FS_EmptySet DEF Init, AmountsInv
<1> QED BY <1>1, <1>2, <1>3, <1>4 DEF OutboxInv

\* A step that touches neither the rows nor the amounts leaves their relation alone.
LEMMA AmountsKept ==
  ASSUME AmountsInv, UNCHANGED <<outbox, source, inbox, projection>>
  PROVE  AmountsInv'
BY DEF AmountsInv, Total, RowsOf

\* The row a working relay has come to is in the outbox.
LEMMA LeastRow ==
  ASSUME OutboxInv, NEW r \in Relays, relay[r].pc # "idle"
  PROVE  LET i == Min(relay[r].batch)
         IN  /\ i \in relay[r].batch /\ i \in Ids
             /\ outbox[i] \in OwnEvents /\ outbox[i].id = i
<1> DEFINE i == Min(relay[r].batch)
<1>1. relay[r].batch \subseteq Nat /\ relay[r].batch # {} /\ relay[r].batch \subseteq Ids
  BY EventFields DEF OutboxInv, TypeOK, RelayInv
<1>2. i \in relay[r].batch
  BY <1>1, MinInSet
<1> HIDE DEF i
<1> QED BY <1>1, <1>2 DEF OutboxInv, RelayInv, RowsInv, i

\* A new row of the outbox: its id had none, so no relay, record or mark refers to it.
LEMMA EnqueueStep ==
  ASSUME OutboxInv, AmountsInv, NEW e \in Events \ ForeignEvents, Enqueue(e)
  PROVE  OutboxInv' /\ AmountsInv'
<1>1. /\ e \in Events /\ e.id \in Ids /\ e.ticket \in Tickets /\ e.delta \in Nat /\ e # NoEvent
      /\ e \in OwnEvents
  BY EventFields DEF OwnEvents
<1>2. /\ outbox[e.id] = NoEvent
      /\ outbox' = [outbox EXCEPT ![e.id] = e]
      /\ source' = [source EXCEPT ![e.ticket] = source[e.ticket] + e.delta]
      /\ UNCHANGED <<sent, inbox, projection, log, committed, owner, dead, relay, consumer, outages>>
  BY DEF Enqueue, broker, Increment
<1>3. /\ TypeOK /\ RowsInv /\ RelayInv /\ ConsumerInv /\ SentIsPublished /\ AcknowledgedIsHandled
      /\ outbox \in [Ids -> Events \cup {NoEvent}] /\ source \in [Tickets -> Nat]
  BY DEF OutboxInv, TypeOK
<1>4. \A i \in Ids : outbox[i] # NoEvent => outbox'[i] = outbox[i]
  BY <1>2, <1>3
<1>5. TypeOK'
  <2>1. outbox' \in [Ids -> Events \cup {NoEvent}]
    BY <1>1, <1>2, <1>3
  <2>2. source' \in [Tickets -> Nat]
    BY <1>1, <1>2, <1>3
  <2> QED BY <1>2, <1>3, <2>1, <2>2 DEF TypeOK
<1>6. RowsInv'
  <2>1. \A i \in Ids : outbox'[i] # NoEvent => outbox'[i].id = i /\ outbox'[i] \in OwnEvents
    BY <1>1, <1>2, <1>3 DEF RowsInv
  <2>2. \A k \in DOMAIN log : log[k] \in Events /\ log[k].id \in Ids /\ log[k] # NoEvent
    BY <1>3, EventFields DEF TypeOK
  <2>3. \A k \in DOMAIN log : log[k] \in ForeignEvents \/ outbox'[log[k].id] = log[k]
    BY <1>3, <1>4, <2>2 DEF RowsInv
  <2> QED BY <1>2, <1>3, <2>1, <2>3 DEF RowsInv
<1>7. RelayInv'
  <2>1. \A r \in Relays : \A i \in relay[r].batch : i \in Ids /\ outbox'[i] = outbox[i]
    BY <1>3, <1>4 DEF RelayInv, TypeOK
  <2>2. ASSUME NEW r \in Relays, relay[r].pc = "mark"
        PROVE  \E k \in DOMAIN log : log[k] = outbox'[Min(relay[r].batch)]
    <3>1. Min(relay[r].batch) \in relay[r].batch
      BY <2>2, LeastRow
    <3> QED BY <1>3, <2>1, <2>2, <3>1 DEF RelayInv
  <2>3. ASSUME NEW r \in Relays
        PROVE  /\ relay[r].pc # "idle" => relay[r].batch # {}
               /\ \A i \in relay[r].batch : i \in Ids /\ outbox[i] # NoEvent
    BY <1>3, <2>1 DEF RelayInv
  <2>4. ASSUME NEW r \in Relays PROVE \A i \in relay[r].batch : outbox'[i] # NoEvent
    BY <2>1, <2>3
  <2>5. relay' = relay /\ log' = log
    BY <1>2
  <2> QED BY <2>2, <2>3, <2>4, <2>5 DEF RelayInv
<1>8. ConsumerInv' /\ AcknowledgedIsHandled'
  BY <1>2, <1>3 DEF ConsumerInv, Record, AcknowledgedIsHandled
<1>9. SentIsPublished'
  <2>1. \A i \in sent : outbox[i] # NoEvent
    BY <1>3, EventFields DEF SentIsPublished, TypeOK
  <2> QED BY <1>2, <1>3, <1>4, <2>1 DEF SentIsPublished, TypeOK
<1>10. AmountsInv'
  <2>1. /\ IsFiniteSet({i \in Ids : outbox'[i] # NoEvent})
        /\ \A t \in Tickets :
             Total(outbox', t) = IF t = e.ticket THEN Total(outbox, t) + e.delta ELSE Total(outbox, t)
    <3>1. IsFiniteSet({i \in Ids : outbox[i] # NoEvent})
      BY DEF AmountsInv
    <3>2. e \in Events /\ outbox[e.id] = NoEvent /\ outbox \in [Ids -> Events \cup {NoEvent}]
      BY <1>1, <1>2, <1>3
    <3>3. PICK new : new = outbox' /\ new = [outbox EXCEPT ![e.id] = e]
      BY <1>2
    <3>4. Grows(outbox, new, e)
      BY <3>1, <3>2, <3>3, TotalGrows
    <3> QED BY <3>3, <3>4 DEF Grows
  <2>2. \A t \in Tickets : source'[t] = Total(outbox', t)
    BY <1>1, <1>2, <1>3, <2>1 DEF AmountsInv
  <2>3. IsFiniteSet({i \in Ids : inbox[i] # NoEvent})
        /\ \A t \in Tickets : projection[t] = Total(inbox, t)
    BY DEF AmountsInv
  <2>4. \A t \in Tickets : Total(outbox, t)' = Total(outbox', t) /\ Total(inbox, t)' = Total(inbox, t)
    BY <1>2 DEF Total, RowsOf
  <2> QED BY <1>2, <2>1, <2>2, <2>3, <2>4 DEF AmountsInv
<1> QED BY <1>5, <1>6, <1>7, <1>8, <1>9, <1>10 DEF OutboxInv

\* A record that is appended, by a relay or by another producer, moves no other.
LEMMA SendStep ==
  ASSUME OutboxInv, NEW e \in Events, Send(e),
         e \in ForeignEvents \/ outbox[e.id] = e,
         UNCHANGED <<db, committed, owner, dead, consumer>>
  PROVE  /\ log' \in Seq(Events) /\ committed' \in 0..Len(log)' /\ (dead \subseteq 0..Len(log)-1)'
         /\ consumer' \in [Consumers ->
              [pc : {"idle", "poll", "lookup", "effect", "bury", "acknowledge"}, offset : 0..Len(log')]]
         /\ RowsInv' /\ ConsumerInv' /\ SentIsPublished' /\ AcknowledgedIsHandled'
         /\ \A k \in DOMAIN log : k \in DOMAIN log' /\ log'[k] = log[k]
         /\ \E k \in DOMAIN log' : log'[k] = e
<1>1. /\ log' \in Seq(Events) /\ Len(log') = Len(log) + 1
      /\ DOMAIN log = 1..Len(log) /\ DOMAIN log' = 1..Len(log) + 1
      /\ \A k \in 1..Len(log) : log'[k] = log[k]
      /\ log'[Len(log) + 1] = e
  BY LogGrows DEF Send, OutboxInv, TypeOK
<1>0. log \in Seq(Events)
  BY DEF OutboxInv, TypeOK
<1>2. Len(log) \in Nat /\ Len(log') = Len(log) + 1
  BY <1>0, <1>1
<1>8. TypeOK /\ RowsInv /\ RelayInv /\ ConsumerInv /\ SentIsPublished /\ AcknowledgedIsHandled
  BY DEF OutboxInv
<1>9. UNCHANGED <<outbox, sent, inbox, committed, owner, dead, consumer>>
  BY DEF db
<1>10. /\ \A k \in DOMAIN log : k \in DOMAIN log' /\ log'[k] = log[k]
       /\ \E k \in DOMAIN log' : log'[k] = e
  <2>1. \A k \in 1..Len(log) : k \in 1..Len(log) + 1
    BY <1>2, LongerRange
  <2>2. Len(log) + 1 \in 1..Len(log) + 1
    BY <1>2, LongerRange
  <2> QED BY <1>1, <2>1, <2>2
<1>3. RowsInv'
  <2>1. \A k \in 1..Len(log) + 1 : k \in 1..Len(log) \/ k = Len(log) + 1
    BY <1>2, LongerRange
  <2>2. \A k \in DOMAIN log' : log'[k] \in ForeignEvents \/ outbox[log'[k].id] = log'[k]
    BY <1>1, <1>8, <2>1 DEF RowsInv
  <2> QED BY <1>8, <1>9, <2>2 DEF RowsInv
<1>4. /\ committed' \in 0..Len(log)' /\ (dead \subseteq 0..Len(log)-1)'
      /\ consumer' \in [Consumers ->
           [pc : {"idle", "poll", "lookup", "effect", "bury", "acknowledge"}, offset : 0..Len(log')]]
  <2> DEFINE pcs == {"idle", "poll", "lookup", "effect", "bury", "acknowledge"}
  <2>1. /\ committed \in 0..Len(log) /\ dead \subseteq 0..Len(log)-1
        /\ consumer \in [Consumers -> [pc : pcs, offset : 0..Len(log)]]
    BY <1>8 DEF TypeOK
  <2>2. /\ \A k \in 0..Len(log) : k \in 0..(Len(log) + 1)
        /\ \A k \in 0..(Len(log) - 1) : k \in 0..((Len(log) + 1) - 1)
    BY <1>2, LongerRange
  <2> HIDE DEF pcs
  <2>3. committed \in 0..(Len(log) + 1)
    BY <2>1, <2>2
  <2>4. dead \subseteq 0..((Len(log) + 1) - 1)
    BY <2>1, <2>2
  <2>5. consumer \in [Consumers -> [pc : pcs, offset : 0..(Len(log) + 1)]]
    <3> DEFINE old == 0..Len(log)
               new == 0..(Len(log) + 1)
    <3>1. old \subseteq new
      BY <2>2
    <3>2. consumer \in [Consumers -> [pc : pcs, offset : old]]
      BY <2>1
    <3> HIDE DEF old, new
    <3>3. consumer \in [Consumers -> [pc : pcs, offset : new]]
      BY <3>1, <3>2
    <3> QED BY <3>3 DEF new
  <2>6. committed' = committed /\ dead' = dead /\ consumer' = consumer /\ Len(log)' = Len(log) + 1
    BY <1>2, <1>9
  <2>7. committed' \in 0..Len(log)'
    BY <2>3, <2>6, Zenon
  <2>8. (dead \subseteq 0..Len(log)-1)'
    BY <2>4, <2>6, Zenon
  <2>9. consumer' \in [Consumers -> [pc : pcs, offset : 0..Len(log')]]
    BY <2>5, <2>6, Zenon
  <2> QED BY <2>7, <2>8, <2>9 DEF pcs
<1>5. ConsumerInv'
  <2>1. \A c \in Consumers : consumer[c].offset \in Nat
    <3>1. \A c \in Consumers : consumer[c].offset \in 0..Len(log)
      BY <1>8 DEF TypeOK
    <3> QED BY <1>2, <3>1
  <2>2. ASSUME NEW c \in Consumers
        PROVE  /\ consumer[c].pc \in {"lookup", "effect", "bury", "acknowledge"}
                    => consumer[c].offset < Len(log)
               /\ consumer[c].pc = "acknowledge"
                    => inbox[Record(c).id] = Record(c) \/ consumer[c].offset \in dead
               /\ owner = c => consumer[c].offset = committed
    BY <1>8 DEF ConsumerInv
  <2>4. ASSUME NEW c \in Consumers, consumer[c].offset < Len(log) PROVE Record(c)' = Record(c)
    <3> DEFINE k == consumer[c].offset + 1
    <3>1. k \in 1..Len(log)
      <4>1. consumer[c].offset \in Nat /\ Len(log) \in Nat
        BY <1>2, <2>1
      <4>2. \A m, n \in Nat : m < n => m + 1 \in 1..n
        OBVIOUS
      <4> QED BY <2>4, <4>1, <4>2
    <3>2. log'[k] = log[k]
      BY <1>1, <3>1
    <3> QED BY <1>9, <3>2 DEF Record
  <2>5. \A m, n \in Nat : m < n => m < n + 1
    OBVIOUS
  <2>6. owner' = owner /\ committed' = committed /\ dead' = dead /\ inbox' = inbox /\ consumer' = consumer
    BY <1>9
  <2>7. ASSUME NEW c \in Consumers, consumer[c].pc \in {"lookup", "effect", "bury", "acknowledge"}
        PROVE  consumer[c].offset < Len(log) /\ consumer[c].offset < Len(log')
    <3>1. consumer[c].offset < Len(log)
      BY <2>2, <2>7
    <3>2. consumer[c].offset \in Nat /\ Len(log) \in Nat
      BY <1>2, <2>1
    <3>3. consumer[c].offset < Len(log) + 1
      BY <2>5, <3>1, <3>2
    <3> QED BY <1>2, <3>1, <3>3
  <2>8. ASSUME NEW c \in Consumers, consumer[c].pc = "acknowledge"
        PROVE  inbox[Record(c)'.id] = Record(c)' \/ consumer[c].offset \in dead
    <3>1. Record(c)' = Record(c)
      BY <2>4, <2>7, <2>8
    <3>2. inbox[Record(c).id] = Record(c) \/ consumer[c].offset \in dead
      BY <2>2, <2>8
    <3> QED BY <3>1, <3>2, Zenon
  <2>9. ASSUME NEW c \in Consumers
        PROVE  /\ consumer'[c].pc \in {"lookup", "effect", "bury", "acknowledge"}
                    => consumer'[c].offset < Len(log')
               /\ consumer'[c].pc = "acknowledge"
                    => inbox'[Record(c)'.id] = Record(c)' \/ consumer'[c].offset \in dead'
               /\ owner' = c => consumer'[c].offset = committed'
    <3>1. owner = c => consumer[c].offset = committed
      BY <2>2
    <3>2. consumer[c].pc \in {"lookup", "effect", "bury", "acknowledge"} => consumer[c].offset < Len(log')
      BY <2>7
    <3>3. consumer[c].pc = "acknowledge"
            => inbox[Record(c)'.id] = Record(c)' \/ consumer[c].offset \in dead
      BY <2>8
    <3> QED BY <2>6, <3>1, <3>2, <3>3, Zenon
  <2> QED BY <2>9 DEF ConsumerInv
<1>6. SentIsPublished'
  BY <1>8, <1>9, <1>10 DEF SentIsPublished
<1>7. AcknowledgedIsHandled'
  <2>1. committed \in 0..Len(log)
    BY <1>8 DEF TypeOK
  <2>2. \A k \in 1..committed : k \in 1..Len(log)
    BY <1>2, <2>1
  <2> QED BY <1>1, <1>8, <1>9, <2>2 DEF AcknowledgedIsHandled
<1> QED BY <1>1, <1>3, <1>4, <1>5, <1>6, <1>7, <1>10

-----------------------------------------------------------------------------
(* The relay's steps.                                                      *)

\* Only the relay's own state and the marks change.
LEMMA RelayFrame ==
  ASSUME OutboxInv, UNCHANGED <<outbox, source, inbox, projection, log, committed, owner, dead, consumer>>
  PROVE  RowsInv' /\ ConsumerInv' /\ AcknowledgedIsHandled'
BY DEF OutboxInv, RowsInv, ConsumerInv, AcknowledgedIsHandled, Record

\* A relay begins a pass: it takes rows that are in the outbox.
LEMMA ReadPendingStep ==
  ASSUME OutboxInv, NEW r \in Relays, ReadPending(r)
  PROVE  OutboxInv'
<1> USE DEF OutboxInv
<1>1. FirstRows # {} /\ FirstRows \subseteq Pending
  BY FirstRowsExist DEF ReadPending
<1>2. TypeOK'
  BY <1>1 DEF ReadPending, TypeOK, db, broker, Pending
<1>3. RelayInv'
  BY <1>1 DEF ReadPending, RelayInv, TypeOK, db, broker, Pending
<1>4. SentIsPublished'
  BY DEF SentIsPublished, ReadPending, db, broker
<1>5. RowsInv' /\ ConsumerInv' /\ AcknowledgedIsHandled'
  BY RelayFrame DEF ReadPending, db, broker
<1> QED BY <1>2, <1>3, <1>4, <1>5

\* The record a relay appends is the row it is about to mark.
LEMMA PublishStep ==
  ASSUME OutboxInv, NEW r \in Relays, Publish(r)
  PROVE  OutboxInv'
<1> DEFINE e == outbox[Min(relay[r].batch)]
<1>1. e \in Events /\ outbox[e.id] = e
  BY LeastRow DEF Publish, OwnEvents
<1>2. /\ log' \in Seq(Events) /\ committed' \in 0..Len(log)' /\ (dead \subseteq 0..Len(log)-1)'
      /\ consumer' \in [Consumers ->
           [pc : {"idle", "poll", "lookup", "effect", "bury", "acknowledge"}, offset : 0..Len(log')]]
      /\ RowsInv' /\ ConsumerInv' /\ SentIsPublished' /\ AcknowledgedIsHandled'
      /\ \A k \in DOMAIN log : k \in DOMAIN log' /\ log'[k] = log[k]
      /\ \E k \in DOMAIN log' : log'[k] = e
  BY <1>1, SendStep DEF Publish
<1>3. /\ relay' = [relay EXCEPT ![r].pc = "mark"]
      /\ UNCHANGED <<outbox, sent, source, inbox, projection, owner, consumer, outages>>
  BY DEF Publish, db
<1> HIDE DEF e
<1>4. TypeOK'
  <2>1. relay' \in [Relays -> [pc : {"idle", "publish", "mark"}, batch : SUBSET Ids]]
    BY <1>3 DEF OutboxInv, TypeOK
  <2> QED BY <1>2, <1>3, <2>1 DEF OutboxInv, TypeOK
<1>5. RelayInv'
  <2>1. ASSUME NEW q \in Relays, q # r
        PROVE  /\ relay'[q] = relay[q]
               /\ relay'[q].pc = "mark" => \E k \in DOMAIN log' : log'[k] = outbox'[Min(relay'[q].batch)]
    <3>1. relay'[q] = relay[q] /\ outbox' = outbox
      BY <1>3, <2>1 DEF OutboxInv, TypeOK
    <3>2. relay[q].pc = "mark" => \E k \in DOMAIN log : log[k] = outbox[Min(relay[q].batch)]
      BY DEF OutboxInv, RelayInv
    <3>3. relay[q].pc = "mark" => \E k \in DOMAIN log' : log'[k] = outbox[Min(relay[q].batch)]
      BY <1>2, <3>2
    <3> QED BY <3>1, <3>3
  <2>2. relay'[r].batch = relay[r].batch /\ relay[r].batch # {}
    BY <1>3 DEF OutboxInv, TypeOK, RelayInv, Publish
  <2>3. \E k \in DOMAIN log' : log'[k] = outbox'[Min(relay'[r].batch)]
    BY <1>2, <1>3, <2>2 DEF e
  <2> QED BY <1>3, <2>1, <2>2, <2>3 DEF OutboxInv, RelayInv
<1> QED BY <1>2, <1>4, <1>5 DEF OutboxInv

\* The row that is marked was published, by this relay or by another that took the same batch.
LEMMA MarkSentStep ==
  ASSUME OutboxInv, NEW r \in Relays, MarkSent(r)
  PROVE  OutboxInv'
<1> DEFINE i == Min(relay[r].batch)
           rest == relay[r].batch \ {i}
<1> USE DEF OutboxInv
<1>1. i \in Ids /\ relay[r].pc = "mark"
  BY LeastRow DEF MarkSent
<1>2. /\ sent' = sent \cup {i}
      /\ relay' = [relay EXCEPT ![r] = Following(r)]
      /\ UNCHANGED <<outbox, source, inbox, projection, log, committed, owner, dead, consumer, outages>>
  BY DEF MarkSent, RowsMarked, broker
<1>3. Following(r) = IF rest = {} THEN [pc |-> "idle", batch |-> {}]
                     ELSE [pc |-> "publish", batch |-> rest]
  BY DEF Following, IdleRelay
<1>4. \E k \in DOMAIN log : log[k] = outbox[i]
  BY <1>1 DEF RelayInv
<1> DEFINE next == Following(r)
<1>5. /\ next \in [pc : {"idle", "publish", "mark"}, batch : SUBSET Ids]
      /\ next.pc # "idle" => next.batch # {}
      /\ next.pc # "mark" /\ next.batch \subseteq relay[r].batch
  BY <1>3 DEF TypeOK
<1> HIDE DEF i, next
<1>6. relay' = [relay EXCEPT ![r] = next]
  BY <1>2 DEF next
<1>9. TypeOK'
  <2>1. sent' \subseteq Ids
    BY <1>1, <1>2 DEF TypeOK
  <2>2. relay' \in [Relays -> [pc : {"idle", "publish", "mark"}, batch : SUBSET Ids]]
    BY <1>5, <1>6 DEF TypeOK
  <2> QED BY <1>2, <2>1, <2>2 DEF TypeOK
<1>10. RelayInv'
  <2>1. relay'[r] = next /\ \A q \in Relays : q # r => relay'[q] = relay[q]
    BY <1>6 DEF TypeOK
  <2>2. outbox' = outbox /\ log' = log
    BY <1>2
  <2>3. ASSUME NEW q \in Relays
        PROVE  /\ relay'[q].pc # "idle" => relay'[q].batch # {}
               /\ \A j \in relay'[q].batch : outbox[j] # NoEvent
               /\ relay'[q].pc = "mark" => \E k \in DOMAIN log : log[k] = outbox[Min(relay'[q].batch)]
    <3>1. CASE q = r
      BY <1>5, <2>1, <3>1 DEF RelayInv
    <3>2. CASE q # r
      BY <2>1, <3>2 DEF RelayInv
    <3> QED BY <3>1, <3>2
  <2> QED BY <2>2, <2>3 DEF RelayInv
<1>7. SentIsPublished'
  BY <1>2, <1>4 DEF SentIsPublished
<1>8. RowsInv' /\ ConsumerInv' /\ AcknowledgedIsHandled'
  BY <1>2, RelayFrame
<1> QED BY <1>7, <1>8, <1>9, <1>10

\* The relay gives up its batch, whether or not the broker took the record.
LEMMA RelayFailsStep ==
  ASSUME OutboxInv, NEW r \in Relays, RelayFails(r)
  PROVE  OutboxInv'
<1> DEFINE e == outbox[Min(relay[r].batch)]
<1>1. /\ relay' = [relay EXCEPT ![r] = [pc |-> "idle", batch |-> {}]]
      /\ outages' \in 0..MaxOutages
      /\ UNCHANGED <<outbox, sent, source, inbox, projection, committed, owner, dead, consumer>>
  BY DEF OutboxInv, TypeOK, RelayFails, IdleRelay, MarkedOnFailure, Outage
<1>2. CASE UNCHANGED log
  <2>1. TypeOK' /\ RelayInv' /\ SentIsPublished'
    BY <1>1, <1>2 DEF OutboxInv, TypeOK, RelayInv, SentIsPublished
  <2>2. RowsInv' /\ ConsumerInv' /\ AcknowledgedIsHandled'
    BY <1>1, <1>2, RelayFrame
  <2> QED BY <2>1, <2>2 DEF OutboxInv
<1>3. CASE relay[r].pc = "publish" /\ Send(e)
  <2>1. e \in Events /\ outbox[e.id] = e
    BY LeastRow DEF RelayFails, OwnEvents
  <2>2. /\ log' \in Seq(Events) /\ committed' \in 0..Len(log)' /\ (dead \subseteq 0..Len(log)-1)'
        /\ consumer' \in [Consumers ->
             [pc : {"idle", "poll", "lookup", "effect", "bury", "acknowledge"}, offset : 0..Len(log')]]
        /\ RowsInv' /\ ConsumerInv' /\ SentIsPublished' /\ AcknowledgedIsHandled'
        /\ \A k \in DOMAIN log : k \in DOMAIN log' /\ log'[k] = log[k]
    BY <1>1, <1>3, <2>1, SendStep DEF db
  <2>5. relay' \in [Relays -> [pc : {"idle", "publish", "mark"}, batch : SUBSET Ids]]
    BY <1>1 DEF OutboxInv, TypeOK
  <2>3. TypeOK'
    <3>1. /\ outbox \in [Ids -> Events \cup {NoEvent}] /\ inbox \in [Ids -> Events \cup {NoEvent}]
          /\ source \in [Tickets -> Nat] /\ projection \in [Tickets -> Nat]
          /\ sent \subseteq Ids /\ owner \in Consumers \cup {nobody}
      BY DEF OutboxInv, TypeOK
    <3> QED BY <1>1, <2>2, <2>5, <3>1 DEF TypeOK
  <2>4. RelayInv'
    <3>1. /\ relay'[r].pc = "idle" /\ relay'[r].batch = {}
          /\ \A q \in Relays : q # r => relay'[q] = relay[q]
      BY <1>1 DEF OutboxInv, TypeOK
    <3>2. ASSUME NEW q \in Relays
          PROVE  /\ relay'[q].pc # "idle" => relay'[q].batch # {}
                 /\ \A j \in relay'[q].batch : outbox[j] # NoEvent
                 /\ relay'[q].pc = "mark" => \E k \in DOMAIN log' : log'[k] = outbox[Min(relay'[q].batch)]
      <4>1. CASE q = r
        BY <3>1, <4>1
      <4>2. CASE q # r
        <5>1. /\ relay[q].pc # "idle" => relay[q].batch # {}
              /\ \A j \in relay[q].batch : outbox[j] # NoEvent
              /\ relay[q].pc = "mark" => \E k \in DOMAIN log : log[k] = outbox[Min(relay[q].batch)]
          BY DEF OutboxInv, RelayInv
        <5>2. \A k \in DOMAIN log : k \in DOMAIN log' /\ log'[k] = log[k]
          BY <2>2
        <5> QED BY <3>1, <4>2, <5>1, <5>2
      <4> QED BY <4>1, <4>2
    <3> QED BY <1>1, <3>2 DEF RelayInv
  <2> QED BY <2>2, <2>3, <2>4 DEF OutboxInv
<1> QED BY <1>2, <1>3 DEF RelayFails

\* A record of another producer joins the log and stands for no row.
LEMMA ForeignPublishStep ==
  ASSUME OutboxInv, NEW e \in ForeignEvents, ForeignPublish(e)
  PROVE  OutboxInv'
<1>1. /\ log' \in Seq(Events) /\ committed' \in 0..Len(log)' /\ (dead \subseteq 0..Len(log)-1)'
      /\ consumer' \in [Consumers ->
           [pc : {"idle", "poll", "lookup", "effect", "bury", "acknowledge"}, offset : 0..Len(log')]]
      /\ RowsInv' /\ ConsumerInv' /\ SentIsPublished' /\ AcknowledgedIsHandled'
      /\ \A k \in DOMAIN log : k \in DOMAIN log' /\ log'[k] = log[k]
  BY SendStep DEF ForeignPublish
<1>2. UNCHANGED <<outbox, sent, source, inbox, projection, owner, relay, consumer, outages>>
  BY DEF ForeignPublish, db
<1>3. TypeOK'
  BY <1>1, <1>2 DEF OutboxInv, TypeOK
<1>4. RelayInv'
  BY <1>1, <1>2 DEF OutboxInv, RelayInv, TypeOK
<1> QED BY <1>1, <1>3, <1>4 DEF OutboxInv

-----------------------------------------------------------------------------
(* The consumer's steps.                                                   *)

\* A consumer's record is one of the log's, whose event has an id.
LEMMA HandledRecord ==
  ASSUME OutboxInv, NEW c \in Consumers,
         consumer[c].pc \in {"lookup", "effect", "bury", "acknowledge"}
  PROVE  /\ consumer[c].offset \in 0..Len(log)-1
         /\ consumer[c].offset + 1 \in DOMAIN log
         /\ Record(c) \in Events /\ Record(c).id \in Ids /\ Record(c).ticket \in Tickets
         /\ Record(c).delta \in Nat /\ Record(c) # NoEvent
<1>1. log \in Seq(Events) /\ consumer[c].offset \in 0..Len(log) /\ consumer[c].offset < Len(log)
  BY DEF OutboxInv, TypeOK, ConsumerInv
<1>2. Len(log) \in Nat /\ DOMAIN log = 1..Len(log)
  BY <1>1
<1>3. \A n \in Nat : \A m \in 0..n : m < n => m + 1 \in 1..n /\ m \in 0..n-1
  OBVIOUS
<1>4. consumer[c].offset + 1 \in DOMAIN log /\ consumer[c].offset \in 0..Len(log)-1
  BY <1>1, <1>2, <1>3
<1>5. Record(c) \in Events
  <2>1. \A k \in DOMAIN log : log[k] \in Events
    BY <1>1
  <2> QED BY <1>4, <2>1 DEF Record
<1> QED BY <1>4, <1>5, EventFields

\* A step that leaves the rows, the log, the group's offset and its dead letters alone
\* can only disturb what the consumers hold.
LEMMA ConsumerFrame ==
  ASSUME OutboxInv, UNCHANGED <<db, log, committed, dead, relay>>
  PROVE  RowsInv' /\ RelayInv' /\ SentIsPublished' /\ AcknowledgedIsHandled'
BY DEF OutboxInv, RowsInv, RelayInv, SentIsPublished, AcknowledgedIsHandled, db

\* A member that is given the partition begins at the acknowledged offset.
LEMMA AssignStep ==
  ASSUME OutboxInv, NEW c \in Consumers, Assign(c)
  PROVE  OutboxInv'
<1>1. /\ owner = nobody /\ owner' = c
      /\ consumer' = [consumer EXCEPT ![c] = [pc |-> "poll", offset |-> committed]]
      /\ UNCHANGED <<outbox, sent, source, inbox, projection, log, committed, dead, relay, outages>>
  BY DEF Assign, db
<1>2. TypeOK'
  BY <1>1 DEF OutboxInv, TypeOK
<1>3. ConsumerInv'
  BY <1>1 DEF OutboxInv, TypeOK, ConsumerInv, Record
<1>4. RowsInv' /\ RelayInv' /\ SentIsPublished' /\ AcknowledgedIsHandled'
  BY <1>1, ConsumerFrame DEF db
<1> QED BY <1>2, <1>3, <1>4 DEF OutboxInv

\* A member that loses the partition goes on handling its record: it owns nothing any more.
LEMMA LoseAssignmentStep ==
  ASSUME OutboxInv, NEW c \in Consumers, LoseAssignment(c)
  PROVE  OutboxInv'
<1>1. /\ owner' = nobody /\ outages' \in 0..MaxOutages
      /\ UNCHANGED <<outbox, sent, source, inbox, projection, log, committed, dead, relay, consumer>>
  BY DEF LoseAssignment, Outage, db, OutboxInv, TypeOK
<1>2. TypeOK'
  BY <1>1 DEF OutboxInv, TypeOK
<1>3. ConsumerInv'
  BY <1>1 DEF OutboxInv, ConsumerInv, Record, nobody
<1>4. RowsInv' /\ RelayInv' /\ SentIsPublished' /\ AcknowledgedIsHandled'
  BY <1>1, ConsumerFrame DEF db
<1> QED BY <1>2, <1>3, <1>4 DEF OutboxInv

\* A consumer that leaves holds no record, and no partition.
LEMMA LeaveStep ==
  ASSUME OutboxInv, NEW c \in Consumers, Leave(c), outages' \in 0..MaxOutages,
         UNCHANGED <<db, log, committed, dead, relay>>
  PROVE  OutboxInv'
<1>1. /\ consumer' = [consumer EXCEPT ![c] = [pc |-> "idle", offset |-> 0]]
      /\ owner' = IF owner = c THEN nobody ELSE owner
      /\ UNCHANGED <<outbox, sent, source, inbox, projection, log, committed, dead, relay>>
  BY DEF Leave, Detached, db
<1>2. TypeOK'
  <2>1. log \in Seq(Events) /\ Len(log) \in Nat
    BY DEF OutboxInv, TypeOK
  <2>2. 0 \in 0..Len(log)
    BY <2>1
  <2>3. consumer' \in [Consumers ->
           [pc : {"idle", "poll", "lookup", "effect", "bury", "acknowledge"}, offset : 0..Len(log)]]
    BY <1>1, <2>2 DEF OutboxInv, TypeOK
  <2> QED BY <1>1, <2>3 DEF OutboxInv, TypeOK
<1>3. ConsumerInv'
  BY <1>1 DEF OutboxInv, TypeOK, ConsumerInv, Record, nobody
<1>4. RowsInv' /\ RelayInv' /\ SentIsPublished' /\ AcknowledgedIsHandled'
  BY ConsumerFrame
<1> QED BY <1>2, <1>3, <1>4 DEF OutboxInv

\* A consumer that dies forgets where it stood.
LEMMA ConsumerCrashStep ==
  ASSUME OutboxInv, NEW c \in Consumers, ConsumerCrash(c)
  PROVE  OutboxInv'
<1>1. outages' \in 0..MaxOutages
  BY DEF ConsumerCrash, Outage, OutboxInv, TypeOK
<1> QED BY <1>1, LeaveStep DEF ConsumerCrash

\* Only a record that is in the log is polled.
LEMMA PollStep ==
  ASSUME OutboxInv, NEW c \in Consumers, Poll(c)
  PROVE  OutboxInv'
<1>1. UNCHANGED <<outbox, sent, source, inbox, projection, log, committed, owner, dead, relay, outages>>
  BY DEF Poll, db, broker
<1>2. CASE owner = c
  <2>1. consumer' = [consumer EXCEPT ![c].pc = "lookup"] /\ consumer[c].offset < Len(log)
    BY <1>2 DEF Poll, Step
  <2>2. TypeOK'
    BY <1>1, <2>1 DEF OutboxInv, TypeOK
  <2>3. ConsumerInv'
    BY <1>1, <2>1 DEF OutboxInv, TypeOK, ConsumerInv, Record
  <2> QED BY <1>1, <2>2, <2>3, ConsumerFrame DEF OutboxInv, db
<1>3. CASE owner # c
  <2>1. Leave(c)
    BY <1>1, <1>3 DEF Poll, Leave
  <2> QED BY <1>1, <2>1, LeaveStep DEF OutboxInv, TypeOK, db
<1> QED BY <1>2, <1>3

\* A record that has an inbox row of its own fields is repeated, and is acknowledged.
LEMMA LookupStep ==
  ASSUME OutboxInv, NEW c \in Consumers, Lookup(c)
  PROVE  OutboxInv'
<1> DEFINE known == inbox[Record(c).id]
           pc == IF known = NoEvent THEN "effect"
                 ELSE IF known = Record(c) THEN "acknowledge" ELSE "bury"
<1>1. /\ consumer' = [consumer EXCEPT ![c].pc = pc] /\ consumer[c].pc = "lookup"
      /\ UNCHANGED <<outbox, sent, source, inbox, projection, log, committed, owner, dead, relay, outages>>
  BY DEF Lookup, Step, Repeats, db, broker
<1>2. consumer[c].offset < Len(log)
  BY <1>1 DEF OutboxInv, ConsumerInv
<1>3. pc \in {"effect", "bury", "acknowledge"} /\ (pc = "acknowledge" => inbox[Record(c).id] = Record(c))
  OBVIOUS
<1> HIDE DEF pc
<1>4. TypeOK'
  BY <1>1, <1>3 DEF OutboxInv, TypeOK
<1>5. ConsumerInv'
  BY <1>1, <1>2, <1>3 DEF OutboxInv, TypeOK, ConsumerInv, Record
<1>6. RowsInv' /\ RelayInv' /\ SentIsPublished' /\ AcknowledgedIsHandled'
  BY <1>1, ConsumerFrame DEF db
<1> QED BY <1>4, <1>5, <1>6 DEF OutboxInv

\* A record that is buried has been dealt with.
LEMMA BuryStep ==
  ASSUME OutboxInv, NEW c \in Consumers, Bury(c)
  PROVE  OutboxInv'
<1>1. /\ consumer' = [consumer EXCEPT ![c].pc = "acknowledge"] /\ consumer[c].pc = "bury"
      /\ dead' = dead \cup {consumer[c].offset}
      /\ UNCHANGED <<outbox, sent, source, inbox, projection, log, committed, owner, relay, outages>>
  BY DEF Bury, Step, db
<1>2. consumer[c].offset \in 0..Len(log)-1 /\ consumer[c].offset < Len(log)
  BY <1>1, HandledRecord DEF OutboxInv, ConsumerInv
<1>3. TypeOK'
  BY <1>1, <1>2 DEF OutboxInv, TypeOK
<1>4. ConsumerInv'
  BY <1>1, <1>2 DEF OutboxInv, TypeOK, ConsumerInv, Record
<1>5. RowsInv' /\ RelayInv' /\ SentIsPublished' /\ AcknowledgedIsHandled'
  BY <1>1 DEF OutboxInv, RowsInv, RelayInv, SentIsPublished, AcknowledgedIsHandled
<1> QED BY <1>3, <1>4, <1>5 DEF OutboxInv

\* Only the assigned member moves the group's offset, by the one record it has handled.
LEMMA AcknowledgeStep ==
  ASSUME OutboxInv, NEW c \in Consumers, Acknowledge(c)
  PROVE  OutboxInv'
<1>1. UNCHANGED <<outbox, sent, source, inbox, projection, log, owner, dead, relay, outages>>
  BY DEF Acknowledge, db
<1>2. CASE owner = c
  <2> DEFINE p == consumer[c].offset + 1
  <2>1. /\ committed' = p /\ consumer[c].pc = "acknowledge"
        /\ consumer' = [consumer EXCEPT ![c] = [pc |-> "poll", offset |-> p]]
    BY <1>2 DEF Acknowledge, Position
  <2>2. /\ consumer[c].offset = committed
        /\ p \in DOMAIN log
        /\ inbox[log[p].id] = log[p] \/ consumer[c].offset \in dead
    BY <1>2, <2>1, HandledRecord DEF OutboxInv, ConsumerInv, Record
  <2>3. log \in Seq(Events) /\ committed \in 0..Len(log)
    BY DEF OutboxInv, TypeOK
  <2>4. p \in 0..Len(log) /\ committed \in Nat /\ p = committed + 1
    <3>1. Len(log) \in Nat /\ DOMAIN log = 1..Len(log)
      BY <2>3
    <3>2. p = committed + 1 /\ p \in DOMAIN log
      BY <2>2
    <3> HIDE DEF p
    <3> QED BY <2>3, <3>1, <3>2
  <2>5. TypeOK'
    BY <1>1, <2>1, <2>4 DEF OutboxInv, TypeOK
  <2>6. ConsumerInv'
    BY <1>1, <1>2, <2>1 DEF OutboxInv, TypeOK, ConsumerInv, Record
  <2>7. AcknowledgedIsHandled'
    <3>1. \A m \in Nat : \A k \in 1..m+1 : k \in 1..m \/ (k = m + 1 /\ k - 1 = m)
      OBVIOUS
    <3>2. \A k \in 1..p : k \in 1..committed \/ (k = p /\ k - 1 = committed)
      <4> HIDE DEF p
      <4> QED BY <2>4, <3>1
    <3> QED BY <1>1, <2>1, <2>2, <3>2 DEF OutboxInv, AcknowledgedIsHandled
  <2>8. RowsInv' /\ RelayInv' /\ SentIsPublished'
    BY <1>1 DEF OutboxInv, RowsInv, RelayInv, SentIsPublished
  <2> QED BY <2>5, <2>6, <2>7, <2>8 DEF OutboxInv
<1>3. CASE owner # c
  <2>1. Leave(c) /\ UNCHANGED committed
    BY <1>1, <1>3 DEF Acknowledge, Leave
  <2> QED BY <1>1, <2>1, LeaveStep DEF OutboxInv, TypeOK, db
<1> QED BY <1>2, <1>3

\* The inbox row is written at a free id and only together with the amount; losing the
\* race for it ends the consumer.
LEMMA ApplyStep ==
  ASSUME OutboxInv, AmountsInv, NEW c \in Consumers, Apply(c)
  PROVE  OutboxInv' /\ AmountsInv'
<1> DEFINE e == Record(c)
<1>1. /\ consumer[c].pc = "effect"
      /\ UNCHANGED <<outbox, sent, source, log, committed, dead, relay, outages>>
  BY DEF Apply
<1>2. CASE /\ inbox[e.id] = NoEvent
           /\ inbox' = [inbox EXCEPT ![e.id] = e]
           /\ projection' = Increment(projection, e)
           /\ Step(c, "acknowledge")
           /\ UNCHANGED owner
  <2>1. /\ e \in Events /\ e.id \in Ids /\ e.ticket \in Tickets /\ e.delta \in Nat /\ e # NoEvent
        /\ consumer[c].offset < Len(log)
    BY <1>1, HandledRecord DEF OutboxInv, ConsumerInv
  <2> HIDE DEF e
  <2>2. /\ projection' = [projection EXCEPT ![e.ticket] = projection[e.ticket] + e.delta]
        /\ consumer' = [consumer EXCEPT ![c].pc = "acknowledge"]
    BY <1>2 DEF Increment, Step
  <2>3. TypeOK /\ inbox \in [Ids -> Events \cup {NoEvent}] /\ projection \in [Tickets -> Nat]
    BY DEF OutboxInv, TypeOK
  <2>4. /\ inbox' \in [Ids -> Events \cup {NoEvent}]
        /\ inbox'[e.id] = e
        /\ \A i \in Ids : inbox[i] # NoEvent => inbox'[i] = inbox[i]
        /\ \A i \in Ids : inbox'[i] = inbox[i] \/ (i = e.id /\ inbox'[i] = e)
    BY <1>2, <2>1, <2>3
  <2>11. projection' \in [Tickets -> Nat]
    <3>1. projection[e.ticket] \in Nat /\ e.delta \in Nat
      BY <2>1, <2>3
    <3>2. \A m, n \in Nat : m + n \in Nat
      OBVIOUS
    <3>3. projection[e.ticket] + e.delta \in Nat
      BY <3>1, <3>2
    <3> QED BY <2>2, <2>3, <3>3
  <2>12. consumer' \in [Consumers ->
            [pc : {"idle", "poll", "lookup", "effect", "bury", "acknowledge"}, offset : 0..Len(log)]]
    BY <2>2, <2>3 DEF TypeOK
  <2>5. TypeOK'
    BY <1>1, <1>2, <2>3, <2>4, <2>11, <2>12 DEF TypeOK
  <2>6. RowsInv' /\ RelayInv' /\ SentIsPublished'
    BY <1>1, <2>1, <2>4 DEF OutboxInv, RowsInv, RelayInv, SentIsPublished
  <2>7. \A k \in DOMAIN log : log[k] # NoEvent /\ log[k].id \in Ids
    BY <2>3, EventFields DEF TypeOK
  <2>8. ConsumerInv'
    <3>1. ASSUME NEW d \in Consumers, consumer[d].pc = "acknowledge",
                 inbox[Record(d).id] = Record(d)
          PROVE  inbox'[Record(d).id] = Record(d)
      BY <2>4, <3>1, HandledRecord
    <3>2. \A d \in Consumers : Record(d)' = Record(d) /\ consumer'[d].offset = consumer[d].offset
      BY <1>1, <2>2, <2>3 DEF Record, TypeOK
    <3>3. \A d \in Consumers : d # c => consumer'[d] = consumer[d]
      BY <2>2, <2>3 DEF TypeOK
    <3>4. ASSUME NEW d \in Consumers
          PROVE  /\ consumer'[d].pc \in {"lookup", "effect", "bury", "acknowledge"}
                      => consumer'[d].offset < Len(log')
                 /\ consumer'[d].pc = "acknowledge"
                      => inbox'[Record(d)'.id] = Record(d)' \/ consumer'[d].offset \in dead'
                 /\ owner' = d => consumer'[d].offset = committed'
      <4>1. CASE d = c
        BY <1>1, <1>2, <2>1, <2>4, <3>2, <4>1 DEF OutboxInv, ConsumerInv, e
      <4>2. CASE d # c
        BY <1>1, <1>2, <3>1, <3>2, <3>3, <4>2 DEF OutboxInv, ConsumerInv
      <4> QED BY <4>1, <4>2
    <3> QED BY <3>4 DEF ConsumerInv
  <2>9. AcknowledgedIsHandled'
    <3>1. \A k \in 1..committed : k \in DOMAIN log
      <4>1. log \in Seq(Events) /\ committed \in 0..Len(log)
        BY <2>3 DEF TypeOK
      <4>2. Len(log) \in Nat /\ DOMAIN log = 1..Len(log)
        BY <4>1
      <4>3. \A n \in Nat : \A m \in 0..n : \A k \in 1..m : k \in 1..n
        OBVIOUS
      <4> QED BY <4>1, <4>2, <4>3
    <3> QED BY <1>1, <2>4, <2>7, <3>1 DEF OutboxInv, AcknowledgedIsHandled
  <2>10. AmountsInv'
    <3>1. /\ IsFiniteSet({i \in Ids : inbox'[i] # NoEvent})
          /\ \A t \in Tickets :
               Total(inbox', t) = IF t = e.ticket THEN Total(inbox, t) + e.delta ELSE Total(inbox, t)
      <4>1. IsFiniteSet({i \in Ids : inbox[i] # NoEvent})
        BY DEF AmountsInv
      <4>2. e \in Events /\ inbox[e.id] = NoEvent /\ inbox \in [Ids -> Events \cup {NoEvent}]
        BY <1>2, <2>1, <2>3
      <4>3. PICK new : new = inbox' /\ new = [inbox EXCEPT ![e.id] = e]
        BY <1>2
      <4>4. Grows(inbox, new, e)
        BY <4>1, <4>2, <4>3, TotalGrows
      <4> QED BY <4>3, <4>4 DEF Grows
    <3>2. \A t \in Tickets : projection'[t] = Total(inbox', t)
      BY <2>1, <2>2, <2>3, <3>1 DEF AmountsInv
    <3>3. IsFiniteSet({i \in Ids : outbox[i] # NoEvent})
          /\ \A t \in Tickets : source[t] = Total(outbox, t)
      BY DEF AmountsInv
    <3>4. \A t \in Tickets : Total(inbox, t)' = Total(inbox', t) /\ Total(outbox, t)' = Total(outbox, t)
      BY <1>1 DEF Total, RowsOf
    <3> QED BY <1>1, <3>1, <3>2, <3>3, <3>4 DEF AmountsInv
  <2> QED BY <2>5, <2>6, <2>8, <2>9, <2>10 DEF OutboxInv
<1>3. CASE Leave(c) /\ UNCHANGED <<inbox, projection>>
  <2>1. OutboxInv'
    BY <1>1, <1>3, LeaveStep DEF OutboxInv, TypeOK, db
  <2> QED BY <1>1, <1>3, <2>1, AmountsKept
<1> QED BY <1>2, <1>3 DEF Apply, KeyFree

-----------------------------------------------------------------------------
(* Theorems.                                                               *)

\* Every step, or none, keeps the invariant.
LEMMA NextInv == OutboxInv /\ AmountsInv /\ [Next]_vars => OutboxInv' /\ AmountsInv'
<1> SUFFICES ASSUME OutboxInv, AmountsInv, [Next]_vars PROVE OutboxInv' /\ AmountsInv'
  OBVIOUS
<1>1. ASSUME NEW e \in Events \ ForeignEvents, Enqueue(e) PROVE OutboxInv' /\ AmountsInv'
  BY <1>1, EnqueueStep
<1>2. ASSUME NEW e \in ForeignEvents, ForeignPublish(e) PROVE OutboxInv' /\ AmountsInv'
  BY <1>2, ForeignPublishStep, AmountsKept DEF ForeignPublish, db
<1>3. ASSUME NEW r \in Relays, ReadPending(r) PROVE OutboxInv' /\ AmountsInv'
  BY <1>3, ReadPendingStep, AmountsKept DEF ReadPending, db
<1>4. ASSUME NEW r \in Relays, Publish(r) PROVE OutboxInv' /\ AmountsInv'
  BY <1>4, PublishStep, AmountsKept DEF Publish, db
<1>5. ASSUME NEW r \in Relays, MarkSent(r) PROVE OutboxInv' /\ AmountsInv'
  BY <1>5, MarkSentStep, AmountsKept DEF MarkSent
<1>6. ASSUME NEW r \in Relays, RelayFails(r) PROVE OutboxInv' /\ AmountsInv'
  BY <1>6, RelayFailsStep, AmountsKept DEF RelayFails
<1>7. ASSUME NEW c \in Consumers, Assign(c) PROVE OutboxInv' /\ AmountsInv'
  BY <1>7, AssignStep, AmountsKept DEF Assign, db
<1>8. ASSUME NEW c \in Consumers, Poll(c) PROVE OutboxInv' /\ AmountsInv'
  BY <1>8, PollStep, AmountsKept DEF Poll, db
<1>9. ASSUME NEW c \in Consumers, Lookup(c) PROVE OutboxInv' /\ AmountsInv'
  BY <1>9, LookupStep, AmountsKept DEF Lookup, db
<1>10. ASSUME NEW c \in Consumers, Apply(c) PROVE OutboxInv' /\ AmountsInv'
  BY <1>10, ApplyStep
<1>11. ASSUME NEW c \in Consumers, Bury(c) PROVE OutboxInv' /\ AmountsInv'
  BY <1>11, BuryStep, AmountsKept DEF Bury, db
<1>12. ASSUME NEW c \in Consumers, Acknowledge(c) PROVE OutboxInv' /\ AmountsInv'
  BY <1>12, AcknowledgeStep, AmountsKept DEF Acknowledge, db
<1>13. ASSUME NEW c \in Consumers, ConsumerCrash(c) PROVE OutboxInv' /\ AmountsInv'
  BY <1>13, ConsumerCrashStep, AmountsKept DEF ConsumerCrash, db
<1>14. ASSUME NEW c \in Consumers, LoseAssignment(c) PROVE OutboxInv' /\ AmountsInv'
  BY <1>14, LoseAssignmentStep, AmountsKept DEF LoseAssignment, db
<1>15. CASE UNCHANGED vars
  <2>1. UNCHANGED <<outbox, sent, source, inbox, projection, log, committed, owner, dead, relay,
                    consumer, outages>>
    BY <1>15 DEF vars, db, broker
  <2>2. OutboxInv'
    BY <2>1 DEF OutboxInv, TypeOK, RowsInv, RelayInv, ConsumerInv, SentIsPublished,
                AcknowledgedIsHandled, Record
  <2> QED BY <2>1, <2>2, AmountsKept
<1>16. CASE Next
  BY <1>1, <1>2, <1>3, <1>4, <1>5, <1>6, <1>7, <1>8, <1>9, <1>10, <1>11, <1>12, <1>13, <1>14, <1>16
  DEF Next, RelayStep, ConsumerStep
<1> QED BY <1>15, <1>16

\* The outbox, the relays, the log and the consumers agree in every reachable state, for
\* any numbers of relays, consumers, events and outages.
THEOREM OutboxSafe == Spec => [](OutboxInv /\ AmountsInv)
BY InitInv, NextInv, PTL DEF Spec

\* Each amount is the sum of its rows, however often a record was published or consumed.
THEOREM AmountsAreSums == Spec => []AmountsMatchRows
<1>1. OutboxInv /\ AmountsInv => AmountsMatchRows
  BY DEF OutboxInv, AmountsInv, AmountsMatchRows
<1> QED BY <1>1, OutboxSafe, PTL

\* A row is marked only when the broker has its record.
THEOREM MarksFollowRecords == Spec => []SentIsPublished
<1>1. OutboxInv => SentIsPublished
  BY DEF OutboxInv
<1> QED BY <1>1, OutboxSafe, PTL

\* The group's offset passes over no record that was neither projected nor set aside.
THEOREM NothingSkipped == Spec => []AcknowledgedIsHandled
<1>1. OutboxInv => AcknowledgedIsHandled
  BY DEF OutboxInv
<1> QED BY <1>1, OutboxSafe, PTL

-----------------------------------------------------------------------------
(* The outbox and the inbox implement the feed.                            *)

posted  == ({outbox[i] : i \in Ids} \ {NoEvent})
             \cup {e \in ForeignEvents : \E k \in DOMAIN log : log[k] = e}
applied == {inbox[i] : i \in Ids} \ {NoEvent}

\* The initial states map to initial states.
LEMMA InitFeed == Init => Feed!Init
BY DEF Init, Feed!Init

\* A step that leaves the rows, the projection and the other producer's records alone is
\* none of the feed's.
LEMMA FeedStutters ==
  ASSUME UNCHANGED <<outbox, inbox, projection>>,
         \A e \in ForeignEvents :
           (\E k \in DOMAIN log : log[k] = e) <=> (\E k \in DOMAIN log' : log'[k] = e)
  PROVE  UNCHANGED Feed!vars
BY DEF Feed!vars

\* A record that a relay sends is a row's, never one of the other producer's.
LEMMA SendStutters ==
  ASSUME OutboxInv, NEW r \in Relays, relay[r].pc # "idle",
         Send(outbox[Min(relay[r].batch)])
  PROVE  \A e \in ForeignEvents :
           (\E k \in DOMAIN log : log[k] = e) <=> (\E k \in DOMAIN log' : log'[k] = e)
<1> DEFINE x == outbox[Min(relay[r].batch)]
<1>1. x \in Events /\ x \notin ForeignEvents
  BY LeastRow DEF OwnEvents
<1>2. log \in Seq(Events) /\ Len(log) \in Nat
  BY DEF OutboxInv, TypeOK
<1>3. /\ DOMAIN log = 1..Len(log) /\ DOMAIN log' = 1..Len(log) + 1
      /\ \A k \in 1..Len(log) : log'[k] = log[k]
      /\ log'[Len(log) + 1] = x
  BY <1>1, <1>2, LogGrows DEF Send
<1> HIDE DEF x
<1>4. \A k \in 1..Len(log) + 1 : k \in 1..Len(log) \/ k = Len(log) + 1
  BY <1>2
<1>5. \A k \in 1..Len(log) : k \in 1..Len(log) + 1
  BY <1>2
<1> QED BY <1>1, <1>3, <1>4, <1>5

\* Every step maps to a step of the feed or changes nothing of it.
LEMMA NextFeed == OutboxInv /\ [Next]_vars => [Feed!Next]_(Feed!vars)
<1> SUFFICES ASSUME OutboxInv, [Next]_vars PROVE [Feed!Next]_(Feed!vars)
  OBVIOUS
<1>1. ASSUME NEW e \in Events \ ForeignEvents, Enqueue(e) PROVE Feed!Post(e)
  <2>1. /\ e.id \in Ids /\ e # NoEvent /\ outbox \in [Ids -> Events \cup {NoEvent}]
        /\ outbox[e.id] = NoEvent /\ outbox' = [outbox EXCEPT ![e.id] = e]
        /\ UNCHANGED <<inbox, projection, log>>
    BY <1>1, EventFields DEF Enqueue, broker, OutboxInv, TypeOK
  <2>2. {outbox'[i] : i \in Ids} \ {NoEvent} = ({outbox[i] : i \in Ids} \ {NoEvent}) \cup {e}
    BY <2>1
  <2> QED BY <2>1, <2>2 DEF Feed!Post
<1>2. ASSUME NEW e \in ForeignEvents, ForeignPublish(e) PROVE Feed!Post(e)
  <2>1. log \in Seq(Events) /\ Len(log) \in Nat
    BY DEF OutboxInv, TypeOK
  <2>2. /\ DOMAIN log = 1..Len(log) /\ DOMAIN log' = 1..Len(log) + 1
        /\ \A k \in 1..Len(log) : log'[k] = log[k]
        /\ log'[Len(log) + 1] = e
        /\ UNCHANGED <<outbox, inbox, projection>>
    BY <1>2, <2>1, LogGrows DEF ForeignPublish, Send, db
  <2>3. \A k \in 1..Len(log) + 1 : k \in 1..Len(log) \/ k = Len(log) + 1
    <3>1. \A n \in Nat : \A k \in 1..n + 1 : k \in 1..n \/ k = n + 1
      OBVIOUS
    <3> QED BY <2>1, <3>1
  <2>4. \A k \in 1..Len(log) : k \in 1..Len(log) + 1
    BY <2>1
  <2>5. Len(log) + 1 \in 1..Len(log) + 1
    BY <2>1
  <2>6. {f \in ForeignEvents : \E k \in DOMAIN log' : log'[k] = f}
          = {f \in ForeignEvents : \E k \in DOMAIN log : log[k] = f} \cup {e}
    BY <2>2, <2>3, <2>4, <2>5
  <2> DEFINE rows == {outbox[i] : i \in Ids} \ {NoEvent}
             foreign == {f \in ForeignEvents : \E k \in DOMAIN log : log[k] = f}
  <2>7. rows' = rows
    BY <2>2
  <2>9. foreign' = foreign \cup {e}
    BY <2>6
  <2>8. (rows \cup foreign)' = (rows \cup foreign) \cup {e}
    <3> HIDE DEF rows, foreign
    <3> QED BY <2>7, <2>9
  <2>10. UNCHANGED <<applied, projection>>
    BY <2>2 DEF applied
  <2>11. posted' = posted \cup {e}
    BY <2>8 DEF posted
  <2> QED BY <2>10, <2>11 DEF Feed!Post, posted, applied
<1>3. ASSUME NEW r \in Relays, RelayStep(r) \/ RelayFails(r) PROVE UNCHANGED Feed!vars
  <2>1. UNCHANGED <<outbox, inbox, projection>>
    BY <1>3 DEF RelayStep, ReadPending, Publish, MarkSent, RelayFails, db
  <2>2. UNCHANGED log \/ (relay[r].pc # "idle" /\ Send(outbox[Min(relay[r].batch)]))
    BY <1>3 DEF RelayStep, ReadPending, Publish, MarkSent, RelayFails, broker
  <2> QED BY <2>1, <2>2, FeedStutters, SendStutters
<1>4. ASSUME NEW c \in Consumers, Apply(c)
      PROVE  (\E e \in Events : Feed!Apply(e)) \/ UNCHANGED Feed!vars
  <2> DEFINE e == Record(c)
  <2>1. UNCHANGED <<outbox, log>> /\ consumer[c].pc = "effect"
    BY <1>4 DEF Apply
  <2>2. CASE UNCHANGED <<inbox, projection>>
    BY <2>1, <2>2, FeedStutters
  <2>3. CASE /\ inbox[e.id] = NoEvent
             /\ inbox' = [inbox EXCEPT ![e.id] = e]
             /\ projection' = [projection EXCEPT ![e.ticket] = projection[e.ticket] + e.delta]
    <3>1. /\ e \in Events /\ e.id \in Ids /\ e # NoEvent /\ consumer[c].offset + 1 \in DOMAIN log
          /\ e = log[consumer[c].offset + 1]
      BY <2>1, HandledRecord DEF Record
    <3>2. e \in ForeignEvents \/ outbox[e.id] = e
      BY <3>1 DEF OutboxInv, RowsInv
    <3>3. e \in posted
      BY <3>1, <3>2 DEF posted
    <3> HIDE DEF e
    <3>4. \A f \in applied : f.id # e.id
      BY <2>3, <3>1 DEF applied, OutboxInv, RowsInv
    <3>5. inbox \in [Ids -> Events \cup {NoEvent}]
      BY DEF OutboxInv, TypeOK
    <3>6. {inbox'[i] : i \in Ids} \ {NoEvent} = ({inbox[i] : i \in Ids} \ {NoEvent}) \cup {e}
      BY <2>3, <3>1, <3>5
    <3>7. PICK x \in Events : x = e
      BY <3>1
    <3>8. Feed!Apply(x)
      BY <2>1, <2>3, <3>3, <3>4, <3>6, <3>7 DEF Feed!Apply, posted, applied
    <3> QED BY <3>8
  <2>4. \/ /\ inbox[e.id] = NoEvent
           /\ inbox' = [inbox EXCEPT ![e.id] = e]
           /\ projection' = Increment(projection, e)
        \/ UNCHANGED <<inbox, projection>>
    BY <1>4 DEF Apply, KeyFree
  <2>5. Increment(projection, e) = [projection EXCEPT ![e.ticket] = projection[e.ticket] + e.delta]
    BY DEF Increment
  <2>6. \/ /\ inbox[e.id] = NoEvent
           /\ inbox' = [inbox EXCEPT ![e.id] = e]
           /\ projection' = [projection EXCEPT ![e.ticket] = projection[e.ticket] + e.delta]
        \/ UNCHANGED <<inbox, projection>>
    BY <2>4, <2>5
  <2> HIDE DEF e
  <2> QED BY <2>2, <2>3, <2>6
<1>5. ASSUME NEW c \in Consumers,
             \/ Assign(c) \/ Poll(c) \/ Lookup(c) \/ Bury(c) \/ Acknowledge(c)
             \/ ConsumerCrash(c) \/ LoseAssignment(c)
      PROVE  UNCHANGED Feed!vars
  <2>1. UNCHANGED <<outbox, inbox, projection, log>>
    BY <1>5 DEF Assign, Poll, Lookup, Bury, Acknowledge, ConsumerCrash, LoseAssignment, db, broker
  <2> QED BY <2>1, FeedStutters
<1>6. CASE UNCHANGED vars
  <2>1. UNCHANGED <<outbox, inbox, projection, log>>
    BY <1>6 DEF vars, db, broker
  <2> QED BY <2>1, FeedStutters
<1>7. CASE Next
  BY <1>1, <1>2, <1>3, <1>4, <1>5, <1>7 DEF Next, ConsumerStep, Feed!Next
<1> QED BY <1>6, <1>7

\* Posted events reach the totals once per id, and never one that nobody posted.
THEOREM FeedImplemented == Spec => ImplementsFeed
BY InitFeed, NextFeed, OutboxSafe, PTL DEF Spec, ImplementsFeed, Feed!Spec
================================================================================
