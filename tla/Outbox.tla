-------------------------------- MODULE Outbox --------------------------------
(***************************************************************************)
(* examples/backend-messaging: DurableStore, a transactional outbox and an *)
(* idempotent inbox joined by an at-least-once broker.  The source commits *)
(* its activity and the outbox row together; a relay publishes pending     *)
(* rows and marks them sent afterwards; a consumer commits the inbox row   *)
(* and the projection together and acknowledges afterwards.                *)
(*                                                                         *)
(* The broker (one partition, one consumer group) and the consumer's poll  *)
(* loop are not DurableStore's: they are modelled from the Worker of the   *)
(* broker tests, which polls one record at a time, consumes it, and commits *)
(* its offset.                                                             *)
(***************************************************************************)
EXTENDS Naturals, Sequences, FiniteSetsExt

CONSTANTS
  Events,         \* records [id, ticket, delta]; two may share an id
  ForeignEvents,  \* those that another producer may publish
  Relays, Consumers,
  NoEvent,
  BatchLimit,     \* LIMIT of the pending query (100)
  MaxForeign,     \* bound: records that another producer publishes
  MaxOutages      \* bound: crashes, failed sends and lost assignments

Ids     == {e.id : e \in Events}
Tickets == {e.ticket : e \in Events}

ASSUME EventAssumption ==
  /\ Events \subseteq [id : Nat, ticket : {e.ticket : e \in Events}, delta : Nat \ {0}]
  /\ ForeignEvents \subseteq Events
  /\ NoEvent \notin Events
ASSUME GroupAssumption == "nobody" \notin Consumers
ASSUME LimitAssumption == BatchLimit \in Nat \ {0} /\ MaxForeign \in Nat /\ MaxOutages \in Nat

VARIABLES
  outbox,      \* id -> event or NoEvent: the outbox rows
  sent,        \* ids of the rows marked sent
  source,      \* ticket -> source_activity amount
  inbox,       \* id -> event or NoEvent: the inbox rows
  projection,  \* ticket -> projection amount
  log,         \* the broker's partition
  committed,   \* how many of its records the group has acknowledged
  owner,       \* who is assigned the partition ("nobody" for no one)
  dead,        \* offsets whose record was sent to the dead-letter topic
  relay,       \* relay -> the batch it read and what it does with its least row
  consumer,    \* consumer -> the offset it reads next and the record it handles
  outages

db     == <<outbox, sent, source, inbox, projection>>
broker == <<log, committed, owner, dead>>
vars   == <<db, broker, relay, consumer, outages>>

IdleRelay == [pc |-> "idle", batch |-> {}]
Detached  == [pc |-> "idle", offset |-> 0]
nobody    == "nobody"

Init ==
  /\ outbox = [i \in Ids |-> NoEvent]
  /\ sent = {}
  /\ source = [t \in Tickets |-> 0]
  /\ inbox = [i \in Ids |-> NoEvent]
  /\ projection = [t \in Tickets |-> 0]
  /\ log = <<>> /\ committed = 0 /\ owner = nobody /\ dead = {}
  /\ relay = [r \in Relays |-> IdleRelay]
  /\ consumer = [c \in Consumers |-> Detached]
  /\ outages = 0

Outage == outages < MaxOutages /\ outages' = outages + 1

Increment(table, e) == [table EXCEPT ![e.ticket] = @ + e.delta]

-----------------------------------------------------------------------------
(* The source.  An id that is taken, or a crash before the commit, rolls   *)
(* back both writes and changes nothing.                                   *)

Enqueue(e) ==
  /\ outbox[e.id] = NoEvent
  /\ outbox' = [outbox EXCEPT ![e.id] = e]
  /\ source' = Increment(source, e)
  /\ UNCHANGED <<sent, inbox, projection, broker, relay, consumer, outages>>

-----------------------------------------------------------------------------
(* A relay.                                                                *)

Pending == {i \in Ids : outbox[i] # NoEvent /\ i \notin sent}

\* pending: the first rows by id.
FirstRows == {i \in Pending : Cardinality({j \in Pending : j < i}) < BatchLimit}

Following(r) == LET rest == relay[r].batch \ {Min(relay[r].batch)}
                IN  IF rest = {} THEN IdleRelay ELSE [pc |-> "publish", batch |-> rest]

ReadPending(r) ==
  /\ relay[r].pc = "idle"
  /\ Pending # {}
  /\ relay' = [relay EXCEPT ![r] = [pc |-> "publish", batch |-> FirstRows]]
  /\ UNCHANGED <<db, broker, consumer, outages>>

Send(e) == log' = Append(log, e)

Publish(r) ==
  /\ relay[r].pc = "publish"
  /\ Send(outbox[Min(relay[r].batch)])
  /\ relay' = [relay EXCEPT ![r].pc = "mark"]
  /\ UNCHANGED <<db, committed, owner, dead, consumer, outages>>

EveryRow(r) == Pending                  \* slip: the update has no WHERE
RowsMarked(r) == {Min(relay[r].batch)}

MarkSent(r) ==
  /\ relay[r].pc = "mark"
  /\ sent' = sent \cup RowsMarked(r)
  /\ relay' = [relay EXCEPT ![r] = Following(r)]
  /\ UNCHANGED <<outbox, source, inbox, projection, broker, consumer, outages>>

MarkedAnyway(r) == RowsMarked(r)        \* slip: the row is marked in a finally block
MarkedOnFailure(r) == {}

\* A send that fails leaves it unknown whether the broker has the record; the relay
\* gives up its batch, as it does when it crashes before or after publishing.
RelayFails(r) ==
  /\ relay[r].pc # "idle"
  /\ Outage
  /\ \/ UNCHANGED log
     \/ relay[r].pc = "publish" /\ Send(outbox[Min(relay[r].batch)])
  /\ sent' = sent \cup MarkedOnFailure(r)
  /\ relay' = [relay EXCEPT ![r] = IdleRelay]
  /\ UNCHANGED <<outbox, source, inbox, projection, committed, owner, dead, consumer>>

\* Another producer of the topic.
ForeignPublish(e) ==
  /\ Cardinality({k \in DOMAIN log : log[k] \in ForeignEvents}) < MaxForeign
  /\ Send(e)
  /\ UNCHANGED <<db, committed, owner, dead, relay, consumer, outages>>

-----------------------------------------------------------------------------
(* A consumer.                                                             *)

Step(c, pc) == consumer' = [consumer EXCEPT ![c].pc = pc]

\* The group assigns the partition; reading starts at the acknowledged offset.
Assign(c) ==
  /\ owner = nobody
  /\ consumer[c].pc = "idle"
  /\ owner' = c
  /\ consumer' = [consumer EXCEPT ![c] = [pc |-> "poll", offset |-> committed]]
  /\ UNCHANGED <<db, log, committed, dead, relay, outages>>

\* The group gives the partition to no one: the session expired.  The consumer does
\* not know and goes on with the record it holds.
LoseAssignment(c) ==
  /\ owner = c
  /\ Outage
  /\ owner' = nobody
  /\ UNCHANGED <<db, log, committed, dead, relay, consumer>>

\* A consumer crashes, or an exception ends its loop; its open transaction rolls back.
Leave(c) == /\ consumer' = [consumer EXCEPT ![c] = Detached]
            /\ owner' = IF owner = c THEN nobody ELSE owner

ConsumerCrash(c) ==
  /\ consumer[c].pc # "idle"
  /\ Outage
  /\ Leave(c)
  /\ UNCHANGED <<db, log, committed, dead, relay>>

\* Polling: a record, if the partition has one and is still assigned.
Poll(c) ==
  /\ consumer[c].pc = "poll"
  /\ IF owner = c
     THEN consumer[c].offset < Len(log) /\ Step(c, "lookup")
     ELSE consumer' = [consumer EXCEPT ![c] = Detached]
  /\ UNCHANGED <<db, broker, relay, outages>>

Record(c) == log[consumer[c].offset + 1]

SameId(known, e) == known # NoEvent     \* slip: only the ids are compared
Repeats(known, e) == known = e

\* consume's lookup.  A repeated event is acknowledged again; an id that is reused
\* with other fields goes to the dead-letter topic.
Lookup(c) ==
  LET known == inbox[Record(c).id]
  IN  /\ consumer[c].pc = "lookup"
      /\ Step(c, IF known = NoEvent THEN "effect"
                 ELSE IF Repeats(known, Record(c)) THEN "acknowledge" ELSE "bury")
      /\ UNCHANGED <<db, broker, relay, outages>>

UncheckedKey(i) == TRUE                  \* slip: the inbox has no primary key
KeyFree(i) == inbox[i] = NoEvent

\* The rest of consume's transaction; losing the race for the inbox row is an
\* SQLException that ends the consumer.
Apply(c) ==
  LET e == Record(c)
  IN  /\ consumer[c].pc = "effect"
      /\ \/ /\ KeyFree(e.id)
            /\ inbox' = [inbox EXCEPT ![e.id] = e]
            /\ projection' = Increment(projection, e)
            /\ Step(c, "acknowledge")
            /\ UNCHANGED owner
         \/ /\ ~KeyFree(e.id)
            /\ Leave(c)
            /\ UNCHANGED <<inbox, projection>>
      /\ UNCHANGED <<outbox, sent, source, log, committed, dead, relay, outages>>

Bury(c) ==
  /\ consumer[c].pc = "bury"
  /\ dead' = dead \cup {consumer[c].offset}
  /\ Step(c, "acknowledge")
  /\ UNCHANGED <<db, log, committed, owner, relay, outages>>

Position(c) == consumer[c].offset + 1

\* The offset commit, which the group refuses from a consumer that lost the partition.
Acknowledge(c) ==
  /\ consumer[c].pc = "acknowledge"
  /\ IF owner = c
     THEN /\ committed' = Position(c)
          /\ consumer' = [consumer EXCEPT ![c] = [pc |-> "poll", offset |-> Position(c)]]
     ELSE /\ UNCHANGED committed
          /\ consumer' = [consumer EXCEPT ![c] = Detached]
  /\ UNCHANGED <<db, log, owner, dead, relay, outages>>

-----------------------------------------------------------------------------

RelayStep(r)    == ReadPending(r) \/ Publish(r) \/ MarkSent(r)
ConsumerStep(c) == Assign(c) \/ Poll(c) \/ Lookup(c) \/ Apply(c) \/ Bury(c) \/ Acknowledge(c)

Next ==
  \/ \E e \in Events \ ForeignEvents : Enqueue(e)
  \/ \E e \in ForeignEvents : ForeignPublish(e)
  \/ \E r \in Relays : RelayStep(r) \/ RelayFails(r)
  \/ \E c \in Consumers : ConsumerStep(c) \/ ConsumerCrash(c) \/ LoseAssignment(c)

Spec == Init /\ [][Next]_vars

\* A relay is called again while rows are pending and a consumer keeps polling.
Fairness == /\ \A r \in Relays : WF_vars(RelayStep(r))
            /\ \A c \in Consumers : WF_vars(ConsumerStep(c))
FairSpec == Spec /\ Fairness

-----------------------------------------------------------------------------
(* Properties.                                                             *)

TypeOK ==
  /\ outbox \in [Ids -> Events \cup {NoEvent}] /\ inbox \in [Ids -> Events \cup {NoEvent}]
  /\ source \in [Tickets -> Nat] /\ projection \in [Tickets -> Nat]
  /\ sent \subseteq Ids
  /\ log \in Seq(Events)
  /\ committed \in 0..Len(log) /\ dead \subseteq 0..Len(log)-1
  /\ owner \in Consumers \cup {nobody}
  /\ relay \in [Relays -> [pc : {"idle", "publish", "mark"}, batch : SUBSET Ids]]
  /\ consumer \in [Consumers ->
       [pc : {"idle", "poll", "lookup", "effect", "bury", "acknowledge"}, offset : 0..Len(log)]]
  /\ outages \in 0..MaxOutages

\* What the rows of a ticket add up to.
RowsOf(rows, t) == {i \in Ids : rows[i] # NoEvent /\ rows[i].ticket = t}
Total(rows, t)  == SumFunctionOnSet([i \in Ids |-> rows[i].delta], RowsOf(rows, t))

\* Both amounts are the sums of the rows that justify them: whatever is published
\* twice, consumed twice or consumed by two members at once counts once.  (And every
\* variable has its type.)
AmountsMatchRows ==
  /\ TypeOK
  /\ \A t \in Tickets : source[t] = Total(outbox, t) /\ projection[t] = Total(inbox, t)

\* A row is marked sent only once the broker has it: a send that failed, or a relay that
\* died first, leaves the row for a later relay.
SentIsPublished == \A i \in sent : \E k \in DOMAIN log : log[k] = outbox[i]

\* What the group has acknowledged is in the projection or in the dead-letter topic: no
\* crash, reassignment or reused id lets an event pass unnoticed.
AcknowledgedIsHandled ==
  \A k \in 1..committed : inbox[log[k].id] = log[k] \/ k - 1 \in dead

\* Every event the source commits is eventually in the projection, or in the dead-letter
\* topic when its id was taken.
EveryEventArrives ==
  \A e \in Events : outbox[e.id] = e ~>
    inbox[e.id] = e \/ \E k \in DOMAIN log : log[k] = e /\ k - 1 \in dead

-----------------------------------------------------------------------------
(* The inbox and the relay implement a feed that applies each id once.     *)

Feed == INSTANCE ActivityFeed WITH
  posted  <- ({outbox[i] : i \in Ids} \ {NoEvent})
               \cup {e \in ForeignEvents : \E k \in DOMAIN log : log[k] = e},
  applied <- {inbox[i] : i \in Ids} \ {NoEvent},
  total   <- projection

\* Each step of the store is one step of the feed or none.
ImplementsFeed == Feed!Spec
=============================================================================
