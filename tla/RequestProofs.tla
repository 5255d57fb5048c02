---------------------------- MODULE RequestProofs ----------------------------
(***************************************************************************)
(* Proofs about the four labs of RequestLabs, for any sessions, handles,   *)
(* clients, keys, orders and limits: refunds, sockets, deliveries, streams.*)
(*                                                                         *)
(* The argument.  The labs share no variable, so each has an inductive     *)
(* invariant of its own, kept by its steps and left alone by the others'.  *)
(* A client that has locked an order read the version it still has, one    *)
(* desk at most has it locked, and no answer that a proposal expired is    *)
(* out while it is about to be completed.  Whoever is served has a place   *)
(* and is entitled to it, or a thread is on its way to end it.  An event's *)
(* key is written by one open transaction at most, so what a transaction   *)
(* found stays true of the tables.  A stream's fields are cancelled by     *)
(* whoever comes last to each, a handle is in active from its adding to    *)
(* its end, and places and calls are counted by the handles.               *)
(***************************************************************************)
EXTENDS RequestLabs, SumLemmas

USE RequestAssumption, RegistryAssumption

\* The instances count as this module does.
LEMMA SameCount ==
  ASSUME NEW S
  PROVE  /\ Refunds!Cardinality(S) = Cardinality(S)
         /\ Hooks!Cardinality(S) = Cardinality(S)
         /\ Streams!Cardinality(S) = Cardinality(S)
BY Zenon DEF Cardinality, Refunds!Cardinality, Hooks!Cardinality, Streams!Cardinality

-----------------------------------------------------------------------------
(* Refunds: the inductive invariant.                                       *)

OrderRow == [version : 1..2, status : {"paid", "refund-requested"}]

\* What a client at work has read, by the statement it is at.
Proposing == [at : {"looked", "inserting"}, call : {"propose"}, key : Keys,
              order : Orders, cents : Amounts, seen : OrderRow]
Opening   == [at : {"initial"}, call : {"approve"}, key : Keys, token : Keys,
              initial : Refunds!Proposal]
Deciding  == [at : {"locked", "approved"}, call : {"approve"}, key : Keys, token : Keys,
              initial : Refunds!Proposal, seen : OrderRow]
Told      == [at : {"answered"}, call : {"propose", "approve"}, key : Keys,
              answer : {"proposed", "completed", "expired", "conflict", "token invalid"}]
Desk      == {Refunds!Idle} \cup Proposing \cup Opening \cup Deciding \cup Told

Proposed(k) == Refunds!Known(k) /\ proposals[k].status = "proposed"

SoundDesk(d) ==
  /\ d.at \in {"looked", "inserting"} => (d.seen.status = "paid" <=> d.seen.version = 1)
  /\ d.at = "inserting" => d.seen.version = 1
  /\ d.at \in {"initial", "locked", "approved"} =>
       Refunds!Known(d.key) /\ d.initial.order = proposals[d.key].order
  /\ d.at \in {"locked", "approved"} => d.seen = orders[d.initial.order]
  /\ d.at = "approved" => Proposed(d.key) /\ d.seen.version = 1
  /\ d.at = "answered" /\ d.call = "approve" =>
       /\ Refunds!Known(d.key)
       /\ d.answer = "completed" => proposals[d.key].status = "completed"
       /\ d.answer = "expired" => Proposed(d.key) /\ clock >= proposals[d.key].expiresAt
       /\ d.answer = "conflict" => Proposed(d.key) /\ orders[proposals[d.key].order].version = 2

\* An order is at its first version exactly until a proposal of it is completed, and a
\* proposal is made of the first.
SoundOrder(o) ==
  /\ orders[o].version = 1 <=> orders[o].status = "paid"
  /\ orders[o].version = 1 => Refunds!CompletedFor(o) = {}
  /\ orders[o].version = 2 => \E k \in Keys : Refunds!CompletedFor(o) = {k}

\* Two desks at one order: only one of them has it locked, and nobody was told that a
\* proposal has expired that is about to be completed.
Locks(d) == d.at \in {"locked", "approved"}
Apart(d, e) ==
  /\ Locks(d) /\ Locks(e) => d.initial.order # e.initial.order
  /\ d.at = "approved" /\ e.at = "answered" /\ e.call = "approve" /\ e.answer = "expired" =>
       d.key # e.key

RefundsTyped ==
  /\ orders \in [Orders -> OrderRow]
  /\ proposals \in [Keys -> Refunds!Proposal \cup {NoProposal}]
  /\ clock \in 0..MaxClock
  /\ desk \in [Clients -> Desk]

RefundsInv ==
  /\ RefundsTyped
  /\ \A k \in Keys : Refunds!Known(k) => proposals[k].version = 1
  /\ \A o \in Orders : SoundOrder(o)
  /\ \A c \in Clients : SoundDesk(desk[c])
  /\ \A c, b \in Clients : c # b => Apart(desk[c], desk[b])

-----------------------------------------------------------------------------
(* Refunds: the steps.                                                     *)

\* A desk's shape is that of the statement it is at.
LEMMA DeskCases ==
  ASSUME NEW d \in Desk
  PROVE  /\ d.at \in {"looked", "inserting"} => d \in Proposing
         /\ d.at = "initial" => d \in Opening
         /\ d.at \in {"locked", "approved"} => d \in Deciding
         /\ d.at = "answered" => d \in Told
         /\ d.at \in {"idle", "looked", "inserting", "initial", "locked", "approved", "answered"}
<1>1. CASE d = Refunds!Idle
  BY <1>1 DEF Refunds!Idle
<1>2. CASE d \in Proposing
  BY <1>2 DEF Proposing
<1>3. CASE d \in Opening
  BY <1>3 DEF Opening
<1>4. CASE d \in Deciding
  BY <1>4 DEF Deciding
<1>5. CASE d \in Told
  BY <1>5 DEF Told
<1> QED
  BY <1>1, <1>2, <1>3, <1>4, <1>5 DEF Desk

\* What is known of a client that holds a desk of a given shape.
LEMMA DeskFacts ==
  ASSUME RefundsInv, NEW c \in Clients
  PROVE  desk[c] \in Desk /\ SoundDesk(desk[c])
BY DEF RefundsInv, RefundsTyped

\* A proposal that is known is one.
LEMMA KnownProposal ==
  ASSUME RefundsTyped, NEW k \in Keys, Refunds!Known(k)
  PROVE  proposals[k] \in Refunds!Proposal
BY DEF RefundsTyped, Refunds!Known

\* A step that only moves a client to another desk.
LEMMA DeskStep ==
  ASSUME RefundsInv, NEW c \in Clients, NEW d \in Desk, SoundDesk(d),
         \A b \in Clients \ {c} : Apart(d, desk[b]) /\ Apart(desk[b], d),
         desk' = [desk EXCEPT ![c] = d], UNCHANGED <<orders, proposals, clock>>
  PROVE  RefundsInv'
<1>1. /\ desk' \in [Clients -> Desk] /\ desk'[c] = d
      /\ \A b \in Clients \ {c} : desk'[b] = desk[b]
  BY DEF RefundsInv, RefundsTyped
<1>2. RefundsTyped'
  BY <1>1 DEF RefundsInv, RefundsTyped
<1>3. \A k \in Keys : (Refunds!Known(k) => proposals[k].version = 1)'
  BY DEF RefundsInv, Refunds!Known
<1>4. \A o \in Orders : SoundOrder(o)'
  BY DEF RefundsInv, SoundOrder, Refunds!CompletedFor, Refunds!Known
<1>5. ASSUME NEW b \in Clients PROVE SoundDesk(desk[b])'
  <2>1. desk'[b] \in Desk /\ SoundDesk(desk'[b])
    BY <1>1, DeskFacts
  <2> QED
    BY <2>1 DEF SoundDesk, Proposed, Refunds!Known
<1>6. ASSUME NEW b \in Clients, NEW a \in Clients, b # a PROVE Apart(desk[b], desk[a])'
  <2>1. Apart(desk'[b], desk'[a])
    BY <1>1, <1>6 DEF RefundsInv
  <2> QED
    BY <2>1 DEF Apart, Locks
<1> QED
  BY <1>2, <1>3, <1>4, <1>5, <1>6 DEF RefundsInv

\* Nobody minds a desk without a lock or a claim.
LEMMA ApartFromAll ==
  ASSUME RefundsInv, NEW c \in Clients, NEW d, ~Locks(d), d.at = "answered" /\ d.call = "approve" => d.answer # "expired"
  PROVE  \A b \in Clients \ {c} : Apart(d, desk[b]) /\ Apart(desk[b], d)
BY DEF Apart, Locks

\* What a client is told goes with the call it made.
LEMMA ToldDesk ==
  ASSUME NEW b \in Desk, b.at # "idle",
         NEW answer \in {"proposed", "completed", "expired", "conflict", "token invalid"}
  PROVE  LET d == [at |-> "answered", call |-> b.call, key |-> b.key, answer |-> answer]
         IN  d \in Desk /\ d.at = "answered" /\ d.call = b.call /\ d.key = b.key /\ d.answer = answer
<1> DEFINE d == [at |-> "answered", call |-> b.call, key |-> b.key, answer |-> answer]
<1>1. b.call \in {"propose", "approve"} /\ b.key \in Keys
  <2>1. CASE b \in Proposing
    BY <2>1 DEF Proposing
  <2>2. CASE b \in Opening
    BY <2>2 DEF Opening
  <2>3. CASE b \in Deciding
    BY <2>3 DEF Deciding
  <2>4. CASE b \in Told
    BY <2>4 DEF Told
  <2>5. CASE b = Refunds!Idle
    <3>1. b.at = "idle"
      BY <2>5 DEF Refunds!Idle
    <3> QED
      BY <3>1
  <2> QED
    BY <2>1, <2>2, <2>3, <2>4, <2>5 DEF Desk
<1>2. d \in Told
  BY <1>1 DEF Told
<1>3. d \in Desk
  BY <1>2 DEF Desk
<1> QED
  BY <1>3

\* A client that leaves, or has lost its call.
LEMMA LeaveSafe ==
  ASSUME RefundsInv, NEW c \in Clients, Refunds!Leave(c)
  PROVE  RefundsInv'
<1> DEFINE d == Refunds!Idle
<1>1. d \in Desk /\ d.at = "idle"
  BY DEF Desk, Refunds!Idle
<1>2. SoundDesk(d) /\ ~Locks(d)
  BY <1>1 DEF SoundDesk, Locks
<1>3. desk' = [desk EXCEPT ![c] = d] /\ UNCHANGED <<orders, proposals, clock>>
  BY DEF Refunds!Leave, Refunds!Step
<1> HIDE DEF d
<1> QED
  BY <1>1, <1>2, <1>3, DeskStep, ApartFromAll

\* Time passes: what has expired stays so.
LEMMA TickSafe ==
  ASSUME RefundsInv, Refunds!Tick
  PROVE  RefundsInv'
<1>1. /\ UNCHANGED <<orders, proposals, desk>> /\ clock' = clock + 1 /\ clock' \in 0..MaxClock
  BY DEF Refunds!Tick, RefundsInv, RefundsTyped
<1>2. RefundsTyped'
  BY <1>1 DEF RefundsInv, RefundsTyped
<1>3. \A k \in Keys : (Refunds!Known(k) => proposals[k].version = 1)'
  BY <1>1 DEF RefundsInv, Refunds!Known
<1>4. \A o \in Orders : SoundOrder(o)'
  BY <1>1 DEF RefundsInv, SoundOrder, Refunds!CompletedFor, Refunds!Known
<1>5. ASSUME NEW b \in Clients PROVE SoundDesk(desk[b])'
  <2> DEFINE d == desk[b]
  <2>1. d \in Desk /\ SoundDesk(d) /\ desk'[b] = d
    BY <1>1, DeskFacts
  <2>2. d.at = "answered" /\ d.call = "approve" /\ d.answer = "expired" =>
          clock' >= proposals[d.key].expiresAt
    <3> SUFFICES ASSUME d.at = "answered", d.call = "approve", d.answer = "expired"
                 PROVE  clock' >= proposals[d.key].expiresAt
      OBVIOUS
    <3>1. clock >= proposals[d.key].expiresAt /\ Refunds!Known(d.key) /\ d.key \in Keys
      BY <2>1, DeskCases DEF SoundDesk, Told
    <3>2. proposals[d.key].expiresAt \in Nat
      BY <3>1, KnownProposal DEF RefundsInv, Refunds!Proposal
    <3> QED BY <1>1, <3>1, <3>2 DEF RefundsInv, RefundsTyped
  <2> QED
    BY <1>1, <2>1, <2>2 DEF SoundDesk, Proposed, Refunds!Known
<1>6. \A b, a \in Clients : b # a => Apart(desk[b], desk[a])'
  BY <1>1 DEF RefundsInv, Apart, Locks
<1> QED
  BY <1>2, <1>3, <1>4, <1>5, <1>6 DEF RefundsInv

\* propose reads the order.
LEMMA LookupSafe ==
  ASSUME RefundsInv, NEW c \in Clients, NEW k \in Keys, NEW o \in Orders, NEW cents \in Amounts,
         Refunds!Lookup(c, k, o, cents)
  PROVE  RefundsInv'
<1> DEFINE d == [at |-> "looked", call |-> "propose", key |-> k, order |-> o, cents |-> cents, seen |-> orders[o]]
<1>1. d \in Desk /\ d.at = "looked" /\ d.seen = orders[o]
  BY DEF Desk, Proposing, RefundsInv, RefundsTyped
<1>2. SoundDesk(d) /\ ~Locks(d)
  BY <1>1 DEF SoundDesk, Locks, RefundsInv, SoundOrder
<1>3. desk' = [desk EXCEPT ![c] = d] /\ UNCHANGED <<orders, proposals, clock>>
  BY DEF Refunds!Lookup, Refunds!Step
<1> HIDE DEF d
<1> QED
  BY <1>1, <1>2, <1>3, DeskStep, ApartFromAll

\* An answer to propose promises nothing that could change.
LEMMA ProposeAnswered ==
  ASSUME RefundsInv, NEW c \in Clients, desk[c] \in Proposing,
         NEW answer \in {"proposed", "conflict"}, Refunds!Answered(c, answer),
         UNCHANGED <<orders, proposals, clock>>
  PROVE  RefundsInv'
<1> DEFINE d == [at |-> "answered", call |-> desk[c].call, key |-> desk[c].key, answer |-> answer]
<1>0. desk[c].at # "idle" /\ desk[c].call = "propose" /\ desk[c] \in Desk
  BY DeskFacts DEF Proposing
<1>1. d \in Desk /\ d.at = "answered" /\ d.call = "propose"
  BY <1>0, ToldDesk
<1>2. SoundDesk(d) /\ ~Locks(d)
  BY <1>1 DEF SoundDesk, Locks
<1>3. desk' = [desk EXCEPT ![c] = d]
  BY DEF Refunds!Answered, Refunds!Step
<1> HIDE DEF d
<1> QED
  BY <1>1, <1>2, <1>3, DeskStep, ApartFromAll

\* propose looks for its key.
LEMMA FindKeySafe ==
  ASSUME RefundsInv, NEW c \in Clients, Refunds!FindKey(c)
  PROVE  RefundsInv'
<1> DEFINE d == [desk[c] EXCEPT !.at = "inserting"]
<1>1. desk[c] \in Proposing /\ desk[c].at = "looked" /\ SoundDesk(desk[c])
  BY DeskFacts, DeskCases DEF Refunds!FindKey, Refunds!At
<1>2. UNCHANGED <<orders, proposals, clock>>
  BY DEF Refunds!FindKey
<1>3. CASE \E answer \in {"proposed", "conflict"} : Refunds!Answered(c, answer)
  BY <1>1, <1>2, <1>3, ProposeAnswered
<1>4. CASE desk[c].seen.status = "paid" /\ desk' = [desk EXCEPT ![c] = d]
  <2>1. d \in Proposing /\ d.at = "inserting" /\ d.seen = desk[c].seen
    BY <1>1 DEF Proposing
  <2>2. d \in Desk /\ SoundDesk(d) /\ ~Locks(d)
    BY <1>1, <1>4, <2>1 DEF Desk, SoundDesk, Locks
  <2> HIDE DEF d
  <2> QED
    BY <1>2, <1>4, <2>1, <2>2, DeskStep, ApartFromAll
<1> QED
  BY <1>3, <1>4 DEF Refunds!FindKey, Refunds!Step
\* approve reads the proposal it is made for.
LEMMA ReadInitialSafe ==
  ASSUME RefundsInv, NEW c \in Clients, NEW k \in Keys, NEW t \in Keys, Refunds!ReadInitial(c, k, t)
  PROVE  RefundsInv'
<1> DEFINE d == [at |-> "initial", call |-> "approve", key |-> k, token |-> t, initial |-> proposals[k]]
<1>1. Refunds!Known(k) /\ proposals[k] \in Refunds!Proposal
  BY KnownProposal DEF Refunds!ReadInitial, RefundsInv
<1>2. d \in Opening /\ d.at = "initial" /\ d.key = k /\ d.initial = proposals[k]
  BY <1>1 DEF Opening
<1>3. desk' = [desk EXCEPT ![c] = d] /\ UNCHANGED <<orders, proposals, clock>>
  BY DEF Refunds!ReadInitial, Refunds!Step
<1> HIDE DEF d
<1>4. d \in Desk /\ SoundDesk(d) /\ ~Locks(d)
  BY <1>1, <1>2 DEF Desk, SoundDesk, Locks
<1> QED
  BY <1>2, <1>3, <1>4, DeskStep, ApartFromAll

\* approve locks the order, which nobody has.
LEMMA LockOrderSafe ==
  ASSUME RefundsInv, NEW c \in Clients, Refunds!LockOrder(c)
  PROVE  RefundsInv'
<1> DEFINE b == desk[c]
           d == [at |-> "locked", call |-> "approve", key |-> b.key, token |-> b.token,
                 initial |-> b.initial, seen |-> orders[b.initial.order]]
<1>1. b \in Opening /\ b.at = "initial" /\ SoundDesk(b)
  BY DeskFacts, DeskCases DEF Refunds!LockOrder, Refunds!At
<1>2. desk' = [desk EXCEPT ![c] = d] /\ UNCHANGED <<orders, proposals, clock>>
  BY DEF Refunds!LockOrder, Refunds!Step
<1>3. b.initial.order \in Orders /\ orders[b.initial.order] \in OrderRow
  BY <1>1 DEF Opening, Refunds!Proposal, RefundsInv, RefundsTyped
<1>4. d \in Deciding /\ d.at = "locked" /\ d.key = b.key /\ d.initial = b.initial
      /\ d.seen = orders[b.initial.order]
  BY <1>1, <1>3 DEF Opening, Deciding
<1>5. \A a \in Clients \ {c} : Locks(desk[a]) => desk[a].initial.order # b.initial.order
  BY DEF Refunds!LockOrder, Refunds!Holds, Refunds!At, Locks
<1> HIDE DEF b, d
<1>6. d \in Desk /\ SoundDesk(d)
  BY <1>1, <1>4 DEF Desk, SoundDesk
<1>7. \A a \in Clients \ {c} : Apart(d, desk[a]) /\ Apart(desk[a], d)
  BY <1>4, <1>5 DEF Apart, Locks
<1> QED
  BY <1>2, <1>6, <1>7, DeskStep

\* What approve decides holds of the proposal as it stands under the lock.
LEMMA DecideSafe ==
  ASSUME RefundsInv, NEW c \in Clients, Refunds!Decide(c)
  PROVE  RefundsInv'
<1> DEFINE b == desk[c]
           p == proposals[b.key]
           verdict == Refunds!Verdict(b, p)
           told == [at |-> "answered", call |-> b.call, key |-> b.key, answer |-> verdict]
           approved == [b EXCEPT !.at = "approved"]
<1>1. b \in Deciding /\ b.at = "locked" /\ SoundDesk(b) /\ b \in Desk
  BY DeskFacts, DeskCases DEF Refunds!Decide, Refunds!At
<1>2. UNCHANGED <<orders, proposals, clock>>
  BY DEF Refunds!Decide
<1>3. b.key \in Keys /\ Refunds!Known(b.key) /\ p \in Refunds!Proposal /\ p.version = 1
      /\ b.initial.order = p.order /\ b.seen = orders[p.order] /\ p.order \in Orders /\ b.call = "approve"
  BY <1>1, KnownProposal DEF Deciding, SoundDesk, RefundsInv, Refunds!Proposal
<1>4. SoundOrder(p.order) /\ orders[p.order] \in OrderRow
  BY <1>3 DEF RefundsInv, RefundsTyped
<1>5. verdict \in {"token invalid", "completed", "expired", "conflict", "none"}
  BY DEF Refunds!Verdict
<1>6. CASE verdict = "none" /\ desk' = [desk EXCEPT ![c] = approved]
  <2>1. approved \in Deciding /\ approved.at = "approved" /\ approved.key = b.key
        /\ approved.initial = b.initial /\ approved.seen = b.seen
    BY <1>1 DEF Deciding
  <2>2. p.status # "completed" /\ ~(clock >= p.expiresAt) /\ b.seen.version = p.version
    BY <1>6 DEF Refunds!Verdict
  <2>3. Proposed(b.key) /\ b.seen.version = 1
    BY <1>3, <2>2 DEF Proposed, Refunds!Proposal
  <2>4. ASSUME NEW a \in Clients \ {c} PROVE Apart(approved, desk[a]) /\ Apart(desk[a], approved)
    <3>1. SoundDesk(desk[a]) /\ Apart(b, desk[a]) /\ Apart(desk[a], b)
      BY DeskFacts DEF RefundsInv
    <3>2. desk[a].at = "answered" /\ desk[a].call = "approve" /\ desk[a].answer = "expired" => desk[a].key # b.key
      BY <2>2, <3>1 DEF SoundDesk
    <3> HIDE DEF b, approved
    <3> QED
      BY <1>1, <2>1, <3>1, <3>2 DEF Apart, Locks
  <2> HIDE DEF b, approved
  <2>5. approved \in Desk /\ SoundDesk(approved)
    BY <1>1, <2>1, <2>3 DEF Desk, SoundDesk
  <2> QED
    BY <1>2, <1>6, <2>4, <2>5, DeskStep
<1>7. CASE verdict # "none" /\ desk' = [desk EXCEPT ![c] = told]
  <2>1. told \in Desk /\ told.at = "answered" /\ told.call = "approve" /\ told.key = b.key /\ told.answer = verdict
    BY <1>1, <1>3, <1>5, <1>7, ToldDesk
  <2>2. verdict = "completed" => p.status = "completed"
    BY DEF Refunds!Verdict
  <2>3. verdict = "expired" => p.status # "completed" /\ clock >= p.expiresAt
    BY DEF Refunds!Verdict
  <2>4. verdict = "conflict" => p.status # "completed" /\ (b.seen.version # p.version \/ b.seen.status # "paid")
    BY DEF Refunds!Verdict
  <2>5. p.status # "completed" => Proposed(b.key)
    BY <1>3 DEF Proposed, Refunds!Proposal
  <2>6. verdict = "conflict" => orders[p.order].version = 2
    BY <1>3, <1>4, <2>4 DEF SoundOrder, OrderRow
  <2>7. ASSUME NEW a \in Clients \ {c} PROVE Apart(told, desk[a]) /\ Apart(desk[a], told)
    <3>1. SoundDesk(desk[a]) /\ desk[a] \in Desk /\ Apart(b, desk[a]) /\ Apart(desk[a], b)
      BY DeskFacts DEF RefundsInv
    <3>2. desk[a].at = "approved" => desk[a].key # b.key
      <4> SUFFICES ASSUME desk[a].at = "approved" PROVE desk[a].key # b.key
        OBVIOUS
      <4>1. desk[a].initial.order = proposals[desk[a].key].order
        BY <3>1 DEF SoundDesk
      <4>2. desk[a].initial.order # b.initial.order
        BY <1>1, <3>1 DEF Apart, Locks
      <4> QED
        BY <1>3, <4>1, <4>2
    <3> HIDE DEF b, told
    <3> QED
      BY <2>1, <3>2 DEF Apart, Locks
  <2> HIDE DEF verdict, told
  <2>8. SoundDesk(told)
    <3> DEFINE k == told.key
    <3>1. k = b.key
      BY <2>1
    <3>2. told.answer = "completed" => proposals[k].status = "completed"
      BY <2>1, <2>2
    <3>3. told.answer = "expired" => Proposed(k) /\ clock >= proposals[k].expiresAt
      BY <2>1, <2>3, <2>5
    <3>4. told.answer = "conflict" => Proposed(k) /\ orders[proposals[k].order].version = 2
      BY <2>1, <2>4, <2>5, <2>6
    <3>5. Refunds!Known(k) /\ told.at = "answered"
      BY <1>3, <2>1
    <3> HIDE DEF b
    <3> QED
      BY <3>2, <3>3, <3>4, <3>5 DEF SoundDesk
  <2> QED
    BY <1>2, <1>7, <2>1, <2>7, <2>8, DeskStep
<1> QED
  BY <1>6, <1>7 DEF Refunds!Decide, Refunds!Step, Refunds!Answered, Refunds!Reread

\* propose makes a proposal of the first version of its order, under a key nobody has used.
LEMMA InsertSafe ==
  ASSUME RefundsInv, NEW c \in Clients, Refunds!Insert(c)
  PROVE  RefundsInv'
<1> DEFINE b == desk[c]
           k == b.key
           p == [order |-> b.order, cents |-> b.cents, version |-> b.seen.version,
                 expiresAt |-> clock + Lifetime, status |-> "proposed"]
           d == [at |-> "answered", call |-> b.call, key |-> b.key, answer |-> "proposed"]
<1>1. b \in Proposing /\ b.at = "inserting" /\ SoundDesk(b) /\ b \in Desk
  BY DeskFacts, DeskCases DEF Refunds!Insert, Refunds!At
<1>2. UNCHANGED <<orders, clock>>
  BY DEF Refunds!Insert
<1>3. CASE Refunds!Answered(c, "conflict") /\ UNCHANGED proposals
  BY <1>1, <1>2, <1>3, ProposeAnswered
<1>4. CASE ~Refunds!Known(k) /\ proposals' = [proposals EXCEPT ![k] = p] /\ desk' = [desk EXCEPT ![c] = d]
  <2>1. k \in Keys /\ b.seen.version = 1 /\ p.order \in Orders /\ b.call = "propose"
    BY <1>1 DEF Proposing, SoundDesk
  <2>2. p \in Refunds!Proposal /\ p.version = 1 /\ p.status = "proposed"
    BY <1>1, <2>1 DEF Proposing, Refunds!Proposal, RefundsInv, RefundsTyped, RequestAssumption
  <2>3. p # NoProposal
    BY <2>2 DEF Refunds!Proposal, RequestAssumption
  <2>4. d \in Desk /\ d.at = "answered" /\ d.call = "propose"
    BY <1>1, <2>1, ToldDesk
  <2>5. SoundDesk(d) /\ ~Locks(d)
    BY <2>4 DEF SoundDesk, Locks
  <2> HIDE DEF p, d
  <2>6. /\ proposals' \in [Keys -> Refunds!Proposal \cup {NoProposal}] /\ proposals'[k] = p
        /\ \A j \in Keys : Refunds!Known(j) => j # k /\ proposals'[j] = proposals[j]
        /\ \A j \in Keys \ {k} : proposals'[j] = proposals[j]
    BY <1>4, <2>1, <2>2 DEF RefundsInv, RefundsTyped
  <2> HIDE DEF k
  <2>7. desk' \in [Clients -> Desk] /\ desk'[c] = d /\ \A a \in Clients \ {c} : desk'[a] = desk[a]
    BY <1>4, <2>4 DEF RefundsInv, RefundsTyped
  <2>8. RefundsTyped'
    BY <1>2, <2>6, <2>7 DEF RefundsInv, RefundsTyped
  <2>9. \A j \in Keys : (Refunds!Known(j) => proposals[j].version = 1)'
    BY <2>2, <2>6 DEF RefundsInv, Refunds!Known
  <2>10. ASSUME NEW o \in Orders PROVE Refunds!CompletedFor(o)' = Refunds!CompletedFor(o)
    <3>1. ASSUME NEW j \in Keys PROVE j \in Refunds!CompletedFor(o)' <=> j \in Refunds!CompletedFor(o)
      <4>1. CASE j = k
        BY <1>4, <2>2, <2>6, <4>1 DEF Refunds!CompletedFor
      <4>2. CASE j # k
        BY <2>6, <4>2 DEF Refunds!CompletedFor, Refunds!Known
      <4> QED BY <4>1, <4>2
    <3> QED
      BY <3>1 DEF Refunds!CompletedFor
  <2>11. \A o \in Orders : SoundOrder(o)'
    BY <1>2, <2>10 DEF RefundsInv, SoundOrder
  <2>12. ASSUME NEW a \in Clients PROVE SoundDesk(desk[a])'
    <3>1. CASE a = c
      BY <2>4, <2>7, <3>1 DEF SoundDesk
    <3>2. CASE a # c
      <4>1. PICK e \in Desk : e = desk[a] /\ e = desk'[a] /\ SoundDesk(e)
        BY <2>7, <3>2, DeskFacts
      <4>2. e.at \in {"initial", "locked", "approved"} \/ (e.at = "answered" /\ e.call = "approve") =>
              e.key \in Keys /\ Refunds!Known(e.key)
        BY <4>1, DeskCases DEF SoundDesk, Opening, Deciding, Told
      <4>3. e.key \in Keys /\ Refunds!Known(e.key) =>
              proposals'[e.key] = proposals[e.key] /\ Refunds!Known(e.key)'
        BY <2>6 DEF Refunds!Known
      <4> QED
        BY <1>2, <4>1, <4>2, <4>3 DEF SoundDesk, Proposed
    <3> QED
      BY <3>1, <3>2
  <2>13. ASSUME NEW a \in Clients, NEW e \in Clients, a # e PROVE Apart(desk[a], desk[e])'
    <3>1. \A x \in Clients \ {c} : Apart(d, desk[x]) /\ Apart(desk[x], d)
      BY <2>4, <2>5 DEF Apart, Locks
    <3>2. Apart(desk'[a], desk'[e])
      BY <2>7, <2>13, <3>1 DEF RefundsInv
    <3> QED
      BY <3>2 DEF Apart, Locks
  <2> QED
    BY <2>8, <2>9, <2>11, <2>12, <2>13 DEF RefundsInv
<1> QED
  BY <1>3, <1>4 DEF Refunds!Insert, Refunds!Answered, Refunds!Step

\* approve completes the one proposal the order is refunded by.
LEMMA CommitSafe ==
  ASSUME RefundsInv, NEW c \in Clients, Refunds!Commit(c)
  PROVE  RefundsInv'
<1>1. PICK b \in Deciding : b = desk[c] /\ b.at = "approved" /\ SoundDesk(b) /\ b \in Desk
  BY DeskFacts, DeskCases DEF Refunds!Commit, Refunds!At
<1> DEFINE k == b.key
           o == b.initial.order
           row == [version |-> orders[o].version + 1, status |-> "refund-requested"]
           p == [proposals[k] EXCEPT !.status = "completed"]
           d == [at |-> "answered", call |-> b.call, key |-> b.key, answer |-> "completed"]
<1>2. /\ clock' = clock /\ orders' = [orders EXCEPT ![o] = row] /\ proposals' = [proposals EXCEPT ![k] = p]
      /\ desk' = [desk EXCEPT ![c] = d]
  BY <1>1 DEF Refunds!Commit, Refunds!Answered, Refunds!Step
<1>3. k \in Keys /\ o \in Orders /\ Proposed(k) /\ o = proposals[k].order /\ orders[o].version = 1 /\ b.call = "approve"
  BY <1>1 DEF Deciding, SoundDesk, Refunds!Proposal
<1>4. row \in OrderRow /\ row.version = 2 /\ row.status = "refund-requested"
  BY <1>3 DEF OrderRow
<1>5. proposals[k] \in Refunds!Proposal
  BY <1>3, KnownProposal DEF Proposed, RefundsInv
<1>6. p \in Refunds!Proposal /\ p.status = "completed" /\ p.order = o /\ p.version = proposals[k].version
      /\ p.expiresAt = proposals[k].expiresAt
  BY <1>3, <1>5 DEF Refunds!Proposal
<1>7. p # NoProposal
  BY <1>6 DEF Refunds!Proposal, RequestAssumption
<1>8. d \in Desk /\ d.at = "answered" /\ d.key = k /\ d.answer = "completed"
  BY <1>1, ToldDesk
<1>9. ~Locks(d)
  BY <1>8 DEF Locks
<1> HIDE DEF row, p, d
<1>10. orders' \in [Orders -> OrderRow] /\ orders'[o] = row /\ \A x \in Orders \ {o} : orders'[x] = orders[x]
  BY <1>2, <1>3, <1>4 DEF RefundsInv, RefundsTyped
<1>11. /\ proposals' \in [Keys -> Refunds!Proposal \cup {NoProposal}] /\ proposals'[k] = p
       /\ \A j \in Keys \ {k} : proposals'[j] = proposals[j]
  BY <1>2, <1>3, <1>6 DEF RefundsInv, RefundsTyped
<1>12. desk' \in [Clients -> Desk] /\ desk'[c] = d /\ \A a \in Clients \ {c} : desk'[a] = desk[a]
  BY <1>2, <1>8 DEF RefundsInv, RefundsTyped
<1> HIDE DEF k, o
<1>13. RefundsTyped'
  BY <1>2, <1>10, <1>11, <1>12 DEF RefundsInv, RefundsTyped
<1>14. \A j \in Keys : Refunds!Known(j)' <=> Refunds!Known(j)
  BY <1>3, <1>7, <1>11 DEF Refunds!Known, Proposed
<1>15. \A j \in Keys : (Refunds!Known(j) => proposals[j].version = 1)'
  <2>1. \A j \in Keys : Refunds!Known(j) => proposals'[j].version = proposals[j].version
    BY <1>6, <1>11
  <2> QED
    BY <1>14, <2>1 DEF RefundsInv
<1>16. ASSUME NEW x \in Orders PROVE SoundOrder(x)'
  <2>1. CASE x = o
    <3>1. Refunds!CompletedFor(o) = {}
      BY <1>3 DEF RefundsInv, SoundOrder
    <3>2. ASSUME NEW j \in Keys PROVE j \in Refunds!CompletedFor(o)' <=> j = k
      <4>1. CASE j = k
        BY <1>3, <1>6, <1>11, <1>14, <4>1 DEF Refunds!CompletedFor, Proposed
      <4>2. CASE j # k
        BY <1>11, <1>14, <3>1, <4>2 DEF Refunds!CompletedFor
      <4> QED BY <4>1, <4>2
    <3>3. Refunds!CompletedFor(o)' = {k}
      BY <1>3, <3>2 DEF Refunds!CompletedFor
    <3> QED
      BY <1>3, <1>4, <1>10, <2>1, <3>3 DEF SoundOrder
  <2>2. CASE x # o
    <3>1. Refunds!CompletedFor(x)' = Refunds!CompletedFor(x)
      <4>1. ASSUME NEW j \in Keys PROVE j \in Refunds!CompletedFor(x)' <=> j \in Refunds!CompletedFor(x)
        <5>1. CASE j = k
          BY <1>3, <1>6, <1>11, <2>2, <5>1 DEF Refunds!CompletedFor
        <5>2. CASE j # k
          BY <1>11, <1>14, <5>2 DEF Refunds!CompletedFor
        <5> QED BY <5>1, <5>2
      <4> QED BY <4>1 DEF Refunds!CompletedFor
    <3> QED
      BY <1>10, <2>2, <3>1 DEF SoundOrder, RefundsInv
  <2> QED
    BY <2>1, <2>2
<1>17. ASSUME NEW a \in Clients PROVE SoundDesk(desk[a])'
  <2>1. CASE a = c
    BY <1>3, <1>6, <1>8, <1>11, <1>12, <1>14, <2>1 DEF SoundDesk, Proposed
  <2>2. CASE a # c
    <3>1. PICK e \in Desk : e = desk[a] /\ e = desk'[a] /\ SoundDesk(e) /\ Apart(b, e) /\ Apart(e, b)
      BY <1>1, <1>12, <2>2, DeskFacts DEF RefundsInv
    <3>2. e.at \in {"initial", "locked", "approved"} => e.key \in Keys /\ e.initial.order \in Orders
      BY <3>1, DeskCases DEF Opening, Deciding, Refunds!Proposal
    <3>3. e.at \in {"locked", "approved"} => e.initial.order # o /\ e.key # k
      BY <1>1, <1>3, <3>1 DEF Apart, Locks, SoundDesk, o
    <3>4. e.at = "answered" /\ e.call = "approve" => e.key \in Keys
      BY <3>1, DeskCases DEF Told
    <3>5. e.at = "answered" /\ e.call = "approve" /\ e.answer = "expired" => e.key # k
      BY <1>1, <3>1 DEF Apart, k
    <3>6. e.at = "answered" /\ e.call = "approve" /\ e.answer = "conflict" =>
            e.key # k /\ proposals[e.key].order # o /\ proposals[e.key].order \in Orders
      <4> SUFFICES ASSUME e.at = "answered", e.call = "approve", e.answer = "conflict"
                   PROVE  e.key # k /\ proposals[e.key].order # o /\ proposals[e.key].order \in Orders
        OBVIOUS
      <4>1. Refunds!Known(e.key) /\ orders[proposals[e.key].order].version = 2 /\ e.key \in Keys
        BY <3>1, <3>4 DEF SoundDesk
      <4>2. proposals[e.key] \in Refunds!Proposal
        BY <4>1, KnownProposal DEF RefundsInv
      <4> QED
        BY <1>3, <4>1, <4>2 DEF Refunds!Proposal
    <3>7. \A j \in Keys : proposals'[j].order = proposals[j].order /\ (j # k => proposals'[j] = proposals[j])
      BY <1>3, <1>6, <1>11
    <3>8. \A j \in Keys : proposals[j].status = "completed" => proposals'[j].status = "completed"
      BY <1>6, <1>11
    <3>9. \A j \in Keys \ {k} : Proposed(j) => Proposed(j)'
      BY <1>11, <1>14 DEF Proposed
    <3>10. e.at \in {"looked", "inserting"} => (e.seen.status = "paid" <=> e.seen.version = 1)
      BY <3>1 DEF SoundDesk
    <3>11. e.at = "inserting" => e.seen.version = 1
      BY <3>1 DEF SoundDesk
    <3>12. e.at \in {"initial", "locked", "approved"} =>
             Refunds!Known(e.key)' /\ e.initial.order = proposals'[e.key].order
      BY <1>14, <3>1, <3>2, <3>7 DEF SoundDesk
    <3>13. e.at \in {"locked", "approved"} => e.seen = orders'[e.initial.order]
      BY <1>10, <3>1, <3>2, <3>3 DEF SoundDesk
    <3>14. e.at = "approved" => Proposed(e.key)' /\ e.seen.version = 1
      BY <3>1, <3>2, <3>3, <3>9 DEF SoundDesk
    <3>15. e.at = "answered" /\ e.call = "approve" =>
             /\ Refunds!Known(e.key)'
             /\ e.answer = "completed" => proposals'[e.key].status = "completed"
      BY <1>14, <3>1, <3>4, <3>8 DEF SoundDesk
    <3>16. e.at = "answered" /\ e.call = "approve" /\ e.answer = "expired" =>
             Proposed(e.key)' /\ clock' >= proposals'[e.key].expiresAt
      BY <1>2, <3>1, <3>4, <3>5, <3>7, <3>9 DEF SoundDesk
    <3>17. e.at = "answered" /\ e.call = "approve" /\ e.answer = "conflict" =>
             Proposed(e.key)' /\ orders'[proposals'[e.key].order].version = 2
      BY <1>10, <3>1, <3>4, <3>6, <3>7, <3>9 DEF SoundDesk
    <3> QED
      BY <3>1, <3>10, <3>11, <3>12, <3>13, <3>14, <3>15, <3>16, <3>17 DEF SoundDesk
  <2> QED
    BY <2>1, <2>2
<1>18. ASSUME NEW a \in Clients, NEW e \in Clients, a # e PROVE Apart(desk[a], desk[e])'
  <2>1. \A x \in Clients \ {c} : Apart(d, desk[x]) /\ Apart(desk[x], d)
    BY <1>8, <1>9 DEF Apart, Locks
  <2>2. Apart(desk'[a], desk'[e])
    BY <1>12, <1>18, <2>1 DEF RefundsInv
  <2> QED
    BY <2>2 DEF Apart, Locks
<1> QED
  BY <1>13, <1>15, <1>16, <1>17, <1>18 DEF RefundsInv

-----------------------------------------------------------------------------
(* Refunds: the theorem.                                                   *)

\* At first every order is paid, and nobody has asked for anything.
LEMMA RefundsInitial ==
  ASSUME Refunds!Init
  PROVE  RefundsInv
<1>1. RefundsTyped /\ \A c \in Clients : desk[c].at = "idle"
  BY DEF Refunds!Init, RefundsTyped, OrderRow, Desk, Refunds!Idle, RequestAssumption
<1>2. \A k \in Keys : ~Refunds!Known(k)
  BY DEF Refunds!Init, Refunds!Known
<1>3. \A o \in Orders : SoundOrder(o)
  BY <1>2 DEF Refunds!Init, SoundOrder, Refunds!CompletedFor
<1> QED
  BY <1>1, <1>2, <1>3 DEF RefundsInv, SoundDesk, Apart, Locks

\* Every step of the workflow keeps the invariant.
LEMMA RefundsStep ==
  ASSUME RefundsInv, Refunds!Next
  PROVE  RefundsInv'
<1>1. CASE Refunds!Tick
  BY <1>1, TickSafe
<1>2. ASSUME NEW c \in Clients, Refunds!Propose(c) PROVE RefundsInv'
  BY <1>2, LookupSafe, FindKeySafe, InsertSafe DEF Refunds!Propose
<1>3. ASSUME NEW c \in Clients, Refunds!Approve(c) PROVE RefundsInv'
  BY <1>3, ReadInitialSafe, LockOrderSafe, DecideSafe, CommitSafe DEF Refunds!Approve
<1>4. ASSUME NEW c \in Clients, Refunds!Leave(c) PROVE RefundsInv'
  BY <1>4, LeaveSafe
<1> QED
  BY <1>1, <1>2, <1>3, <1>4 DEF Refunds!Next

\* The invariant says what the workflow promises.
LEMMA RefundsFollow ==
  ASSUME RefundsInv
  PROVE  RefundsAreLawful
<1>1. Refunds!TypeOK
  BY DEF Refunds!TypeOK, RefundsInv, RefundsTyped, OrderRow
<1>2. Refunds!RefundedOnce
  <2> SUFFICES ASSUME NEW o \in Orders
               PROVE  /\ Cardinality(Refunds!CompletedFor(o)) = orders[o].version - 1
                      /\ orders[o].status = (IF Refunds!CompletedFor(o) = {} THEN "paid" ELSE "refund-requested")
                      /\ \A k \in Refunds!CompletedFor(o) : proposals[k].version = 1
    BY SameCount DEF Refunds!RefundedOnce
  <2>1. /\ Cardinality(Refunds!CompletedFor(o)) = orders[o].version - 1
        /\ orders[o].status = (IF Refunds!CompletedFor(o) = {} THEN "paid" ELSE "refund-requested")
    <3>1. SoundOrder(o) /\ orders[o] \in OrderRow
      BY DEF RefundsInv, RefundsTyped
    <3>2. CASE orders[o].version = 1
      BY <3>1, <3>2, FS_EmptySet DEF SoundOrder, OrderRow
    <3>3. CASE orders[o].version = 2
      <4>1. PICK k \in Keys : Refunds!CompletedFor(o) = {k}
        BY <3>1, <3>3 DEF SoundOrder
      <4>2. Cardinality(Refunds!CompletedFor(o)) = 1
        BY <4>1, FS_Singleton
      <4> QED
        BY <3>1, <3>3, <4>1, <4>2 DEF SoundOrder, OrderRow
    <3> QED
      BY <3>1, <3>2, <3>3 DEF OrderRow
  <2>2. \A k \in Refunds!CompletedFor(o) : proposals[k].version = 1
    BY DEF RefundsInv, Refunds!CompletedFor
  <2> QED
    BY <2>1, <2>2
<1>3. Refunds!AnswersHold
  BY DEF Refunds!AnswersHold, Refunds!At, RefundsInv, SoundDesk, Proposed
<1> QED
  BY <1>1, <1>2, <1>3 DEF RefundsAreLawful, Refunds!RefundsAreLawful

\* An order is refunded once, whatever clients, keys and orders there are, and who repeats an
\* approval is told what became of it (RefundWorkflow.propose and approve).
THEOREM RefundsLawful == RequestSpec => []RefundsAreLawful
<1> DEFINE all == <<lab, vars, streamVars, hookVars, refundVars>>
<1>1. RequestInit => RefundsInv
  BY RefundsInitial DEF RequestInit
<1>2. RefundsInv /\ [RequestNext]_all => RefundsInv'
  <2> SUFFICES ASSUME RefundsInv, [RequestNext]_all PROVE RefundsInv'
    OBVIOUS
  <2>1. CASE Refunds!Next
    BY <2>1, RefundsStep
  <2>2. CASE UNCHANGED refundVars
    BY <2>2 DEF refundVars, RefundsInv, RefundsTyped, SoundOrder, SoundDesk, Proposed, Apart, Locks,
       Refunds!Known, Refunds!CompletedFor
  <2> QED
    BY <2>1, <2>2 DEF RequestNext
<1>3. RefundsInv => RefundsAreLawful
  BY RefundsFollow
<1> QED
  BY <1>1, <1>2, <1>3, PTL DEF RequestSpec

-----------------------------------------------------------------------------
(* Sockets: the inductive invariant.                                       *)

\* As many places are out as the limits allow, and those that count have an owner.
PlacesInBounds ==
  /\ IsFiniteSet(reservations) /\ Cardinality(reservations) <= GlobalLimit
  /\ \A p \in Principals : Cardinality(OfPrincipal(p)) <= PrincipalLimit

\* What close has set out to release without a connection will never be served: nothing
\* opens any more.
SoundSocket(r) ==
  /\ Serving(r) => /\ r \in reservations
                   /\ Entitled(r) \/ r \in rejecting \cup closing
                   /\ closed => r \in closing
  /\ r \in closing => closed
  /\ r \in releasing => closed /\ ~Serving(r)
  /\ conn[r].outbound > 0 => conn[r].sending

SocketsInv == TypeOK /\ PlacesInBounds /\ \A r \in Reservations : SoundSocket(r)

-----------------------------------------------------------------------------
(* Sockets: the steps.                                                     *)

PassType == [todo : SUBSET Reservations, late : SUBSET (Reservations \X Deadlines),
             unbound : SUBSET Reservations]

\* Places that return leave room.
LEMMA FewerPlaces ==
  ASSUME PlacesInBounds, reservations' \subseteq reservations, UNCHANGED owner
  PROVE  PlacesInBounds'
<1>1. /\ IsFiniteSet(reservations') /\ Cardinality(reservations') <= Cardinality(reservations)
      /\ Cardinality(reservations) \in Nat /\ Cardinality(reservations') \in Nat
  BY FS_Subset, FS_CardinalityType DEF PlacesInBounds
<1>2. ASSUME NEW p \in Principals PROVE Cardinality(OfPrincipal(p)') <= PrincipalLimit
  <2>1. OfPrincipal(p) \subseteq reservations /\ OfPrincipal(p)' \subseteq OfPrincipal(p)
    BY DEF OfPrincipal
  <2>2. IsFiniteSet(OfPrincipal(p))
    BY <2>1, FS_Subset DEF PlacesInBounds
  <2>3. /\ Cardinality(OfPrincipal(p)') <= Cardinality(OfPrincipal(p))
        /\ Cardinality(OfPrincipal(p)) \in Nat /\ Cardinality(OfPrincipal(p)') \in Nat
    BY <2>1, <2>2, FS_Subset, FS_CardinalityType
  <2>4. Cardinality(OfPrincipal(p)) <= PrincipalLimit /\ PrincipalLimit \in Nat
    BY DEF PlacesInBounds, RegistryAssumption
  <2> QED
    BY <2>3, <2>4
<1>3. Cardinality(reservations') <= GlobalLimit
  <2>1. Cardinality(reservations) <= GlobalLimit /\ GlobalLimit \in Nat
    BY DEF PlacesInBounds, RegistryAssumption
  <2> QED
    BY <1>1, <2>1
<1> QED
  BY <1>1, <1>2, <1>3 DEF PlacesInBounds

\* A step with one connection, which does not open: it goes on, or it ends, and then its
\* place may return and the threads that were to end it are done.
LEMMA SocketStep ==
  ASSUME SocketsInv, NEW r \in Reservations, NEW c \in Connection,
         c.state = "open" => Serving(r), c.outbound > 0 => c.sending,
         conn' = [conn EXCEPT ![r] = c], UNCHANGED <<authenticated, closed, owner>>,
         pass' \in PassType,
         reservations' \in {reservations, reservations \ {r}},
         rejecting \ {r} \subseteq rejecting', rejecting' \subseteq Reservations,
         closing' \in {closing, closing \ {r}},
         releasing' \subseteq releasing \cup {r}, r \in releasing' \ releasing => closed,
         c.state = "open" => /\ reservations' = reservations /\ rejecting \subseteq rejecting'
                             /\ closing' = closing /\ releasing' \subseteq releasing
  PROVE  SocketsInv'
<1>1. conn' \in [Reservations -> Connection] /\ conn'[r] = c /\ \A q \in Reservations \ {r} : conn'[q] = conn[q]
  BY DEF SocketsInv, TypeOK
<1>2. TypeOK'
  BY <1>1 DEF SocketsInv, TypeOK, PassType
<1>3. PlacesInBounds'
  BY FewerPlaces DEF SocketsInv
<1>4. ASSUME NEW q \in Reservations PROVE SoundSocket(q)'
  <2>1. SoundSocket(q)
    BY DEF SocketsInv
  <2>2. CASE q = r
    BY <1>1, <2>1, <2>2 DEF SoundSocket, Serving, Entitled
  <2>3. CASE q # r
    BY <1>1, <2>1, <2>3 DEF SoundSocket, Serving, Entitled
  <2> QED
    BY <2>2, <2>3
<1> QED
  BY <1>2, <1>3, <1>4 DEF SocketsInv

\* A connection begins, and ends, with nothing queued.
LEMMA FreshConnection ==
  /\ NoConnection \in Connection /\ NoConnection.state = "none" /\ NoConnection.outbound = 0
  /\ NewConnection \in Connection /\ NewConnection.outbound = 0
  /\ \A c \in Connection : Stopped(c) \in Connection /\ Stopped(c).state = "stopped" /\ Stopped(c).outbound = 0
<1>1. AckLimit \in Nat /\ MessageLimit \in Nat
  BY DEF RegistryAssumption
<1>2. 0 \in 0..AckLimit /\ 0 \in 0..MessageLimit
  BY <1>1
<1>3. NoConnection \in Connection /\ NoConnection.state = "none" /\ NoConnection.outbound = 0
  BY <1>2 DEF NoConnection, Connection
<1>4. NewConnection \in Connection /\ NewConnection.outbound = 0
  BY <1>3 DEF NewConnection, Connection
<1>5. ASSUME NEW c \in Connection
      PROVE  Stopped(c) \in Connection /\ Stopped(c).state = "stopped" /\ Stopped(c).outbound = 0
  <2>1. c.sending \in BOOLEAN
    BY DEF Connection
  <2> QED
    BY <1>3, <2>1 DEF Stopped, Connection
<1> QED
  BY <1>3, <1>4, <1>5

\* stop leaves a connection that is not served, and drives no queue.
LEMMA StopLeaves ==
  ASSUME SocketsInv, NEW r \in Reservations, Stop(r)
  PROVE  \E c \in Connection : /\ conn' = [conn EXCEPT ![r] = c] /\ c.state # "open"
                               /\ c.outbound > 0 => c.sending
<1>1. conn[r] \in Connection /\ SoundSocket(r) /\ conn = [conn EXCEPT ![r] = conn[r]]
  BY DEF SocketsInv, TypeOK
<1>2. CASE Serving(r)
  <2> DEFINE c == Stopped(conn[r])
  <2>1. c \in Connection /\ c.state = "stopped" /\ c.outbound = 0
    BY <1>1, FreshConnection
  <2>2. conn' = [conn EXCEPT ![r] = c]
    BY <1>2 DEF Stop
  <2>3. c.state # "open" /\ (c.outbound > 0 => c.sending)
    BY <2>1
  <2> HIDE DEF c
  <2> QED
    BY <2>1, <2>2, <2>3
<1>3. CASE ~Serving(r)
  <2> DEFINE c == conn[r]
  <2>1. c \in Connection /\ conn' = [conn EXCEPT ![r] = c] /\ c.state # "open" /\ (c.outbound > 0 => c.sending)
    BY <1>1, <1>3 DEF Stop, Serving, SoundSocket
  <2> HIDE DEF c
  <2> QED
    BY <2>1
<1> QED
  BY <1>2, <1>3

\* The next queued echo is sent unless one is being sent.
LEMMA SendNextDrives ==
  ASSUME NEW c \in Connection
  PROVE  /\ SendNext(c) \in Connection /\ SendNext(c).state = c.state
         /\ SendNext(c).outbound > 0 => SendNext(c).sending
<1>1. AckLimit \in Nat /\ c.outbound \in 0..AckLimit
  BY DEF RegistryAssumption, Connection
<1>2. CASE c.sending \/ c.outbound = 0
  BY <1>1, <1>2 DEF SendNext
<1>3. CASE ~(c.sending \/ c.outbound = 0)
  <2> DEFINE d == [c EXCEPT !.outbound = @ - 1, !.sending = TRUE]
  <2>1. c.outbound - 1 \in 0..AckLimit
    BY <1>1, <1>3
  <2>2. d \in Connection /\ d.state = c.state /\ d.sending
    BY <2>1 DEF Connection
  <2>3. SendNext(c) = d
    BY <1>3 DEF SendNext
  <2> HIDE DEF d
  <2> QED
    BY <2>2, <2>3
<1> QED
  BY <1>2, <1>3

\* A step that changes nothing of a connection is one with it.
LEMMA PlaceStep ==
  ASSUME SocketsInv, NEW r \in Reservations, ~Serving(r), UNCHANGED <<authenticated, closed, owner, conn>>,
         pass' \in PassType, reservations' \in {reservations, reservations \ {r}},
         rejecting' = rejecting, closing' = closing, releasing' \subseteq releasing
  PROVE  SocketsInv'
<1>1. conn[r] \in Connection /\ SoundSocket(r) /\ conn' = [conn EXCEPT ![r] = conn[r]]
      /\ rejecting \subseteq Reservations
  BY DEF SocketsInv, TypeOK
<1>2. conn[r].state # "open" /\ (conn[r].outbound > 0 => conn[r].sending)
  BY <1>1 DEF SoundSocket, Serving
<1> QED
  BY <1>1, <1>2, SocketStep

\* A login, or a logout: who was served as somebody else is to be rejected.
LEMMA SessionSafe ==
  ASSUME SocketsInv, NEW s \in Sessions, NEW p \in Principals \cup {Nobody},
         authenticated' = [authenticated EXCEPT ![s] = p], Rejects(OfSession(s)),
         UNCHANGED <<closed, owner, reservations, conn, pass, closing, releasing>>
  PROVE  SocketsInv'
<1>1. TypeOK'
  BY DEF SocketsInv, TypeOK, Rejects, OfSession
<1>2. PlacesInBounds'
  BY FewerPlaces DEF SocketsInv
<1>3. ASSUME NEW r \in Reservations PROVE SoundSocket(r)'
  <2>1. SoundSocket(r)
    BY DEF SocketsInv
  <2>2. ASSUME Serving(r), Entitled(r) PROVE Entitled(r)' \/ r \in rejecting'
    <3>1. r \in reservations /\ owner[r] \in [principal : Principals, session : Sessions]
      BY <2>1, <2>2 DEF SoundSocket, SocketsInv, TypeOK
    <3>2. CASE owner[r].session = s
      BY <3>1, <3>2 DEF Rejects, OfSession
    <3>3. CASE owner[r].session # s
      BY <2>2, <3>1, <3>3 DEF Entitled, SocketsInv, TypeOK
    <3> QED
      BY <3>2, <3>3
  <2> QED
    BY <2>1, <2>2 DEF SoundSocket, Serving, Rejects
<1> QED
  BY <1>1, <1>2, <1>3 DEF SocketsInv

\* reserve gives out a place no more.
LEMMA ReserveSafe ==
  ASSUME SocketsInv, NEW r \in Reservations, NEW p \in Principals, NEW s \in Sessions, Reserve(r, p, s)
  PROVE  SocketsInv'
<1> DEFINE o == [principal |-> p, session |-> s]
<1>1. /\ owner[r] = Nobody /\ HasRoom(p) /\ owner' = [owner EXCEPT ![r] = o]
      /\ reservations' = reservations \cup {r}
      /\ UNCHANGED <<authenticated, closed, conn, pass, rejecting, closing, releasing>>
  BY DEF Reserve, Unused
<1>2. r \notin reservations /\ \A q \in reservations : q # r /\ q \in Reservations
  BY <1>1 DEF SocketsInv, TypeOK
<1>3. o \in [principal : Principals, session : Sessions] /\ o # Nobody /\ o.principal = p
  BY DEF RegistryAssumption
<1> HIDE DEF o
<1>4. /\ owner' \in [Reservations -> [principal : Principals, session : Sessions] \cup {Nobody}]
      /\ owner'[r] = o /\ \A q \in Reservations \ {r} : owner'[q] = owner[q]
  BY <1>1, <1>3 DEF SocketsInv, TypeOK
<1>5. TypeOK'
  <2>1. \A q \in reservations' : q \in Reservations /\ owner'[q] # Nobody
    BY <1>1, <1>2, <1>3, <1>4 DEF SocketsInv, TypeOK
  <2> QED
    BY <1>1, <1>4, <2>1 DEF SocketsInv, TypeOK
<1>6. PlacesInBounds'
  <2>1. IsFiniteSet(reservations) /\ Cardinality(reservations) \in Nat /\ GlobalLimit \in Nat /\ PrincipalLimit \in Nat
    BY FS_CardinalityType DEF SocketsInv, PlacesInBounds, RegistryAssumption
  <2>2. IsFiniteSet(reservations') /\ Cardinality(reservations') = Cardinality(reservations) + 1
    BY <1>1, <1>2, <2>1, FS_AddElement
  <2>3. Cardinality(reservations') <= GlobalLimit
    BY <1>1, <2>1, <2>2 DEF HasRoom
  <2>4. ASSUME NEW a \in Principals PROVE Cardinality(OfPrincipal(a)') <= PrincipalLimit
    <3>1. IsFiniteSet(OfPrincipal(a)) /\ OfPrincipal(a) \subseteq reservations
      BY <2>1, FS_Subset DEF OfPrincipal
    <3>2. Cardinality(OfPrincipal(a)) \in Nat /\ Cardinality(OfPrincipal(a)) <= PrincipalLimit
      BY <3>1, FS_CardinalityType DEF SocketsInv, PlacesInBounds
    <3>3. CASE a = p
      <4>1. OfPrincipal(a)' = OfPrincipal(a) \cup {r}
        <5>1. ASSUME NEW q PROVE q \in OfPrincipal(a)' <=> q \in OfPrincipal(a) \/ q = r
          <6>1. CASE q = r
            BY <1>1, <1>3, <1>4, <3>3, <6>1 DEF OfPrincipal
          <6>2. CASE q # r
            BY <1>1, <1>2, <1>4, <6>2 DEF OfPrincipal
          <6> QED BY <6>1, <6>2
        <5> QED BY <5>1
      <4>2. r \notin OfPrincipal(a)
        BY <1>2, <3>1
      <4>3. Cardinality(OfPrincipal(a)') = Cardinality(OfPrincipal(a)) + 1
        BY <3>1, <4>1, <4>2, FS_AddElement
      <4>4. Cardinality(OfPrincipal(a)) < PrincipalLimit
        BY <1>1, <3>3 DEF HasRoom
      <4> QED
        BY <2>1, <3>2, <4>3, <4>4
    <3>4. CASE a # p
      <4>1. OfPrincipal(a)' = OfPrincipal(a)
        <5>1. ASSUME NEW q PROVE q \in OfPrincipal(a)' <=> q \in OfPrincipal(a)
          <6>1. CASE q = r
            BY <1>2, <1>3, <1>4, <3>4, <6>1 DEF OfPrincipal
          <6>2. CASE q # r
            BY <1>1, <1>2, <1>4, <6>2 DEF OfPrincipal
          <6> QED BY <6>1, <6>2
        <5> QED BY <5>1
      <4> QED
        BY <3>2, <4>1
    <3> QED
      BY <3>3, <3>4
  <2> QED
    BY <2>2, <2>3, <2>4 DEF PlacesInBounds
<1>7. ASSUME NEW q \in Reservations PROVE SoundSocket(q)'
  <2>1. SoundSocket(q)
    BY DEF SocketsInv
  <2>2. Serving(q) => q # r
    BY <1>2, <2>1 DEF SoundSocket
  <2> QED
    BY <1>1, <1>4, <2>1, <2>2 DEF SoundSocket, Serving, Entitled
<1> QED
  BY <1>5, <1>6, <1>7 DEF SocketsInv

\* A socket opens on its place for who is entitled to it, or gives it back.
LEMMA OpenSafe ==
  ASSUME SocketsInv, NEW r \in Reservations, Open(r)
  PROVE  SocketsInv'
<1>1. /\ r \in reservations /\ ~Serving(r) /\ pass' \in PassType
      /\ UNCHANGED <<authenticated, closed, owner, pass, rejecting, closing, releasing>>
  BY DEF Open, Pending, Bound, Serving, SocketsInv, TypeOK, PassType
<1>2. CASE Release(r) /\ UNCHANGED conn
  BY <1>1, <1>2, PlaceStep DEF Release
<1>3. CASE Entitled(r) /\ conn' = [conn EXCEPT ![r] = NewConnection] /\ UNCHANGED reservations
  <2>1. NewConnection \in Connection /\ NewConnection.outbound = 0
    BY FreshConnection
  <2>2. /\ conn' \in [Reservations -> Connection] /\ conn'[r] = NewConnection
        /\ \A q \in Reservations \ {r} : conn'[q] = conn[q]
    BY <1>3, <2>1 DEF SocketsInv, TypeOK
  <2>3. TypeOK'
    BY <1>1, <1>3, <2>2 DEF SocketsInv, TypeOK
  <2>4. PlacesInBounds'
    BY <1>1, <1>3, FewerPlaces DEF SocketsInv
  <2>5. ASSUME NEW q \in Reservations PROVE SoundSocket(q)'
    <3>1. SoundSocket(q) /\ ~closed
      BY <1>3 DEF SocketsInv, Entitled
    <3>2. CASE q = r
      BY <1>1, <1>3, <2>1, <2>2, <3>1, <3>2 DEF SoundSocket, Serving, Entitled
    <3>3. CASE q # r
      BY <1>1, <1>3, <2>2, <3>1, <3>3 DEF SoundSocket, Serving, Entitled
    <3> QED
      BY <3>2, <3>3
  <2> QED
    BY <2>3, <2>4, <2>5 DEF SocketsInv
<1> QED
  BY <1>2, <1>3 DEF Open

\* What a command leaves of a connection still drives its queue, in both its outcomes.
LEMMA BecomesSafe ==
  ASSUME SocketsInv, NEW r \in Reservations, NEW c \in Connection, Serving(r), c.state = conn[r].state,
         c.outbound > 0 => c.sending, Becomes(r, c),
         UNCHANGED <<authenticated, closed, owner, reservations, rejecting, closing, releasing>>
  PROVE  SocketsInv'
<1>1. /\ c.state = "open" /\ rejecting \subseteq Reservations /\ pass \in PassType
  BY DEF Serving, SocketsInv, TypeOK, PassType
<1>2. CASE /\ conn' = [conn EXCEPT ![r] = [c EXCEPT !.late = @ \ {"speak"}]]
           /\ pass' = [pass EXCEPT !.late = @ \ {<<r, "speak">>}]
  <2> DEFINE d == [c EXCEPT !.late = @ \ {"speak"}]
  <2>1. d \in Connection /\ d.state = c.state /\ d.outbound = c.outbound /\ d.sending = c.sending
    BY DEF Connection
  <2>2. pass' \in PassType
    BY <1>1, <1>2 DEF PassType
  <2>3. conn' = [conn EXCEPT ![r] = d]
    BY <1>2
  <2>4. d.outbound > 0 => d.sending
    BY <2>1
  <2> HIDE DEF d
  <2> QED
    BY <1>1, <2>1, <2>2, <2>3, <2>4, SocketStep
<1>3. CASE conn' = [conn EXCEPT ![r] = c] /\ UNCHANGED pass
  BY <1>1, <1>3, SocketStep
<1> QED
  BY <1>2, <1>3 DEF Becomes

\* A socket's messages, and the completion of its sends.
LEMMA MessageSafe ==
  ASSUME SocketsInv, NEW r \in Reservations, Message(r)
  PROVE  SocketsInv'
<1>1. /\ conn[r] \in Connection /\ SoundSocket(r) /\ pass \in PassType /\ rejecting \subseteq Reservations
      /\ AckLimit \in Nat /\ MessageLimit \in Nat
  BY DEF SocketsInv, TypeOK, PassType, RegistryAssumption
<1>2. CASE ReceiveEcho(r)
  <2> DEFINE q == Queued(conn[r])
             c == SendNext(q)
  <2>1. /\ conn[r].messages + 1 \in 0..MessageLimit /\ conn[r].awaiting + 1 \in 0..AckLimit
        /\ conn[r].outbound + 1 \in 0..AckLimit
    BY <1>1, <1>2 DEF ReceiveEcho, Takes, Connection
  <2>2. q \in Connection /\ q.state = conn[r].state
    BY <1>1, <2>1 DEF Queued, Connection
  <2> HIDE DEF q
  <2>3. c \in Connection /\ c.state = conn[r].state /\ (c.outbound > 0 => c.sending)
    BY <2>2, SendNextDrives
  <2>4. Serving(r) /\ Becomes(r, c) /\ UNCHANGED <<authenticated, closed, owner, reservations, rejecting, closing, releasing>>
    BY <1>2 DEF ReceiveEcho, Takes, q
  <2> HIDE DEF c
  <2> QED
    BY <2>3, <2>4, BecomesSafe
<1>3. CASE ReceiveAck(r)
  <2> DEFINE c == Acknowledged(conn[r])
  <2>1. conn[r].messages + 1 \in 0..MessageLimit /\ conn[r].awaiting - 1 \in 0..AckLimit
    BY <1>1, <1>3 DEF ReceiveAck, Takes, Connection
  <2>2. c \in Connection /\ c.state = conn[r].state /\ c.outbound = conn[r].outbound /\ c.sending = conn[r].sending
    BY <1>1, <2>1 DEF Acknowledged, Connection
  <2>3. c.outbound > 0 => c.sending
    BY <1>1, <2>2 DEF SoundSocket
  <2>4. Serving(r) /\ Becomes(r, c) /\ UNCHANGED <<authenticated, closed, owner, reservations, rejecting, closing, releasing>>
    BY <1>3 DEF ReceiveAck, Takes
  <2> HIDE DEF c
  <2> QED
    BY <2>2, <2>3, <2>4, BecomesSafe
<1>4. CASE SendCompletes(r)
  <2> DEFINE d == [conn[r] EXCEPT !.sending = FALSE]
             c == SendNext(d)
  <2>1. d \in Connection /\ d.state = conn[r].state
    BY <1>1 DEF Connection
  <2>2. conn' = [conn EXCEPT ![r] = c]
    BY <1>1, <1>4 DEF SendCompletes, SocketsInv, TypeOK
  <2> HIDE DEF d
  <2>3. c \in Connection /\ c.state = conn[r].state /\ (c.outbound > 0 => c.sending)
    BY <2>1, SendNextDrives
  <2>4. UNCHANGED <<authenticated, closed, owner, reservations, pass, rejecting, closing, releasing>>
    BY <1>4 DEF SendCompletes
  <2> HIDE DEF c
  <2> QED
    BY <1>1, <2>2, <2>3, <2>4, SocketStep DEF Serving
<1>5. CASE Ends(r)
  <2>1. PICK c \in Connection : /\ conn' = [conn EXCEPT ![r] = c] /\ c.state # "open"
                                /\ c.outbound > 0 => c.sending
    BY <1>5, StopLeaves DEF Ends
  <2>2. UNCHANGED <<authenticated, closed, owner, reservations, pass, rejecting, closing, releasing>>
    BY <1>5 DEF Ends
  <2> QED
    BY <1>1, <2>1, <2>2, SocketStep
<1> QED
  BY <1>2, <1>3, <1>4, <1>5 DEF Message

\* A thread that was to reject does: it stops the socket, or gives back the place of none.
LEMMA RejectSafe ==
  ASSUME SocketsInv, NEW r \in Reservations, Reject(r)
  PROVE  SocketsInv'
<1>1. /\ rejecting' = rejecting \ {r} /\ rejecting \subseteq Reservations /\ pass' \in PassType
      /\ reservations' \in {reservations, reservations \ {r}}
      /\ UNCHANGED <<authenticated, closed, owner, pass, closing, releasing>>
  BY DEF Reject, Release, SocketsInv, TypeOK, PassType
<1>2. PICK c \in Connection : /\ conn' = [conn EXCEPT ![r] = c] /\ c.state # "open"
                              /\ c.outbound > 0 => c.sending
  BY StopLeaves DEF Reject
<1> QED
  BY <1>1, <1>2, SocketStep

\* A place that is given back, by the upgrade or by who stopped its socket.
LEMMA GivesBackSafe ==
  ASSUME SocketsInv, NEW r \in Reservations, OpenFails(r) \/ StoppedReleases(r)
  PROVE  SocketsInv'
<1>1. ~Serving(r)
  BY DEF OpenFails, StoppedReleases, Pending, Bound, Serving
<1>2. reservations' = reservations \ {r}
      /\ UNCHANGED <<authenticated, closed, owner, conn, pass, rejecting, closing, releasing>>
  BY DEF OpenFails, StoppedReleases, Release
<1>3. pass \in PassType
  BY DEF SocketsInv, TypeOK, PassType
<1> QED
  BY <1>1, <1>2, <1>3, PlaceStep

\* An upgrade that fails is to be rejected.
LEMMA UpgradeFailsSafe ==
  ASSUME SocketsInv, NEW r \in Reservations, UpgradeFails(r)
  PROVE  SocketsInv'
<1>1. /\ conn[r] \in Connection /\ conn' = [conn EXCEPT ![r] = conn[r]] /\ pass \in PassType
      /\ rejecting \subseteq rejecting' /\ rejecting' \subseteq Reservations /\ SoundSocket(r)
      /\ UNCHANGED <<authenticated, closed, owner, reservations, pass, closing, releasing>>
  BY DEF UpgradeFails, Rejects, SocketsInv, TypeOK, PassType
<1>2. /\ conn[r].state = "open" => Serving(r)
      /\ conn[r].outbound > 0 => conn[r].sending
  BY <1>1 DEF SoundSocket, Serving
<1> QED
  BY <1>1, <1>2, SocketStep

\* A deadline passes: only the connection's own record of it changes.
LEMMA DeadlineSafe ==
  ASSUME SocketsInv, NEW r \in Reservations, NEW which \in Deadlines, DeadlinePasses(r, which)
  PROVE  SocketsInv'
<1> DEFINE c == [conn[r] EXCEPT !.late = @ \cup {which}]
<1>1. conn[r] \in Connection /\ SoundSocket(r) /\ pass \in PassType /\ rejecting \subseteq Reservations
  BY DEF SocketsInv, TypeOK, PassType
<1>2. c \in Connection /\ c.state = conn[r].state /\ c.outbound = conn[r].outbound /\ c.sending = conn[r].sending
  BY <1>1 DEF Connection
<1>3. conn' = [conn EXCEPT ![r] = c]
      /\ UNCHANGED <<authenticated, closed, owner, reservations, pass, rejecting, closing, releasing>>
  BY <1>1 DEF DeadlinePasses, SocketsInv, TypeOK
<1> HIDE DEF c
<1>4. /\ c.state = "open" => Serving(r)
      /\ c.outbound > 0 => c.sending
  BY <1>1, <1>2 DEF SoundSocket, Serving
<1> QED
  BY <1>1, <1>2, <1>3, <1>4, SocketStep

\* The timer: its pass stops what is late, and gives back what is late to open unless it
\* has opened meanwhile.
LEMMA TimerSafe ==
  ASSUME SocketsInv, Timer
  PROVE  SocketsInv'
<1>1. TypeOK /\ pass \in PassType
  BY DEF SocketsInv, TypeOK, PassType
<1>2. CASE StartPass
  <2>1. Late \subseteq Reservations \X Deadlines
    BY <1>1 DEF Late, TypeOK, Connection
  <2>2. pass' \in PassType
    BY <1>1, <1>2, <2>1 DEF StartPass, TypeOK, PassType
  <2>3. UNCHANGED <<authenticated, closed, owner, reservations, conn, rejecting, closing, releasing>>
    BY <1>2 DEF StartPass
  <2> QED
    BY <2>2, <2>3 DEF SocketsInv, TypeOK, PassType, PlacesInBounds, OfPrincipal, SoundSocket, Serving, Entitled
<1>3. ASSUME NEW r \in Reservations, Look(r) PROVE SocketsInv'
  <2>1. pass' \in PassType
    <3>1. Others(r) \subseteq pass.late
      BY DEF Others
    <3>2. [pass EXCEPT !.todo = @ \ {r}, !.late = Others(r)] \in PassType
      BY <1>1, <3>1 DEF PassType
    <3>3. [pass EXCEPT !.todo = @ \ {r}, !.unbound = {r}] \in PassType
      BY <1>1 DEF PassType
    <3> QED
      BY <1>3, <3>2, <3>3 DEF Look
  <2>2. UNCHANGED <<authenticated, closed, owner, reservations, rejecting, closing, releasing>>
    BY <1>3 DEF Look
  <2>3. SoundSocket(r) /\ conn[r] \in Connection /\ rejecting \subseteq Reservations
    BY <1>1 DEF SocketsInv, TypeOK
  <2>4. CASE Stop(r)
    <3>1. PICK c \in Connection : /\ conn' = [conn EXCEPT ![r] = c] /\ c.state # "open"
                                  /\ c.outbound > 0 => c.sending
      BY <2>4, StopLeaves
    <3> QED
      BY <2>1, <2>2, <2>3, <3>1, SocketStep
  <2>5. CASE UNCHANGED conn
    <3>1. /\ conn' = [conn EXCEPT ![r] = conn[r]]
          /\ conn[r].state = "open" => Serving(r)
          /\ conn[r].outbound > 0 => conn[r].sending
      BY <1>1, <2>3, <2>5 DEF TypeOK, SoundSocket, Serving
    <3> QED
      BY <2>1, <2>2, <2>3, <3>1, SocketStep
  <2> QED
    BY <1>3, <2>4, <2>5 DEF Look
<1>4. ASSUME NEW r \in Reservations, ExpirePending(r) PROVE SocketsInv'
  <2>1. pass' \in PassType
    BY <1>1, <1>4 DEF ExpirePending, PassType, Others
  <2>2. UNCHANGED <<authenticated, closed, owner, conn, rejecting, closing, releasing>>
    BY <1>4 DEF ExpirePending
  <2>3. CASE ~Serving(r) /\ Release(r)
    BY <2>1, <2>2, <2>3, PlaceStep DEF Release
  <2>4. CASE UNCHANGED reservations
    BY <2>1, <2>2, <2>4 DEF SocketsInv, TypeOK, PassType, PlacesInBounds, OfPrincipal, SoundSocket, Serving, Entitled
  <2> QED
    BY <1>4, <2>3, <2>4 DEF ExpirePending, StillUnbound, Bound, Serving
<1> QED
  BY <1>2, <1>3, <1>4 DEF Timer

\* The shutdown: whatever is served is in close's snapshot, and nothing opens after it.
LEMMA CloseSafe ==
  ASSUME SocketsInv, Close
  PROVE  SocketsInv'
<1>1. TypeOK'
  BY DEF SocketsInv, TypeOK, Close
<1>2. PlacesInBounds'
  BY FewerPlaces DEF SocketsInv, Close
<1>3. \A r \in Reservations : SoundSocket(r)'
  BY DEF SocketsInv, SoundSocket, Serving, Close
<1> QED
  BY <1>1, <1>2, <1>3 DEF SocketsInv

\* close goes through its snapshot.
LEMMA CloserSafe ==
  ASSUME SocketsInv, NEW r \in Reservations, CloseNext(r) \/ CloseReleases(r)
  PROVE  SocketsInv'
<1>1. SoundSocket(r) /\ pass \in PassType /\ rejecting \subseteq Reservations /\ releasing \subseteq Reservations
  BY DEF SocketsInv, TypeOK, PassType
<1>2. CASE CloseNext(r)
  <2>1. PICK c \in Connection : /\ conn' = [conn EXCEPT ![r] = c] /\ c.state # "open"
                                /\ c.outbound > 0 => c.sending
    BY <1>2, StopLeaves DEF CloseNext
  <2>2. /\ closed /\ closing' = closing \ {r} /\ releasing' \subseteq releasing \cup {r}
        /\ UNCHANGED <<authenticated, closed, owner, reservations, pass, rejecting>>
    BY <1>1, <1>2 DEF CloseNext, SoundSocket
  <2> QED
    BY <1>1, <2>1, <2>2, SocketStep
<1>3. CASE CloseReleases(r)
  <2>1. /\ ~Serving(r) /\ reservations' = reservations \ {r} /\ releasing' \subseteq releasing
        /\ UNCHANGED <<authenticated, closed, owner, conn, pass, rejecting, closing>>
    BY <1>1, <1>3 DEF CloseReleases, Release, SoundSocket
  <2> QED
    BY <1>1, <2>1, PlaceStep
<1> QED
  BY <1>2, <1>3

-----------------------------------------------------------------------------
(* Sockets: the theorem.                                                   *)

\* At first no place is given out.
LEMMA SocketsInitial ==
  ASSUME Init
  PROVE  SocketsInv
<1>1. TypeOK
  BY FreshConnection DEF Init, TypeOK, IdlePass
<1>2. PlacesInBounds
  <2>1. \A p \in Principals : OfPrincipal(p) = {}
    BY DEF Init, OfPrincipal
  <2>2. IsFiniteSet({}) /\ Cardinality({}) = 0 /\ GlobalLimit \in Nat /\ PrincipalLimit \in Nat
    BY FS_EmptySet DEF RegistryAssumption
  <2> QED
    BY <2>1, <2>2 DEF Init, PlacesInBounds
<1>3. \A r \in Reservations : SoundSocket(r)
  BY FreshConnection DEF Init, SoundSocket, Serving
<1> QED
  BY <1>1, <1>2, <1>3 DEF SocketsInv

\* Every step of the registry keeps the invariant.
LEMMA SocketsStep ==
  ASSUME SocketsInv, Next
  PROVE  SocketsInv'
<1>1. ASSUME NEW s \in Sessions, Invalidate(s) PROVE SocketsInv'
  BY <1>1, SessionSafe DEF Invalidate
<1>2. ASSUME NEW s \in Sessions, NEW p \in Principals, Login(s, p) PROVE SocketsInv'
  BY <1>2, SessionSafe DEF Login
<1>3. ASSUME NEW r \in Reservations, Upgrade(r) PROVE SocketsInv'
  BY <1>3, ReserveSafe, UpgradeFailsSafe, OpenSafe, GivesBackSafe DEF Upgrade
<1>4. ASSUME NEW r \in Reservations, Message(r) \/ Reject(r) \/ StoppedReleases(r) PROVE SocketsInv'
  BY <1>4, MessageSafe, RejectSafe, GivesBackSafe
<1>5. ASSUME NEW r \in Reservations, NEW which \in Deadlines, DeadlinePasses(r, which) PROVE SocketsInv'
  BY <1>5, DeadlineSafe
<1>6. CASE Timer \/ Close \/ Closer
  BY <1>6, TimerSafe, CloseSafe, CloserSafe DEF Closer
<1> QED
  BY <1>1, <1>2, <1>3, <1>4, <1>5, <1>6 DEF Next

\* The invariant says what the registry promises.
LEMMA SocketsFollow ==
  ASSUME SocketsInv
  PROVE  SocketsAreLawful
<1>1. Served \subseteq reservations
  BY DEF SocketsInv, SoundSocket, Served
<1>2. Cardinality(Served) <= GlobalLimit
  <2>1. /\ IsFiniteSet(reservations) /\ Cardinality(Served) <= Cardinality(reservations)
        /\ Cardinality(reservations) \in Nat /\ Cardinality(Served) \in Nat
    BY <1>1, FS_Subset, FS_CardinalityType DEF SocketsInv, PlacesInBounds
  <2>2. Cardinality(reservations) <= GlobalLimit /\ GlobalLimit \in Nat
    BY DEF SocketsInv, PlacesInBounds, RegistryAssumption
  <2> QED
    BY <2>1, <2>2
<1>3. ASSUME NEW p \in Principals
      PROVE  Cardinality({r \in Served : owner[r].principal = p}) <= PrincipalLimit
  <2> DEFINE S == {r \in Served : owner[r].principal = p}
  <2>1. S \subseteq OfPrincipal(p) /\ OfPrincipal(p) \subseteq reservations
    BY <1>1 DEF OfPrincipal
  <2>2. IsFiniteSet(OfPrincipal(p))
    BY <2>1, FS_Subset DEF SocketsInv, PlacesInBounds
  <2>3. /\ Cardinality(S) <= Cardinality(OfPrincipal(p))
        /\ Cardinality(OfPrincipal(p)) \in Nat /\ Cardinality(S) \in Nat
    BY <2>1, <2>2, FS_Subset, FS_CardinalityType
  <2>4. Cardinality(OfPrincipal(p)) <= PrincipalLimit /\ PrincipalLimit \in Nat
    BY DEF SocketsInv, PlacesInBounds, RegistryAssumption
  <2> QED
    BY <2>3, <2>4
<1>4. ServedAreEntitled /\ QueuesAreDriven
  BY DEF SocketsInv, SoundSocket, ServedAreEntitled, QueuesAreDriven, Served
<1> QED
  BY <1>1, <1>2, <1>3, <1>4 DEF SocketsAreLawful, ServedAreCharged, SocketsInv

\* Whatever is served is charged, entitled and driven, for any sessions, principals and
\* limits (EchoRegistry: reserve, open, rejectSession, the timer's pass and close).
THEOREM SocketsLawful == RequestSpec => []SocketsAreLawful
<1> DEFINE all == <<lab, vars, streamVars, hookVars, refundVars>>
<1>1. RequestInit => SocketsInv
  BY SocketsInitial DEF RequestInit
<1>2. SocketsInv /\ [RequestNext]_all => SocketsInv'
  <2> SUFFICES ASSUME SocketsInv, [RequestNext]_all PROVE SocketsInv'
    OBVIOUS
  <2>1. CASE Next
    BY <2>1, SocketsStep
  <2>2. CASE UNCHANGED vars
    BY <2>2 DEF vars, SocketsInv, TypeOK, PlacesInBounds, OfPrincipal, SoundSocket, Serving, Entitled
  <2> QED
    BY <2>1, <2>2 DEF RequestNext
<1>3. SocketsInv => SocketsAreLawful
  BY SocketsFollow
<1> QED
  BY <1>1, <1>2, <1>3, PTL DEF RequestSpec

-----------------------------------------------------------------------------
(* Deliveries: the inductive invariant.                                    *)

Exchange == [at : Hooks!Stages, result : Hooks!Results,
             reply : Hooks!Results \cup {"refused", "interrupted"}]

\* What a transaction found holds of its event from then on.
Found(e, result) ==
  LET stored == store.receipts[EventOf[e]] IN
  /\ result = "applied" => store.by[EventOf[e]] = e
  /\ result = "duplicate" => stored = BodyOf[e] /\ store.by[EventOf[e]] # e
  /\ result = "conflict" => stored \notin {BodyOf[e], NoBody}

\* An exchange has a result once its transaction is over, a reply once it is itself, and
\* has applied nothing before.
Uncommitted == {"new", "open", "insert", "update", "commit"}
SoundExchange(e) ==
  /\ exchange[e].at \in Uncommitted => exchange[e].result = "none" /\ store.by[EventOf[e]] # e
  /\ exchange[e].at # "over" => exchange[e].reply = "none"
  /\ exchange[e].reply \in {"refused", "interrupted"} => store.by[EventOf[e]] # e
  /\ Found(e, exchange[e].result) /\ Found(e, exchange[e].reply)
  /\ Hooks!Inserted(e) => store.receipts[EventOf[e]] = NoBody

\* The key of an event is written by one open transaction at most.
KeysHeldOnce ==
  \A e, f \in Exchanges :
    Hooks!Inserted(e) /\ Hooks!Inserted(f) /\ EventOf[e] = EventOf[f] => e = f

HooksInv ==
  /\ Hooks!TypeOK /\ Hooks!TablesAgree /\ Hooks!PlacesReturn /\ KeysHeldOnce
  /\ \A v \in Events : store.receipts[v] = NoBody => store.by[v] = Nobody
  /\ \A e \in Exchanges : SoundExchange(e)

-----------------------------------------------------------------------------
(* Deliveries: the steps.                                                  *)

\* The four deliveries are of two events, with two bodies.
LEMMA HookConstants ==
  /\ IsFiniteSet(Exchanges) /\ IsFiniteSet(Events) /\ NoBody \notin Bodies /\ Nobody \notin Exchanges
  /\ \A e \in Exchanges : EventOf[e] \in Events /\ BodyOf[e] \in Bodies
  /\ \A b \in Bodies : Amount[b] \in Nat
<1>1. IsFiniteSet(Exchanges)
  <2>1. IsFiniteSet({first}) /\ IsFiniteSet({again}) /\ IsFiniteSet({changed}) /\ IsFiniteSet({another})
    BY FS_Singleton
  <2>2. IsFiniteSet({first} \cup {again}) /\ IsFiniteSet({changed} \cup {another})
    BY <2>1, FS_Union
  <2>3. IsFiniteSet(({first} \cup {again}) \cup ({changed} \cup {another}))
    BY <2>2, FS_Union
  <2>4. ({first} \cup {again}) \cup ({changed} \cup {another}) = Exchanges
    BY DEF Exchanges
  <2> QED
    BY <2>3, <2>4
<1>2. IsFiniteSet(Events)
  <2>1. IsFiniteSet({"credit"} \cup {"other"})
    BY FS_Singleton, FS_Union
  <2>2. {"credit"} \cup {"other"} = Events
    BY DEF Events
  <2> QED
    BY <2>1, <2>2
<1>3. NoBody \notin Bodies /\ Nobody \notin Exchanges
  BY DEF RequestAssumption, Bodies, Exchanges
<1>4. \A e \in Exchanges : EventOf[e] \in Events /\ BodyOf[e] \in Bodies
  BY DEF EventOf, BodyOf, Events, Bodies
<1>5. \A b \in Bodies : Amount[b] \in Nat
  BY DEF Amount, Bodies
<1> QED
  BY <1>1, <1>2, <1>3, <1>4, <1>5

Holders(stages) == {e \in Exchanges : exchange[e].at \in stages}
Slotted == {"insert", "update", "commit", "leaving"}
Admitted == {"open", "insert", "update", "commit", "leaving", "answering"}

\* The places that are held are the exchanges at the stages between taking and giving back.
LEMMA HoldingCounts ==
  Hooks!PlacesReturn <=> /\ permits.slots + Cardinality(Holders(Slotted)) = SlotLimit
                         /\ permits.bodies + Cardinality(Holders(Admitted)) = BodyLimit
BY SameCount DEF Hooks!PlacesReturn, Hooks!Holding, Holders, Slotted, Admitted

\* A step of one exchange moves the count of the exchanges at some stages by one or not.
LEMMA HoldersStep ==
  ASSUME NEW e \in Exchanges, NEW x \in Exchange, exchange \in [Exchanges -> Exchange],
         exchange' = [exchange EXCEPT ![e] = x], NEW stages
  PROVE  LET before == exchange[e].at \in stages
             after == x.at \in stages
             held == Cardinality(Holders(stages))
         IN  /\ held \in Nat /\ Cardinality(Holders(stages)') \in Nat
             /\ (before <=> after) => Cardinality(Holders(stages)') = held
             /\ before /\ ~after => Cardinality(Holders(stages)') = held - 1
             /\ ~before /\ after => Cardinality(Holders(stages)') = held + 1
<1>1. exchange'[e] = x /\ \A f \in Exchanges \ {e} : exchange'[f] = exchange[f]
  OBVIOUS
<1>2. IsFiniteSet(Holders(stages)) /\ IsFiniteSet(Holders(stages)')
  <2>1. Holders(stages) \subseteq Exchanges /\ Holders(stages)' \subseteq Exchanges
    BY DEF Holders
  <2> QED
    BY <2>1, HookConstants, FS_Subset
<1>3. Cardinality(Holders(stages)) \in Nat /\ Cardinality(Holders(stages)') \in Nat
  BY <1>2, FS_CardinalityType
<1>4. CASE exchange[e].at \in stages /\ x.at \notin stages
  <2>1. Holders(stages)' = Holders(stages) \ {e} /\ e \in Holders(stages)
    BY <1>1, <1>4 DEF Holders
  <2> QED
    BY <1>2, <1>3, <1>4, <2>1, FS_RemoveElement
<1>5. CASE exchange[e].at \notin stages /\ x.at \in stages
  <2>1. Holders(stages)' = Holders(stages) \cup {e} /\ e \notin Holders(stages)
    BY <1>1, <1>5 DEF Holders
  <2> QED
    BY <1>2, <1>3, <1>5, <2>1, FS_AddElement
<1>6. CASE exchange[e].at \in stages <=> x.at \in stages
  <2>1. Holders(stages)' = Holders(stages)
    BY <1>1, <1>6 DEF Holders
  <2> QED
    BY <1>3, <1>6, <2>1
<1> QED
  BY <1>4, <1>5, <1>6

\* Places move with the exchange that takes or gives one back.
PlacesMove(a, b) ==
  /\ permits' \in [bodies : Nat, slots : Nat, crashes : 0..MaxCrashes]
  /\ permits'.slots = permits.slots + (IF a \in Slotted THEN 1 ELSE 0) - (IF b \in Slotted THEN 1 ELSE 0)
  /\ permits'.bodies = permits.bodies + (IF a \in Admitted THEN 1 ELSE 0) - (IF b \in Admitted THEN 1 ELSE 0)

\* They stay what the exchanges that hold them leave of the limits.
LEMMA PlacesStep ==
  ASSUME HooksInv, NEW e \in Exchanges, NEW x \in Exchange, exchange' = [exchange EXCEPT ![e] = x],
         PlacesMove(exchange[e].at, x.at)
  PROVE  Hooks!PlacesReturn' /\ permits' \in [bodies : 0..BodyLimit, slots : 0..SlotLimit, crashes : 0..MaxCrashes]
<1>1. exchange \in [Exchanges -> Exchange] /\ permits.slots \in Nat /\ permits.bodies \in Nat
      /\ SlotLimit \in Nat /\ BodyLimit \in Nat
  BY DEF HooksInv, Hooks!TypeOK, Exchange, RequestAssumption
<1>2. /\ permits.slots + Cardinality(Holders(Slotted)) = SlotLimit
      /\ permits.bodies + Cardinality(Holders(Admitted)) = BodyLimit
  BY HoldingCounts DEF HooksInv
<1>3. /\ Cardinality(Holders(Slotted)) \in Nat /\ Cardinality(Holders(Slotted)') \in Nat
      /\ Cardinality(Holders(Admitted)) \in Nat /\ Cardinality(Holders(Admitted)') \in Nat
  BY <1>1, HoldersStep
<1>4. /\ permits' \in [bodies : Nat, slots : Nat, crashes : 0..MaxCrashes]
      /\ permits'.slots = permits.slots + (IF exchange[e].at \in Slotted THEN 1 ELSE 0)
                           - (IF x.at \in Slotted THEN 1 ELSE 0)
      /\ permits'.bodies = permits.bodies + (IF exchange[e].at \in Admitted THEN 1 ELSE 0)
                            - (IF x.at \in Admitted THEN 1 ELSE 0)
  BY DEF PlacesMove
<1>5. permits'.slots + Cardinality(Holders(Slotted)') = SlotLimit
  <2>1. CASE exchange[e].at \in Slotted /\ x.at \notin Slotted
    <3>1. Cardinality(Holders(Slotted)') = Cardinality(Holders(Slotted)) - 1
      BY <1>1, <2>1, HoldersStep
    <3> QED
      BY <1>1, <1>2, <1>3, <1>4, <2>1, <3>1
  <2>2. CASE exchange[e].at \notin Slotted /\ x.at \in Slotted
    <3>1. Cardinality(Holders(Slotted)') = Cardinality(Holders(Slotted)) + 1
      BY <1>1, <2>2, HoldersStep
    <3> QED
      BY <1>1, <1>2, <1>3, <1>4, <2>2, <3>1
  <2>3. CASE exchange[e].at \in Slotted <=> x.at \in Slotted
    <3>1. Cardinality(Holders(Slotted)') = Cardinality(Holders(Slotted))
      BY <1>1, <2>3, HoldersStep
    <3> QED
      BY <1>1, <1>2, <1>3, <1>4, <2>3, <3>1
  <2> QED
    BY <2>1, <2>2, <2>3
<1>6. permits'.bodies + Cardinality(Holders(Admitted)') = BodyLimit
  <2>1. CASE exchange[e].at \in Admitted /\ x.at \notin Admitted
    <3>1. Cardinality(Holders(Admitted)') = Cardinality(Holders(Admitted)) - 1
      BY <1>1, <2>1, HoldersStep
    <3> QED
      BY <1>1, <1>2, <1>3, <1>4, <2>1, <3>1
  <2>2. CASE exchange[e].at \notin Admitted /\ x.at \in Admitted
    <3>1. Cardinality(Holders(Admitted)') = Cardinality(Holders(Admitted)) + 1
      BY <1>1, <2>2, HoldersStep
    <3> QED
      BY <1>1, <1>2, <1>3, <1>4, <2>2, <3>1
  <2>3. CASE exchange[e].at \in Admitted <=> x.at \in Admitted
    <3>1. Cardinality(Holders(Admitted)') = Cardinality(Holders(Admitted))
      BY <1>1, <2>3, HoldersStep
    <3> QED
      BY <1>1, <1>2, <1>3, <1>4, <2>3, <3>1
  <2> QED
    BY <2>1, <2>2, <2>3
<1> QED
  <2>1. Hooks!PlacesReturn'
    BY <1>5, <1>6, SameCount DEF Hooks!PlacesReturn, Hooks!Holding, Holders, Slotted, Admitted
  <2> QED
    BY <1>1, <1>3, <1>5, <1>6, <1>4, <2>1

\* A step of one exchange that leaves the tables as they are.
LEMMA ExchangeStep ==
  ASSUME HooksInv, NEW e \in Exchanges, NEW x \in Exchange, exchange' = [exchange EXCEPT ![e] = x],
         UNCHANGED store, PlacesMove(exchange[e].at, x.at),
         x.at \in Uncommitted => x.result = "none" /\ store.by[EventOf[e]] # e,
         x.at # "over" => x.reply = "none",
         x.reply \in {"refused", "interrupted"} => store.by[EventOf[e]] # e,
         Found(e, x.result), Found(e, x.reply),
         x.at \in {"update", "commit"} =>
           /\ store.receipts[EventOf[e]] = NoBody
           /\ \A f \in Exchanges \ {e} : Hooks!Inserted(f) => EventOf[f] # EventOf[e]
  PROVE  HooksInv'
<1>1. /\ exchange' \in [Exchanges -> Exchange] /\ exchange'[e] = x
      /\ \A f \in Exchanges \ {e} : exchange'[f] = exchange[f]
  BY DEF HooksInv, Hooks!TypeOK, Exchange
<1>2. Hooks!PlacesReturn' /\ permits' \in [bodies : 0..BodyLimit, slots : 0..SlotLimit, crashes : 0..MaxCrashes]
  BY PlacesStep
<1>3. Hooks!TypeOK'
  BY <1>1, <1>2 DEF HooksInv, Hooks!TypeOK, Exchange
<1>4. Hooks!TablesAgree'
  BY DEF HooksInv, Hooks!TablesAgree, Hooks!Received
<1>5. \A f \in Exchanges \ {e} : Hooks!Inserted(f)' <=> Hooks!Inserted(f)
  BY <1>1 DEF Hooks!Inserted, Hooks!At
<1>6. Hooks!Inserted(e)' <=> x.at \in {"update", "commit"}
  BY <1>1 DEF Hooks!Inserted, Hooks!At
<1>7. KeysHeldOnce'
  BY <1>5, <1>6 DEF HooksInv, KeysHeldOnce
<1>8. ASSUME NEW f \in Exchanges PROVE SoundExchange(f)'
  <2>1. CASE f = e
    BY <1>1, <1>6, <2>1 DEF SoundExchange, Found
  <2>2. CASE f # e
    BY <1>1, <1>5, <2>2 DEF HooksInv, SoundExchange, Found
  <2> QED
    BY <2>1, <2>2
<1> QED
  BY <1>2, <1>3, <1>4, <1>7, <1>8 DEF HooksInv

\* What is known of an exchange.
LEMMA ExchangeFacts ==
  ASSUME HooksInv, NEW e \in Exchanges
  PROVE  /\ exchange[e] \in Exchange /\ SoundExchange(e) /\ EventOf[e] \in Events /\ BodyOf[e] \in Bodies
         /\ permits \in [bodies : 0..BodyLimit, slots : 0..SlotLimit, crashes : 0..MaxCrashes]
         /\ permits.bodies \in Nat /\ permits.slots \in Nat /\ BodyLimit \in Nat /\ SlotLimit \in Nat /\ MaxCrashes \in Nat
<1>1. BodyLimit \in Nat /\ SlotLimit \in Nat /\ MaxCrashes \in Nat
  BY DEF RequestAssumption
<1>2. permits \in [bodies : 0..BodyLimit, slots : 0..SlotLimit, crashes : 0..MaxCrashes]
  BY DEF HooksInv, Hooks!TypeOK
<1> QED
  BY <1>1, <1>2, HookConstants DEF HooksInv, Hooks!TypeOK, Exchange

\* An exchange that has not begun: it is refused at once, or given a place for its body.
LEMMA DeliversSafe ==
  ASSUME HooksInv, NEW e \in Exchanges, Hooks!Delivers(e)
  PROVE  HooksInv'
<1>1. /\ exchange[e] \in Exchange /\ SoundExchange(e) /\ exchange[e].at = "new"
      /\ permits \in [bodies : 0..BodyLimit, slots : 0..SlotLimit, crashes : 0..MaxCrashes]
      /\ permits.bodies \in Nat /\ permits.slots \in Nat
  BY ExchangeFacts DEF Hooks!Delivers, Hooks!Refuse, Hooks!Service, Hooks!At
<1>2. CASE Hooks!Refuse(e)
  <2> DEFINE x == [exchange[e] EXCEPT !.at = "over", !.reply = "refused"]
  <2>1. x \in Exchange /\ x.at = "over" /\ x.reply = "refused" /\ x.result = exchange[e].result
    BY <1>1 DEF Exchange, Hooks!Stages, Hooks!Results
  <2>2. exchange' = [exchange EXCEPT ![e] = x] /\ UNCHANGED <<store, permits>>
    BY <1>2 DEF Hooks!Refuse, Hooks!Step
  <2> HIDE DEF x
  <2>3. PlacesMove(exchange[e].at, x.at)
    BY <1>1, <2>1, <2>2 DEF PlacesMove, Slotted, Admitted
  <2> QED
    BY <1>1, <2>1, <2>2, <2>3, ExchangeStep DEF SoundExchange, Found, Uncommitted
<1>3. CASE Hooks!Service(e)
  <2> DEFINE x == [exchange[e] EXCEPT !.at = "open"]
  <2>1. x \in Exchange /\ x.at = "open" /\ x.reply = exchange[e].reply /\ x.result = exchange[e].result
    BY <1>1 DEF Exchange, Hooks!Stages
  <2>2. exchange' = [exchange EXCEPT ![e] = x] /\ UNCHANGED store
    BY <1>3 DEF Hooks!Service, Hooks!Step, Hooks!Reaches
  <2>3. permits' = [permits EXCEPT !.bodies = @ - 1] /\ permits.bodies > 0
    BY <1>3 DEF Hooks!Service
  <2> HIDE DEF x
  <2>4. PlacesMove(exchange[e].at, x.at)
    BY <1>1, <2>1, <2>3 DEF PlacesMove, Slotted, Admitted
  <2> QED
    BY <1>1, <2>1, <2>2, <2>4, ExchangeStep DEF SoundExchange, Found, Uncommitted
<1> QED
  BY <1>2, <1>3 DEF Hooks!Delivers

\* finish gives back the place of the body, with a reply that is so.
LEMMA FinishSafe ==
  ASSUME HooksInv, NEW e \in Exchanges, exchange[e].at \in {"open", "answering"},
         NEW reply \in Hooks!Results \cup {"refused", "interrupted"}, Hooks!Finish(e, reply), UNCHANGED store,
         Found(e, reply), reply \in {"refused", "interrupted"} => store.by[EventOf[e]] # e
  PROVE  HooksInv'
<1> DEFINE x == [exchange[e] EXCEPT !.at = "over", !.reply = reply]
<1>1. /\ exchange[e] \in Exchange /\ SoundExchange(e)
      /\ permits \in [bodies : 0..BodyLimit, slots : 0..SlotLimit, crashes : 0..MaxCrashes]
      /\ permits.bodies \in Nat /\ permits.slots \in Nat
  BY ExchangeFacts
<1>2. x \in Exchange /\ x.at = "over" /\ x.reply = reply /\ x.result = exchange[e].result
  BY <1>1 DEF Exchange, Hooks!Stages
<1>3. exchange' = [exchange EXCEPT ![e] = x] /\ permits' = [permits EXCEPT !.bodies = @ + 1]
  BY DEF Hooks!Finish, Hooks!Step
<1> HIDE DEF x
<1>4. PlacesMove(exchange[e].at, x.at)
  BY <1>1, <1>2, <1>3 DEF PlacesMove, Slotted, Admitted
<1>5. x.at \notin Uncommitted \cup {"update", "commit"}
  BY <1>2 DEF Uncommitted
<1> QED
  BY <1>1, <1>2, <1>3, <1>4, <1>5, ExchangeStep DEF SoundExchange

\* The servlet's own steps.
LEMMA ServletSafe ==
  ASSUME HooksInv, NEW e \in Exchanges, Hooks!Servlet(e)
  PROVE  HooksInv'
<1>1. /\ exchange[e] \in Exchange /\ SoundExchange(e)
      /\ permits \in [bodies : 0..BodyLimit, slots : 0..SlotLimit, crashes : 0..MaxCrashes]
      /\ permits.bodies \in Nat /\ permits.slots \in Nat
  BY ExchangeFacts
<1>2. CASE Hooks!Interrupted(e) \/ Hooks!Turned(e)
  <2>1. exchange[e].at = "open" /\ store.by[EventOf[e]] # e /\ UNCHANGED store
        /\ (Hooks!Finish(e, "interrupted") \/ Hooks!Finish(e, "refused"))
    BY <1>1, <1>2 DEF Hooks!Interrupted, Hooks!Turned, Hooks!At, SoundExchange, Uncommitted
  <2>2. Found(e, "interrupted") /\ Found(e, "refused")
    BY DEF Found
  <2> QED
    BY <2>1, <2>2, FinishSafe
<1>3. CASE Hooks!AllDataRead(e)
  <2> DEFINE x == [exchange[e] EXCEPT !.at = "insert"]
  <2>1. x \in Exchange /\ x.at = "insert" /\ x.reply = exchange[e].reply /\ x.result = exchange[e].result
    BY <1>1 DEF Exchange, Hooks!Stages
  <2>2. exchange' = [exchange EXCEPT ![e] = x] /\ UNCHANGED store /\ exchange[e].at = "open"
    BY <1>3 DEF Hooks!AllDataRead, Hooks!Step, Hooks!Reaches, Hooks!At
  <2>3. permits' = [permits EXCEPT !.slots = @ - 1] /\ permits.slots > 0
    BY <1>3 DEF Hooks!AllDataRead
  <2> HIDE DEF x
  <2>4. PlacesMove(exchange[e].at, x.at)
    BY <1>1, <2>1, <2>2, <2>3 DEF PlacesMove, Slotted, Admitted
  <2> QED
    BY <1>1, <2>1, <2>2, <2>4, ExchangeStep DEF SoundExchange, Found, Uncommitted
<1>4. CASE Hooks!Answer(e)
  <2>1. /\ exchange[e].at = "answering" /\ UNCHANGED store
        /\ Hooks!Finish(e, exchange[e].result) \/ Hooks!Finish(e, "unavailable")
    BY <1>4 DEF Hooks!Answer, Hooks!At
  <2>2. exchange[e].result \in Hooks!Results /\ Found(e, exchange[e].result) /\ Found(e, "unavailable")
        /\ "unavailable" \in Hooks!Results /\ exchange[e].result \notin {"refused", "interrupted"}
    BY <1>1 DEF Exchange, SoundExchange, Found, Hooks!Results
  <2> QED
    BY <2>1, <2>2, FinishSafe
<1> QED
  BY <1>2, <1>3, <1>4 DEF Hooks!Servlet

\* A transaction's step to another of its statements, or out of it with what it found.
LEMMA StatementSafe ==
  ASSUME HooksInv, NEW e \in Exchanges, exchange[e].at \in Slotted,
         NEW x \in Exchange, exchange' = [exchange EXCEPT ![e] = x], UNCHANGED <<store, permits>>,
         x.at \in Slotted, x.reply = exchange[e].reply, Found(e, x.result),
         x.at \in Uncommitted => exchange[e].at \in Uncommitted /\ x.result = exchange[e].result,
         x.at \in {"update", "commit"} =>
           /\ store.receipts[EventOf[e]] = NoBody
           /\ \A f \in Exchanges \ {e} : Hooks!Inserted(f) => EventOf[f] # EventOf[e]
  PROVE  HooksInv'
<1>1. /\ SoundExchange(e) /\ permits \in [bodies : 0..BodyLimit, slots : 0..SlotLimit, crashes : 0..MaxCrashes]
      /\ permits.bodies \in Nat /\ permits.slots \in Nat
  BY ExchangeFacts
<1>2. PlacesMove(exchange[e].at, x.at)
  <2>1. Slotted \subseteq Admitted
    BY DEF Slotted, Admitted
  <2> QED
    BY <1>1, <2>1 DEF PlacesMove
<1>3. exchange[e].at # "over" /\ x.at # "over"
  BY DEF Slotted
<1> QED
  BY <1>1, <1>2, <1>3, ExchangeStep DEF SoundExchange

\* Who finds the key free has it alone, since it waits for the others at it.
LEMMA InsertReceiptSafe ==
  ASSUME HooksInv, NEW e \in Exchanges, Hooks!InsertReceipt(e)
  PROVE  HooksInv'
<1>1. /\ exchange[e] \in Exchange /\ SoundExchange(e) /\ exchange[e].at = "insert" /\ BodyOf[e] \in Bodies
      /\ UNCHANGED <<store, permits>>
  BY ExchangeFacts DEF Hooks!InsertReceipt, Hooks!At
<1>2. exchange[e].at \in Slotted /\ exchange[e].at \in Uncommitted
  BY <1>1 DEF Slotted, Uncommitted
<1>3. CASE store.receipts[EventOf[e]] = NoBody
  <2> DEFINE x == [exchange[e] EXCEPT !.at = "update"]
  <2>1. x \in Exchange /\ x.at = "update" /\ x.reply = exchange[e].reply /\ x.result = exchange[e].result
    BY <1>1 DEF Exchange, Hooks!Stages
  <2>2. exchange' = [exchange EXCEPT ![e] = x]
    BY <1>3 DEF Hooks!InsertReceipt, Hooks!Step, Hooks!Reaches
  <2>3. \A f \in Exchanges \ {e} : Hooks!Inserted(f) => EventOf[f] # EventOf[e]
    BY DEF Hooks!InsertReceipt, Hooks!KeyLocked
  <2> HIDE DEF x
  <2>4. x.at \in Slotted /\ Found(e, x.result)
    BY <1>1, <2>1 DEF Slotted, SoundExchange
  <2> QED
    BY <1>1, <1>2, <1>3, <2>1, <2>2, <2>3, <2>4, StatementSafe
<1>4. CASE store.receipts[EventOf[e]] # NoBody
  <2> DEFINE result == IF store.receipts[EventOf[e]] = BodyOf[e] THEN "duplicate" ELSE "conflict"
             x == [exchange[e] EXCEPT !.at = "leaving", !.result = result]
  <2>1. Found(e, result) /\ result \in Hooks!Results
    BY <1>1, <1>4 DEF Found, SoundExchange, Uncommitted, Hooks!Results
  <2>2. exchange' = [exchange EXCEPT ![e] = x]
    BY <1>4 DEF Hooks!InsertReceipt, Hooks!Step, Hooks!Concludes
  <2> HIDE DEF result
  <2>3. x \in Exchange /\ x.at = "leaving" /\ x.reply = exchange[e].reply /\ x.result = result
    BY <1>1, <2>1 DEF Exchange, Hooks!Stages
  <2> HIDE DEF x
  <2>4. x.at \in Slotted /\ x.at \notin Uncommitted
    BY <2>3 DEF Slotted, Uncommitted
  <2> QED
    BY <1>1, <1>2, <2>1, <2>2, <2>3, <2>4, StatementSafe
<1> QED
  BY <1>3, <1>4

\* A transaction that rolls back, and one that takes the row of the balance.
LEMMA RollsOnSafe ==
  ASSUME HooksInv, NEW e \in Exchanges, Hooks!RollsBack(e) \/ Hooks!UpdateBalance(e)
  PROVE  HooksInv'
<1>1. /\ exchange[e] \in Exchange /\ SoundExchange(e) /\ UNCHANGED <<store, permits>>
      /\ exchange[e].at \in {"insert", "update", "commit"}
  BY ExchangeFacts DEF Hooks!RollsBack, Hooks!UpdateBalance, Hooks!At, Hooks!Inserted
<1>2. exchange[e].at \in Slotted /\ exchange[e].at \in Uncommitted
  BY <1>1 DEF Slotted, Uncommitted
<1>3. CASE Hooks!RollsBack(e)
  <2> DEFINE x == [exchange[e] EXCEPT !.at = "leaving", !.result = "unavailable"]
  <2>1. x \in Exchange /\ x.at = "leaving" /\ x.reply = exchange[e].reply /\ x.result = "unavailable"
    BY <1>1 DEF Exchange, Hooks!Stages, Hooks!Results
  <2>2. exchange' = [exchange EXCEPT ![e] = x]
    BY <1>3 DEF Hooks!RollsBack, Hooks!Step, Hooks!Concludes
  <2> HIDE DEF x
  <2>3. x.at \in Slotted /\ Found(e, x.result) /\ x.at \notin Uncommitted
    BY <2>1 DEF Slotted, Found, Uncommitted
  <2> QED
    BY <1>1, <1>2, <2>1, <2>2, <2>3, StatementSafe
<1>4. CASE Hooks!UpdateBalance(e)
  <2> DEFINE x == [exchange[e] EXCEPT !.at = "commit"]
  <2>1. x \in Exchange /\ x.at = "commit" /\ x.reply = exchange[e].reply /\ x.result = exchange[e].result
    BY <1>1 DEF Exchange, Hooks!Stages
  <2>2. exchange' = [exchange EXCEPT ![e] = x] /\ exchange[e].at = "update"
    BY <1>4 DEF Hooks!UpdateBalance, Hooks!Step, Hooks!Reaches, Hooks!At
  <2>3. Hooks!Inserted(e)
    BY <2>2 DEF Hooks!Inserted, Hooks!At
  <2>4. store.receipts[EventOf[e]] = NoBody
    BY <1>1, <2>3 DEF SoundExchange
  <2>5. \A f \in Exchanges \ {e} : Hooks!Inserted(f) => EventOf[f] # EventOf[e]
    BY <2>3 DEF HooksInv, KeysHeldOnce
  <2> HIDE DEF x
  <2>6. x.at \in Slotted /\ Found(e, x.result)
    BY <1>1, <2>1 DEF Slotted, SoundExchange
  <2> QED
    BY <1>1, <1>2, <2>1, <2>2, <2>4, <2>5, <2>6, StatementSafe
<1> QED
  BY <1>3, <1>4

\* The slot returns before the answer.
LEMMA LeaveSlotSafe ==
  ASSUME HooksInv, NEW e \in Exchanges, Hooks!Leave(e)
  PROVE  HooksInv'
<1> DEFINE x == [exchange[e] EXCEPT !.at = "answering"]
<1>1. /\ exchange[e] \in Exchange /\ SoundExchange(e)
      /\ permits \in [bodies : 0..BodyLimit, slots : 0..SlotLimit, crashes : 0..MaxCrashes]
      /\ permits.bodies \in Nat /\ permits.slots \in Nat
  BY ExchangeFacts
<1>2. x \in Exchange /\ x.at = "answering" /\ x.reply = exchange[e].reply /\ x.result = exchange[e].result
  BY <1>1 DEF Exchange, Hooks!Stages
<1>3. /\ exchange' = [exchange EXCEPT ![e] = x] /\ permits' = [permits EXCEPT !.slots = @ + 1]
      /\ UNCHANGED store /\ exchange[e].at = "leaving"
  BY DEF Hooks!Leave, Hooks!Step, Hooks!Reaches, Hooks!At
<1> HIDE DEF x
<1>4. PlacesMove(exchange[e].at, x.at)
  BY <1>1, <1>2, <1>3 DEF PlacesMove, Slotted, Admitted
<1>5. x.at \notin Uncommitted
  BY <1>2 DEF Uncommitted
<1> QED
  BY <1>1, <1>2, <1>3, <1>4, <1>5, ExchangeStep DEF SoundExchange

\* The instance adds as this module does.
LEMMA SameSum ==
  ASSUME NEW f, NEW S
  PROVE  Hooks!SumFunctionOnSet(f, S) = SumFunctionOnSet(f, S)
BY Zenon DEF SumFunctionOnSet, FoldFunctionOnSet, MapThenFoldSet,
   Hooks!SumFunctionOnSet, Hooks!FoldFunctionOnSet, Hooks!MapThenFoldSet

\* The commit of an event's first transaction adds its receipt, its effect and its amount.
LEMMA CommitTables ==
  ASSUME HooksInv, NEW v \in Events, store.receipts[v] = NoBody, NEW b \in Bodies, NEW e,
         store' = [receipts |-> [store.receipts EXCEPT ![v] = b], effects |-> store.effects \cup {v},
                   balance |-> store.balance + Amount[b], by |-> [store.by EXCEPT ![v] = e]]
  PROVE  Hooks!TablesAgree' /\ store'.balance \in Nat
<1> DEFINE R == Hooks!Received
           old == [u \in R |-> Amount[store.receipts[u]]]
           new == [u \in R \cup {v} |-> Amount[store'.receipts[u]]]
<1>1. /\ store.receipts \in [Events -> Bodies \cup {NoBody}]
      /\ store'.receipts = [store.receipts EXCEPT ![v] = b] /\ store'.effects = store.effects \cup {v}
      /\ store'.balance = store.balance + Amount[b]
  BY DEF HooksInv, Hooks!TypeOK
<1>2. store'.receipts[v] = b /\ \A u \in Events \ {v} : store'.receipts[u] = store.receipts[u]
  BY <1>1
<1>3. b # NoBody /\ Amount[b] \in Nat
  BY HookConstants
<1>4. R \subseteq Events /\ v \notin R /\ \A u \in R : store.receipts[u] \in Bodies
  BY <1>1 DEF Hooks!Received
<1>5. Hooks!Received' = R \cup {v}
  <2>1. ASSUME NEW u PROVE u \in Hooks!Received' <=> u \in R \cup {v}
    <3>1. CASE u = v
      BY <1>2, <1>3, <3>1 DEF Hooks!Received
    <3>2. CASE u # v
      BY <1>2, <3>2 DEF Hooks!Received
    <3> QED BY <3>1, <3>2
  <2> QED BY <2>1
<1>6. IsFiniteSet(R)
  BY <1>4, HookConstants, FS_Subset
<1>7. store.balance = SumFunctionOnSet(old, R) /\ store.effects = R /\ store.balance \in Nat
  BY SameSum DEF HooksInv, Hooks!TablesAgree, Hooks!TypeOK
<1>8. \A u \in R : new[u] = old[u] /\ old[u] \in Nat
  BY <1>2, <1>4, HookConstants
<1>9. new[v] = Amount[b]
  BY <1>2
<1>10. [u \in R \cup {v} |-> Amount[store'.receipts[u]]] = new
  OBVIOUS
<1> HIDE DEF R, old, new
<1>11. SumFunctionOnSet(new, R) = SumFunctionOnSet(old, R)
  BY <1>6, <1>8, SumSame
<1>12. SumFunctionOnSet(new, R \cup {v}) = Amount[b] + SumFunctionOnSet(new, R)
  <2>1. \A u \in R \cup {v} : new[u] \in Nat
    BY <1>3, <1>8, <1>9
  <2> QED
    BY <1>4, <1>6, <1>9, <2>1, SumAdd
<1>13. store'.balance = SumFunctionOnSet(new, R \cup {v})
  BY <1>1, <1>3, <1>7, <1>11, <1>12
<1>14. SumFunctionOnSet(new, R \cup {v}) = Hooks!SumFunctionOnSet([u \in Hooks!Received |-> Amount[store.receipts[u]]], Hooks!Received)'
  BY <1>5, <1>10, SameSum
<1> QED
  BY <1>1, <1>3, <1>5, <1>7, <1>13, <1>14 DEF Hooks!TablesAgree

\* The commit: who has the key applies the event, once.
LEMMA CommitReceiptSafe ==
  ASSUME HooksInv, NEW e \in Exchanges, Hooks!Commit(e)
  PROVE  HooksInv'
<1>1. PICK v \in Events, b \in Bodies : v = EventOf[e] /\ b = BodyOf[e]
  BY HookConstants
<1>2. /\ exchange[e] \in Exchange /\ SoundExchange(e) /\ exchange[e].at = "commit" /\ UNCHANGED permits
      /\ permits \in [bodies : 0..BodyLimit, slots : 0..SlotLimit, crashes : 0..MaxCrashes]
      /\ permits.bodies \in Nat /\ permits.slots \in Nat
  BY ExchangeFacts DEF Hooks!Commit, Hooks!At
<1>3. PICK result \in {"applied", "unavailable"} : Hooks!Concludes(e, result)
  BY DEF Hooks!Commit
<1> DEFINE x == [exchange[e] EXCEPT !.at = "leaving", !.result = result]
<1>4. x \in Exchange /\ x.at = "leaving" /\ x.reply = "none" /\ x.result = result
  BY <1>2 DEF Exchange, Hooks!Stages, Hooks!Results, SoundExchange
<1>5. exchange' = [exchange EXCEPT ![e] = x]
  BY <1>3 DEF Hooks!Concludes, Hooks!Step
<1> HIDE DEF x
<1>6. /\ exchange' \in [Exchanges -> Exchange] /\ exchange'[e] = x
      /\ \A f \in Exchanges \ {e} : exchange'[f] = exchange[f]
  BY <1>4, <1>5 DEF HooksInv, Hooks!TypeOK, Exchange
<1>7. Hooks!Inserted(e) /\ store.receipts[v] = NoBody
  BY <1>1, <1>2 DEF Hooks!Inserted, Hooks!At, SoundExchange
<1>8. store' = [receipts |-> [store.receipts EXCEPT ![v] = b], effects |-> store.effects \cup {v},
                balance |-> store.balance + Amount[b], by |-> [store.by EXCEPT ![v] = e]]
  BY <1>1 DEF Hooks!Commit
<1>9. /\ store'.receipts \in [Events -> Bodies \cup {NoBody}] /\ store'.by \in [Events -> Exchanges \cup {Nobody}]
      /\ store'.effects \subseteq Events
      /\ store'.receipts[v] = b /\ \A u \in Events \ {v} : store'.receipts[u] = store.receipts[u]
      /\ store'.by[v] = e /\ \A u \in Events \ {v} : store'.by[u] = store.by[u]
  BY <1>8 DEF HooksInv, Hooks!TypeOK
<1>10. Hooks!TablesAgree' /\ store'.balance \in Nat
  BY <1>7, <1>8, CommitTables
<1>11. PlacesMove(exchange[e].at, x.at)
  BY <1>2, <1>4 DEF PlacesMove, Slotted, Admitted
<1>12. Hooks!PlacesReturn' /\ permits' \in [bodies : 0..BodyLimit, slots : 0..SlotLimit, crashes : 0..MaxCrashes]
  BY <1>4, <1>5, <1>11, PlacesStep
<1>13. Hooks!TypeOK'
  BY <1>6, <1>9, <1>10, <1>12 DEF Hooks!TypeOK, Exchange
<1>14. \A f \in Exchanges \ {e} : Hooks!Inserted(f)' <=> Hooks!Inserted(f)
  BY <1>6 DEF Hooks!Inserted, Hooks!At
<1>15. ~Hooks!Inserted(e)'
  BY <1>4, <1>6 DEF Hooks!Inserted, Hooks!At
<1>16. KeysHeldOnce'
  BY <1>14, <1>15 DEF HooksInv, KeysHeldOnce
<1>17. \A u \in Events : store'.receipts[u] = NoBody => store'.by[u] = Nobody
  <2>1. b # NoBody
    BY HookConstants
  <2> QED
    BY <1>9, <2>1 DEF HooksInv
<1>18. ASSUME NEW f \in Exchanges PROVE SoundExchange(f)'
  <2>1. CASE f = e
    BY <1>1, <1>3, <1>4, <1>6, <1>9, <1>15, <2>1 DEF SoundExchange, Found, Uncommitted
  <2>2. CASE f # e
    <3>1. EventOf[f] \in Events /\ SoundExchange(f)
      BY HookConstants DEF HooksInv
    <3>2. CASE EventOf[f] # v
      BY <1>6, <1>9, <1>14, <2>2, <3>1, <3>2 DEF SoundExchange, Found
    <3>3. CASE EventOf[f] = v
      <4>1. ~Hooks!Inserted(f) /\ ~Hooks!Inserted(f)'
        BY <1>1, <1>7, <1>14, <2>2, <3>3 DEF HooksInv, KeysHeldOnce
      <4>2. store.by[v] = Nobody /\ Nobody # f /\ b # NoBody /\ BodyOf[f] \in Bodies
        BY <1>7, HookConstants DEF HooksInv
      <4>3. Found(f, exchange[f].result) /\ Found(f, exchange[f].reply)
        BY <3>1 DEF SoundExchange
      <4>4. ASSUME NEW told, Found(f, told)
            PROVE  told \notin {"applied", "duplicate", "conflict"}
        <5>1. told # "applied"
          BY <3>3, <4>2, <4>4 DEF Found
        <5>2. told # "duplicate"
          <6>1. store.receipts[EventOf[f]] # BodyOf[f]
            BY <1>7, <3>3, <4>2, HookConstants
          <6> QED
            BY <4>4, <6>1 DEF Found
        <5>3. told # "conflict"
          BY <1>7, <3>3, <4>4 DEF Found
        <5> QED
          BY <5>1, <5>2, <5>3
      <4>5. Found(f, exchange[f].result)' /\ Found(f, exchange[f].reply)'
        BY <1>6, <2>2, <4>3, <4>4 DEF Found
      <4>6. store'.by[EventOf[f]] # f
        BY <1>9, <2>2, <3>3
      <4> QED
        BY <1>6, <2>2, <3>1, <4>1, <4>5, <4>6 DEF SoundExchange
    <3> QED
      BY <3>2, <3>3
  <2> QED
    BY <2>1, <2>2
<1> QED
  BY <1>10, <1>12, <1>13, <1>16, <1>17, <1>18 DEF HooksInv

\* After a crash no place is held, and what was committed stands.
LEMMA CrashSafe ==
  ASSUME HooksInv, Hooks!Crash
  PROVE  HooksInv'
<1>1. /\ permits' = [bodies |-> BodyLimit, slots |-> SlotLimit, crashes |-> permits.crashes + 1]
      /\ permits.crashes < MaxCrashes /\ store' = store
      /\ permits.crashes \in 0..MaxCrashes /\ BodyLimit \in Nat /\ SlotLimit \in Nat /\ MaxCrashes \in Nat
  BY DEF Hooks!Crash, HooksInv, Hooks!TypeOK, RequestAssumption
<1>2. ASSUME NEW e \in Exchanges
      PROVE  /\ exchange'[e] \in Exchange /\ exchange'[e].at \in {"new", "over", "gone"}
             /\ exchange'[e].result = exchange[e].result /\ exchange'[e].reply = exchange[e].reply
             /\ exchange'[e].at # "gone" => exchange'[e].at = exchange[e].at
             /\ exchange'[e].at = "gone" => exchange[e].at # "over"
  <2>1. exchange[e] \in Exchange
    BY ExchangeFacts
  <2>2. CASE exchange[e].at \in {"new", "over"}
    BY <2>1, <2>2 DEF Hooks!Crash, Hooks!At
  <2>3. CASE exchange[e].at \notin {"new", "over"}
    <3>1. exchange'[e] = [exchange[e] EXCEPT !.at = "gone"]
      BY <2>3 DEF Hooks!Crash, Hooks!At
    <3> QED
      BY <2>1, <2>3, <3>1 DEF Exchange, Hooks!Stages
  <2> QED
    BY <2>2, <2>3
<1>3. exchange' \in [Exchanges -> Exchange]
  <2>1. exchange' = [e \in Exchanges |-> exchange'[e]]
    BY DEF Hooks!Crash
  <2> QED
    BY <1>2, <2>1
<1>4. permits' \in [bodies : 0..BodyLimit, slots : 0..SlotLimit, crashes : 0..MaxCrashes]
  <2>1. permits.crashes + 1 \in 0..MaxCrashes
    BY <1>1
  <2> QED
    BY <1>1, <2>1
<1>5. Hooks!TypeOK'
  BY <1>1, <1>3, <1>4 DEF HooksInv, Hooks!TypeOK, Exchange
<1>6. Hooks!TablesAgree'
  BY <1>1 DEF HooksInv, Hooks!TablesAgree, Hooks!Received
<1>7. Hooks!PlacesReturn'
  <2>1. Holders(Slotted)' = {} /\ Holders(Admitted)' = {}
    BY <1>2 DEF Holders, Slotted, Admitted
  <2>2. /\ permits'.slots + Cardinality(Holders(Slotted)') = SlotLimit
        /\ permits'.bodies + Cardinality(Holders(Admitted)') = BodyLimit
    BY <1>1, <2>1, FS_EmptySet
  <2> QED
    BY <2>2, SameCount DEF Hooks!PlacesReturn, Hooks!Holding, Holders, Slotted, Admitted
<1>8. \A e \in Exchanges : ~Hooks!Inserted(e)'
  BY <1>2 DEF Hooks!Inserted, Hooks!At
<1>9. ASSUME NEW e \in Exchanges PROVE SoundExchange(e)'
  BY <1>1, <1>2, <1>8 DEF HooksInv, SoundExchange, Found, Uncommitted
<1> QED
  BY <1>1, <1>5, <1>6, <1>7, <1>8, <1>9 DEF HooksInv, KeysHeldOnce

-----------------------------------------------------------------------------
(* Deliveries: the theorem.                                                *)

\* At first nothing was delivered.
LEMMA HooksInitial ==
  ASSUME Hooks!Init
  PROVE  HooksInv
<1>1. /\ exchange = [e \in Exchanges |-> [at |-> "new", result |-> "none", reply |-> "none"]]
      /\ store = [receipts |-> [v \in Events |-> NoBody], effects |-> {}, balance |-> 0,
                  by |-> [v \in Events |-> Nobody]]
      /\ permits = [bodies |-> BodyLimit, slots |-> SlotLimit, crashes |-> 0]
      /\ BodyLimit \in Nat /\ SlotLimit \in Nat /\ MaxCrashes \in Nat
  BY DEF Hooks!Init, Hooks!NewExchange, RequestAssumption
<1>2. Hooks!TypeOK
  <2>1. 0 \in 0..MaxCrashes /\ BodyLimit \in 0..BodyLimit /\ SlotLimit \in 0..SlotLimit
    BY <1>1
  <2>2. exchange \in [Exchanges -> Exchange]
    BY <1>1 DEF Exchange, Hooks!Stages, Hooks!Results
  <2> QED
    BY <1>1, <2>1, <2>2 DEF Hooks!TypeOK, Exchange
<1>3. Hooks!TablesAgree
  <2>1. Hooks!Received = {}
    BY <1>1 DEF Hooks!Received
  <2>2. \A f : Hooks!SumFunctionOnSet(f, {}) = 0
    BY SumEmpty, SameSum
  <2> QED
    BY <1>1, <2>1, <2>2 DEF Hooks!TablesAgree
<1>4. Hooks!PlacesReturn
  <2>1. Holders(Slotted) = {} /\ Holders(Admitted) = {}
    BY <1>1 DEF Holders, Slotted, Admitted
  <2> QED
    BY <1>1, <2>1, FS_EmptySet, HoldingCounts
<1>5. \A e \in Exchanges : ~Hooks!Inserted(e)
  BY <1>1 DEF Hooks!Inserted, Hooks!At
<1>6. \A v \in Events : store.by[v] = Nobody
  BY <1>1
<1>7. ASSUME NEW e \in Exchanges PROVE SoundExchange(e)
  <2>1. exchange[e].at = "new" /\ exchange[e].result = "none" /\ exchange[e].reply = "none"
    BY <1>1
  <2>2. store.by[EventOf[e]] # e
    BY <1>6, HookConstants
  <2> QED
    BY <1>5, <2>1, <2>2 DEF SoundExchange, Found
<1> QED
  BY <1>2, <1>3, <1>4, <1>5, <1>6, <1>7 DEF HooksInv, KeysHeldOnce

\* Every step of the intake keeps the invariant.
LEMMA HooksStep ==
  ASSUME HooksInv, Hooks!Next
  PROVE  HooksInv'
<1>1. ASSUME NEW e \in Exchanges, Hooks!Delivers(e) PROVE HooksInv'
  BY <1>1, DeliversSafe
<1>2. ASSUME NEW e \in Exchanges, Hooks!Servlet(e) PROVE HooksInv'
  BY <1>2, ServletSafe
<1>3. ASSUME NEW e \in Exchanges, Hooks!Store(e) PROVE HooksInv'
  BY <1>3, RollsOnSafe, InsertReceiptSafe, CommitReceiptSafe, LeaveSlotSafe DEF Hooks!Store
<1>4. CASE Hooks!Crash
  BY <1>4, CrashSafe
<1> QED
  BY <1>1, <1>2, <1>3, <1>4 DEF Hooks!Next

\* The tables agree, an event is applied once and what senders were told is so, for any
\* interleaving of the exchanges and crashes between them (WebhookServlet and EventStore).
THEOREM DeliveriesLawful == RequestSpec => []DeliveriesAreLawful
<1> DEFINE all == <<lab, vars, streamVars, hookVars, refundVars>>
<1>1. RequestInit => HooksInv
  BY HooksInitial DEF RequestInit
<1>2. HooksInv /\ [RequestNext]_all => HooksInv'
  <2> SUFFICES ASSUME HooksInv, [RequestNext]_all PROVE HooksInv'
    OBVIOUS
  <2>1. CASE Hooks!Next
    BY <2>1, HooksStep
  <2>2. CASE UNCHANGED hookVars
    <3>1. exchange' = exchange /\ store' = store /\ permits' = permits
      BY <2>2 DEF hookVars
    <3>2. Hooks!TypeOK' /\ Hooks!TablesAgree' /\ Hooks!PlacesReturn'
      BY <3>1 DEF HooksInv, Hooks!TypeOK, Hooks!TablesAgree, Hooks!Received, Hooks!PlacesReturn, Hooks!Holding
    <3>3. KeysHeldOnce' /\ \A e \in Exchanges : SoundExchange(e)'
      BY <3>1 DEF HooksInv, KeysHeldOnce, SoundExchange, Found, Hooks!Inserted, Hooks!At
    <3> QED
      BY <3>1, <3>2, <3>3 DEF HooksInv
  <2> QED
    BY <2>1, <2>2 DEF RequestNext
<1>3. HooksInv => DeliveriesAreLawful
  <2> SUFFICES ASSUME HooksInv PROVE DeliveriesAreLawful
    OBVIOUS
  <2>1. Hooks!RepliesAreTrue
    BY DEF HooksInv, SoundExchange, Found, Hooks!RepliesAreTrue
  <2> QED
    BY <2>1 DEF HooksInv, DeliveriesAreLawful, Hooks!DeliveriesAreLawful
<1> QED
  BY <1>1, <1>2, <1>3, PTL DEF RequestSpec

-----------------------------------------------------------------------------
(* Streams: the inductive invariant.                                       *)

Early == {"new", "entered", "acquired"}
Seen == [content : 0..ContentLimit, usage : BOOLEAN]
Status == {"complete", "refused", "incomplete", "failed", "cancelled"}
Result == [status : Status, seen : Seen]

Handle ==
  [caller : Early \cup {"added", "checked", "spent", "scheduled", "requested", "sent", "assigned", "returned"},
   result : {Streams!NoResult} \cup Result,
   ending : {"no", "timer", "body", "wire", "place", "answer", "done"},
   admitted : BOOLEAN, requested : BOOLEAN, answered : BOOLEAN,
   seen : Seen,
   wire : {"none", "open", "failed", "cancelled", "done"}, sub : {"none", "open", "cancelled"},
   reader : {"none", "subscribed", "reading", "ending", "over"},
   outcome : {"none", "complete", "refused", "incomplete", "failed"}]

Client ==
  [stage : {"open", "closed", "cancelling", "shut"}, left : SUBSET Handles, permits : 0..ConcurrentCalls,
   calls : 0..CallLimit, active : SUBSET Handles, timers : SUBSET Handles]

\* Complete is said of a stream whose final frame came after content.
Deserved(status, seen) == status = "complete" => seen.usage /\ seen.content > 0

\* Whoever comes last to a field cancels what it stands for: finish when start had assigned
\* the exchange, start otherwise; finish when the subscriber had subscribed, the subscriber
\* otherwise.
SoundEnding(s) ==
  /\ s.result = Streams!NoResult <=> s.ending = "no"
  /\ s.ending # "no" => s.result \in Result /\ s.result.seen = s.seen /\ Deserved(s.result.status, s.seen)
  /\ s.ending \in {"answer", "done"} => ~s.admitted
  /\ s.answered => s.ending = "done"
  /\ s.caller = "returned" /\ s.ending \in {"place", "answer", "done"} => s.wire # "open"
  /\ s.sub = "open" /\ s.ending \notin {"no", "timer", "body"} => s.reader = "subscribed"

SoundProgress(s) ==
  /\ s.wire # "none" => s.caller \in {"sent", "assigned", "returned"}
  /\ s.reader # "none" => s.wire # "none"
  /\ s.requested => s.caller \in {"requested", "sent", "assigned", "returned"}
  /\ s.admitted => s.caller \notin {"new", "entered"}
  /\ s.reader = "ending" => s.outcome # "none" /\ Deserved(s.outcome, s.seen)

\* A handle is in active from its adding to its end, and once close has taken its snapshot
\* only what is left of that has not ended; a handle that ends has been added or refused.
Kept(h, s, c) ==
  /\ s.caller \in Early => s.ending = "no" /\ h \notin c.active \cup c.left \cup c.timers
  /\ s.ending \in {"answer", "done"} => h \notin c.active
  /\ s.caller \notin Early /\ s.ending = "no" => h \in c.active
  /\ c.stage \in {"cancelling", "shut"} /\ s.caller \notin Early \cup {"added"} /\ s.ending = "no" =>
       c.stage = "cancelling" /\ h \in c.left

\* What a call has spent of the budget, requested or not yet.
Spent(s) == s.requested \/ s.caller \in {"spent", "scheduled"}
AdmittedHandles == {h \in Handles : stream[h].admitted}
SpentHandles == {h \in Handles : Spent(stream[h])}

StreamsInv ==
  /\ stream \in [Handles -> Handle] /\ client \in Client
  /\ \A h \in Handles : /\ SoundEnding(stream[h]) /\ SoundProgress(stream[h])
                        /\ Kept(h, stream[h], client)
  /\ client.permits + Cardinality(AdmittedHandles) = ConcurrentCalls
  /\ Cardinality(SpentHandles) <= client.calls

-----------------------------------------------------------------------------
(* Streams: the steps.                                                     *)

\* The limits are numbers, and a set of handles has a size.
LEMMA StreamConstants ==
  /\ ConcurrentCalls \in Nat /\ CallLimit \in Nat /\ ContentLimit \in Nat
  /\ \A S \in SUBSET Handles : IsFiniteSet(S) /\ Cardinality(S) \in Nat
<1>1. ConcurrentCalls \in Nat /\ CallLimit \in Nat /\ ContentLimit \in Nat
  BY DEF RequestAssumption
<1>2. ASSUME NEW S \in SUBSET Handles PROVE IsFiniteSet(S) /\ Cardinality(S) \in Nat
  <2>1. IsFiniteSet(Handles)
    BY DEF RequestAssumption
  <2> QED
    BY <2>1, FS_Subset, FS_CardinalityType
<1> QED
  BY <1>1, <1>2

\* A step of one handle that keeps the count of places and of calls.
LEMMA StreamStep ==
  ASSUME StreamsInv, NEW h \in Handles, NEW s \in Handle, SoundEnding(s), SoundProgress(s),
         stream' = [stream EXCEPT ![h] = s], client' \in Client, Kept(h, s, client'),
         client'.stage = client.stage, client'.active \ {h} = client.active \ {h},
         client'.left \ {h} = client.left \ {h}, client'.timers \ {h} = client.timers \ {h},
         client'.permits = client.permits + (IF stream[h].admitted THEN 1 ELSE 0) - (IF s.admitted THEN 1 ELSE 0),
         client'.calls >= client.calls + (IF Spent(s) /\ ~Spent(stream[h]) THEN 1 ELSE 0)
  PROVE  StreamsInv'
<1>1. /\ stream' \in [Handles -> Handle] /\ stream'[h] = s
      /\ \A k \in Handles \ {h} : stream'[k] = stream[k]
  BY DEF StreamsInv
<1>2. ASSUME NEW k \in Handles
      PROVE  SoundEnding(stream'[k]) /\ SoundProgress(stream'[k]) /\ Kept(k, stream'[k], client')
  <2>1. CASE k = h
    BY <1>1, <2>1
  <2>2. CASE k # h
    <3>1. SoundEnding(stream[k]) /\ SoundProgress(stream[k]) /\ Kept(k, stream[k], client)
      BY DEF StreamsInv
    <3>2. /\ k \in client'.active <=> k \in client.active
          /\ k \in client'.left <=> k \in client.left
          /\ k \in client'.timers <=> k \in client.timers
      BY <2>2
    <3> QED
      BY <1>1, <2>2, <3>1, <3>2 DEF Kept
  <2> QED
    BY <2>1, <2>2
<1>3. /\ client.permits \in Nat /\ client.calls \in Nat /\ client'.permits \in Nat /\ client'.calls \in Nat
      /\ client.permits + Cardinality(AdmittedHandles) = ConcurrentCalls
      /\ Cardinality(SpentHandles) <= client.calls
  BY StreamConstants DEF StreamsInv, Client
<1>4. /\ IsFiniteSet(AdmittedHandles) /\ Cardinality(AdmittedHandles) \in Nat
      /\ IsFiniteSet(SpentHandles) /\ Cardinality(SpentHandles) \in Nat
      /\ IsFiniteSet(AdmittedHandles') /\ Cardinality(AdmittedHandles') \in Nat
      /\ IsFiniteSet(SpentHandles') /\ Cardinality(SpentHandles') \in Nat
  <2>1. AdmittedHandles \subseteq Handles /\ SpentHandles \subseteq Handles
        /\ AdmittedHandles' \subseteq Handles /\ SpentHandles' \subseteq Handles
    BY DEF AdmittedHandles, SpentHandles
  <2> QED
    BY <2>1, StreamConstants
<1>5. stream[h].admitted \in BOOLEAN /\ s.admitted \in BOOLEAN
  BY DEF StreamsInv, Handle
<1>6. client'.permits + Cardinality(AdmittedHandles') = ConcurrentCalls
  <2>1. CASE stream[h].admitted /\ ~s.admitted
    <3>1. AdmittedHandles' = AdmittedHandles \ {h} /\ h \in AdmittedHandles
      BY <1>1, <2>1 DEF AdmittedHandles
    <3>2. Cardinality(AdmittedHandles') = Cardinality(AdmittedHandles) - 1
      BY <1>4, <3>1, FS_RemoveElement
    <3> QED
      BY <1>3, <1>4, <2>1, <3>2
  <2>2. CASE ~stream[h].admitted /\ s.admitted
    <3>1. AdmittedHandles' = AdmittedHandles \cup {h} /\ h \notin AdmittedHandles
      BY <1>1, <2>2 DEF AdmittedHandles
    <3>2. Cardinality(AdmittedHandles') = Cardinality(AdmittedHandles) + 1
      BY <1>4, <3>1, FS_AddElement
    <3> QED
      BY <1>3, <1>4, <2>2, <3>2
  <2>3. CASE stream[h].admitted <=> s.admitted
    <3>1. AdmittedHandles' = AdmittedHandles
      BY <1>1, <2>3 DEF AdmittedHandles
    <3> QED
      BY <1>3, <1>4, <2>3, <3>1
  <2> QED
    BY <2>1, <2>2, <2>3
<1>7. Cardinality(SpentHandles') <= client'.calls
  <2>1. CASE Spent(s) /\ ~Spent(stream[h])
    <3>1. SpentHandles' = SpentHandles \cup {h} /\ h \notin SpentHandles
      BY <1>1, <2>1 DEF SpentHandles, Spent
    <3>2. Cardinality(SpentHandles') = Cardinality(SpentHandles) + 1
      BY <1>4, <3>1, FS_AddElement
    <3> QED
      BY <1>3, <1>4, <2>1, <3>2
  <2>2. CASE ~(Spent(s) /\ ~Spent(stream[h]))
    <3>1. SpentHandles' \subseteq SpentHandles
      BY <1>1, <2>2 DEF SpentHandles, Spent
    <3>2. Cardinality(SpentHandles') <= Cardinality(SpentHandles)
      BY <1>4, <3>1, FS_Subset
    <3> QED
      BY <1>3, <1>4, <2>2, <3>2
  <2> QED
    BY <2>1, <2>2
<1> QED
  BY <1>1, <1>2, <1>6, <1>7 DEF StreamsInv

\* A step of one handle that the client does not notice.
LEMMA QuietStep ==
  ASSUME StreamsInv, NEW h \in Handles, NEW s \in Handle, SoundEnding(s), SoundProgress(s),
         stream' = [stream EXCEPT ![h] = s], client' = client, Kept(h, s, client),
         s.admitted = stream[h].admitted, Spent(s) => Spent(stream[h])
  PROVE  StreamsInv'
<1>1. client \in Client /\ client.permits \in Int /\ client.calls \in Int
  BY StreamConstants DEF StreamsInv, Client
<1>2. client.permits = client.permits + (IF stream[h].admitted THEN 1 ELSE 0) - (IF s.admitted THEN 1 ELSE 0)
  BY <1>1
<1>3. client.calls >= client.calls + (IF Spent(s) /\ ~Spent(stream[h]) THEN 1 ELSE 0)
  BY <1>1
<1> QED
  BY <1>1, <1>2, <1>3, StreamStep

\* What is known of a handle.
LEMMA HandleFacts ==
  ASSUME StreamsInv, NEW h \in Handles
  PROVE  /\ stream[h] \in Handle /\ SoundEnding(stream[h]) /\ SoundProgress(stream[h])
         /\ Kept(h, stream[h], client) /\ client \in Client
BY DEF StreamsInv

\* Whoever finishes a handle changes its result and its ending, if it is the first.
LEMMA FinishedFacts ==
  ASSUME NEW s \in Handle, SoundEnding(s), SoundProgress(s), NEW status \in Status, Deserved(status, s.seen)
  PROVE  LET t == Streams!Finished(s, status) IN
         /\ t \in Handle /\ SoundEnding(t) /\ SoundProgress(t) /\ t.ending # "no"
         /\ t.ending \in {"timer", s.ending}
         /\ t.caller = s.caller /\ t.admitted = s.admitted /\ t.requested = s.requested
         /\ t.answered = s.answered /\ t.seen = s.seen /\ t.wire = s.wire /\ t.sub = s.sub
         /\ t.reader = s.reader /\ t.outcome = s.outcome
<1>1. CASE s.result # Streams!NoResult
  BY <1>1 DEF Streams!Finished, SoundEnding
<1>2. CASE s.result = Streams!NoResult
  <2> DEFINE r == [status |-> status, seen |-> s.seen]
             t == [s EXCEPT !.result = r, !.ending = "timer"]
  <2>1. r \in Result /\ r.status = status /\ r.seen = s.seen
    BY DEF Result, Handle
  <2>2. r # Streams!NoResult
    <3>1. Streams!NoResult.status = "none"
      BY DEF Streams!NoResult
    <3> QED
      BY <2>1, <3>1 DEF Status
  <2>3. Streams!Finished(s, status) = t
    BY <1>2 DEF Streams!Finished
  <2> HIDE DEF r
  <2>4. t \in Handle /\ t.result = r /\ t.ending = "timer"
        /\ t.caller = s.caller /\ t.admitted = s.admitted /\ t.requested = s.requested
        /\ t.answered = s.answered /\ t.seen = s.seen /\ t.wire = s.wire /\ t.sub = s.sub
        /\ t.reader = s.reader /\ t.outcome = s.outcome
    BY <2>1 DEF Handle
  <2> HIDE DEF t
  <2>5. s.ending = "no" /\ ~s.answered
    BY <1>2 DEF SoundEnding
  <2>6. SoundEnding(t)
    BY <2>1, <2>2, <2>4, <2>5 DEF SoundEnding
  <2>7. SoundProgress(t)
    BY <2>4 DEF SoundProgress
  <2> QED
    BY <2>3, <2>4, <2>6, <2>7
<1> QED
  BY <1>1, <1>2

\* start refuses: the handle it returns has ended, with nothing sent.
LEMMA RefusedSafe ==
  ASSUME StreamsInv, NEW h \in Handles, stream[h].wire = "none",
         Streams!Step(h, Streams!Refused(stream[h])), UNCHANGED client
  PROVE  StreamsInv'
<1> DEFINE b == stream[h]
           t == Streams!Finished(b, "failed")
           s == [t EXCEPT !.caller = "returned"]
<1>1. b \in Handle /\ SoundEnding(b) /\ SoundProgress(b) /\ Kept(h, b, client) /\ client \in Client
  BY HandleFacts
<1>2. "failed" \in Status /\ Deserved("failed", b.seen)
  BY DEF Status, Deserved
<1>3. stream' = [stream EXCEPT ![h] = s]
  BY DEF Streams!Step, Streams!Refused
<1>4. b.wire = "none"
  OBVIOUS
<1> HIDE DEF b
<1>5. /\ t \in Handle /\ SoundEnding(t) /\ SoundProgress(t) /\ t.ending # "no"
      /\ t.ending \in {"timer", b.ending}
      /\ t.admitted = b.admitted /\ t.requested = b.requested /\ t.wire = "none"
  BY <1>1, <1>2, <1>4, FinishedFacts
<1> HIDE DEF t
<1>6. /\ s \in Handle /\ s.caller = "returned" /\ s.result = t.result /\ s.ending = t.ending
      /\ s.admitted = t.admitted /\ s.requested = t.requested /\ s.answered = t.answered
      /\ s.seen = t.seen /\ s.wire = t.wire /\ s.sub = t.sub /\ s.reader = t.reader /\ s.outcome = t.outcome
  BY <1>5 DEF Handle
<1> HIDE DEF s
<1>7. SoundEnding(s)
  BY <1>5, <1>6 DEF SoundEnding
<1>8. SoundProgress(s)
  BY <1>5, <1>6 DEF SoundProgress
<1>9. Kept(h, s, client)
  BY <1>1, <1>5, <1>6 DEF Kept, Early
<1>10. s.admitted = stream[h].admitted /\ (Spent(s) => Spent(stream[h]))
  BY <1>5, <1>6 DEF Spent, b
<1> QED
  BY <1>3, <1>6, <1>7, <1>8, <1>9, <1>10, QuietStep

\* finish cancels the timer's task, and the exchange's body.
LEMMA CancelsSafe ==
  ASSUME StreamsInv, NEW h \in Handles, Streams!CancelTimer(h) \/ Streams!CancelBody(h)
  PROVE  StreamsInv'
<1> DEFINE b == stream[h]
<1>1. b \in Handle /\ SoundEnding(b) /\ SoundProgress(b) /\ Kept(h, b, client) /\ client \in Client
  BY HandleFacts
<1>2. CASE Streams!CancelTimer(h)
  <2> DEFINE s == [b EXCEPT !.ending = "body"]
  <2>1. stream' = [stream EXCEPT ![h] = s] /\ b.ending = "timer"
        /\ client' = [client EXCEPT !.timers = @ \ {h}]
    BY <1>2 DEF Streams!CancelTimer, Streams!Step
  <2>2. /\ s \in Handle /\ s.ending = "body"
        /\ s.caller = b.caller /\ s.result = b.result /\ s.admitted = b.admitted /\ s.requested = b.requested
        /\ s.answered = b.answered /\ s.seen = b.seen /\ s.wire = b.wire /\ s.sub = b.sub
        /\ s.reader = b.reader /\ s.outcome = b.outcome
    BY <1>1 DEF Handle
  <2>3. /\ client' \in Client /\ client'.stage = client.stage /\ client'.active = client.active
        /\ client'.left = client.left /\ client'.timers = client.timers \ {h}
        /\ client'.permits = client.permits /\ client'.calls = client.calls
    BY <1>1, <2>1 DEF Client
  <2>4. client.permits \in Int /\ client.calls \in Int
    BY <1>1, StreamConstants DEF Client
  <2> HIDE DEF b, s
  <2>5. SoundEnding(s) /\ SoundProgress(s)
    BY <1>1, <2>1, <2>2 DEF SoundEnding, SoundProgress
  <2>6. Kept(h, s, client')
    BY <1>1, <2>1, <2>2, <2>3 DEF Kept
  <2>7. /\ client'.permits = client.permits + (IF stream[h].admitted THEN 1 ELSE 0) - (IF s.admitted THEN 1 ELSE 0)
        /\ client'.calls >= client.calls + (IF Spent(s) /\ ~Spent(stream[h]) THEN 1 ELSE 0)
    BY <2>2, <2>3, <2>4 DEF Spent, b
  <2> QED
    BY <2>1, <2>2, <2>3, <2>5, <2>6, <2>7, StreamStep
<1>3. CASE Streams!CancelBody(h)
  <2> DEFINE sub == IF b.sub = "open" THEN "cancelled" ELSE b.sub
             s == [b EXCEPT !.ending = "wire", !.sub = sub]
  <2>1. stream' = [stream EXCEPT ![h] = s] /\ b.ending = "body" /\ UNCHANGED client
    BY <1>3 DEF Streams!CancelBody, Streams!Step
  <2>2. sub \in {"none", "open", "cancelled"} /\ sub # "open"
    BY <1>1 DEF Handle
  <2> HIDE DEF sub
  <2>3. /\ s \in Handle /\ s.ending = "wire" /\ s.sub = sub
        /\ s.caller = b.caller /\ s.result = b.result /\ s.admitted = b.admitted /\ s.requested = b.requested
        /\ s.answered = b.answered /\ s.seen = b.seen /\ s.wire = b.wire /\ s.reader = b.reader
        /\ s.outcome = b.outcome
    BY <1>1, <2>2 DEF Handle
  <2> HIDE DEF b, s
  <2>4. SoundEnding(s) /\ SoundProgress(s) /\ Kept(h, s, client)
    BY <1>1, <2>1, <2>2, <2>3 DEF SoundEnding, SoundProgress, Kept
  <2>5. s.admitted = stream[h].admitted /\ (Spent(s) => Spent(stream[h]))
    BY <2>3 DEF Spent, b
  <2> QED
    BY <2>1, <2>3, <2>4, <2>5, QuietStep
<1> QED
  BY <1>2, <1>3

\* Cut leaves no exchange open.
LEMMA CutFacts ==
  ASSUME NEW b \in Handle
  PROVE  LET s == Streams!Cut(b) IN
         /\ s \in Handle /\ s.wire # "open" /\ (s.wire # "none" <=> b.wire # "none")
         /\ s.caller = b.caller /\ s.result = b.result /\ s.ending = b.ending /\ s.admitted = b.admitted
         /\ s.requested = b.requested /\ s.answered = b.answered /\ s.seen = b.seen
         /\ s.sub = b.sub /\ s.reader = b.reader /\ s.outcome = b.outcome
<1> DEFINE wire == IF b.wire = "open" THEN "cancelled" ELSE b.wire
           s == [b EXCEPT !.wire = wire]
<1>1. wire \in {"none", "open", "failed", "cancelled", "done"} /\ wire # "open" /\ (wire # "none" <=> b.wire # "none")
  BY DEF Handle
<1>2. Streams!Cut(b) = s
  BY DEF Streams!Cut
<1> HIDE DEF wire
<1>3. /\ s \in Handle /\ s.wire = wire
      /\ s.caller = b.caller /\ s.result = b.result /\ s.ending = b.ending /\ s.admitted = b.admitted
      /\ s.requested = b.requested /\ s.answered = b.answered /\ s.seen = b.seen
      /\ s.sub = b.sub /\ s.reader = b.reader /\ s.outcome = b.outcome
  BY <1>1 DEF Handle
<1> HIDE DEF s
<1> QED
  BY <1>1, <1>2, <1>3

\* finish cancels the exchange, if start has assigned it.
LEMMA CancelWireSafe ==
  ASSUME StreamsInv, NEW h \in Handles, Streams!CancelWire(h)
  PROVE  StreamsInv'
<1> DEFINE b == stream[h]
           t == IF Streams!Assigned(h) THEN Streams!Cut(b) ELSE b
           s == [t EXCEPT !.ending = "place"]
<1>1. b \in Handle /\ SoundEnding(b) /\ SoundProgress(b) /\ Kept(h, b, client) /\ client \in Client
  BY HandleFacts
<1>2. stream' = [stream EXCEPT ![h] = s] /\ b.ending = "wire" /\ UNCHANGED client
  BY DEF Streams!CancelWire, Streams!Step
<1>3. b.caller = "returned" => Streams!Assigned(h)
  BY DEF Streams!Assigned, Streams!At
<1> HIDE DEF b
<1>4. /\ t \in Handle /\ (b.caller = "returned" => t.wire # "open") /\ (t.wire # "none" <=> b.wire # "none")
      /\ t.caller = b.caller /\ t.result = b.result /\ t.ending = b.ending /\ t.admitted = b.admitted
      /\ t.requested = b.requested /\ t.answered = b.answered /\ t.seen = b.seen
      /\ t.sub = b.sub /\ t.reader = b.reader /\ t.outcome = b.outcome
  BY <1>1, <1>3, CutFacts
<1> HIDE DEF t
<1>5. /\ s \in Handle /\ s.ending = "place"
      /\ s.caller = t.caller /\ s.result = t.result /\ s.admitted = t.admitted /\ s.requested = t.requested
      /\ s.answered = t.answered /\ s.seen = t.seen /\ s.wire = t.wire /\ s.sub = t.sub
      /\ s.reader = t.reader /\ s.outcome = t.outcome
  BY <1>4 DEF Handle
<1> HIDE DEF s
<1>6. SoundEnding(s)
  BY <1>1, <1>2, <1>4, <1>5 DEF SoundEnding
<1>7. SoundProgress(s)
  BY <1>1, <1>2, <1>4, <1>5 DEF SoundProgress
<1>8. Kept(h, s, client)
  BY <1>1, <1>2, <1>4, <1>5 DEF Kept
<1>9. s.admitted = stream[h].admitted /\ (Spent(s) => Spent(stream[h]))
  BY <1>4, <1>5 DEF Spent, b
<1> QED
  BY <1>2, <1>5, <1>6, <1>7, <1>8, <1>9, QuietStep

\* finish gives back the place before it answers.
LEMMA LeavePlaceSafe ==
  ASSUME StreamsInv, NEW h \in Handles, Streams!LeavePlace(h)
  PROVE  StreamsInv'
<1> DEFINE b == stream[h]
           s == [b EXCEPT !.ending = "answer", !.admitted = FALSE]
           places == IF b.admitted THEN client.permits + 1 ELSE client.permits
<1>1. b \in Handle /\ SoundEnding(b) /\ SoundProgress(b) /\ Kept(h, b, client) /\ client \in Client
  BY HandleFacts
<1>2. stream' = [stream EXCEPT ![h] = s] /\ b.ending = "place"
      /\ client' = [client EXCEPT !.active = @ \ {h}, !.permits = places]
  BY DEF Streams!LeavePlace, Streams!Step
<1>3. /\ s \in Handle /\ s.ending = "answer" /\ s.admitted = FALSE
      /\ s.caller = b.caller /\ s.result = b.result /\ s.requested = b.requested
      /\ s.answered = b.answered /\ s.seen = b.seen /\ s.wire = b.wire /\ s.sub = b.sub
      /\ s.reader = b.reader /\ s.outcome = b.outcome
  BY <1>1 DEF Handle
<1>4. places \in 0..ConcurrentCalls
  <2>1. client.permits + Cardinality(AdmittedHandles) = ConcurrentCalls /\ client.permits \in 0..ConcurrentCalls
        /\ ConcurrentCalls \in Nat
    BY StreamConstants DEF StreamsInv, Client
  <2>2. AdmittedHandles \subseteq Handles
    BY DEF AdmittedHandles
  <2>3. IsFiniteSet(AdmittedHandles) /\ Cardinality(AdmittedHandles) \in Nat
    BY <2>2, StreamConstants
  <2>4. CASE b.admitted
    <3>1. h \in AdmittedHandles
      BY <2>4 DEF AdmittedHandles
    <3>2. Cardinality(AdmittedHandles) # 0
      BY <2>3, <3>1, FS_EmptySet
    <3> QED
      BY <2>1, <2>3, <2>4, <3>2
  <2>5. CASE ~b.admitted
    BY <2>1, <2>5
  <2> QED
    BY <2>4, <2>5
<1>5. places = client.permits + (IF b.admitted THEN 1 ELSE 0)
  BY <1>1, StreamConstants DEF Client
<1> HIDE DEF places
<1>6. /\ client' \in Client /\ client'.stage = client.stage /\ client'.active = client.active \ {h}
      /\ client'.left = client.left /\ client'.timers = client.timers
      /\ client'.permits = places /\ client'.calls = client.calls
  BY <1>1, <1>2, <1>4 DEF Client
<1>7. client.permits \in Int /\ client.calls \in Int
  BY <1>1, StreamConstants DEF Client
<1> HIDE DEF b, s
<1>8. SoundEnding(s)
  BY <1>1, <1>2, <1>3 DEF SoundEnding
<1>9. SoundProgress(s)
  BY <1>1, <1>2, <1>3 DEF SoundProgress
<1>10. Kept(h, s, client')
  BY <1>1, <1>2, <1>3, <1>6 DEF Kept
<1>11. /\ client'.permits = client.permits + (IF stream[h].admitted THEN 1 ELSE 0) - (IF s.admitted THEN 1 ELSE 0)
       /\ client'.calls >= client.calls + (IF Spent(s) /\ ~Spent(stream[h]) THEN 1 ELSE 0)
  BY <1>3, <1>5, <1>6, <1>7 DEF Spent, b
<1>12. client'.active \ {h} = client.active \ {h}
  BY <1>6
<1> QED
  BY <1>2, <1>3, <1>6, <1>8, <1>9, <1>10, <1>11, <1>12, StreamStep

\* The answer is the last thing.
LEMMA AnswerSafe ==
  ASSUME StreamsInv, NEW h \in Handles, Streams!Answer(h)
  PROVE  StreamsInv'
<1> DEFINE b == stream[h]
           s == [b EXCEPT !.ending = "done", !.answered = TRUE]
<1>1. b \in Handle /\ SoundEnding(b) /\ SoundProgress(b) /\ Kept(h, b, client) /\ client \in Client
  BY HandleFacts
<1>2. stream' = [stream EXCEPT ![h] = s] /\ b.ending = "answer" /\ UNCHANGED client
  BY DEF Streams!Answer, Streams!Step
<1>3. /\ s \in Handle /\ s.ending = "done" /\ s.answered = TRUE
      /\ s.caller = b.caller /\ s.result = b.result /\ s.admitted = b.admitted /\ s.requested = b.requested
      /\ s.seen = b.seen /\ s.wire = b.wire /\ s.sub = b.sub /\ s.reader = b.reader
      /\ s.outcome = b.outcome
  BY <1>1 DEF Handle
<1> HIDE DEF b, s
<1>4. SoundEnding(s)
  BY <1>1, <1>2, <1>3 DEF SoundEnding
<1>5. SoundProgress(s) /\ Kept(h, s, client)
  BY <1>1, <1>2, <1>3 DEF SoundProgress, Kept
<1>6. s.admitted = stream[h].admitted /\ (Spent(s) => Spent(stream[h]))
  BY <1>3 DEF Spent, b
<1> QED
  BY <1>2, <1>3, <1>4, <1>5, <1>6, QuietStep

\* start goes on to its next statement, which changes nothing but how far it is.
LEMMA ReachesSafe ==
  ASSUME StreamsInv, NEW h \in Handles, NEW stage, Streams!Reaches(h, stage), UNCHANGED client,
         \/ stream[h].caller = "new" /\ stage = "entered"
         \/ stream[h].caller = "added" /\ stage = "checked" /\ client.stage = "open"
         \/ stream[h].caller = "sent" /\ stage = "assigned"
  PROVE  StreamsInv'
<1> DEFINE b == stream[h]
           s == [b EXCEPT !.caller = stage]
<1>1. b \in Handle /\ SoundEnding(b) /\ SoundProgress(b) /\ Kept(h, b, client) /\ client \in Client
  BY HandleFacts
<1>2. stream' = [stream EXCEPT ![h] = s]
  BY DEF Streams!Reaches, Streams!Step
<1>3. \/ b.caller = "new" /\ stage = "entered"
      \/ b.caller = "added" /\ stage = "checked" /\ client.stage = "open"
      \/ b.caller = "sent" /\ stage = "assigned"
  OBVIOUS
<1>4. /\ s \in Handle /\ s.caller = stage
      /\ s.result = b.result /\ s.ending = b.ending /\ s.admitted = b.admitted /\ s.requested = b.requested
      /\ s.answered = b.answered /\ s.seen = b.seen /\ s.wire = b.wire /\ s.sub = b.sub
      /\ s.reader = b.reader /\ s.outcome = b.outcome
  BY <1>1, <1>3 DEF Handle, Early
<1> HIDE DEF b, s
<1>5. SoundEnding(s)
  BY <1>1, <1>3, <1>4 DEF SoundEnding
<1>6. SoundProgress(s)
  BY <1>1, <1>3, <1>4 DEF SoundProgress
<1>7. Kept(h, s, client)
  BY <1>1, <1>3, <1>4 DEF Kept, Early
<1>8. s.admitted = stream[h].admitted /\ (Spent(s) => Spent(stream[h]))
  BY <1>3, <1>4 DEF Spent, b
<1> QED
  BY <1>2, <1>4, <1>5, <1>6, <1>7, <1>8, QuietStep

\* A place is taken by who is going to be added.
LEMMA AcquireSafe ==
  ASSUME StreamsInv, NEW h \in Handles, Streams!Acquire(h)
  PROVE  StreamsInv'
<1> DEFINE b == stream[h]
           s == [b EXCEPT !.caller = "acquired", !.admitted = TRUE]
<1>1. b \in Handle /\ SoundEnding(b) /\ SoundProgress(b) /\ Kept(h, b, client) /\ client \in Client
  BY HandleFacts
<1>2. b.caller = "entered" /\ b.wire = "none"
  BY <1>1 DEF Streams!Acquire, Streams!At, SoundProgress, Handle
<1>3. CASE client.permits = 0
  BY <1>2, <1>3, RefusedSafe DEF Streams!Acquire
<1>4. CASE client.permits # 0
  <2>1. stream' = [stream EXCEPT ![h] = s] /\ client' = [client EXCEPT !.permits = @ - 1]
    BY <1>4 DEF Streams!Acquire, Streams!Step
  <2>2. /\ s \in Handle /\ s.caller = "acquired" /\ s.admitted = TRUE
        /\ s.result = b.result /\ s.ending = b.ending /\ s.requested = b.requested
        /\ s.answered = b.answered /\ s.seen = b.seen /\ s.wire = b.wire /\ s.sub = b.sub
        /\ s.reader = b.reader /\ s.outcome = b.outcome
    BY <1>1 DEF Handle, Early
  <2>3. client.permits - 1 \in 0..ConcurrentCalls /\ client.permits \in Int /\ client.calls \in Int
    BY <1>1, <1>4, StreamConstants DEF Client
  <2>4. /\ client' \in Client /\ client'.stage = client.stage /\ client'.active = client.active
        /\ client'.left = client.left /\ client'.timers = client.timers
        /\ client'.permits = client.permits - 1 /\ client'.calls = client.calls
    BY <1>1, <2>1, <2>3 DEF Client
  <2> HIDE DEF b, s
  <2>5. SoundEnding(s)
    BY <1>1, <1>2, <2>2 DEF SoundEnding, Kept, Early
  <2>6. SoundProgress(s)
    BY <1>1, <1>2, <2>2 DEF SoundProgress
  <2>7. Kept(h, s, client')
    BY <1>1, <1>2, <2>2, <2>4 DEF Kept, Early
  <2>8. b.admitted = FALSE
    BY <1>1, <1>2 DEF SoundProgress, Handle
  <2>9. /\ client'.permits = client.permits + (IF stream[h].admitted THEN 1 ELSE 0) - (IF s.admitted THEN 1 ELSE 0)
        /\ client'.calls >= client.calls + (IF Spent(s) /\ ~Spent(stream[h]) THEN 1 ELSE 0)
    BY <1>2, <2>2, <2>3, <2>4, <2>8 DEF Spent, b
  <2> QED
    BY <2>1, <2>2, <2>4, <2>5, <2>6, <2>7, <2>9, StreamStep
<1> QED
  BY <1>3, <1>4

\* A handle is added before close can have looked, or start looks again.
LEMMA AddSafe ==
  ASSUME StreamsInv, NEW h \in Handles, Streams!Add(h)
  PROVE  StreamsInv'
<1> DEFINE b == stream[h]
           s == [b EXCEPT !.caller = "added"]
<1>1. b \in Handle /\ SoundEnding(b) /\ SoundProgress(b) /\ Kept(h, b, client) /\ client \in Client
  BY HandleFacts
<1>2. b.caller = "acquired" /\ stream' = [stream EXCEPT ![h] = s] /\ client' = [client EXCEPT !.active = @ \cup {h}]
  BY DEF Streams!Add, Streams!At, Streams!Reaches, Streams!Step
<1>3. /\ s \in Handle /\ s.caller = "added"
      /\ s.result = b.result /\ s.ending = b.ending /\ s.admitted = b.admitted /\ s.requested = b.requested
      /\ s.answered = b.answered /\ s.seen = b.seen /\ s.wire = b.wire /\ s.sub = b.sub
      /\ s.reader = b.reader /\ s.outcome = b.outcome
  BY <1>1 DEF Handle
<1>4. /\ client' \in Client /\ client'.stage = client.stage /\ client'.active = client.active \cup {h}
      /\ client'.left = client.left /\ client'.timers = client.timers
      /\ client'.permits = client.permits /\ client'.calls = client.calls
      /\ client.permits \in Int /\ client.calls \in Int
  BY <1>1, <1>2, StreamConstants DEF Client
<1> HIDE DEF b, s
<1>5. SoundEnding(s)
  BY <1>1, <1>2, <1>3 DEF SoundEnding
<1>6. SoundProgress(s)
  BY <1>1, <1>2, <1>3 DEF SoundProgress
<1>7. Kept(h, s, client')
  BY <1>1, <1>2, <1>3, <1>4 DEF Kept, Early
<1>8. /\ client'.permits = client.permits + (IF stream[h].admitted THEN 1 ELSE 0) - (IF s.admitted THEN 1 ELSE 0)
      /\ client'.calls >= client.calls + (IF Spent(s) /\ ~Spent(stream[h]) THEN 1 ELSE 0)
      /\ client'.active \ {h} = client.active \ {h}
  BY <1>2, <1>3, <1>4 DEF Spent, b
<1> QED
  BY <1>2, <1>3, <1>4, <1>5, <1>6, <1>7, <1>8, StreamStep

\* A call is spent of the budget, if there is one left.
LEMMA SpendSafe ==
  ASSUME StreamsInv, NEW h \in Handles, Streams!Spend(h)
  PROVE  StreamsInv'
<1> DEFINE b == stream[h]
           s == [b EXCEPT !.caller = "spent"]
<1>1. b \in Handle /\ SoundEnding(b) /\ SoundProgress(b) /\ Kept(h, b, client) /\ client \in Client
  BY HandleFacts
<1>2. b.caller = "checked" /\ b.wire = "none"
  BY <1>1 DEF Streams!Spend, Streams!At, SoundProgress, Handle
<1>3. CASE client.calls >= CallLimit
  BY <1>2, <1>3, RefusedSafe DEF Streams!Spend
<1>4. CASE ~(client.calls >= CallLimit)
  <2>1. stream' = [stream EXCEPT ![h] = s] /\ client' = [client EXCEPT !.calls = @ + 1]
    BY <1>4 DEF Streams!Spend, Streams!Reaches, Streams!Step
  <2>2. /\ s \in Handle /\ s.caller = "spent"
        /\ s.result = b.result /\ s.ending = b.ending /\ s.admitted = b.admitted /\ s.requested = b.requested
        /\ s.answered = b.answered /\ s.seen = b.seen /\ s.wire = b.wire /\ s.sub = b.sub
        /\ s.reader = b.reader /\ s.outcome = b.outcome
    BY <1>1 DEF Handle
  <2>3. client.calls + 1 \in 0..CallLimit /\ client.permits \in Int /\ client.calls \in Int
    BY <1>1, <1>4, StreamConstants DEF Client
  <2>4. /\ client' \in Client /\ client'.stage = client.stage /\ client'.active = client.active
        /\ client'.left = client.left /\ client'.timers = client.timers
        /\ client'.permits = client.permits /\ client'.calls = client.calls + 1
    BY <1>1, <2>1, <2>3 DEF Client
  <2> HIDE DEF b, s
  <2>5. SoundEnding(s)
    BY <1>1, <1>2, <2>2 DEF SoundEnding
  <2>6. SoundProgress(s)
    BY <1>1, <1>2, <2>2 DEF SoundProgress
  <2>7. Kept(h, s, client')
    BY <1>1, <1>2, <2>2, <2>4 DEF Kept, Early
  <2>8. /\ client'.permits = client.permits + (IF stream[h].admitted THEN 1 ELSE 0) - (IF s.admitted THEN 1 ELSE 0)
        /\ client'.calls >= client.calls + (IF Spent(s) /\ ~Spent(stream[h]) THEN 1 ELSE 0)
    BY <2>2, <2>3, <2>4 DEF b
  <2> QED
    BY <2>1, <2>2, <2>4, <2>5, <2>6, <2>7, <2>8, StreamStep
<1> QED
  BY <1>3, <1>4

\* The deadline is set, unless the timer has been shut down.
LEMMA ScheduleSafe ==
  ASSUME StreamsInv, NEW h \in Handles, Streams!Schedule(h)
  PROVE  StreamsInv'
<1> DEFINE b == stream[h]
           s == [b EXCEPT !.caller = "scheduled"]
<1>1. b \in Handle /\ SoundEnding(b) /\ SoundProgress(b) /\ Kept(h, b, client) /\ client \in Client
  BY HandleFacts
<1>2. b.caller = "spent" /\ b.wire = "none"
  BY <1>1 DEF Streams!Schedule, Streams!At, SoundProgress, Handle
<1>3. CASE client.stage = "shut"
  BY <1>2, <1>3, RefusedSafe DEF Streams!Schedule
<1>4. CASE client.stage # "shut"
  <2>1. stream' = [stream EXCEPT ![h] = s] /\ client' = [client EXCEPT !.timers = @ \cup {h}]
    BY <1>4 DEF Streams!Schedule, Streams!Reaches, Streams!Step
  <2>2. /\ s \in Handle /\ s.caller = "scheduled"
        /\ s.result = b.result /\ s.ending = b.ending /\ s.admitted = b.admitted /\ s.requested = b.requested
        /\ s.answered = b.answered /\ s.seen = b.seen /\ s.wire = b.wire /\ s.sub = b.sub
        /\ s.reader = b.reader /\ s.outcome = b.outcome
    BY <1>1 DEF Handle
  <2>3. /\ client' \in Client /\ client'.stage = client.stage /\ client'.active = client.active
        /\ client'.left = client.left /\ client'.timers = client.timers \cup {h}
        /\ client'.permits = client.permits /\ client'.calls = client.calls
        /\ client.permits \in Int /\ client.calls \in Int
    BY <1>1, <2>1, StreamConstants DEF Client
  <2> HIDE DEF b, s
  <2>4. SoundEnding(s)
    BY <1>1, <1>2, <2>2 DEF SoundEnding
  <2>5. SoundProgress(s)
    BY <1>1, <1>2, <2>2 DEF SoundProgress
  <2>6. Kept(h, s, client')
    BY <1>1, <1>2, <2>2, <2>3 DEF Kept, Early
  <2>7. /\ client'.permits = client.permits + (IF stream[h].admitted THEN 1 ELSE 0) - (IF s.admitted THEN 1 ELSE 0)
        /\ client'.calls >= client.calls + (IF Spent(s) /\ ~Spent(stream[h]) THEN 1 ELSE 0)
        /\ client'.timers \ {h} = client.timers \ {h}
    BY <1>2, <2>2, <2>3 DEF Spent, b
  <2> QED
    BY <2>1, <2>2, <2>3, <2>4, <2>5, <2>6, <2>7, StreamStep
<1> QED
  BY <1>3, <1>4

\* start makes the request unless the handle has ended, and then returns it.
LEMMA RequestSafe ==
  ASSUME StreamsInv, NEW h \in Handles, Streams!Request(h)
  PROVE  StreamsInv'
<1> DEFINE b == stream[h]
<1>1. b \in Handle /\ SoundEnding(b) /\ SoundProgress(b) /\ Kept(h, b, client) /\ client \in Client
  BY HandleFacts
<1>2. b.caller = "scheduled" /\ b.wire = "none" /\ UNCHANGED client
  BY <1>1 DEF Streams!Request, Streams!At, SoundProgress, Handle
<1>3. CASE Streams!Over(h)
  <2> DEFINE s == [b EXCEPT !.caller = "returned"]
  <2>1. stream' = [stream EXCEPT ![h] = s] /\ b.result # Streams!NoResult
    BY <1>3 DEF Streams!Request, Streams!Step, Streams!Over
  <2>2. /\ s \in Handle /\ s.caller = "returned"
        /\ s.result = b.result /\ s.ending = b.ending /\ s.admitted = b.admitted /\ s.requested = b.requested
        /\ s.answered = b.answered /\ s.seen = b.seen /\ s.wire = b.wire /\ s.sub = b.sub
        /\ s.reader = b.reader /\ s.outcome = b.outcome
    BY <1>1 DEF Handle
  <2> HIDE DEF b, s
  <2>3. SoundEnding(s)
    BY <1>1, <1>2, <2>2 DEF SoundEnding
  <2>4. SoundProgress(s)
    BY <1>1, <1>2, <2>2 DEF SoundProgress
  <2>5. Kept(h, s, client)
    BY <1>1, <1>2, <2>1, <2>2 DEF Kept, Early, SoundEnding
  <2>6. s.admitted = stream[h].admitted /\ (Spent(s) => Spent(stream[h]))
    BY <2>2 DEF Spent, b
  <2> QED
    BY <1>2, <2>1, <2>2, <2>3, <2>4, <2>5, <2>6, QuietStep
<1>4. CASE ~Streams!Over(h)
  <2> DEFINE s == [b EXCEPT !.caller = "requested", !.requested = TRUE]
  <2>1. stream' = [stream EXCEPT ![h] = s]
    BY <1>4 DEF Streams!Request, Streams!Step
  <2>2. /\ s \in Handle /\ s.caller = "requested" /\ s.requested = TRUE
        /\ s.result = b.result /\ s.ending = b.ending /\ s.admitted = b.admitted /\ s.answered = b.answered
        /\ s.seen = b.seen /\ s.wire = b.wire /\ s.sub = b.sub /\ s.reader = b.reader
        /\ s.outcome = b.outcome
    BY <1>1 DEF Handle
  <2> HIDE DEF b, s
  <2>3. SoundEnding(s)
    BY <1>1, <1>2, <2>2 DEF SoundEnding
  <2>4. SoundProgress(s)
    BY <1>1, <1>2, <2>2 DEF SoundProgress
  <2>5. Kept(h, s, client)
    BY <1>1, <1>2, <2>2 DEF Kept, Early
  <2>6. s.admitted = stream[h].admitted /\ (Spent(s) => Spent(stream[h]))
    BY <1>2, <2>2 DEF Spent, b
  <2> QED
    BY <1>2, <2>1, <2>2, <2>3, <2>4, <2>5, <2>6, QuietStep
<1> QED
  BY <1>3, <1>4

\* sendAsync begins an exchange, or throws.
LEMMA SendSafe ==
  ASSUME StreamsInv, NEW h \in Handles, Streams!Send(h)
  PROVE  StreamsInv'
<1> DEFINE b == stream[h]
           s == [b EXCEPT !.caller = "sent", !.wire = "open"]
<1>1. b \in Handle /\ SoundEnding(b) /\ SoundProgress(b) /\ Kept(h, b, client) /\ client \in Client
  BY HandleFacts
<1>2. b.caller = "requested" /\ b.wire = "none" /\ UNCHANGED client
  BY <1>1 DEF Streams!Send, Streams!At, SoundProgress, Handle
<1>3. CASE Streams!Step(h, Streams!Refused(stream[h]))
  BY <1>2, <1>3, RefusedSafe
<1>4. CASE stream' = [stream EXCEPT ![h] = s]
  <2>1. /\ s \in Handle /\ s.caller = "sent" /\ s.wire = "open"
        /\ s.result = b.result /\ s.ending = b.ending /\ s.admitted = b.admitted /\ s.requested = b.requested
        /\ s.answered = b.answered /\ s.seen = b.seen /\ s.sub = b.sub /\ s.reader = b.reader
        /\ s.outcome = b.outcome
    BY <1>1 DEF Handle
  <2> HIDE DEF b, s
  <2>2. SoundEnding(s)
    BY <1>1, <1>2, <2>1 DEF SoundEnding
  <2>3. SoundProgress(s)
    BY <1>1, <1>2, <2>1 DEF SoundProgress
  <2>4. Kept(h, s, client)
    BY <1>1, <1>2, <2>1 DEF Kept, Early
  <2>5. s.admitted = stream[h].admitted /\ (Spent(s) => Spent(stream[h]))
    BY <2>1 DEF Spent, b
  <2> QED
    BY <1>2, <1>4, <2>1, <2>2, <2>3, <2>4, <2>5, QuietStep
<1> QED
  BY <1>3, <1>4 DEF Streams!Send, Streams!Step

\* start returns the handle, and cuts the exchange of one that has ended.
LEMMA ReturnSafe ==
  ASSUME StreamsInv, NEW h \in Handles, Streams!Return(h)
  PROVE  StreamsInv'
<1> DEFINE b == stream[h]
           t == IF Streams!Over(h) THEN Streams!Cut(b) ELSE b
           s == [t EXCEPT !.caller = "returned"]
<1>1. b \in Handle /\ SoundEnding(b) /\ SoundProgress(b) /\ Kept(h, b, client) /\ client \in Client
  BY HandleFacts
<1>2. stream' = [stream EXCEPT ![h] = s] /\ b.caller = "assigned" /\ UNCHANGED client
  BY DEF Streams!Return, Streams!At, Streams!Step
<1>3. ~Streams!Over(h) => b.ending = "no"
  BY <1>1 DEF Streams!Over, SoundEnding
<1> HIDE DEF b
<1>4. /\ t \in Handle /\ (b.ending # "no" => t.wire # "open") /\ (t.wire # "none" <=> b.wire # "none")
      /\ t.caller = b.caller /\ t.result = b.result /\ t.ending = b.ending /\ t.admitted = b.admitted
      /\ t.requested = b.requested /\ t.answered = b.answered /\ t.seen = b.seen
      /\ t.sub = b.sub /\ t.reader = b.reader /\ t.outcome = b.outcome
  BY <1>1, <1>3, CutFacts
<1> HIDE DEF t
<1>5. /\ s \in Handle /\ s.caller = "returned"
      /\ s.result = t.result /\ s.ending = t.ending /\ s.admitted = t.admitted /\ s.requested = t.requested
      /\ s.answered = t.answered /\ s.seen = t.seen /\ s.wire = t.wire /\ s.sub = t.sub
      /\ s.reader = t.reader /\ s.outcome = t.outcome
  BY <1>4 DEF Handle
<1> HIDE DEF s
<1>6. SoundEnding(s)
  BY <1>1, <1>2, <1>4, <1>5 DEF SoundEnding
<1>7. SoundProgress(s)
  BY <1>1, <1>2, <1>4, <1>5 DEF SoundProgress
<1>8. Kept(h, s, client)
  BY <1>1, <1>2, <1>4, <1>5 DEF Kept, Early
<1>9. s.admitted = stream[h].admitted /\ (Spent(s) => Spent(stream[h]))
  BY <1>4, <1>5 DEF Spent, b
<1> QED
  BY <1>2, <1>5, <1>6, <1>7, <1>8, <1>9, QuietStep

\* start, from its first statement to its last.
LEMMA StartSafe ==
  ASSUME StreamsInv, NEW h \in Handles, Streams!Start(h)
  PROVE  StreamsInv'
<1> DEFINE b == stream[h]
<1>1. b \in Handle /\ SoundEnding(b) /\ SoundProgress(b) /\ Kept(h, b, client) /\ client \in Client
  BY HandleFacts
<1>2. b.caller \in {"new", "added"} => b.wire = "none"
  BY <1>1 DEF SoundProgress
<1>3. CASE Streams!Enter(h)
  <2>1. b.caller = "new" /\ UNCHANGED client
    BY <1>3 DEF Streams!Enter, Streams!At
  <2>2. CASE Streams!Step(h, Streams!Refused(stream[h]))
    BY <1>2, <2>1, <2>2, RefusedSafe
  <2>3. CASE Streams!Reaches(h, "entered")
    BY <2>1, <2>3, ReachesSafe
  <2> QED
    BY <1>3, <2>2, <2>3 DEF Streams!Enter
<1>4. CASE Streams!Recheck(h)
  <2>1. b.caller = "added" /\ UNCHANGED client
    BY <1>4 DEF Streams!Recheck, Streams!At
  <2>2. CASE Streams!Step(h, Streams!Refused(stream[h]))
    BY <1>2, <2>1, <2>2, RefusedSafe
  <2>3. CASE Streams!Reaches(h, "checked") /\ client.stage = "open"
    BY <2>1, <2>3, ReachesSafe
  <2> QED
    BY <1>4, <2>2, <2>3 DEF Streams!Recheck, Streams!ClosedMeanwhile, Streams!Closed
<1>5. CASE Streams!Assign(h)
  BY <1>5, ReachesSafe DEF Streams!Assign, Streams!At
<1>6. CASE Streams!Acquire(h) \/ Streams!Add(h) \/ Streams!Spend(h) \/ Streams!Schedule(h)
  BY <1>6, AcquireSafe, AddSafe, SpendSafe, ScheduleSafe
<1>7. CASE Streams!Request(h) \/ Streams!Send(h) \/ Streams!Return(h)
  BY <1>7, RequestSafe, SendSafe, ReturnSafe
<1> QED
  BY <1>3, <1>4, <1>5, <1>6, <1>7 DEF Streams!Start

\* A step of the exchange or its subscriber, which may finish the handle but is not start's.
LEMMA TransportStep ==
  ASSUME StreamsInv, NEW h \in Handles, stream[h].wire # "none",
         NEW s \in Handle, SoundEnding(s), stream' = [stream EXCEPT ![h] = s], client' = client,
         s.caller = stream[h].caller, s.requested = stream[h].requested, s.admitted = stream[h].admitted,
         s.wire # "none", s.reader = "ending" => s.outcome # "none" /\ Deserved(s.outcome, s.seen),
         s.ending \in {"timer", stream[h].ending}, s.ending = "no" => stream[h].ending = "no"
  PROVE  StreamsInv'
<1> DEFINE b == stream[h]
<1>1. b \in Handle /\ SoundEnding(b) /\ SoundProgress(b) /\ Kept(h, b, client) /\ client \in Client
  BY HandleFacts
<1>2. SoundProgress(s)
  BY <1>1 DEF SoundProgress
<1>3. Kept(h, s, client)
  BY <1>1 DEF Kept, SoundProgress, Early
<1>4. Spent(s) => Spent(stream[h])
  BY DEF Spent
<1> QED
  BY <1>2, <1>3, <1>4, QuietStep

\* The exchange fails.
LEMMA WireFailsSafe ==
  ASSUME StreamsInv, NEW h \in Handles, Streams!WireFails(h)
  PROVE  StreamsInv'
<1> DEFINE b == stream[h]
           s == [b EXCEPT !.wire = "failed"]
<1>1. b \in Handle /\ SoundEnding(b) /\ SoundProgress(b) /\ Kept(h, b, client) /\ client \in Client
  BY HandleFacts
<1>2. stream' = [stream EXCEPT ![h] = s] /\ b.wire = "open" /\ b.reader = "none" /\ UNCHANGED client
  BY DEF Streams!WireFails, Streams!Step
<1>3. /\ s \in Handle /\ s.wire = "failed"
      /\ s.caller = b.caller /\ s.result = b.result /\ s.ending = b.ending /\ s.admitted = b.admitted
      /\ s.requested = b.requested /\ s.answered = b.answered /\ s.seen = b.seen
      /\ s.sub = b.sub /\ s.reader = b.reader /\ s.outcome = b.outcome
  BY <1>1 DEF Handle
<1> HIDE DEF s
<1>4. SoundEnding(s)
  BY <1>1, <1>3 DEF SoundEnding
<1> QED
  BY <1>2, <1>3, <1>4, TransportStep

\* A handle that somebody finishes: the failure of the exchange, or its caller.
LEMMA FinishesSafe ==
  ASSUME StreamsInv, NEW h \in Handles, stream[h].caller \notin Early, NEW status \in Status, status # "complete",
         Streams!Step(h, Streams!Finished(stream[h], status)), UNCHANGED client
  PROVE  StreamsInv'
<1> DEFINE b == stream[h]
           s == Streams!Finished(b, status)
<1>1. b \in Handle /\ SoundEnding(b) /\ SoundProgress(b) /\ Kept(h, b, client) /\ client \in Client
  BY HandleFacts
<1>2. Deserved(status, b.seen)
  BY DEF Deserved
<1>3. stream' = [stream EXCEPT ![h] = s] /\ b.caller \notin Early
  BY DEF Streams!Step
<1> HIDE DEF b
<1>4. /\ s \in Handle /\ SoundEnding(s) /\ SoundProgress(s) /\ s.ending # "no" /\ s.ending \in {"timer", b.ending}
      /\ s.caller = b.caller /\ s.admitted = b.admitted /\ s.requested = b.requested
  BY <1>1, <1>2, FinishedFacts
<1> HIDE DEF s
<1>5. Kept(h, s, client)
  BY <1>1, <1>3, <1>4 DEF Kept
<1>6. s.admitted = stream[h].admitted /\ (Spent(s) => Spent(stream[h]))
  BY <1>4 DEF Spent, b
<1> QED
  BY <1>3, <1>4, <1>5, <1>6, QuietStep

\* The subscriber gets its subscription, a step before it looks whether it is wanted.
LEMMA OnSubscribeSafe ==
  ASSUME StreamsInv, NEW h \in Handles, Streams!OnSubscribe(h)
  PROVE  StreamsInv'
<1> DEFINE b == stream[h]
           s == [b EXCEPT !.sub = "open", !.reader = "subscribed"]
<1>1. b \in Handle /\ SoundEnding(b) /\ SoundProgress(b) /\ Kept(h, b, client) /\ client \in Client
  BY HandleFacts
<1>2. stream' = [stream EXCEPT ![h] = s] /\ b.wire # "none" /\ UNCHANGED client
  BY DEF Streams!OnSubscribe, Streams!Step
<1>3. /\ s \in Handle /\ s.sub = "open" /\ s.reader = "subscribed"
      /\ s.caller = b.caller /\ s.result = b.result /\ s.ending = b.ending /\ s.admitted = b.admitted
      /\ s.requested = b.requested /\ s.answered = b.answered /\ s.seen = b.seen
      /\ s.wire = b.wire /\ s.outcome = b.outcome
  BY <1>1 DEF Handle
<1> HIDE DEF s
<1>4. SoundEnding(s)
  BY <1>1, <1>3 DEF SoundEnding
<1> QED
  BY <1>2, <1>3, <1>4, TransportStep

\* The subscriber is over, and has finished its handle: with its outcome, or a failure.
LEMMA ReaderFinishes ==
  ASSUME StreamsInv, NEW h \in Handles, stream[h].reader # "none", NEW status \in Status,
         Deserved(status, stream[h].seen), UNCHANGED client,
         stream' = [stream EXCEPT ![h] = [Streams!Finished(stream[h], status) EXCEPT !.reader = "over"]],
         stream[h].ending = "no" \/ stream[h].reader # "subscribed"
  PROVE  StreamsInv'
<1> DEFINE b == stream[h]
           t == Streams!Finished(b, status)
           s == [t EXCEPT !.reader = "over"]
<1>1. b \in Handle /\ SoundEnding(b) /\ SoundProgress(b) /\ Kept(h, b, client) /\ client \in Client
  BY HandleFacts
<1>2. /\ stream' = [stream EXCEPT ![h] = s] /\ b.wire # "none" /\ Deserved(status, b.seen)
      /\ b.ending = "no" \/ b.reader # "subscribed"
  BY <1>1 DEF SoundProgress
<1> HIDE DEF b
<1>3. /\ t \in Handle /\ SoundEnding(t) /\ t.ending # "no" /\ t.ending \in {"timer", b.ending}
      /\ t.caller = b.caller /\ t.admitted = b.admitted /\ t.requested = b.requested /\ t.wire = b.wire
      /\ t.sub = b.sub /\ t.reader = b.reader
  BY <1>1, <1>2, FinishedFacts
<1> HIDE DEF t
<1>4. /\ s \in Handle /\ s.reader = "over"
      /\ s.caller = t.caller /\ s.result = t.result /\ s.ending = t.ending /\ s.admitted = t.admitted
      /\ s.requested = t.requested /\ s.answered = t.answered /\ s.seen = t.seen
      /\ s.wire = t.wire /\ s.sub = t.sub /\ s.outcome = t.outcome
  BY <1>3 DEF Handle
<1> HIDE DEF s
<1>5. s.sub = "open" /\ s.ending \notin {"no", "timer", "body"} => s.reader = "subscribed"
  BY <1>1, <1>2, <1>3, <1>4 DEF SoundEnding
<1>6. SoundEnding(s)
  BY <1>3, <1>4, <1>5 DEF SoundEnding
<1>7. s.caller = stream[h].caller /\ s.requested = stream[h].requested /\ s.admitted = stream[h].admitted
      /\ s.ending \in {"timer", stream[h].ending} /\ s.wire # "none" /\ stream[h].wire # "none"
  BY <1>2, <1>3, <1>4 DEF b
<1>8. s.reader # "ending" /\ s.ending # "no"
  BY <1>3, <1>4
<1> QED
  BY <1>2, <1>4, <1>6, <1>7, <1>8, TransportStep

\* What a frame comes to deserves what it says.
LEMMA FrameFacts ==
  ASSUME NEW seen \in Seen, NEW f \in Streams!Frame(seen)
  PROVE  /\ f.seen \in Seen /\ f.outcome \in {"none", "complete", "refused", "incomplete", "failed"}
         /\ Deserved(f.outcome, f.seen)
<1>1. ASSUME NEW more \in Streams!More(seen) PROVE more \in Seen
  <2>1. PICK n \in seen.content..ContentLimit : more = [seen EXCEPT !.content = n]
    BY DEF Streams!More
  <2>2. n \in 0..ContentLimit
    BY StreamConstants DEF Seen
  <2> QED
    BY <2>1, <2>2 DEF Seen
<1>2. CASE f = [seen |-> seen, outcome |-> "failed"]
  BY <1>2 DEF Deserved
<1>3. ASSUME NEW more \in Streams!More(seen), NEW o \in {"none", "failed"}, f = [seen |-> more, outcome |-> o]
      PROVE  f.seen \in Seen /\ f.outcome = o /\ Deserved(f.outcome, f.seen)
  BY <1>1, <1>3 DEF Deserved
<1>4. ASSUME NEW more \in Streams!More(seen), f \in Streams!Final(more)
      PROVE  /\ f.seen \in Seen /\ f.outcome \in {"complete", "refused", "incomplete", "failed"}
             /\ Deserved(f.outcome, f.seen)
  <2>1. PICK o \in {"refused", "incomplete", "failed"} \cup IF more.content > 0 THEN {"complete"} ELSE {} :
          f = [seen |-> [more EXCEPT !.usage = TRUE], outcome |-> o]
    BY <1>4 DEF Streams!Final
  <2> DEFINE final == [more EXCEPT !.usage = TRUE]
  <2>2. final \in Seen /\ final.usage = TRUE /\ final.content = more.content
    BY <1>1 DEF Seen
  <2>3. f.seen = final /\ f.outcome = o
    BY <2>1
  <2> HIDE DEF final
  <2>4. o = "complete" => more.content > 0
    BY <2>1
  <2> QED
    BY <2>1, <2>2, <2>3, <2>4 DEF Deserved
<1>5. \/ f = [seen |-> seen, outcome |-> "failed"]
      \/ \E more \in Streams!More(seen), o \in {"none", "failed"} : f = [seen |-> more, outcome |-> o]
      \/ \E more \in Streams!More(seen) : f \in Streams!Final(more)
  BY DEF Streams!Frame
<1> QED
  BY <1>2, <1>3, <1>4, <1>5

\* The last of a stream comes to something.
LEMMA LastFacts ==
  ASSUME NEW seen \in Seen, NEW f \in Streams!Last(seen)
  PROVE  LET g == Streams!OrIncomplete(f) IN
         /\ g.seen \in Seen /\ g.outcome \in {"complete", "refused", "incomplete", "failed"}
         /\ Deserved(g.outcome, g.seen)
<1>1. /\ f.seen \in Seen /\ f.outcome \in {"none", "complete", "refused", "incomplete", "failed"}
      /\ Deserved(f.outcome, f.seen) /\ DOMAIN f = {"seen", "outcome"}
  <2>1. CASE f = [seen |-> seen, outcome |-> "none"]
    BY <2>1 DEF Deserved
  <2>2. CASE f \in Streams!Frame(seen)
    BY <2>2, FrameFacts DEF Streams!Frame, Streams!Final
  <2> QED
    BY <2>1, <2>2 DEF Streams!Last
<1>2. CASE f.outcome # "none"
  BY <1>1, <1>2 DEF Streams!OrIncomplete
<1>3. CASE f.outcome = "none"
  <2>1. Streams!OrIncomplete(f) = [f EXCEPT !.outcome = "incomplete"]
    BY <1>3 DEF Streams!OrIncomplete
  <2>2. Streams!OrIncomplete(f).seen = f.seen /\ Streams!OrIncomplete(f).outcome = "incomplete"
    BY <1>1, <2>1
  <2> QED
    BY <1>1, <2>2 DEF Deserved
<1> QED
  BY <1>2, <1>3

\* A handle as a frame that ends the answer leaves it: only what was seen, the outcome
\* and the reader have changed.
EndedAs(s, w, seen, outcome) ==
  /\ s \in Handle /\ s.seen = seen /\ s.outcome = outcome /\ s.reader = "ending"
  /\ s.caller = w.caller /\ s.result = w.result /\ s.ending = w.ending /\ s.admitted = w.admitted
  /\ s.requested = w.requested /\ s.answered = w.answered /\ s.wire = w.wire
  /\ s.sub = w.sub

\* The reader's record once a frame has ended the answer.
LEMMA EndedHandle ==
  ASSUME NEW w \in Handle, NEW seen \in Seen, NEW outcome \in {"complete", "refused", "incomplete", "failed"},
         NEW s, s = [w EXCEPT !.seen = seen, !.outcome = outcome, !.reader = "ending"]
  PROVE  EndedAs(s, w, seen, outcome)
<1>1. s \in Handle
  BY DEF Handle
<1>2. s.seen = seen /\ s.outcome = outcome /\ s.reader = "ending"
  BY DEF Handle
<1>3. s.caller = w.caller /\ s.result = w.result /\ s.ending = w.ending /\ s.admitted = w.admitted
  BY DEF Handle
<1>4. s.requested = w.requested /\ s.answered = w.answered /\ s.wire = w.wire /\ s.sub = w.sub
  BY DEF Handle
<1> QED
  BY <1>1, <1>2, <1>3, <1>4 DEF EndedAs

\* A subscriber that goes on, or leaves a handle that has ended as it is.
LEMMA ReaderStep ==
  ASSUME StreamsInv, NEW h \in Handles, stream[h].reader # "none",
         NEW s \in Handle, stream' = [stream EXCEPT ![h] = s], UNCHANGED client,
         s.caller = stream[h].caller, s.result = stream[h].result, s.ending = stream[h].ending,
         s.admitted = stream[h].admitted, s.requested = stream[h].requested, s.answered = stream[h].answered,
         s.seen # stream[h].seen => stream[h].ending = "no",
         s.wire # "none", s.wire = "open" => stream[h].wire = "open",
         s.sub = "open" /\ stream[h].ending # "no" => stream[h].sub = "open" /\ stream[h].reader # "subscribed",
         s.reader = "ending" => s.outcome # "none" /\ Deserved(s.outcome, s.seen)
  PROVE  StreamsInv'
<1> DEFINE b == stream[h]
<1>1. b \in Handle /\ SoundEnding(b) /\ SoundProgress(b) /\ Kept(h, b, client) /\ client \in Client
  BY HandleFacts
<1>2. b.wire # "none"
  BY <1>1 DEF SoundProgress
<1>3. SoundEnding(s)
  BY <1>1 DEF SoundEnding
<1> QED
  BY <1>2, <1>3, TransportStep

\* The subscriber looks whether its subscription is wanted, and at what the reply says of itself.
LEMMA SubscribedSafe ==
  ASSUME StreamsInv, NEW h \in Handles, Streams!Subscribed(h)
  PROVE  StreamsInv'
<1> DEFINE b == stream[h]
<1>1. b \in Handle /\ SoundEnding(b) /\ SoundProgress(b) /\ Kept(h, b, client) /\ client \in Client
  BY HandleFacts
<1>2. b.reader = "subscribed" /\ UNCHANGED client /\ b.wire # "none"
      /\ b.wire \in {"open", "failed", "cancelled", "done"}
  BY <1>1 DEF Streams!Subscribed, SoundProgress, Handle
<1>3. CASE Streams!Over(h)
  <2> DEFINE s == [b EXCEPT !.sub = "cancelled", !.reader = "over"]
  <2>1. stream' = [stream EXCEPT ![h] = s]
    BY <1>3 DEF Streams!Subscribed, Streams!Step
  <2>2. /\ s \in Handle /\ s.sub = "cancelled" /\ s.reader = "over"
        /\ s.caller = b.caller /\ s.result = b.result /\ s.ending = b.ending /\ s.admitted = b.admitted
        /\ s.requested = b.requested /\ s.answered = b.answered /\ s.seen = b.seen
        /\ s.wire = b.wire /\ s.outcome = b.outcome
    BY <1>1 DEF Handle
  <2> HIDE DEF s
  <2> QED
    BY <1>2, <2>1, <2>2, ReaderStep
<1>4. ~Streams!Over(h) => b.ending = "no"
  BY <1>1 DEF Streams!Over, SoundEnding
<1>5. CASE ~Streams!Over(h) /\ Streams!Step(h, [b EXCEPT !.reader = "reading"])
  <2> DEFINE s == [b EXCEPT !.reader = "reading"]
  <2>1. stream' = [stream EXCEPT ![h] = s]
    BY <1>5 DEF Streams!Step
  <2>2. /\ s \in Handle /\ s.reader = "reading"
        /\ s.caller = b.caller /\ s.result = b.result /\ s.ending = b.ending /\ s.admitted = b.admitted
        /\ s.requested = b.requested /\ s.answered = b.answered /\ s.seen = b.seen
        /\ s.wire = b.wire /\ s.sub = b.sub /\ s.outcome = b.outcome
    BY <1>1 DEF Handle
  <2> HIDE DEF s
  <2> QED
    BY <1>2, <1>4, <1>5, <2>1, <2>2, ReaderStep
<1>6. CASE ~Streams!Over(h) /\ Streams!Step(h, [Streams!Finished(b, "failed") EXCEPT !.reader = "over"])
  <2>1. "failed" \in Status /\ Deserved("failed", b.seen)
    BY DEF Status, Deserved
  <2>2. stream' = [stream EXCEPT ![h] = [Streams!Finished(b, "failed") EXCEPT !.reader = "over"]]
    BY <1>6 DEF Streams!Step
  <2> QED
    BY <1>2, <1>4, <1>6, <2>1, <2>2, ReaderFinishes
<1> QED
  BY <1>3, <1>5, <1>6 DEF Streams!Subscribed

\* A frame is taken in under the lock, unless the handle has ended.
LEMMA OnNextSafe ==
  ASSUME StreamsInv, NEW h \in Handles, Streams!OnNext(h)
  PROVE  StreamsInv'
<1> DEFINE b == stream[h]
<1>1. b \in Handle /\ SoundEnding(b) /\ SoundProgress(b) /\ Kept(h, b, client) /\ client \in Client
  BY HandleFacts
<1>2. b.reader = "reading" /\ UNCHANGED client /\ b.wire # "none"
  BY <1>1 DEF Streams!OnNext, SoundProgress
<1>3. CASE Streams!Over(h)
  <2> DEFINE s == [b EXCEPT !.reader = "over"]
  <2>1. stream' = [stream EXCEPT ![h] = s]
    BY <1>3 DEF Streams!OnNext, Streams!Step
  <2>2. /\ s \in Handle /\ s.reader = "over"
        /\ s.caller = b.caller /\ s.result = b.result /\ s.ending = b.ending /\ s.admitted = b.admitted
        /\ s.requested = b.requested /\ s.answered = b.answered /\ s.seen = b.seen
        /\ s.wire = b.wire /\ s.sub = b.sub /\ s.outcome = b.outcome
    BY <1>1 DEF Handle
  <2> HIDE DEF s
  <2> QED
    BY <1>2, <2>1, <2>2, ReaderStep
<1>4. CASE ~Streams!Over(h)
  <2>1. PICK f \in Streams!Frame(b.seen) : stream' = [stream EXCEPT ![h] = Streams!Reads(b, f)]
    BY <1>4 DEF Streams!OnNext, Streams!Step
  <2>2. /\ f.seen \in Seen /\ f.outcome \in {"none", "complete", "refused", "incomplete", "failed"}
        /\ Deserved(f.outcome, f.seen)
    BY <1>1, FrameFacts DEF Handle
  <2>3. b.ending = "no"
    BY <1>1, <1>4 DEF Streams!Over, SoundEnding
  <2>4. CASE f.outcome = "none"
    <3> DEFINE s == [b EXCEPT !.seen = f.seen]
    <3>1. stream' = [stream EXCEPT ![h] = s]
      BY <2>1, <2>4 DEF Streams!Reads
    <3>2. /\ s \in Handle /\ s.seen = f.seen
          /\ s.caller = b.caller /\ s.result = b.result /\ s.ending = b.ending /\ s.admitted = b.admitted
          /\ s.requested = b.requested /\ s.answered = b.answered /\ s.wire = b.wire
          /\ s.sub = b.sub /\ s.reader = b.reader /\ s.outcome = b.outcome
      BY <1>1, <2>2 DEF Handle
    <3> HIDE DEF s
    <3> QED
      BY <1>2, <2>3, <3>1, <3>2, ReaderStep
  <2>5. CASE f.outcome # "none"
    <3>3. PICK seen \in Seen, outcome \in {"complete", "refused", "incomplete", "failed"} :
            seen = f.seen /\ outcome = f.outcome
      BY <2>2, <2>5
    <3>1. PICK s : /\ s = [b EXCEPT !.seen = seen, !.outcome = outcome, !.reader = "ending"]
                   /\ stream' = [stream EXCEPT ![h] = s]
      BY <2>1, <2>5, <3>3 DEF Streams!Reads, Streams!Ends
    <3>2. /\ s \in Handle /\ s.seen = seen /\ s.outcome = outcome /\ s.reader = "ending"
          /\ s.caller = b.caller /\ s.result = b.result /\ s.ending = b.ending /\ s.admitted = b.admitted
          /\ s.requested = b.requested /\ s.answered = b.answered /\ s.wire = b.wire
          /\ s.sub = b.sub
      <4>1. EndedAs(s, b, seen, outcome)
        BY <1>1, <3>1, EndedHandle, Zenon
      <4> QED BY <4>1 DEF EndedAs
    <3>4. Deserved(outcome, seen)
      BY <2>2, <3>3
    <3> HIDE DEF b
    <3> QED
      BY <1>2, <2>3, <3>1, <3>2, <3>4, ReaderStep DEF b
  <2> QED
    BY <2>4, <2>5
<1> QED
  BY <1>3, <1>4

\* The stream's last bytes are in.
LEMMA OnCompleteSafe ==
  ASSUME StreamsInv, NEW h \in Handles, Streams!OnComplete(h)
  PROVE  StreamsInv'
<1> DEFINE b == stream[h]
           wire == IF b.wire = "open" THEN "done" ELSE b.wire
           w == [b EXCEPT !.wire = wire]
<1>1. b \in Handle /\ SoundEnding(b) /\ SoundProgress(b) /\ Kept(h, b, client) /\ client \in Client
  BY HandleFacts
<1>2. b.reader = "reading" /\ UNCHANGED client /\ b.wire # "none"
  BY <1>1 DEF Streams!OnComplete, SoundProgress
<1>3. wire \in {"failed", "cancelled", "done"}
  BY <1>1, <1>2 DEF Handle
<1>4. CASE Streams!Over(h) /\ stream' = [stream EXCEPT ![h] = [w EXCEPT !.reader = "over"]]
  <2> DEFINE s == [w EXCEPT !.reader = "over"]
  <2> HIDE DEF wire
  <2>1. /\ w \in Handle /\ w.wire = wire
        /\ w.caller = b.caller /\ w.result = b.result /\ w.ending = b.ending /\ w.admitted = b.admitted
        /\ w.requested = b.requested /\ w.answered = b.answered /\ w.seen = b.seen
        /\ w.sub = b.sub /\ w.reader = b.reader /\ w.outcome = b.outcome
    BY <1>1, <1>3 DEF Handle
  <2>2. stream' = [stream EXCEPT ![h] = s]
    BY <1>4
  <2> HIDE DEF w
  <2>3. /\ s \in Handle /\ s.reader = "over"
        /\ s.caller = w.caller /\ s.result = w.result /\ s.ending = w.ending /\ s.admitted = w.admitted
        /\ s.requested = w.requested /\ s.answered = w.answered /\ s.seen = w.seen
        /\ s.wire = w.wire /\ s.sub = w.sub /\ s.outcome = w.outcome
    BY <2>1 DEF Handle
  <2> HIDE DEF s
  <2>4. s.sub = b.sub /\ s.seen = b.seen /\ s.wire = wire /\ s.wire # "none" /\ s.wire # "open"
    BY <1>3, <2>1, <2>3
  <2> QED
    BY <1>2, <2>1, <2>2, <2>3, <2>4, ReaderStep
<1>5. CASE /\ ~Streams!Over(h)
           /\ \E f \in Streams!Last(w.seen) : stream' = [stream EXCEPT ![h] = Streams!Ends(w, Streams!OrIncomplete(f))]
  <2> HIDE DEF wire
  <2>1. /\ w \in Handle /\ w.wire = wire
        /\ w.caller = b.caller /\ w.result = b.result /\ w.ending = b.ending /\ w.admitted = b.admitted
        /\ w.requested = b.requested /\ w.answered = b.answered /\ w.seen = b.seen
        /\ w.sub = b.sub /\ w.reader = b.reader /\ w.outcome = b.outcome
    BY <1>1, <1>3 DEF Handle
  <2>2. PICK f \in Streams!Last(w.seen) : stream' = [stream EXCEPT ![h] = Streams!Ends(w, Streams!OrIncomplete(f))]
    BY <1>5
  <2>3. /\ Streams!OrIncomplete(f).seen \in Seen
        /\ Streams!OrIncomplete(f).outcome \in {"complete", "refused", "incomplete", "failed"}
        /\ Deserved(Streams!OrIncomplete(f).outcome, Streams!OrIncomplete(f).seen)
    BY <2>1, LastFacts DEF Handle
  <2>4. PICK seen \in Seen, outcome \in {"complete", "refused", "incomplete", "failed"} :
          /\ seen = Streams!OrIncomplete(f).seen /\ outcome = Streams!OrIncomplete(f).outcome
    BY <2>3
  <2> DEFINE s == [w EXCEPT !.seen = seen, !.outcome = outcome, !.reader = "ending"]
  <2>5. stream' = [stream EXCEPT ![h] = s] /\ Deserved(outcome, seen)
    BY <2>2, <2>3, <2>4 DEF Streams!Ends
  <2> HIDE DEF w
  <2>6. /\ s \in Handle /\ s.seen = seen /\ s.outcome = outcome /\ s.reader = "ending"
        /\ s.caller = w.caller /\ s.result = w.result /\ s.ending = w.ending /\ s.admitted = w.admitted
        /\ s.requested = w.requested /\ s.answered = w.answered /\ s.wire = w.wire
        /\ s.sub = w.sub
    <3>1. PICK t : t = s
      OBVIOUS
    <3>2. EndedAs(t, w, seen, outcome)
      BY <2>1, <3>1, EndedHandle, Zenon
    <3> QED BY <3>1, <3>2 DEF EndedAs
  <2> HIDE DEF s
  <2>7. b.ending = "no"
    BY <1>1, <1>5 DEF Streams!Over, SoundEnding
  <2>8. s.wire # "none" /\ s.wire # "open" /\ s.outcome # "none" /\ Deserved(s.outcome, s.seen)
    BY <1>3, <2>1, <2>5, <2>6
  <2> QED
    BY <1>2, <2>1, <2>5, <2>6, <2>7, <2>8, ReaderStep
<1> QED
  BY <1>4, <1>5 DEF Streams!OnComplete, Streams!Step

\* The transport reports an error to the subscriber.
LEMMA OnErrorSafe ==
  ASSUME StreamsInv, NEW h \in Handles, Streams!OnError(h)
  PROVE  StreamsInv'
<1> DEFINE b == stream[h]
           t == Streams!Finished(b, "failed")
           s == [t EXCEPT !.reader = "over", !.wire = "failed"]
<1>1. b \in Handle /\ SoundEnding(b) /\ SoundProgress(b) /\ Kept(h, b, client) /\ client \in Client
  BY HandleFacts
<1>2. /\ stream' = [stream EXCEPT ![h] = s] /\ b.reader = "reading" /\ b.wire # "none" /\ UNCHANGED client
      /\ "failed" \in Status /\ Deserved("failed", b.seen)
  BY <1>1 DEF Streams!OnError, Streams!Step, SoundProgress, Status, Deserved
<1> HIDE DEF b
<1>3. /\ t \in Handle /\ SoundEnding(t) /\ t.ending # "no" /\ t.ending \in {"timer", b.ending}
      /\ t.caller = b.caller /\ t.admitted = b.admitted /\ t.requested = b.requested /\ t.sub = b.sub
      /\ t.reader = b.reader
  BY <1>1, <1>2, FinishedFacts
<1> HIDE DEF t
<1>4. /\ s \in Handle /\ s.reader = "over" /\ s.wire = "failed"
      /\ s.caller = t.caller /\ s.result = t.result /\ s.ending = t.ending /\ s.admitted = t.admitted
      /\ s.requested = t.requested /\ s.answered = t.answered /\ s.seen = t.seen
      /\ s.sub = t.sub /\ s.outcome = t.outcome
  BY <1>3 DEF Handle
<1> HIDE DEF s
<1>5. s.sub = "open" /\ s.ending \notin {"no", "timer", "body"} => s.reader = "subscribed"
  BY <1>1, <1>2, <1>3, <1>4 DEF SoundEnding
<1>6. SoundEnding(s)
  BY <1>3, <1>4, <1>5 DEF SoundEnding
<1>7. s.caller = stream[h].caller /\ s.requested = stream[h].requested /\ s.admitted = stream[h].admitted
      /\ s.ending \in {"timer", stream[h].ending} /\ stream[h].wire # "none"
  BY <1>2, <1>3, <1>4 DEF b
<1>8. s.reader # "ending" /\ s.ending # "no" /\ s.wire # "none"
  BY <1>3, <1>4
<1> QED
  BY <1>2, <1>4, <1>6, <1>7, <1>8, TransportStep

\* The subscriber ends the handle with what its last frame came to.
LEMMA EndSafe ==
  ASSUME StreamsInv, NEW h \in Handles, Streams!End(h)
  PROVE  StreamsInv'
<1>1. stream[h] \in Handle /\ SoundProgress(stream[h])
  BY HandleFacts
<1>2. stream[h].reader = "ending" /\ UNCHANGED client
      /\ stream' = [stream EXCEPT ![h] = [Streams!Finished(stream[h], stream[h].outcome) EXCEPT !.reader = "over"]]
  BY DEF Streams!End, Streams!Step
<1>3. stream[h].outcome \in Status /\ Deserved(stream[h].outcome, stream[h].seen)
  BY <1>1, <1>2 DEF SoundProgress, Handle, Status
<1> QED
  BY <1>2, <1>3, ReaderFinishes

\* A failure of the exchange is reported.
LEMMA ReportedSafe ==
  ASSUME StreamsInv, NEW h \in Handles, Streams!Reported(h)
  PROVE  StreamsInv'
<1>1. PICK status \in {"incomplete", "failed"} : Streams!Step(h, Streams!Finished(stream[h], status))
  BY DEF Streams!Reported
<1>2. stream[h].caller \notin Early /\ status \in Status /\ status # "complete" /\ UNCHANGED client
  BY <1>1 DEF Streams!Reported, Streams!At, Early, Status
<1> QED
  BY <1>1, <1>2, FinishesSafe

\* Every step of the exchange and its subscriber.
LEMMA TransportSafe ==
  ASSUME StreamsInv, NEW h \in Handles, Streams!Transport(h)
  PROVE  StreamsInv'
BY WireFailsSafe, ReportedSafe, OnSubscribeSafe, SubscribedSafe, OnNextSafe, OnCompleteSafe, OnErrorSafe,
   EndSafe DEF Streams!Transport

\* A handle that the timer or close finishes, with its mark in the client taken away.
LEMMA MarkedFinishes ==
  ASSUME StreamsInv, NEW h \in Handles, NEW status \in Status, status # "complete",
         stream[h].caller \notin Early, Streams!Step(h, Streams!Finished(stream[h], status)),
         NEW c \in Client, client' = c, c.stage = client.stage, c.active = client.active,
         c.left \ {h} = client.left \ {h}, c.timers \ {h} = client.timers \ {h},
         c.permits = client.permits, c.calls = client.calls
  PROVE  StreamsInv'
<1> DEFINE b == stream[h]
           s == Streams!Finished(b, status)
<1>1. b \in Handle /\ SoundEnding(b) /\ SoundProgress(b) /\ Kept(h, b, client) /\ client \in Client
  BY HandleFacts
<1>2. Deserved(status, b.seen)
  BY DEF Deserved
<1>3. stream' = [stream EXCEPT ![h] = s] /\ b.caller \notin Early
  BY DEF Streams!Step
<1>4. client.permits \in Int /\ client.calls \in Int
  BY <1>1, StreamConstants DEF Client
<1> HIDE DEF b
<1>5. /\ s \in Handle /\ SoundEnding(s) /\ SoundProgress(s) /\ s.ending # "no" /\ s.ending \in {"timer", b.ending}
      /\ s.caller = b.caller /\ s.admitted = b.admitted /\ s.requested = b.requested
  BY <1>1, <1>2, FinishedFacts
<1> HIDE DEF s
<1>6. Kept(h, s, c)
  BY <1>1, <1>3, <1>5 DEF Kept
<1>7. /\ c.permits = client.permits + (IF stream[h].admitted THEN 1 ELSE 0) - (IF s.admitted THEN 1 ELSE 0)
      /\ c.calls >= client.calls + (IF Spent(s) /\ ~Spent(stream[h]) THEN 1 ELSE 0)
  BY <1>4, <1>5 DEF Spent, b
<1> QED
  BY <1>3, <1>5, <1>6, <1>7, StreamStep

\* The deadline passes.
LEMMA DeadlineFiresSafe ==
  ASSUME StreamsInv, NEW h \in Handles, Streams!DeadlineFires(h)
  PROVE  StreamsInv'
<1> DEFINE c == [client EXCEPT !.timers = @ \ {h}]
<1>1. Kept(h, stream[h], client) /\ client \in Client
  BY HandleFacts
<1>2. client' = c /\ h \in client.timers /\ Streams!Step(h, Streams!Finished(stream[h], "incomplete"))
  BY DEF Streams!DeadlineFires
<1>3. /\ c \in Client /\ c.timers = client.timers \ {h} /\ c.stage = client.stage /\ c.active = client.active
      /\ c.left = client.left /\ c.permits = client.permits /\ c.calls = client.calls
  BY <1>1 DEF Client
<1>4. stream[h].caller \notin Early /\ "incomplete" \in Status
  BY <1>1, <1>2 DEF Kept, Status
<1> HIDE DEF c
<1> QED
  BY <1>2, <1>3, <1>4, MarkedFinishes

\* close cancels one of those it found.
LEMMA CancelNextSafe ==
  ASSUME StreamsInv, NEW h \in Handles, Streams!CancelNext(h)
  PROVE  StreamsInv'
<1> DEFINE c == [client EXCEPT !.left = @ \ {h}]
<1>1. Kept(h, stream[h], client) /\ client \in Client
  BY HandleFacts
<1>2. client' = c /\ h \in client.left \cup client.active
      /\ Streams!Step(h, Streams!Finished(stream[h], "cancelled"))
  BY DEF Streams!CancelNext
<1>3. /\ c \in Client /\ c.left = client.left \ {h} /\ c.stage = client.stage /\ c.active = client.active
      /\ c.timers = client.timers /\ c.permits = client.permits /\ c.calls = client.calls
  BY <1>1 DEF Client
<1>4. stream[h].caller \notin Early /\ "cancelled" \in Status
  BY <1>1, <1>2 DEF Kept, Status
<1> HIDE DEF c
<1> QED
  BY <1>2, <1>3, <1>4, MarkedFinishes

\* A caller cancels.
LEMMA CancelSafe ==
  ASSUME StreamsInv, NEW h \in Handles, Streams!Cancel(h)
  PROVE  StreamsInv'
<1>1. stream[h].caller \notin Early /\ "cancelled" \in Status /\ UNCHANGED client
      /\ Streams!Step(h, Streams!Finished(stream[h], "cancelled"))
  BY DEF Streams!Cancel, Streams!At, Early, Status
<1> QED
  BY <1>1, FinishesSafe

\* close goes on to its next stage.
LEMMA ClosesSafe ==
  ASSUME StreamsInv, Streams!SetClosed \/ Streams!Iterate \/ Streams!Shutdown
  PROVE  StreamsInv'
<1>1. client \in Client /\ \A h \in Handles : Kept(h, stream[h], client)
  BY DEF StreamsInv
<1>2. /\ stream' = stream /\ client' \in Client /\ client'.permits = client.permits
      /\ client'.calls = client.calls /\ \A h \in Handles : Kept(h, stream[h], client')
  <2>1. CASE Streams!SetClosed
    <3>1. /\ stream' = stream /\ client' = [client EXCEPT !.stage = "closed"]
      BY <2>1 DEF Streams!SetClosed
    <3>2. /\ client' \in Client /\ client'.stage = "closed" /\ client'.left = client.left
          /\ client'.permits = client.permits /\ client'.calls = client.calls
          /\ client'.active = client.active /\ client'.timers = client.timers
      BY <1>1, <3>1 DEF Client
    <3> QED
      BY <1>1, <3>1, <3>2 DEF Kept
  <2>2. CASE Streams!Iterate
    <3>1. /\ stream' = stream /\ client' = [client EXCEPT !.stage = "cancelling", !.left = client.active]
      BY <2>2 DEF Streams!Iterate
    <3>2. /\ client' \in Client /\ client'.stage = "cancelling" /\ client'.left = client.active
          /\ client'.permits = client.permits /\ client'.calls = client.calls
          /\ client'.active = client.active /\ client'.timers = client.timers
      BY <1>1, <3>1 DEF Client
    <3> QED
      BY <1>1, <3>1, <3>2 DEF Kept, Early
  <2>3. CASE Streams!Shutdown
    <3>1. /\ stream' = stream /\ client' = [client EXCEPT !.stage = "shut", !.timers = {}]
          /\ client.stage = "cancelling" /\ client.left = {}
      BY <2>3 DEF Streams!Shutdown
    <3>2. /\ client' \in Client /\ client'.stage = "shut" /\ client'.left = {}
          /\ client'.permits = client.permits /\ client'.calls = client.calls
          /\ client'.active = client.active /\ client'.timers = {}
      BY <1>1, <3>1 DEF Client
    <3> QED
      BY <1>1, <3>1, <3>2 DEF Kept
  <2> QED
    BY <2>1, <2>2, <2>3
<1>3. AdmittedHandles' = AdmittedHandles /\ SpentHandles' = SpentHandles
  BY <1>2 DEF AdmittedHandles, SpentHandles
<1> QED
  BY <1>2, <1>3 DEF StreamsInv

\* Every step keeps the invariant.
LEMMA StreamsStep ==
  ASSUME StreamsInv, Streams!Next
  PROVE  StreamsInv'
<1>1. ASSUME NEW h \in Handles, Streams!Start(h) PROVE StreamsInv'
  BY <1>1, StartSafe
<1>2. ASSUME NEW h \in Handles, Streams!Finish(h) PROVE StreamsInv'
  BY <1>2, CancelsSafe, CancelWireSafe, LeavePlaceSafe, AnswerSafe DEF Streams!Finish
<1>3. ASSUME NEW h \in Handles, Streams!Transport(h) PROVE StreamsInv'
  BY <1>3, TransportSafe
<1>4. ASSUME NEW h \in Handles, Streams!DeadlineFires(h) \/ Streams!Cancel(h) \/ Streams!CancelNext(h)
      PROVE StreamsInv'
  BY <1>4, DeadlineFiresSafe, CancelSafe, CancelNextSafe
<1>5. CASE Streams!SetClosed \/ Streams!Iterate \/ Streams!Shutdown
  BY <1>5, ClosesSafe
<1> QED
  BY <1>1, <1>2, <1>3, <1>4, <1>5 DEF Streams!Next, Streams!Closes

\* Nothing has begun.
LEMMA StreamsInitial ==
  ASSUME Streams!Init
  PROVE  StreamsInv
<1>1. /\ stream = [h \in Handles |-> Streams!NewHandle] /\ ConcurrentCalls \in Nat /\ CallLimit \in Nat
      /\ ContentLimit \in Nat
      /\ client = [stage |-> "open", left |-> {}, permits |-> ConcurrentCalls, calls |-> 0,
                   active |-> {}, timers |-> {}]
  BY StreamConstants DEF Streams!Init
<1> DEFINE n == Streams!NewHandle
<1>2. /\ n.caller = "new" /\ n.result = Streams!NoResult /\ n.ending = "no" /\ n.admitted = FALSE
      /\ n.requested = FALSE /\ n.answered = FALSE /\ n.wire = "none" /\ n.sub = "none"
      /\ n.reader = "none" /\ n.outcome = "none"
  BY DEF Streams!NewHandle
<1>3. n \in Handle
  <2>1. Streams!NothingSeen \in Seen
    BY <1>1 DEF Streams!NothingSeen, Seen
  <2> QED
    BY <2>1 DEF Streams!NewHandle, Handle, Early
<1>4. /\ client \in Client /\ client.stage = "open" /\ client.permits = ConcurrentCalls /\ client.calls = 0
      /\ client.active = {} /\ client.left = {} /\ client.timers = {}
  <2>1. ConcurrentCalls \in 0..ConcurrentCalls /\ 0 \in 0..CallLimit
    BY <1>1
  <2> QED
    BY <1>1, <2>1 DEF Client
<1> HIDE DEF n
<1>5. SoundEnding(n) /\ SoundProgress(n)
  BY <1>2 DEF SoundEnding, SoundProgress
<1>6. \A h \in Handles : stream[h] = n
  BY <1>1 DEF n
<1>7. \A h \in Handles : Kept(h, stream[h], client)
  BY <1>2, <1>4, <1>6 DEF Kept, Early
<1>8. AdmittedHandles = {} /\ SpentHandles = {}
  BY <1>2, <1>6 DEF AdmittedHandles, SpentHandles, Spent
<1>9. Cardinality(AdmittedHandles) = 0 /\ Cardinality(SpentHandles) = 0
  BY <1>8, FS_EmptySet
<1>10. stream \in [Handles -> Handle]
  BY <1>1, <1>3 DEF n
<1> QED
  BY <1>1, <1>4, <1>5, <1>6, <1>7, <1>9, <1>10 DEF StreamsInv

\* What the invariant says of the properties.
LEMMA StreamsFollow ==
  ASSUME StreamsInv
  PROVE  StreamsAreLawful
<1>1. Streams!TypeOK
  <2>1. stream \in [Handles -> Handle] /\ client \in Client
    BY DEF StreamsInv
  <2>2. client.stage \in {"open", "closed", "cancelling", "shut"}
        /\ client.active \cup client.timers \cup client.left \subseteq Handles
        /\ client.permits \in 0..ConcurrentCalls /\ client.calls \in 0..CallLimit
    BY <2>1 DEF Client
  <2> QED
    BY <2>1, <2>2 DEF Streams!TypeOK, Handle, Result, Status, Seen, Early
<1>2. Streams!PlacesAreKept
  <2>1. Streams!Admitted = AdmittedHandles
    BY DEF Streams!Admitted, AdmittedHandles
  <2> DEFINE asked == {h \in Handles : stream[h].requested}
  <2>2. asked \subseteq SpentHandles /\ SpentHandles \subseteq Handles
    BY DEF SpentHandles, Spent
  <2>3. /\ Cardinality(asked) <= Cardinality(SpentHandles)
        /\ Cardinality(asked) \in Nat /\ Cardinality(SpentHandles) \in Nat
    BY <2>2, StreamConstants, FS_Subset
  <2>4. Cardinality(SpentHandles) <= client.calls /\ client.calls \in Nat
    BY StreamConstants DEF StreamsInv, Client
  <2>5. Streams!Cardinality(asked) <= client.calls
    BY <2>3, <2>4, SameCount
  <2>6. client.permits + Streams!Cardinality(Streams!Admitted) = ConcurrentCalls
    BY <2>1, SameCount DEF StreamsInv
  <2>7. ASSUME NEW h \in Handles, stream[h].answered PROVE h \notin Streams!Admitted \cup client.active
    BY <2>7, HandleFacts DEF SoundEnding, Kept, Streams!Admitted
  <2> QED
    BY <2>5, <2>6, <2>7 DEF Streams!PlacesAreKept
<1>3. Streams!ResultsAreFinal
  BY HandleFacts DEF Streams!ResultsAreFinal, Streams!Over, SoundEnding, Deserved
<1>4. Streams!NothingRunsOn
  BY HandleFacts DEF Streams!NothingRunsOn, Streams!At, SoundEnding
<1>5. Streams!NoneIsOrphaned
  BY HandleFacts DEF Streams!NoneIsOrphaned, Streams!At, Streams!Over, SoundEnding, Kept, Early
<1> QED
  BY <1>1, <1>2, <1>3, <1>4, <1>5 DEF StreamsAreLawful, Streams!StreamsAreLawful

\* Streams end once, give back their places before they answer, leave no exchange running
\* and are not orphaned by close, for any handles and limits and any interleaving of the
\* threads that meet over a handle (StreamingOllamaClient).
THEOREM StreamsLawful == RequestSpec => []StreamsAreLawful
<1> DEFINE all == <<lab, vars, streamVars, hookVars, refundVars>>
<1>1. RequestInit => StreamsInv
  BY StreamsInitial DEF RequestInit
<1>2. StreamsInv /\ [RequestNext]_all => StreamsInv'
  <2> SUFFICES ASSUME StreamsInv, [RequestNext]_all PROVE StreamsInv'
    OBVIOUS
  <2>1. CASE Streams!Next
    BY <2>1, StreamsStep
  <2>2. CASE UNCHANGED streamVars
    <3>1. stream' = stream /\ client' = client
      BY <2>2 DEF streamVars
    <3>2. AdmittedHandles' = AdmittedHandles /\ SpentHandles' = SpentHandles
      BY <3>1 DEF AdmittedHandles, SpentHandles
    <3> QED
      BY <3>1, <3>2 DEF StreamsInv
  <2> QED
    BY <2>1, <2>2 DEF RequestNext
<1>3. StreamsInv => StreamsAreLawful
  BY StreamsFollow
<1> QED
  BY <1>1, <1>2, <1>3, PTL DEF RequestSpec
==============================================================================
