---------------------------- MODULE RefundWorkflow ----------------------------
(***************************************************************************)
(* examples/ai-backend: RefundWorkflow.  Refunds of an order are proposed  *)
(* under request keys and approved with the token of a proposal, by        *)
(* clients that repeat what they have lost the answer of.                  *)
(*                                                                         *)
(* propose makes its statements one by one, each a transaction of its own  *)
(* on one connection or another; approve makes one transaction, which      *)
(* holds the order's row from its second statement on.  A client may be    *)
(* lost at any point, with its connection or the process: what it has not  *)
(* committed is rolled back.  One tenant is modelled, since its statements *)
(* name it in every key.  A proposal goes by its request key, which the    *)
(* table keeps unique; a token is that of the proposal it signs.           *)
(***************************************************************************)
EXTENDS Integers, FiniteSets

CONSTANTS
  Clients, Keys, Orders, Amounts,
  NoProposal,
  Lifetime,                    \* of a proposal, in ticks of the clock, positive
  MaxClock                     \* bound

VARIABLES orders, proposals,
          desk,                \* client -> its call, and what it has read
          clock

Idle == [at |-> "idle"]

Init ==
  /\ orders = [o \in Orders |-> [version |-> 1, status |-> "paid"]]
  /\ proposals = [k \in Keys |-> NoProposal]
  /\ desk = [c \in Clients |-> Idle]
  /\ clock = 0

Known(k) == proposals[k] # NoProposal
At(c, stage) == desk[c].at = stage
Step(c, d) == desk' = [desk EXCEPT ![c] = d]
Answered(c, answer) == Step(c, [at |-> "answered", call |-> desk[c].call, key |-> desk[c].key, answer |-> answer])

\* Lost with its call, or done with its answer.
Leave(c) ==
  /\ ~At(c, "idle")
  /\ Step(c, Idle)
  /\ UNCHANGED <<orders, proposals, clock>>

Tick ==
  /\ clock < MaxClock
  /\ clock' = clock + 1
  /\ UNCHANGED <<orders, proposals, desk>>

-----------------------------------------------------------------------------
(* propose                                                                 *)

Lookup(c, k, o, cents) ==
  /\ At(c, "idle")
  /\ Step(c, [at |-> "looked", call |-> "propose", key |-> k, order |-> o, cents |-> cents, seen |-> orders[o]])
  /\ UNCHANGED <<orders, proposals, clock>>

SameAction(p, d) == p.order = d.order /\ p.cents = d.cents

FindKey(c) ==
  LET d == desk[c] IN
  /\ At(c, "looked")
  /\ IF Known(d.key) THEN Answered(c, IF SameAction(proposals[d.key], d) THEN "proposed" ELSE "conflict")
     ELSE IF d.seen.status # "paid" THEN Answered(c, "conflict")
     ELSE Step(c, [d EXCEPT !.at = "inserting"])
  /\ UNCHANGED <<orders, proposals, clock>>

\* The key may have been taken since it was looked for.
Insert(c) ==
  LET d == desk[c] IN
  /\ At(c, "inserting")
  /\ IF Known(d.key) THEN Answered(c, "conflict") /\ UNCHANGED proposals
     ELSE /\ proposals' = [proposals EXCEPT ![d.key] =
                [order |-> d.order, cents |-> d.cents, version |-> d.seen.version,
                 expiresAt |-> clock + Lifetime, status |-> "proposed"]]
          /\ Answered(c, "proposed")
  /\ UNCHANGED <<orders, clock>>

-----------------------------------------------------------------------------
(* approve                                                                 *)

\* With the token of proposal t, which its proposer has handed on.
ReadInitial(c, k, t) ==
  /\ At(c, "idle") /\ Known(k) /\ Known(t)
  /\ Step(c, [at |-> "initial", call |-> "approve", key |-> k, token |-> t, initial |-> proposals[k]])
  /\ UNCHANGED <<orders, proposals, clock>>

Holds(c, o) == (At(c, "locked") \/ At(c, "approved")) /\ desk[c].initial.order = o

LockOrder(c) ==
  LET o == desk[c].initial.order IN
  /\ At(c, "initial")
  /\ \A other \in Clients : ~Holds(other, o)
  /\ Step(c, [at |-> "locked", call |-> "approve", key |-> desk[c].key, token |-> desk[c].token,
              initial |-> desk[c].initial, seen |-> orders[o]])
  /\ UNCHANGED <<orders, proposals, clock>>

ReadBefore(c) == desk[c].initial            \* slip: what was read before the lock is used
Reread(c) == proposals[desk[c].key]

Verdict(d, p) ==
  IF d.token # d.key THEN "token invalid"
  ELSE IF p.status = "completed" THEN "completed"
  ELSE IF clock >= p.expiresAt THEN "expired"
  ELSE IF d.seen.version # p.version \/ d.seen.status # "paid" THEN "conflict"
  ELSE "none"

Decide(c) ==
  LET verdict == Verdict(desk[c], Reread(c)) IN
  /\ At(c, "locked")
  /\ IF verdict = "none" THEN Step(c, [desk[c] EXCEPT !.at = "approved"]) ELSE Answered(c, verdict)
  /\ UNCHANGED <<orders, proposals, clock>>

\* Both updates, and the commit; then the status is read again.
Commit(c) ==
  LET k == desk[c].key
      o == desk[c].initial.order IN
  /\ At(c, "approved")
  /\ orders' = [orders EXCEPT ![o] = [version |-> orders[o].version + 1, status |-> "refund-requested"]]
  /\ proposals' = [proposals EXCEPT ![k].status = "completed"]
  /\ Answered(c, "completed")
  /\ UNCHANGED clock

-----------------------------------------------------------------------------

Propose(c) == \/ \E k \in Keys, o \in Orders, cents \in Amounts : Lookup(c, k, o, cents)
              \/ FindKey(c) \/ Insert(c)
Approve(c) == \/ \E k, t \in Keys : ReadInitial(c, k, t)
              \/ LockOrder(c) \/ Decide(c) \/ Commit(c)

Next == (\E c \in Clients : Propose(c) \/ Approve(c) \/ Leave(c)) \/ Tick

-----------------------------------------------------------------------------
(* Properties.                                                             *)

Proposal == [order : Orders, cents : Amounts, version : 1..2, expiresAt : 0..MaxClock + Lifetime,
             status : {"proposed", "completed"}]

TypeOK ==
  /\ orders \in [Orders -> [version : 1..2, status : {"paid", "refund-requested"}]]
  /\ proposals \in [Keys -> Proposal \cup {NoProposal}]
  /\ clock \in 0..MaxClock

CompletedFor(o) == {k \in Keys : Known(k) /\ proposals[k].order = o /\ proposals[k].status = "completed"}

\* An order is refunded once, by one proposal, made of the order as it stood till then.
RefundedOnce ==
  \A o \in Orders :
    /\ Cardinality(CompletedFor(o)) = orders[o].version - 1
    /\ orders[o].status = (IF CompletedFor(o) = {} THEN "paid" ELSE "refund-requested")
    /\ \A k \in CompletedFor(o) : proposals[k].version = 1

\* Who repeats an approval is told what became of it, after its commit and after its expiry
\* too; and who is told that it expired or came too late can rely on that.
AnswersHold ==
  \A c \in Clients : (At(c, "answered") /\ desk[c].call = "approve") =>
    LET completed == proposals[desk[c].key].status = "completed" IN
    /\ desk[c].answer = "completed" => completed
    /\ desk[c].answer \in {"expired", "conflict"} => ~completed

RefundsAreLawful == TypeOK /\ RefundedOnce /\ AnswersHold
=============================================================================
