----------------------------- MODULE OrderLedger -----------------------------
(***************************************************************************)
(* What an order saga promises, with no coordinator, receipts, retries or  *)
(* crashes in sight.  An order is placed once with one request.  Its stock *)
(* is held at most once, it is paid at most once and only while the stock  *)
(* is held, and the stock goes back at most once and only after payment    *)
(* has been refused.  A verdict is reported at most once, agrees with what *)
(* happened to the order, and closes it.                                   *)
(***************************************************************************)
EXTENDS Naturals

CONSTANTS Orders, Requests, NoRequest, Quantity, Cents, InitialStock

VARIABLES order, verdict, stock, captured

vars == <<order, verdict, stock, captured>>

Init ==
  /\ order = [o \in Orders |-> [status |-> "new", request |-> NoRequest]]
  /\ verdict = [o \in Orders |-> "open"]
  /\ stock = InitialStock
  /\ captured = 0

Becomes(o, from, to) ==
  /\ order[o].status = from
  /\ order' = [order EXCEPT ![o].status = to]
  /\ UNCHANGED verdict

Place(o, r) ==
  /\ order[o].status = "new"
  /\ order' = [order EXCEPT ![o] = [status |-> "placed", request |-> r]]
  /\ UNCHANGED <<verdict, stock, captured>>

Hold(o) ==
  /\ Becomes(o, "placed", "held")
  /\ Quantity[order[o].request] <= stock
  /\ stock' = stock - Quantity[order[o].request]
  /\ UNCHANGED captured

Refuse(o)  == Becomes(o, "placed", "refused") /\ UNCHANGED <<stock, captured>>

Pay(o) ==
  /\ Becomes(o, "held", "paid")
  /\ captured' = captured + Cents[order[o].request]
  /\ UNCHANGED stock

Decline(o) == Becomes(o, "held", "unpaid") /\ UNCHANGED <<stock, captured>>

GiveBack(o) ==
  /\ Becomes(o, "unpaid", "returned")
  /\ stock' = stock + Quantity[order[o].request]
  /\ UNCHANGED captured

\* Inventory may refuse to take the goods back; the order then stays open.
Strand(o)  == Becomes(o, "unpaid", "stranded") /\ UNCHANGED <<stock, captured>>

VerdictOf == [refused |-> "REJECTED", paid |-> "CONFIRMED", returned |-> "COMPENSATED"]

Report(o) ==
  /\ order[o].status \in DOMAIN VerdictOf
  /\ verdict[o] = "open"
  /\ verdict' = [verdict EXCEPT ![o] = VerdictOf[order[o].status]]
  /\ UNCHANGED <<order, stock, captured>>

Next == \E o \in Orders :
  \/ \E r \in Requests : Place(o, r)
  \/ Hold(o) \/ Refuse(o) \/ Pay(o) \/ Decline(o) \/ GiveBack(o) \/ Strand(o)
  \/ Report(o)

Spec == Init /\ [][Next]_vars
=============================================================================
