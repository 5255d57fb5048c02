------------------------------ MODULE RequestLabs ------------------------------
(* The labs whose requests meet deadlines, cancellations, repeats and a     *)
(* shutdown: sockets, model streams, webhook deliveries and refunds.  They  *)
(* do not call one another, so a behaviour is one of one lab; the others    *)
(* stay as they begin, where none of their fair actions is enabled.         *)
EXTENDS EchoRegistry

CONSTANTS
  Handles, ConcurrentCalls, CallLimit, ContentLimit,
  first, again, changed, another, NoBody, BodyLimit, SlotLimit, MaxCrashes,
  Clients, Keys, Orders, Amounts, NoProposal, Lifetime, MaxClock

ASSUME RequestAssumption ==
  /\ Handles \subseteq Nat /\ IsFiniteSet(Handles)
  /\ Nobody \notin {NoBody, first, again, changed, another} /\ NoBody \notin {"original", "edited"}
  /\ NoProposal \notin [order : Orders, cents : Amounts, version : 1..2, expiresAt : Nat,
                        status : {"proposed", "completed"}]
  /\ {ConcurrentCalls, CallLimit, ContentLimit, BodyLimit, SlotLimit, Lifetime} \subseteq Nat \ {0}
  /\ {MaxCrashes, MaxClock} \subseteq Nat

VARIABLES lab, stream, client, exchange, store, permits, orders, proposals, desk, clock

(* Four deliveries: an event, the same once more, the same with another     *)
(* body, and another event.                                                 *)
Exchanges == {first, again, changed, another}
Events == {"credit", "other"}
Bodies == {"original", "edited"}
Amount == [original |-> 3, edited |-> 5]
EventOf == [e \in Exchanges |-> IF e = another THEN "other" ELSE "credit"]
BodyOf == [e \in Exchanges |-> IF e = changed THEN "edited" ELSE "original"]

Streams == INSTANCE StreamingOllama
Hooks == INSTANCE WebhookIntake
Refunds == INSTANCE RefundWorkflow

streamVars == <<stream, client>>
hookVars == <<exchange, store, permits>>
refundVars == <<orders, proposals, desk, clock>>

RequestInit == /\ lab \in {"sockets", "streams", "webhooks", "refunds"}
               /\ Init /\ Streams!Init /\ Hooks!Init /\ Refunds!Init

RequestNext ==
  /\ UNCHANGED lab
  /\ \/ lab = "sockets" /\ Next /\ UNCHANGED <<streamVars, hookVars, refundVars>>
     \/ lab = "streams" /\ Streams!Next /\ UNCHANGED <<vars, hookVars, refundVars>>
     \/ lab = "webhooks" /\ Hooks!Next /\ UNCHANGED <<vars, streamVars, refundVars>>
     \/ lab = "refunds" /\ Refunds!Next /\ UNCHANGED <<vars, streamVars, hookVars>>

RequestSpec == /\ RequestInit /\ [][RequestNext]_<<lab, vars, streamVars, hookVars, refundVars>>
               /\ Fairness /\ Streams!Fairness /\ Hooks!Fairness

(* Streams end once, hold no place after their answer, and are not left     *)
(* running or orphaned.                                                     *)
StreamsAreLawful == Streams!StreamsAreLawful

(* Deliveries of one event, at once or repeated, take effect once, and      *)
(* senders are told what is stored.                                         *)
DeliveriesAreLawful == Hooks!DeliveriesAreLawful

(* An order is refunded once, and answers to repeated approvals hold.       *)
RefundsAreLawful == Refunds!RefundsAreLawful

(* What was admitted ends: a socket's place returns, a stream is answered,  *)
(* an exchange is finished.  Each begins once, so it is enough that again   *)
(* and again none is under way.                                             *)
EveryRequestEnds == []<>(AllReturned /\ Streams!AllAnswered /\ Hooks!AllOver)
================================================================================
