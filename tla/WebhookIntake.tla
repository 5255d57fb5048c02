----------------------------- MODULE WebhookIntake -----------------------------
(***************************************************************************)
(* examples/backend-webhooks: the exchanges of WebhookServlet and the      *)
(* transactions of EventStore.  A sender delivers an event as often as it  *)
(* likes, at once or after a lost reply, with the same or another body;    *)
(* the container times exchanges out; the process may be killed.           *)
(*                                                                         *)
(* An exchange's monitor is held from the first to the last step of        *)
(* onAllDataRead.  A statement of the transaction is an action: it waits   *)
(* for the row another transaction has locked, or fails after a while.     *)
(* One tenant is modelled, since a tenant's rows and keys are its own, and *)
(* a body stands for its hash and its amount.                              *)
(***************************************************************************)
EXTENDS Integers, FiniteSets, Functions

CONSTANTS
  Exchanges,                    \* bound: the requests that will be made
  Events, Bodies, Amount,       \* a body's amount is 1 to 1000
  EventOf, BodyOf,              \* what each exchange delivers
  NoBody, Nobody,
  BodyLimit, SlotLimit,         \* positive
  MaxCrashes                    \* bound

VARIABLES
  exchange,   \* how far it is, what came of its transaction, what was replied
  store,      \* the committed tables; and, for what is promised, who applied an event
  permits     \* of the two semaphores; and the crashes there have been

NewExchange == [at |-> "new", result |-> "none", reply |-> "none"]

Init ==
  /\ exchange = [e \in Exchanges |-> NewExchange]
  /\ store = [receipts |-> [v \in Events |-> NoBody], effects |-> {}, balance |-> 0,
              by |-> [v \in Events |-> Nobody]]
  /\ permits = [bodies |-> BodyLimit, slots |-> SlotLimit, crashes |-> 0]

vars == <<exchange, store, permits>>

At(e, stage) == exchange[e].at = stage
Step(e, x) == exchange' = [exchange EXCEPT ![e] = x]
Reaches(e, stage) == Step(e, [exchange[e] EXCEPT !.at = stage])

-----------------------------------------------------------------------------
(* The servlet.                                                            *)

\* Refused at once: what the headers say, the request budget, no place for a body.
Refuse(e) ==
  /\ At(e, "new")
  /\ Step(e, [exchange[e] EXCEPT !.at = "over", !.reply = "refused"])
  /\ UNCHANGED <<store, permits>>

Service(e) ==
  /\ At(e, "new") /\ permits.bodies > 0
  /\ permits' = [permits EXCEPT !.bodies = @ - 1]
  /\ Reaches(e, "open")
  /\ UNCHANGED store

\* finish: who holds the monitor finds it unfinished.
Finish(e, reply) ==
  /\ Step(e, [exchange[e] EXCEPT !.at = "over", !.reply = reply])
  /\ permits' = [permits EXCEPT !.bodies = @ + 1]

\* The container's timeout, an error of the transport, a body that is late or too large.
Interrupted(e) ==
  /\ At(e, "open")
  /\ Finish(e, "interrupted")
  /\ UNCHANGED store

\* onAllDataRead, up to the slot: late, not authentic, not a payload, or overloaded.
Turned(e) ==
  /\ At(e, "open")
  /\ Finish(e, "refused")
  /\ UNCHANGED store

AllDataRead(e) ==
  /\ At(e, "open") /\ permits.slots > 0
  /\ permits' = [permits EXCEPT !.slots = @ - 1]
  /\ Reaches(e, "insert")
  /\ UNCHANGED store

\* Between commit and reply the signal's file may fail to be written, or the delay be cut.
Answer(e) ==
  /\ At(e, "answering")
  /\ \/ Finish(e, exchange[e].result)
     \/ exchange[e].result \in {"applied", "duplicate"} /\ Finish(e, "unavailable")
  /\ UNCHANGED store

-----------------------------------------------------------------------------
(* The store.  What a transaction has written is seen by others once it    *)
(* has committed; until then they wait at its rows.                        *)

Concludes(e, result) == Step(e, [exchange[e] EXCEPT !.at = "leaving", !.result = result])

Inserted(e) == At(e, "update") \/ At(e, "commit")
KeyFree(v) == FALSE                \* slip: receipts have no primary key
KeyLocked(v) == \E e \in Exchanges : Inserted(e) /\ EventOf[e] = v
BalanceLocked == \E e \in Exchanges : At(e, "commit")

\* No connection, a lock or a query that takes too long, a failed commit: rolled back.
RollsBack(e) ==
  /\ At(e, "insert") \/ Inserted(e)
  /\ Concludes(e, "unavailable")
  /\ UNCHANGED <<store, permits>>

InsertReceipt(e) ==
  LET known == store.receipts[EventOf[e]] IN
  /\ At(e, "insert") /\ ~KeyLocked(EventOf[e])
  /\ IF known = NoBody THEN Reaches(e, "update")
     ELSE Concludes(e, IF known = BodyOf[e] THEN "duplicate" ELSE "conflict")
  /\ UNCHANGED <<store, permits>>

UpdateBalance(e) ==
  /\ At(e, "update") /\ ~BalanceLocked
  /\ Reaches(e, "commit")
  /\ UNCHANGED <<store, permits>>

\* With the effect.  A connection that fails to close leaves the commit unreported.
Commit(e) ==
  LET v == EventOf[e]
      b == BodyOf[e] IN
  /\ At(e, "commit")
  /\ store' = [receipts |-> [store.receipts EXCEPT ![v] = b], effects |-> store.effects \cup {v},
               balance |-> store.balance + Amount[b], by |-> [store.by EXCEPT ![v] = e]]
  /\ Concludes(e, "applied") \/ Concludes(e, "unavailable")
  /\ UNCHANGED permits

Leave(e) ==
  /\ At(e, "leaving")
  /\ permits' = [permits EXCEPT !.slots = @ + 1]
  /\ Reaches(e, "answering")
  /\ UNCHANGED store

-----------------------------------------------------------------------------

\* The process is killed and started again on the same file.
Crash ==
  /\ permits.crashes < MaxCrashes
  /\ permits' = [bodies |-> BodyLimit, slots |-> SlotLimit, crashes |-> permits.crashes + 1]
  /\ exchange' = [e \in Exchanges |-> IF At(e, "new") \/ At(e, "over") THEN exchange[e]
                                      ELSE [exchange[e] EXCEPT !.at = "gone"]]
  /\ UNCHANGED store

Store(e) == RollsBack(e) \/ InsertReceipt(e) \/ UpdateBalance(e) \/ Commit(e) \/ Leave(e)
Servlet(e) == Interrupted(e) \/ Turned(e) \/ AllDataRead(e) \/ Answer(e)
Delivers(e) == Refuse(e) \/ Service(e)

Next == (\E e \in Exchanges : Delivers(e) \/ Servlet(e) \/ Store(e)) \/ Crash

\* The container times out, threads run on, and waiting for a lock ends.
Fairness == \A e \in Exchanges : WF_vars(Interrupted(e) \/ Store(e) \/ Answer(e))

-----------------------------------------------------------------------------
(* Properties.                                                             *)

Stages == {"new", "open", "insert", "update", "commit", "leaving", "answering", "over", "gone"}
Results == {"none", "applied", "duplicate", "conflict", "unavailable"}

TypeOK ==
  /\ exchange \in [Exchanges -> [at : Stages, result : Results, reply : Results \cup {"refused", "interrupted"}]]
  /\ store.receipts \in [Events -> Bodies \cup {NoBody}] /\ store.effects \subseteq Events
  /\ store.balance \in Nat /\ store.by \in [Events -> Exchanges \cup {Nobody}]
  /\ permits \in [bodies : 0..BodyLimit, slots : 0..SlotLimit, crashes : 0..MaxCrashes]

Received == {v \in Events : store.receipts[v] # NoBody}

\* Receipts, effects and the balance stand or fall together, however deliveries race.
TablesAgree ==
  /\ store.effects = Received
  /\ store.balance = SumFunctionOnSet([v \in Received |-> Amount[store.receipts[v]]], Received)

\* What a sender is told is so: one delivery of an event applied it, a duplicate repeats what
\* is stored, a conflict differs from it, and a delivery that was cut short did nothing.
RepliesAreTrue ==
  \A e \in Exchanges :
    LET reply == exchange[e].reply
        stored == store.receipts[EventOf[e]] IN
    /\ reply = "applied" => store.by[EventOf[e]] = e
    /\ reply = "duplicate" => stored = BodyOf[e] /\ store.by[EventOf[e]] # e
    /\ reply = "conflict" => stored \notin {BodyOf[e], NoBody}
    /\ reply \in {"refused", "interrupted"} => store.by[EventOf[e]] # e

Holding(stages) == Cardinality({e \in Exchanges : exchange[e].at \in stages})

\* No path out of an exchange or a transaction keeps its place.
PlacesReturn ==
  /\ permits.slots + Holding({"insert", "update", "commit", "leaving"}) = SlotLimit
  /\ permits.bodies + Holding({"open", "insert", "update", "commit", "leaving", "answering"}) = BodyLimit

DeliveriesAreLawful == TypeOK /\ TablesAgree /\ RepliesAreTrue /\ PlacesReturn

\* Every admitted exchange is answered, unless the process is killed.
AllOver == \A e \in Exchanges : exchange[e].at \in {"new", "over", "gone"}
=============================================================================
