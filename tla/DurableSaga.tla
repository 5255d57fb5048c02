----------------------------- MODULE DurableSaga -----------------------------
(***************************************************************************)
(* examples/backend-messaging: DurableSaga (the coordinator) composed with *)
(* its two DurableSagaParticipants, inventory and payment.  Each keeps its *)
(* own database and no transaction spans two of them, so a driver's tick   *)
(* is a series of separate transactions; other drivers, crashes, timeouts  *)
(* and database errors come between any two of them.                       *)
(*                                                                         *)
(* A driver is a thread or process inside DurableSaga.tick.  All it holds  *)
(* is local (drv) and is lost when it crashes; saga, receipt, stock and    *)
(* captured are database rows.  The faults that DurableSagaParticipant     *)
(* .fault arms, and SQLExceptions of a participant, are a free choice at   *)
(* each call.  All sagas belong to one tenant and one sku.                 *)
(***************************************************************************)
EXTENDS Integers, FiniteSetsExt

CONSTANTS
  Sagas,            \* saga ids
  Requests,         \* what a client may ask for (sku, quantity and cents)
  NoSaga,           \* the saga of an idle driver
  NoRequest,        \* the request of a saga that was never started
  Quantity, Cents,  \* fields of a request
  InitialStock,
  Drivers,
  MaxOutages,       \* bound: driver crashes and coordinator database errors
  MaxVersion        \* bound: no review is resumed at or above this version

ASSUME RequestAssumption ==
  /\ NoSaga \notin Sagas
  /\ NoRequest \notin Requests
  /\ Quantity \in [Requests -> Nat \ {0}]
  /\ Cents \in [Requests -> Nat \ {0}]
ASSUME BoundAssumption == InitialStock \in Nat /\ MaxOutages \in Nat /\ MaxVersion \in Nat

MaxFailures == 3

Pending  == {"RESERVE_PENDING", "PAYMENT_PENDING", "RELEASE_PENDING"}
Final    == {"CONFIRMED", "REJECTED", "COMPENSATED"}
State    == Pending \cup Final \cup {"MANUAL_REVIEW"}
Actions  == {"reserve", "charge", "release"}
Outcome  == {"RESERVED", "RELEASED", "CHARGED", "DECLINED"}
Fault    == {"NONE", "DECLINE", "UNAVAILABLE_BEFORE", "TIMEOUT_AFTER_COMMIT"}

\* A row of saga_instances; "ABSENT" stands for no row.
Row == [request  : Requests \cup {NoRequest},
        state    : State \cup {"ABSENT"},
        resume   : Pending \cup Final \cup {"ABSENT"},
        failures : 0..MaxFailures,
        version  : Nat]

NoRow == [request |-> NoRequest, state |-> "ABSENT", resume |-> "ABSENT",
          failures |-> 0, version |-> 0]

\* A row of saga_actions; outcome "NONE" stands for no row.
Receipt   == [outcome : Outcome \cup {"NONE"}, binding : Requests \cup {NoRequest}]
NoReceipt == [outcome |-> "NONE", binding |-> NoRequest]

Goal   == [state : State, failures : 0..MaxFailures]
NoGoal == [state |-> "MANUAL_REVIEW", failures |-> 0]

\* The locals of a driver: where its tick is, the snapshot it read, the transition
\* it is about to write.
Local == [pc     : {"idle", "evidence", "lookup", "execute", "effect", "write", "recover"},
          saga   : Sagas \cup {NoSaga},
          before : Row,
          goal   : Goal]

VARIABLES
  saga,       \* the coordinator's saga_instances
  receipt,    \* the participants' saga_actions
  stock,      \* inventory's saga_resources
  captured,   \* payment's saga_resources
  drv,        \* the local state of each driver's tick
  outages     \* crashes and coordinator errors so far (bounds the model)

vars == <<saga, receipt, stock, captured, drv, outages>>

Idle == [pc |-> "idle", saga |-> NoSaga, before |-> NoRow, goal |-> NoGoal]

Init ==
  /\ saga = [s \in Sagas |-> NoRow]
  /\ receipt = [s \in Sagas |-> [a \in Actions |-> NoReceipt]]
  /\ stock = InitialStock
  /\ captured = 0
  /\ drv = [d \in Drivers |-> Idle]
  /\ outages = 0

-----------------------------------------------------------------------------
(* The coordinator's clients.                                              *)

\* Starting an existing saga changes nothing: it returns the stored row, or
\* raises Conflict when the request differs.
StartReplaces(s, r) == saga[s].request # r    \* slip: a differing request replaces the row
Startable(s, r) == saga[s] = NoRow

Start(s, r) ==
  /\ Startable(s, r)
  /\ saga' = [saga EXCEPT ![s] = [request |-> r, state |-> "RESERVE_PENDING",
                                  resume |-> "RESERVE_PENDING", failures |-> 0, version |-> 1]]
  /\ UNCHANGED <<receipt, stock, captured, drv, outages>>

FirstStage(s) == "RESERVE_PENDING"            \* slip: a review restarts the saga
ParkedStage(s) == saga[s].resume

\* A reviewer whose expected version is not the stored one changes nothing.
ResumeAfterReview(s) ==
  /\ saga[s].state = "MANUAL_REVIEW"
  /\ saga[s].version < MaxVersion
  /\ saga' = [saga EXCEPT ![s].state = ParkedStage(s), ![s].failures = 0,
                          ![s].version = @ + 1]
  /\ UNCHANGED <<receipt, stock, captured, drv, outages>>

-----------------------------------------------------------------------------
(* What a tick makes of the results it gets.                               *)

\* The participant action of each pending stage.
ActionOf == [RESERVE_PENDING |-> "reserve", PAYMENT_PENDING |-> "charge",
             RELEASE_PENDING |-> "release"]

\* The evidence a stage looks up before it acts: whose receipt, which outcome.
Evidence == [PAYMENT_PENDING |-> [action |-> "reserve", outcome |-> "RESERVED"],
             RELEASE_PENDING |-> [action |-> "charge",  outcome |-> "DECLINED"]]

\* The state a stage moves to on the outcome of its action.
Successor == [RESERVE_PENDING |-> [RESERVED |-> "PAYMENT_PENDING", DECLINED |-> "REJECTED"],
              PAYMENT_PENDING |-> [CHARGED  |-> "CONFIRMED", DECLINED |-> "RELEASE_PENDING"],
              RELEASE_PENDING |-> [RELEASED |-> "COMPENSATED"]]

Advance(state, outcome) ==
  IF outcome \in DOMAIN Successor[state] THEN Successor[state][outcome] ELSE "MANUAL_REVIEW"

\* Slip: a payment that timed out is taken for one that was declined.
TimeoutIsDecline(before) ==
  [state |-> IF before.state = "PAYMENT_PENDING" THEN "RELEASE_PENDING" ELSE "MANUAL_REVIEW",
   failures |-> before.failures]

\* The failure counted against a stage, and the review that follows the third.
CountFailure(before) ==
  LET count == before.failures + 1
  IN  [state |-> IF count >= MaxFailures THEN "MANUAL_REVIEW" ELSE before.state,
       failures |-> count]

At(local, pc, goal) == [pc |-> pc, saga |-> local.saga, before |-> local.before, goal |-> goal]

\* Driver d goes on to write the transition its result calls for: in the body of
\* tick's try ("write") or in one of its catch blocks ("recover").
Concluded(local, result) ==
  IF result \in Outcome
  THEN At(local, "write", [state |-> Advance(local.before.state, result), failures |-> 0])
  ELSE At(local, "recover",
          IF result = "FAILED" THEN CountFailure(local.before)
          ELSE [state |-> "MANUAL_REVIEW", failures |-> local.before.failures])

Conclude(d, result) == drv' = [drv EXCEPT ![d] = Concluded(@, result)]
Continue(d, pc)     == drv' = [drv EXCEPT ![d] = At(@, pc, NoGoal)]

\* The receipt of an action as a participant reports it to this request.
Found(s, a, request) ==
  LET row == receipt[s][a]
  IN  IF row.outcome # "NONE" /\ row.binding # request THEN "CONFLICT" ELSE row.outcome

-----------------------------------------------------------------------------
(* One tick of driver d, transaction by transaction.                       *)

\* get, and the switch on the state it returns.
Tick(d, s) ==
  /\ drv[d].pc = "idle"
  /\ saga[s].state \in Pending
  /\ drv' = [drv EXCEPT ![d] =
       [pc |-> IF saga[s].state \in DOMAIN Evidence THEN "evidence" ELSE "lookup",
        saga |-> s, before |-> saga[s], goal |-> NoGoal]]
  /\ UNCHANGED <<saga, receipt, stock, captured, outages>>

\* The payment stage asks whether the reservation is active, the release stage
\* whether payment was declined.
CheckEvidence(d) ==
  LET before == drv[d].before
      need   == Evidence[before.state]
      found  == Found(drv[d].saga, need.action, before.request)
  IN  /\ drv[d].pc = "evidence"
      /\ \/ \E result \in {"FAILED"} \cup ({found} \cap {"CONFLICT"}) : Conclude(d, result)
         \/ /\ found = need.outcome
            /\ Continue(d, "lookup")
         \/ /\ found \notin {"CONFLICT", need.outcome}
            /\ Continue(d, "write")
      /\ UNCHANGED <<saga, receipt, stock, captured, outages>>

\* action's lookup and, in a later transaction, execute's own check of the receipt.
FindReceipt(d, pc, absent) ==
  LET before == drv[d].before
      found  == Found(drv[d].saga, ActionOf[before.state], before.request)
  IN  /\ drv[d].pc = pc
      /\ \/ Conclude(d, "FAILED")
         \/ /\ found # "NONE"
            /\ Conclude(d, found)
         \/ /\ found = "NONE"
            /\ Continue(d, absent)
      /\ UNCHANGED <<saga, receipt, stock, captured, outages>>

Lookup(d)       == FindReceipt(d, "lookup", "execute")
CheckReceipt(d) == FindReceipt(d, "execute", "effect")

Unlimited(request) == TRUE                    \* slip: the stock is not compared
InStock(request) == Quantity[request] <= stock

\* What the participant decides for action a of saga s.
Decide(s, a, request, fault) ==
  IF fault = "DECLINE" THEN "DECLINED"
  ELSE IF a = "reserve" THEN (IF InStock(request) THEN "RESERVED" ELSE "DECLINED")
  ELSE IF a = "charge"  THEN "CHARGED"
  ELSE IF receipt[s]["reserve"].outcome = "RESERVED" THEN "RELEASED" ELSE "UNSAFE"

\* A release closes the reservation it releases.
ReservationKept(r, outcome) == r["reserve"]              \* slip: it stays open
ReservationAfter(r, outcome) ==
  IF outcome = "RELEASED" THEN [r["reserve"] EXCEPT !.outcome = "RELEASED"] ELSE r["reserve"]

Committed(r, a, request, outcome) ==
  [r EXCEPT !["reserve"] = ReservationAfter(r, outcome),
            ![a] = [outcome |-> outcome, binding |-> request]]

\* The resources and receipts that a committed outcome leaves behind.
CommitOutcome(s, a, request, outcome) ==
  /\ receipt' = [receipt EXCEPT ![s] = Committed(@, a, request, outcome)]
  /\ stock' = IF outcome = "RESERVED" THEN stock - Quantity[request]
              ELSE IF outcome = "RELEASED" THEN stock + Quantity[request]
              ELSE stock
  /\ captured' = IF outcome = "CHARGED" THEN captured + Cents[request] ELSE captured

KeyNotChecked(s, a) == FALSE                  \* slip: a second receipt replaces the first
\* The primary key of saga_actions: an action has at most one receipt.
KeyTaken(s, a) == receipt[s][a] # NoReceipt

\* The rest of execute's transaction.  Its insert meets the primary key when
\* another driver's transaction for the same action has committed since.
Execute(d) ==
  LET s       == drv[d].saga
      before  == drv[d].before
      a       == ActionOf[before.state]
  IN  /\ drv[d].pc = "effect"
      /\ \E fault \in Fault :
           LET outcome == IF fault = "UNAVAILABLE_BEFORE" THEN "FAILED"
                          ELSE Decide(s, a, before.request, fault)
           IN  \/ /\ outcome \notin Outcome
                  /\ Conclude(d, outcome)
                  /\ UNCHANGED <<receipt, stock, captured>>
               \/ /\ outcome \in Outcome
                  /\ KeyTaken(s, a)
                  /\ Conclude(d, "FAILED")
                  /\ UNCHANGED <<receipt, stock, captured>>
               \/ /\ outcome \in Outcome
                  /\ ~KeyTaken(s, a)
                  /\ CommitOutcome(s, a, before.request, outcome)
                  /\ Conclude(d, IF fault = "TIMEOUT_AFTER_COMMIT" THEN "FAILED" ELSE outcome)
      /\ UNCHANGED <<saga, outages>>

-----------------------------------------------------------------------------
(* transition: a compare-and-set on the version that the tick read.        *)

AnyRow(s, before) == saga[s] # NoRow           \* slip: the version is not compared
\* Slip: the update looks for the version it is about to write.
NextVersion(s, before) == saga[s].version = before.version + 1
Unmoved(s, before) == saga[s].version = before.version

\* Slip: a parked saga does not remember its stage.
StageForgotten(row, before, goal) ==
  [row EXCEPT !.state = goal.state, !.resume = goal.state,
              !.failures = goal.failures, !.version = row.version + 1]
Moved(row, before, goal) ==
  [row EXCEPT !.state = goal.state,
              !.resume = IF goal.state = "MANUAL_REVIEW" THEN before.state ELSE goal.state,
              !.failures = goal.failures,
              !.version = row.version + 1]

CompareAndSet(s, before, goal) ==
  saga' = IF Unmoved(s, before) THEN [saga EXCEPT ![s] = Moved(@, before, goal)] ELSE saga

Transition(d) ==
  /\ drv[d].pc \in {"write", "recover"}
  /\ CompareAndSet(drv[d].saga, drv[d].before, drv[d].goal)
  /\ drv' = [drv EXCEPT ![d] = Idle]
  /\ UNCHANGED <<receipt, stock, captured, outages>>

\* A coordinator database error in transition, before its update commits or in
\* the get after it: caught in tick's body and counted as a failure of the stage.
TransitionFails(d) ==
  /\ drv[d].pc = "write"
  /\ outages < MaxOutages
  /\ \/ UNCHANGED saga
     \/ CompareAndSet(drv[d].saga, drv[d].before, drv[d].goal)
  /\ Conclude(d, "FAILED")
  /\ outages' = outages + 1
  /\ UNCHANGED <<receipt, stock, captured>>

\* A driver stops between two transactions, as SagaCrashWorker halts its process
\* after a participant's commit; or an exception leaves tick from a catch block,
\* after the update or before it.
Crash(d) ==
  /\ drv[d].pc # "idle"
  /\ outages < MaxOutages
  /\ \/ UNCHANGED saga
     \/ /\ drv[d].pc = "recover"
        /\ CompareAndSet(drv[d].saga, drv[d].before, drv[d].goal)
  /\ drv' = [drv EXCEPT ![d] = Idle]
  /\ outages' = outages + 1
  /\ UNCHANGED <<receipt, stock, captured>>

DriverStep(d) ==
  \/ \E s \in Sagas : Tick(d, s)
  \/ CheckEvidence(d) \/ Lookup(d) \/ CheckReceipt(d) \/ Execute(d) \/ Transition(d)

Next ==
  \/ \E s \in Sagas, r \in Requests : Start(s, r)
  \/ \E s \in Sagas : ResumeAfterReview(s)
  \/ \E d \in Drivers : DriverStep(d) \/ TransitionFails(d) \/ Crash(d)

Spec == Init /\ [][Next]_vars

\* A driver that is inside a tick runs on, and someone keeps calling tick.
Fairness == \A d \in Drivers : WF_vars(DriverStep(d))
FairSpec == Spec /\ Fairness

-----------------------------------------------------------------------------
(* Properties.                                                             *)

TypeOK ==
  /\ saga \in [Sagas -> Row]
  /\ receipt \in [Sagas -> [Actions -> Receipt]]
  /\ stock \in Nat
  /\ captured \in Nat
  /\ drv \in [Drivers -> Local]
  /\ outages \in 0..MaxOutages

With(a, outcome) == {s \in Sagas : receipt[s][a].outcome = outcome}

\* Every unit of stock and every captured cent is accounted for by exactly one
\* receipt: no retry, duplicate driver, timeout after commit or crash between the
\* participant's commit and the coordinator's transition repeats an effect.
EffectsMatchReceipts ==
  /\ stock + SumFunctionOnSet([s \in Sagas |-> Quantity[saga[s].request]], With("reserve", "RESERVED"))
          = InitialStock
  /\ captured = SumFunctionOnSet([s \in Sagas |-> Cents[saga[s].request]], With("charge", "CHARGED"))

\* Goods leave a reservation only after payment was refused, and money is taken only
\* against an active reservation: what tick's evidence lookups are for, with stale
\* drivers acting long after the stage they read.
PaidXorReleased(r) ==
  /\ r["charge"].outcome # "NONE" => r["reserve"].outcome \in {"RESERVED", "RELEASED"}
  /\ r["charge"].outcome = "CHARGED" => r["reserve"].outcome = "RESERVED"
  /\ r["release"].outcome # "NONE" => r["charge"].outcome = "DECLINED"
  /\ r["release"].outcome = "RELEASED" <=> r["reserve"].outcome = "RELEASED"

NeverPaidAndReleased == \A s \in Sagas : PaidXorReleased(receipt[s])

\* The verdict a client reads is backed by the participants' own receipts, and a stage
\* waiting for its action, or parked for review, stands on the evidence of the stages
\* before it.
Backed(r, state) ==
  /\ state = "PAYMENT_PENDING" => r["reserve"].outcome \in {"RESERVED", "RELEASED"}
  /\ state = "RELEASE_PENDING" => r["charge"].outcome = "DECLINED"
  /\ state = "CONFIRMED"   => r["charge"].outcome = "CHARGED" /\ r["reserve"].outcome = "RESERVED"
  /\ state = "REJECTED"    => r["reserve"].outcome = "DECLINED" /\ r["charge"].outcome = "NONE"
  /\ state = "COMPENSATED" => r["release"].outcome = "RELEASED" /\ r["charge"].outcome = "DECLINED"

StateBackedByReceipts ==
  \A s \in Sagas : Backed(receipt[s], saga[s].state) /\ Backed(receipt[s], saga[s].resume)

\* No participant ever acts on a request other than the one stored for the saga, so
\* the coordinator never meets its own operation id bound to something else.
Bound(r, request) == \A a \in Actions : r[a] # NoReceipt => r[a].binding = request

ReceiptsBoundToStoredRequest == \A s \in Sagas : Bound(receipt[s], saga[s].request)

\* A row and its receipts agree on whether the saga exists, and a pending row has
\* failures left to spend.
WellFormed(row, r) ==
  /\ row.state = "ABSENT" => row = NoRow /\ \A a \in Actions : r[a] = NoReceipt
  /\ row.state # "ABSENT" => row.request \in Requests /\ row.version > 0
  /\ row.state \in Pending => row.failures < MaxFailures /\ row.resume = row.state
  /\ row.state = "MANUAL_REVIEW" => row.resume \in Pending
  /\ \A a \in Actions : r[a].outcome = "NONE" => r[a] = NoReceipt
  /\ r["reserve"].outcome \in {"NONE", "RESERVED", "RELEASED", "DECLINED"}
  /\ r["charge"].outcome  \in {"NONE", "CHARGED", "DECLINED"}
  /\ r["release"].outcome \in {"NONE", "RELEASED", "DECLINED"}

\* However stale, the snapshot inside a tick was once the row of its saga, what it
\* stood on still stands, and what the tick is about to write is backed by receipts.
FollowsRow(local, row, r) ==
  /\ local.saga \in Sagas
  /\ row.state # "ABSENT"
  /\ local.before.state \in Pending
  /\ local.before.resume = local.before.state
  /\ local.before.failures < MaxFailures
  /\ local.before.request = row.request
  /\ local.before.version <= row.version
  /\ local.before.version = row.version => local.before = row
  /\ Backed(r, local.before.state)
  /\ local.pc = "evidence" => local.before.state \in {"PAYMENT_PENDING", "RELEASE_PENDING"}
  /\ local.pc \in {"write", "recover"} =>
       /\ Backed(r, local.goal.state)
       /\ local.goal.state \in Pending => local.goal.failures < MaxFailures

\* The inductive invariant: the participants' receipts stay sound against drivers that
\* act on rows replaced long ago.
IInv ==
  /\ TypeOK
  /\ NeverPaidAndReleased
  /\ StateBackedByReceipts
  /\ ReceiptsBoundToStoredRequest
  /\ \A s \in Sagas : WellFormed(saga[s], receipt[s])
  /\ \A d \in Drivers : drv[d].pc # "idle" =>
       FollowsRow(drv[d], saga[drv[d].saga], receipt[drv[d].saga])

\* A stale worker never overwrites a newer transition: whoever writes a row, the new
\* row was computed from the one it replaces, and a business verdict is never replaced.
ReplacesWhatItRead(s) == saga'[s] # saga[s] =>
  /\ saga[s].state \notin Final
  /\ saga'[s].version = saga[s].version + 1
  /\ saga[s].state # "ABSENT" => saga'[s].request = saga[s].request
  /\ \A d \in Drivers : (drv[d].saga = s /\ drv'[d] # drv[d]) => drv[d].before = saga[s]

NoLostTransition == [][\A s \in Sagas : ReplacesWhatItRead(s)]_vars

\* Three failures in a row park a saga, and parking never forgets which stage to resume:
\* a stage is left only for its successor or, through a review, for itself.
StageOnlyAdvances == [][
  \A s \in Sagas :
    LET from == IF saga[s].state = "MANUAL_REVIEW" THEN saga[s].resume ELSE saga[s].state
        to   == IF saga'[s].state = "MANUAL_REVIEW" THEN saga'[s].resume ELSE saga'[s].state
    IN  \/ to = from
        \/ <<from, to>> \in {<<"ABSENT", "RESERVE_PENDING">>,
              <<"RESERVE_PENDING", "PAYMENT_PENDING">>, <<"RESERVE_PENDING", "REJECTED">>,
              <<"PAYMENT_PENDING", "CONFIRMED">>, <<"PAYMENT_PENDING", "RELEASE_PENDING">>,
              <<"RELEASE_PENDING", "COMPENSATED">>}]_vars

\* However often the participants fail, a started saga stops asking for ticks: it
\* reaches a verdict or a review.
EverySagaSettles ==
  \A s \in Sagas : saga[s].state \in Pending ~> saga[s].state \in Final \cup {"MANUAL_REVIEW"}

-----------------------------------------------------------------------------
(* The saga implements the order ledger.                                   *)

StatusOf(row, r) ==
  IF row.state = "ABSENT" THEN "new"
  ELSE IF r["reserve"].outcome = "NONE" THEN "placed"
  ELSE IF r["reserve"].outcome = "DECLINED" THEN "refused"
  ELSE IF r["charge"].outcome = "NONE" THEN "held"
  ELSE IF r["charge"].outcome = "CHARGED" THEN "paid"
  ELSE IF r["release"].outcome = "NONE" THEN "unpaid"
  ELSE IF r["release"].outcome = "RELEASED" THEN "returned"
  ELSE "stranded"

order   == [s \in Sagas |-> [status |-> StatusOf(saga[s], receipt[s]), request |-> saga[s].request]]
verdict == [s \in Sagas |-> IF saga[s].state \in Final THEN saga[s].state ELSE "open"]

Ledger == INSTANCE OrderLedger WITH Orders <- Sagas

\* Each step of the saga is one step of the ledger or none.
ImplementsLedger == Ledger!Spec
=============================================================================
