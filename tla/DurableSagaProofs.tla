--------------------------- MODULE DurableSagaProofs ---------------------------
(***************************************************************************)
(* Safety of DurableSaga for any number of sagas, drivers, outages and     *)
(* reviews.  IInv is inductive; the properties the runs check follow.      *)
(***************************************************************************)
EXTENDS DurableSaga, SumLemmas, TLAPS

(* The inductive invariant, one saga and one driver at a time.             *)

SagaOK(row, r) ==
  /\ row \in Row
  /\ r \in [Actions -> Receipt]
  /\ PaidXorReleased(r)
  /\ Backed(r, row.state) /\ Backed(r, row.resume)
  /\ Bound(r, row.request)
  /\ WellFormed(row, r)

Safe ==
  /\ TypeOK
  /\ \A s \in Sagas : SagaOK(saga[s], receipt[s])
  /\ \A d \in Drivers : drv[d].pc # "idle" =>
       FollowsRow(drv[d], saga[drv[d].saga], receipt[drv[d].saga])

\* Safe is the inductive invariant that the runs check, regrouped by the saga and the driver
\* it speaks of, so that a step has only the ones it writes to account for.
LEMMA SafeIsIInv == Safe <=> IInv
BY DEF Safe, IInv, SagaOK, TypeOK, NeverPaidAndReleased, StateBackedByReceipts,
       ReceiptsBoundToStoredRequest

\* An empty saga table, with no receipts and no driver inside a tick, is safe.
LEMMA InitEstablishes == Init => Safe
<1> SUFFICES ASSUME Init PROVE Safe
  OBVIOUS
<1> USE DEF Init, Idle, NoRow, NoReceipt, NoGoal
<1>1. TypeOK
  BY RequestAssumption, BoundAssumption
     DEF TypeOK, Row, Receipt, Goal, Local, State, Pending, Final, Outcome, MaxFailures
<1>2. \A s \in Sagas : SagaOK(saga[s], receipt[s])
  BY <1>1 DEF SagaOK, TypeOK, PaidXorReleased, Backed, Bound, WellFormed, Actions, Pending
<1> QED
  BY <1>1, <1>2 DEF Safe

-----------------------------------------------------------------------------
(* What the pure parts of a tick can yield.                                *)

\* tick's switch, stage by stage: where an outcome leads.
LEMMA AdvanceValues ==
  ASSUME NEW state \in Pending, NEW outcome \in Outcome
  PROVE  Advance(state, outcome) =
    IF state = "RESERVE_PENDING"
    THEN (IF outcome = "RESERVED" THEN "PAYMENT_PENDING"
          ELSE IF outcome = "DECLINED" THEN "REJECTED" ELSE "MANUAL_REVIEW")
    ELSE IF state = "PAYMENT_PENDING"
    THEN (IF outcome = "CHARGED" THEN "CONFIRMED"
          ELSE IF outcome = "DECLINED" THEN "RELEASE_PENDING" ELSE "MANUAL_REVIEW")
    ELSE IF outcome = "RELEASED" THEN "COMPENSATED" ELSE "MANUAL_REVIEW"
<1>1. CASE state = "RESERVE_PENDING"
  BY <1>1 DEF Advance, Successor, Outcome
<1>2. CASE state = "PAYMENT_PENDING"
  BY <1>2 DEF Advance, Successor, Outcome
<1>3. CASE state = "RELEASE_PENDING"
  BY <1>3 DEF Advance, Successor, Outcome
<1> QED
  BY <1>1, <1>2, <1>3 DEF Pending

\* An outcome leads to a state that can be stored.
LEMMA AdvanceType ==
  ASSUME NEW state \in Pending, NEW outcome \in Outcome
  PROVE  Advance(state, outcome) \in State
BY AdvanceValues DEF State, Pending, Final

\* Every pending stage has an action.
LEMMA ActionOfStage ==
  /\ ActionOf["RESERVE_PENDING"] = "reserve"
  /\ ActionOf["PAYMENT_PENDING"] = "charge"
  /\ ActionOf["RELEASE_PENDING"] = "release"
BY DEF ActionOf

\* Where a receipt of the stage's action leads, the receipt is the evidence: an outcome
\* that is stored never leads to a verdict the participants would deny.
LEMMA AdvanceBacked ==
  ASSUME NEW r, PaidXorReleased(r), NEW state \in Pending, Backed(r, state),
         NEW outcome \in Outcome, r[ActionOf[state]].outcome = outcome
  PROVE  Backed(r, Advance(state, outcome))
<1> USE DEF Backed, Outcome, PaidXorReleased
<1>1. CASE state = "RESERVE_PENDING"
  BY <1>1, AdvanceValues, ActionOfStage
<1>2. CASE state = "PAYMENT_PENDING"
  BY <1>2, AdvanceValues, ActionOfStage
<1>3. CASE state = "RELEASE_PENDING"
  BY <1>3, AdvanceValues, ActionOfStage
<1> QED
  BY <1>1, <1>2, <1>3 DEF Pending

\* Counting a failure keeps the stage, or parks it at the third.
LEMMA CountFailureSafe ==
  ASSUME NEW before \in Row, before.state \in Pending, before.failures < MaxFailures
  PROVE  /\ CountFailure(before) \in Goal
         /\ CountFailure(before).state \in {before.state, "MANUAL_REVIEW"}
         /\ CountFailure(before).state \in Pending => CountFailure(before).failures < MaxFailures
BY DEF CountFailure, Goal, Row, MaxFailures, State, Pending, Final

\* Whatever a tick's call returns, the transition it leads to is backed by the receipts.
LEMMA ConcludedSafe ==
  ASSUME NEW local \in Local, NEW row, NEW r, PaidXorReleased(r), FollowsRow(local, row, r),
         NEW result,
         result \in Outcome => r[ActionOf[local.before.state]].outcome = result
  PROVE  Concluded(local, result) \in Local /\ FollowsRow(Concluded(local, result), row, r)
<1> DEFINE new == Concluded(local, result)
<1>1. local.before \in Row /\ local.before.state \in Pending /\ local.before.failures < MaxFailures
  BY DEF Local, FollowsRow
<1>2. new = At(local, IF result \in Outcome THEN "write" ELSE "recover", new.goal)
  BY DEF Concluded, At
<1>3. /\ new.goal \in Goal
      /\ Backed(r, new.goal.state)
      /\ new.goal.state \in Pending => new.goal.failures < MaxFailures
  <2>1. CASE result \in Outcome
    <3>1. new.goal = [state |-> Advance(local.before.state, result), failures |-> 0]
      BY <2>1 DEF Concluded, At
    <3>2. Backed(r, Advance(local.before.state, result))
      BY <2>1, <1>1, AdvanceBacked DEF FollowsRow
    <3> QED
      BY <2>1, <3>1, <3>2, <1>1, AdvanceType DEF Goal, MaxFailures
  <2>2. CASE result \notin Outcome /\ result = "FAILED"
    <3>1. new.goal = CountFailure(local.before)
      BY <2>2 DEF Concluded, At
    <3> QED
      BY <3>1, <1>1, CountFailureSafe DEF FollowsRow, Backed
  <2>3. CASE result \notin Outcome /\ result # "FAILED"
    <3>1. new.goal = [state |-> "MANUAL_REVIEW", failures |-> local.before.failures]
      BY <2>3 DEF Concluded, At
    <3> QED
      BY <3>1, <1>1 DEF Goal, State, Row, Backed, Pending
  <2> QED
    BY <2>1, <2>2, <2>3
<1> QED
  BY <1>2, <1>3 DEF At, Local, FollowsRow

\* A row that moves on leaves the snapshots of it behind, and they stay sound.
LEMMA FollowsNewerRow ==
  ASSUME NEW local \in Local, NEW row \in Row, NEW r, FollowsRow(local, row, r),
         NEW new \in Row, new.request = row.request, new.version > row.version,
         new.state # "ABSENT"
  PROVE  FollowsRow(local, new, r)
BY DEF FollowsRow, Local, Row

\* The row that a tick's compare-and-set writes over the one it read.
LEMMA MovedRowSafe ==
  ASSUME NEW local \in Local, NEW row, NEW r, SagaOK(row, r), FollowsRow(local, row, r),
         local.pc \in {"write", "recover"}, local.before.version = row.version,
         NEW new, new = Moved(row, local.before, local.goal)
  PROVE  /\ SagaOK(new, r)
         /\ new.request = row.request /\ new.version > row.version /\ new.state # "ABSENT"
<1>1. /\ local.goal \in Goal /\ Backed(r, local.goal.state)
      /\ local.goal.state \in Pending => local.goal.failures < MaxFailures
      /\ local.before.state \in Pending /\ Backed(r, local.before.state)
  BY DEF FollowsRow, Local
<1>2. row \in Row /\ row.state # "ABSENT"
  BY DEF SagaOK, FollowsRow
<1>3. /\ new.request = row.request
      /\ new.state = local.goal.state
      /\ new.resume = IF local.goal.state = "MANUAL_REVIEW"
                      THEN local.before.state ELSE local.goal.state
      /\ new.failures = local.goal.failures
      /\ new.version = row.version + 1
      /\ new = [request |-> new.request, state |-> new.state, resume |-> new.resume,
                failures |-> new.failures, version |-> new.version]
  BY <1>2 DEF Row, Moved
<1>4. new \in Row
  BY <1>1, <1>2, <1>3 DEF Row, Goal, State
<1>5. Backed(r, new.state) /\ Backed(r, new.resume)
  BY <1>1, <1>3
<1>6. WellFormed(new, r)
  BY <1>1, <1>2, <1>3 DEF WellFormed, SagaOK, Goal, State, Pending, Final, Row
<1> QED
  BY <1>1, <1>2, <1>3, <1>4, <1>5, <1>6 DEF SagaOK, Goal, State, Pending, Final, Row

\* A participant's commit keeps the receipts of its saga sound and takes nothing away
\* from what any stage, verdict or snapshot stands on.
LEMMA CommittedSafe ==
  ASSUME NEW row, NEW r, SagaOK(row, r), NEW local \in Local, FollowsRow(local, row, r),
         NEW a, a = ActionOf[local.before.state], r[a] = NoReceipt,
         NEW outcome \in Outcome,
         a = "reserve" => outcome \in {"RESERVED", "DECLINED"},
         a = "charge"  => outcome \in {"CHARGED", "DECLINED"},
         a = "release" => outcome \in {"RELEASED", "DECLINED"},
         outcome = "RELEASED" => r["reserve"].outcome = "RESERVED",
         NEW new, new = Committed(r, a, local.before.request, outcome)
  PROVE  /\ SagaOK(row, new)
         /\ new[a].outcome = outcome
         /\ \A state : Backed(r, state) => Backed(new, state)
<1>1. /\ local.before.state \in Pending /\ Backed(r, local.before.state)
      /\ local.before.request = row.request /\ row.state # "ABSENT"
  BY DEF FollowsRow
<1>2. /\ row \in Row /\ r \in [Actions -> Receipt] /\ PaidXorReleased(r)
      /\ Bound(r, row.request) /\ WellFormed(row, r)
      /\ Backed(r, row.state) /\ Backed(r, row.resume)
  BY DEF SagaOK
<1>3. row.request \in Requests
  BY <1>1, <1>2 DEF WellFormed
<1>4. a \in Actions
  BY <1>1, ActionOfStage DEF Pending, Actions
<1>5. /\ new \in [Actions -> Receipt]
      /\ new[a] = [outcome |-> outcome, binding |-> row.request]
      /\ a # "reserve" => new["reserve"] = ReservationAfter(r, outcome)
      /\ \A x \in Actions \ {a, "reserve"} : new[x] = r[x]
  BY <1>1, <1>2, <1>3, <1>4 DEF Committed, ReservationAfter, Actions, Receipt
<1>6. ASSUME a # "reserve"
      PROVE  new["reserve"] = IF outcome = "RELEASED"
                              THEN [outcome |-> "RELEASED", binding |-> r["reserve"].binding]
                              ELSE r["reserve"]
  BY <1>5, <1>6, <1>2 DEF ReservationAfter, Receipt, Actions
<1>7. r[a].outcome = "NONE"
  BY DEF NoReceipt
<1>8. PaidXorReleased(new) /\ \A state : Backed(r, state) => Backed(new, state)
  <2> USE <1>1, <1>2, <1>5, <1>6, <1>7 DEF PaidXorReleased, Backed, Actions
  <2>1. CASE local.before.state = "RESERVE_PENDING"
    BY <2>1, ActionOfStage
  <2>2. CASE local.before.state = "PAYMENT_PENDING"
    BY <2>2, ActionOfStage
  <2>3. CASE local.before.state = "RELEASE_PENDING"
    BY <2>3, ActionOfStage
  <2> QED
    BY <2>1, <2>2, <2>3 DEF Pending
<1>9. Bound(new, row.request)
  <2>1. ASSUME NEW x \in Actions, new[x] # NoReceipt
        PROVE  new[x].binding = row.request
    <3>1. CASE x = a
      BY <3>1, <1>5
    <3>2. CASE x # a /\ x # "reserve"
      BY <3>2, <2>1, <1>5, <1>2 DEF Bound
    <3>3. CASE x # a /\ x = "reserve"
      <4>1. new["reserve"].binding = r["reserve"].binding
        BY <3>3, <1>6
      <4>2. r["reserve"] # NoReceipt
        <5>1. CASE outcome = "RELEASED"
          BY <5>1, <1>1, ActionOfStage DEF Pending, NoReceipt
        <5>2. CASE outcome # "RELEASED"
          BY <5>2, <3>3, <2>1, <1>6
        <5> QED
          BY <5>1, <5>2
      <4> QED
        BY <4>1, <4>2, <3>3, <1>2 DEF Bound
    <3> QED
      BY <3>1, <3>2, <3>3
  <2> QED
    BY <2>1 DEF Bound
<1>10. WellFormed(row, new)
  <2>1. \A x \in Actions : new[x].outcome = "NONE" => new[x] = NoReceipt
    <3>1. ASSUME NEW x \in Actions, new[x].outcome = "NONE"
          PROVE  new[x] = NoReceipt
      <4>1. CASE x = a
        BY <4>1, <3>1, <1>5 DEF Outcome
      <4>2. CASE x # a /\ x # "reserve"
        BY <4>2, <3>1, <1>5, <1>2 DEF WellFormed
      <4>3. CASE x # a /\ x = "reserve"
        BY <4>3, <3>1, <1>6, <1>2 DEF WellFormed
      <4> QED
        BY <4>1, <4>2, <4>3
    <3> QED
      BY <3>1
  <2>2. /\ new["reserve"].outcome \in {"NONE", "RESERVED", "RELEASED", "DECLINED"}
        /\ new["charge"].outcome  \in {"NONE", "CHARGED", "DECLINED"}
        /\ new["release"].outcome \in {"NONE", "RELEASED", "DECLINED"}
    BY <1>2, <1>4, <1>5, <1>6 DEF WellFormed, Actions
  <2> QED
    BY <2>1, <2>2, <1>1, <1>2 DEF WellFormed
<1> QED
  BY <1>2, <1>5, <1>8, <1>9, <1>10 DEF SagaOK

\* A new receipt takes nothing from what a driver's snapshot stands on.
LEMMA FollowsCommittedReceipts ==
  ASSUME NEW local, NEW row, NEW r, FollowsRow(local, row, r),
         NEW new, \A state : Backed(r, state) => Backed(new, state)
  PROVE  FollowsRow(local, row, new)
BY DEF FollowsRow

-----------------------------------------------------------------------------
(* One step.                                                               *)

Follows(d) == FollowsRow(drv[d], saga[drv[d].saga], receipt[drv[d].saga])

\* A step of one driver's locals.
LEMMA LocalStep ==
  ASSUME Safe, NEW d \in Drivers, NEW new \in Local, drv' = [drv EXCEPT ![d] = new],
         UNCHANGED <<saga, receipt, stock, captured>>, outages' \in 0..MaxOutages,
         new.pc # "idle" => FollowsRow(new, saga[new.saga], receipt[new.saga])
  PROVE  Safe'
<1>1. TypeOK'
  BY DEF Safe, TypeOK
<1>2. \A s \in Sagas : SagaOK(saga[s], receipt[s])'
  BY DEF Safe
<1>3. ASSUME NEW e \in Drivers, drv'[e].pc # "idle"
      PROVE  Follows(e)'
  BY <1>3 DEF Safe, TypeOK, Follows
<1> QED
  BY <1>1, <1>2, <1>3 DEF Safe, Follows

\* A step that writes one row: every driver keeps its locals or justifies new ones.
LEMMA RowStep ==
  ASSUME Safe, NEW s \in Sagas, NEW new, SagaOK(new, receipt[s]),
         new.version > saga[s].version, new.state # "ABSENT",
         saga[s].state # "ABSENT" => new.request = saga[s].request,
         saga' = [saga EXCEPT ![s] = new],
         UNCHANGED <<receipt, stock, captured>>, outages' \in 0..MaxOutages,
         drv' \in [Drivers -> Local],
         \A d \in Drivers : \/ drv'[d] = drv[d]
                            \/ drv'[d].pc = "idle"
                            \/ Follows(d)'
  PROVE  Safe'
<1>1. TypeOK'
  BY DEF Safe, TypeOK, SagaOK
<1>2. \A x \in Sagas : SagaOK(saga[x], receipt[x])'
  BY DEF Safe, TypeOK
<1>3. ASSUME NEW d \in Drivers, drv'[d].pc # "idle", drv'[d] = drv[d]
      PROVE  Follows(d)'
  <2>1. drv[d] \in Local /\ drv[d].saga \in Sagas /\ saga \in [Sagas -> Row]
    BY <1>3 DEF Safe, TypeOK, FollowsRow
  <2>2. FollowsRow(drv[d], saga[drv[d].saga], receipt[drv[d].saga])
    BY <1>3 DEF Safe
  <2>3. CASE drv[d].saga = s
    <3>1. saga[s].state # "ABSENT" /\ new \in Row /\ saga'[s] = new
      BY <2>1, <2>2, <2>3 DEF FollowsRow, SagaOK
    <3>2. FollowsRow(drv[d], new, receipt[s])
      BY <2>1, <2>2, <2>3, <3>1, FollowsNewerRow
    <3> QED
      BY <3>1, <3>2, <2>3, <1>3 DEF Follows
  <2>4. CASE drv[d].saga # s
    BY <2>1, <2>2, <2>4, <1>3 DEF Follows
  <2> QED
    BY <2>3, <2>4
<1> QED
  BY <1>1, <1>2, <1>3 DEF Safe, Follows

\* A step that commits a participant's receipt.
LEMMA ReceiptStep ==
  ASSUME Safe, NEW s \in Sagas, NEW new, SagaOK(saga[s], new),
         \A state : Backed(receipt[s], state) => Backed(new, state),
         receipt' = [receipt EXCEPT ![s] = new],
         UNCHANGED <<saga, outages>>, stock' \in Nat, captured' \in Nat,
         NEW d \in Drivers, NEW local \in Local, drv' = [drv EXCEPT ![d] = local],
         local.saga = s, FollowsRow(local, saga[s], new)
  PROVE  Safe'
<1>1. TypeOK'
  BY DEF Safe, TypeOK, SagaOK
<1>2. \A x \in Sagas : SagaOK(saga[x], receipt[x])'
  BY DEF Safe, TypeOK
<1>3. ASSUME NEW e \in Drivers, drv'[e].pc # "idle"
      PROVE  Follows(e)'
  <2>0. receipt'[s] = new
    BY DEF Safe, TypeOK
  <2>1. CASE e = d
    <3>1. drv'[d] = local
      BY DEF Safe, TypeOK
    <3> QED
      BY <2>0, <2>1, <3>1 DEF Follows
  <2>2. CASE e # d
    <3>1. drv'[e] = drv[e] /\ drv[e].pc # "idle"
      BY <2>2, <1>3 DEF Safe, TypeOK
    <3>2. FollowsRow(drv[e], saga[drv[e].saga], receipt[drv[e].saga])
      BY <3>1 DEF Safe
    <3>3. drv[e].saga \in Sagas
      BY <3>2 DEF FollowsRow
    <3>4. CASE drv[e].saga = s
      BY <2>0, <3>1, <3>2, <3>4, FollowsCommittedReceipts DEF Follows
    <3>5. CASE drv[e].saga # s
      BY <3>1, <3>2, <3>3, <3>5 DEF Follows, Safe, TypeOK
    <3> QED
      BY <3>4, <3>5
  <2> QED
    BY <2>1, <2>2
<1> QED
  BY <1>1, <1>2, <1>3 DEF Safe, Follows

\* start inserts a row only where none is, so no driver has a snapshot of it.
LEMMA StartSafe ==
  ASSUME Safe, NEW s \in Sagas, NEW r \in Requests, Start(s, r)
  PROVE  Safe'
<1> DEFINE new == [request |-> r, state |-> "RESERVE_PENDING", resume |-> "RESERVE_PENDING",
                   failures |-> 0, version |-> 1]
<1>1. saga[s] = NoRow /\ SagaOK(saga[s], receipt[s])
  BY DEF Start, Startable, Safe
<1>2. \A a \in Actions : receipt[s][a] = NoReceipt
  BY <1>1 DEF SagaOK, WellFormed, NoRow
<1>3. SagaOK(new, receipt[s])
  BY <1>1, <1>2 DEF SagaOK, Row, State, Pending, MaxFailures, Backed, Bound, WellFormed, NoReceipt
<1>4. /\ new.version > saga[s].version /\ new.state # "ABSENT" /\ saga[s].state = "ABSENT"
      /\ saga' = [saga EXCEPT ![s] = new]
  BY <1>1 DEF NoRow, Start
<1> HIDE DEF new
<1> QED
  BY <1>3, <1>4, RowStep DEF Start, Safe, TypeOK

\* The row that a resumed review leaves behind.
LEMMA ResumedRowSafe ==
  ASSUME NEW row, NEW r, SagaOK(row, r), row.state = "MANUAL_REVIEW",
         NEW new,
         new = [row EXCEPT !.state = row.resume, !.failures = 0, !.version = row.version + 1]
  PROVE  /\ SagaOK(new, r)
         /\ new.request = row.request /\ new.version > row.version /\ new.state # "ABSENT"
<1>1. row \in Row /\ row.resume \in Pending
  BY DEF SagaOK, WellFormed
<1>4. /\ new.request = row.request /\ new.state = row.resume /\ new.resume = row.resume
      /\ new.failures = 0 /\ new.version = row.version + 1
      /\ new = [request |-> new.request, state |-> new.state, resume |-> new.resume,
                failures |-> new.failures, version |-> new.version]
  BY <1>1 DEF Row
<1>2. new \in Row
  BY <1>1, <1>4 DEF Row, State, MaxFailures, Pending
<1>3. WellFormed(new, r)
  BY <1>1, <1>4 DEF SagaOK, WellFormed, Pending, MaxFailures, Row
<1> QED
  BY <1>1, <1>4, <1>2, <1>3 DEF SagaOK, Pending, Row

\* A resumed review stands on the evidence its stage stood on when it was parked.
LEMMA ResumeSafe ==
  ASSUME Safe, NEW s \in Sagas, ResumeAfterReview(s)
  PROVE  Safe'
<1>1. saga[s].state = "MANUAL_REVIEW" /\ SagaOK(saga[s], receipt[s])
  BY DEF ResumeAfterReview, Safe
<1>2. PICK new : /\ new = [saga[s] EXCEPT !.state = saga[s].resume, !.failures = 0,
                                          !.version = saga[s].version + 1]
                 /\ saga' = [saga EXCEPT ![s] = new]
  BY Zenon DEF ResumeAfterReview, ParkedStage
<1>3. /\ SagaOK(new, receipt[s]) /\ new.request = saga[s].request
      /\ new.version > saga[s].version /\ new.state # "ABSENT"
  BY <1>1, <1>2, ResumedRowSafe, Zenon
<1> QED
  BY <1>2, <1>3, RowStep DEF ResumeAfterReview, Safe, TypeOK

\* A tick begins with a snapshot that is the row itself.
LEMMA TickSafe ==
  ASSUME Safe, NEW d \in Drivers, NEW s \in Sagas, Tick(d, s)
  PROVE  Safe'
<1> DEFINE new == [pc |-> IF saga[s].state \in DOMAIN Evidence THEN "evidence" ELSE "lookup",
                   saga |-> s, before |-> saga[s], goal |-> NoGoal]
<1>1. saga[s] \in Row /\ saga[s].state \in Pending /\ SagaOK(saga[s], receipt[s])
  BY DEF Tick, Safe, TypeOK
<1>2. new \in Local
  BY <1>1 DEF Local, NoGoal, Goal, State, MaxFailures
<1>3. FollowsRow(new, saga[s], receipt[s])
  BY <1>1 DEF FollowsRow, SagaOK, WellFormed, Pending, Row, Evidence
<1>4. drv' = [drv EXCEPT ![d] = new]
  BY DEF Tick
<1> HIDE DEF new
<1> QED
  BY <1>2, <1>3, <1>4, LocalStep DEF Tick, Safe, TypeOK, new

\* The step of a driver inside its tick, and what Safe says of it.
LEMMA InsideTick ==
  ASSUME Safe, NEW d \in Drivers, drv[d].pc # "idle"
  PROVE  /\ drv[d] \in Local /\ drv[d].saga \in Sagas
         /\ FollowsRow(drv[d], saga[drv[d].saga], receipt[drv[d].saga])
         /\ SagaOK(saga[drv[d].saga], receipt[drv[d].saga])
         /\ PaidXorReleased(receipt[drv[d].saga])
BY DEF Safe, TypeOK, FollowsRow, SagaOK

\* A tick that has the outcome of its call has one that the receipts back.
LEMMA ConcludeSafe ==
  ASSUME Safe, NEW d \in Drivers, drv[d].pc # "idle", NEW result, Conclude(d, result),
         result \in Outcome =>
           receipt[drv[d].saga][ActionOf[drv[d].before.state]].outcome = result,
         UNCHANGED <<saga, receipt, stock, captured>>, outages' \in 0..MaxOutages
  PROVE  Safe'
<1> DEFINE new == Concluded(drv[d], result)
<1>1. new \in Local /\ FollowsRow(new, saga[drv[d].saga], receipt[drv[d].saga])
  BY InsideTick, ConcludedSafe
<1>2. new.saga = drv[d].saga
  BY DEF Concluded, At
<1>3. drv' = [drv EXCEPT ![d] = new]
  BY DEF Conclude
<1> HIDE DEF new
<1> QED
  BY <1>1, <1>2, <1>3, LocalStep

\* A tick that moves on to its next call has the snapshot it had.
LEMMA ContinueSafe ==
  ASSUME Safe, NEW d \in Drivers, drv[d].pc # "idle",
         NEW pc \in {"lookup", "execute", "effect", "write"},
         Continue(d, pc), UNCHANGED <<saga, receipt, stock, captured, outages>>
  PROVE  Safe'
<1> DEFINE new == At(drv[d], pc, NoGoal)
<1>1. /\ new \in Local /\ new.saga = drv[d].saga /\ new.before = drv[d].before
      /\ new.pc = pc /\ new.goal = NoGoal
  <2>1. NoGoal \in Goal
    BY DEF NoGoal, Goal, State, MaxFailures
  <2>2. drv[d] \in Local
    BY InsideTick
  <2> QED
    BY <2>1, <2>2 DEF At, Local
<1>2. FollowsRow(new, saga[new.saga], receipt[new.saga])
  <2>1. FollowsRow(drv[d], saga[drv[d].saga], receipt[drv[d].saga])
    BY InsideTick
  <2>2. Backed(receipt[drv[d].saga], NoGoal.state)
    BY DEF NoGoal, Backed
  <2>3. pc \notin {"evidence", "recover"} /\ NoGoal.state = "MANUAL_REVIEW"
    BY DEF NoGoal
  <2> HIDE DEF new
  <2> QED
    BY <1>1, <2>1, <2>2, <2>3 DEF FollowsRow, Pending
<1>3. drv' = [drv EXCEPT ![d] = new]
  BY DEF Continue
<1> HIDE DEF new
<1> QED
  BY <1>1, <1>2, <1>3, LocalStep DEF Safe, TypeOK

\* The evidence lookup: a stage is acted on only with its evidence, and parked without it.
LEMMA CheckEvidenceSafe ==
  ASSUME Safe, NEW d \in Drivers, CheckEvidence(d)
  PROVE  Safe'
<1> DEFINE before == drv[d].before
           need   == Evidence[before.state]
           found  == Found(drv[d].saga, need.action, before.request)
<1>1. drv[d].pc # "idle" /\ UNCHANGED <<saga, receipt, stock, captured, outages>>
      /\ outages' \in 0..MaxOutages
  BY DEF CheckEvidence, Safe, TypeOK
<1>2. CASE \E result \in {"FAILED"} \cup ({found} \cap {"CONFLICT"}) : Conclude(d, result)
  BY <1>1, <1>2, ConcludeSafe DEF Outcome
<1>3. CASE Continue(d, "lookup")
  BY <1>1, <1>3, ContinueSafe
<1>4. CASE Continue(d, "write")
  BY <1>1, <1>4, ContinueSafe
<1> QED
  BY <1>2, <1>3, <1>4 DEF CheckEvidence

\* Looking for a receipt commits nothing, and finds only outcomes that are stored.
LEMMA FindReceiptSafe ==
  ASSUME Safe, NEW d \in Drivers, NEW pc, pc # "idle", NEW absent \in {"execute", "effect"},
         FindReceipt(d, pc, absent)
  PROVE  Safe'
<1> DEFINE found == Found(drv[d].saga, ActionOf[drv[d].before.state], drv[d].before.request)
<1>1. drv[d].pc # "idle" /\ UNCHANGED <<saga, receipt, stock, captured, outages>>
      /\ outages' \in 0..MaxOutages
  BY DEF FindReceipt, Safe, TypeOK
<1>2. CASE Conclude(d, "FAILED")
  BY <1>1, <1>2, ConcludeSafe DEF Outcome
<1>3. CASE Conclude(d, found)
  <2>1. found \in Outcome =>
          receipt[drv[d].saga][ActionOf[drv[d].before.state]].outcome = found
    BY DEF Found, Outcome
  <2> HIDE DEF found
  <2> QED
    BY <1>1, <1>3, <2>1, ConcludeSafe
<1>4. CASE Continue(d, absent)
  BY <1>1, <1>4, ContinueSafe
<1> QED
  BY <1>2, <1>3, <1>4 DEF FindReceipt

\* A participant's transaction, whatever its fault: it commits the receipt and its effect, or
\* neither, and a reply that was lost counts as a failure although the receipt is there.
LEMMA ExecuteSafe ==
  ASSUME Safe, NEW d \in Drivers, Execute(d)
  PROVE  Safe'
<1> DEFINE s       == drv[d].saga
           request == drv[d].before.request
           a       == ActionOf[drv[d].before.state]
<1>1. drv[d].pc = "effect" /\ drv[d].pc # "idle" /\ UNCHANGED <<saga, outages>>
      /\ outages' \in 0..MaxOutages
  BY DEF Execute, Safe, TypeOK
<1>2. PICK fault \in Fault :
        LET outcome == IF fault = "UNAVAILABLE_BEFORE" THEN "FAILED" ELSE Decide(s, a, request, fault)
        IN  \/ /\ outcome \notin Outcome
               /\ Conclude(d, outcome)
               /\ UNCHANGED <<receipt, stock, captured>>
            \/ /\ outcome \in Outcome
               /\ KeyTaken(s, a)
               /\ Conclude(d, "FAILED")
               /\ UNCHANGED <<receipt, stock, captured>>
            \/ /\ outcome \in Outcome
               /\ ~KeyTaken(s, a)
               /\ CommitOutcome(s, a, request, outcome)
               /\ Conclude(d, IF fault = "TIMEOUT_AFTER_COMMIT" THEN "FAILED" ELSE outcome)
  BY DEF Execute
<1> DEFINE outcome == IF fault = "UNAVAILABLE_BEFORE" THEN "FAILED" ELSE Decide(s, a, request, fault)
           result  == IF fault = "TIMEOUT_AFTER_COMMIT" THEN "FAILED" ELSE outcome
<1>3. ASSUME outcome \notin Outcome, Conclude(d, outcome), UNCHANGED <<receipt, stock, captured>>
      PROVE  Safe'
  <2> HIDE DEF outcome
  <2> QED
    BY <1>1, <1>3, ConcludeSafe
<1>4. ASSUME Conclude(d, "FAILED"), UNCHANGED <<receipt, stock, captured>>
      PROVE  Safe'
  BY <1>1, <1>4, ConcludeSafe DEF Outcome
<1>5. ASSUME outcome \in Outcome, ~KeyTaken(s, a), CommitOutcome(s, a, request, outcome),
             Conclude(d, result)
      PROVE  Safe'
  <2>1. /\ drv[d] \in Local /\ s \in Sagas /\ FollowsRow(drv[d], saga[s], receipt[s])
        /\ SagaOK(saga[s], receipt[s])
    BY <1>1, InsideTick
  <2>2. /\ drv[d].before.state \in Pending
        /\ request \in Requests
    BY <2>1 DEF FollowsRow, SagaOK, WellFormed
  <2>3. /\ a = "reserve" => outcome \in {"RESERVED", "DECLINED"}
        /\ a = "charge"  => outcome \in {"CHARGED", "DECLINED"}
        /\ a = "release" => outcome \in {"RELEASED", "DECLINED"}
        /\ outcome = "RELEASED" => receipt[s]["reserve"].outcome = "RESERVED"
        /\ outcome = "RESERVED" => Quantity[request] <= stock
    BY <1>5, <2>2, ActionOfStage DEF Decide, InStock, Outcome, Pending
  <2>4. receipt[s][a] = NoReceipt
    BY <1>5 DEF KeyTaken
  <2> DEFINE new == Committed(receipt[s], a, request, outcome)
             local == Concluded(drv[d], result)
  <2>5. receipt' = [receipt EXCEPT ![s] = new] /\ drv' = [drv EXCEPT ![d] = local]
    BY <1>5 DEF CommitOutcome, Conclude
  <2>6. stock' \in Nat /\ captured' \in Nat
    BY <1>5, <2>2, <2>3, RequestAssumption DEF CommitOutcome, Safe, TypeOK
  <2> HIDE DEF outcome, a
  <2>7. /\ SagaOK(saga[s], new) /\ new[a].outcome = outcome
        /\ \A state : Backed(receipt[s], state) => Backed(new, state)
    BY <1>5, <2>1, <2>3, <2>4, CommittedSafe DEF a
  <2> HIDE DEF new
  <2>8. FollowsRow(drv[d], saga[s], new) /\ PaidXorReleased(new)
    BY <2>1, <2>7, FollowsCommittedReceipts DEF SagaOK
  <2>9. result \in Outcome => new[a].outcome = result
    BY <2>7 DEF Outcome
  <2> HIDE DEF result
  <2>10. local \in Local /\ FollowsRow(local, saga[s], new)
    BY <2>1, <2>8, <2>9, ConcludedSafe DEF a
  <2>11. local.saga = s
    BY DEF Concluded, At
  <2> HIDE DEF local
  <2> QED
    BY <1>1, <2>1, <2>5, <2>6, <2>7, <2>10, <2>11, ReceiptStep
<1> QED
  BY <1>2, <1>3, <1>4, <1>5

\* Whatever a compare-and-set does to the rows, a driver that is left idle, or whose
\* new locals follow its row, leaves the system safe.
LEMMA CompareAndSetSafe ==
  ASSUME Safe, NEW d \in Drivers, drv[d].pc \in {"write", "recover"},
         CompareAndSet(drv[d].saga, drv[d].before, drv[d].goal),
         UNCHANGED <<receipt, stock, captured>>, outages' \in 0..MaxOutages,
         NEW local \in Local, drv' = [drv EXCEPT ![d] = local],
         local.pc = "idle" \/ \E result : result \notin Outcome /\ local = Concluded(drv[d], result)
  PROVE  Safe'
<1> DEFINE s   == drv[d].saga
           row == saga[s]
           new == Moved(row, drv[d].before, drv[d].goal)
<1>1. /\ drv[d] \in Local /\ s \in Sagas /\ row \in Row /\ FollowsRow(drv[d], row, receipt[s])
      /\ SagaOK(row, receipt[s]) /\ PaidXorReleased(receipt[s])
  BY InsideTick DEF SagaOK
<1>2. CASE row.version # drv[d].before.version
  <2>1. saga' = saga
    BY <1>2 DEF CompareAndSet, Unmoved
  <2>2. local.pc # "idle" => FollowsRow(local, saga[local.saga], receipt[local.saga])
    <3>1. ASSUME local.pc # "idle"
          PROVE  FollowsRow(local, row, receipt[s]) /\ local.saga = s
      <4>1. PICK result : result \notin Outcome /\ local = Concluded(drv[d], result)
        BY <3>1
      <4>2. FollowsRow(local, row, receipt[s])
        BY <1>1, <4>1, ConcludedSafe
      <4>3. local.saga = s
        BY <4>1 DEF Concluded, At
      <4> QED
        BY <4>2, <4>3
    <3> QED
      BY <3>1
  <2> QED
    BY <2>1, <2>2, LocalStep
<1>3. CASE row.version = drv[d].before.version
  <2>1. saga' = [saga EXCEPT ![s] = new]
    BY <1>3 DEF CompareAndSet, Unmoved
  <2>2. /\ SagaOK(new, receipt[s]) /\ new.request = row.request
        /\ new.version > row.version /\ new.state # "ABSENT"
    BY <1>1, <1>3, MovedRowSafe
  <2> HIDE DEF new
  <2>3. ASSUME NEW e \in Drivers
        PROVE  drv'[e] = drv[e] \/ drv'[e].pc = "idle" \/ Follows(e)'
    <3>1. CASE e # d
      BY <3>1 DEF Safe, TypeOK
    <3>2. CASE e = d /\ local.pc = "idle"
      BY <3>2 DEF Safe, TypeOK
    <3>3. CASE e = d /\ local.pc # "idle"
      <4>1. PICK result : result \notin Outcome /\ local = Concluded(drv[d], result)
        BY <3>3
      <4>2. FollowsRow(drv[d], new, receipt[s])
        BY <1>1, <2>2, FollowsNewerRow DEF SagaOK
      <4>3. FollowsRow(local, new, receipt[s]) /\ local.saga = s
        BY <1>1, <4>1, <4>2, ConcludedSafe DEF Concluded, At
      <4>4. drv'[e] = local /\ saga'[s] = new
        BY <3>3, <1>1, <2>1 DEF Safe, TypeOK
      <4> QED
        BY <4>3, <4>4 DEF Follows
    <3> QED
      BY <3>1, <3>2, <3>3
  <2>4. drv' \in [Drivers -> Local]
    BY DEF Safe, TypeOK
  <2> QED
    BY <1>1, <2>1, <2>2, <2>3, <2>4, RowStep
<1> QED
  BY <1>2, <1>3

\* A driver between ticks is well typed.
LEMMA IdleIsLocal == Idle \in Local /\ Idle.pc = "idle"
BY DEF Idle, Local, NoRow, NoGoal, Row, Goal, State, MaxFailures

\* The compare-and-set writes a row over the one it read, or nothing.
LEMMA TransitionSafe ==
  ASSUME Safe, NEW d \in Drivers, Transition(d)
  PROVE  Safe'
BY IdleIsLocal, CompareAndSetSafe DEF Transition, Safe, TypeOK

\* A coordinator error is counted against the row the tick read.
LEMMA TransitionFailsSafe ==
  ASSUME Safe, NEW d \in Drivers, TransitionFails(d)
  PROVE  Safe'
<1>1. drv[d].pc = "write" /\ drv[d].pc # "idle" /\ UNCHANGED <<receipt, stock, captured>>
      /\ outages' \in 0..MaxOutages /\ Conclude(d, "FAILED") /\ "FAILED" \notin Outcome
  BY BoundAssumption DEF TransitionFails, Safe, TypeOK, Outcome
<1>2. CASE UNCHANGED saga
  BY <1>1, <1>2, ConcludeSafe
<1>3. CASE CompareAndSet(drv[d].saga, drv[d].before, drv[d].goal)
  <2>1. Concluded(drv[d], "FAILED") \in Local
    BY <1>1, InsideTick, ConcludedSafe
  <2> QED
    BY <1>1, <1>3, <2>1, CompareAndSetSafe DEF Conclude
<1> QED
  BY <1>2, <1>3 DEF TransitionFails

\* A crash forgets a driver's locals and leaves every database as it was.
LEMMA CrashSafe ==
  ASSUME Safe, NEW d \in Drivers, Crash(d)
  PROVE  Safe'
<1>1. drv' = [drv EXCEPT ![d] = Idle] /\ UNCHANGED <<receipt, stock, captured>>
      /\ outages' \in 0..MaxOutages
  BY BoundAssumption DEF Crash, Safe, TypeOK
<1>2. CASE UNCHANGED saga
  BY <1>1, <1>2, IdleIsLocal, LocalStep
<1>3. CASE drv[d].pc = "recover" /\ CompareAndSet(drv[d].saga, drv[d].before, drv[d].goal)
  BY <1>1, <1>3, IdleIsLocal, CompareAndSetSafe
<1> QED
  BY <1>2, <1>3 DEF Crash

\* Every step keeps the invariant.
LEMMA StepSafe == Safe /\ [Next]_vars => Safe'
<1> SUFFICES ASSUME Safe, [Next]_vars PROVE Safe'
  OBVIOUS
<1>1. CASE UNCHANGED vars
  BY <1>1 DEF vars, Safe, TypeOK
<1>2. CASE \E s \in Sagas, r \in Requests : Start(s, r)
  BY <1>2, StartSafe
<1>3. CASE \E s \in Sagas : ResumeAfterReview(s)
  BY <1>3, ResumeSafe
<1>4. ASSUME NEW d \in Drivers, DriverStep(d)
      PROVE  Safe'
  <2>1. CASE \E s \in Sagas : Tick(d, s)
    BY <2>1, TickSafe
  <2>2. CASE Lookup(d)
    BY <2>2, FindReceiptSafe DEF Lookup
  <2>3. CASE CheckReceipt(d)
    BY <2>3, FindReceiptSafe DEF CheckReceipt
  <2> QED
    BY <1>4, <2>1, <2>2, <2>3, CheckEvidenceSafe, ExecuteSafe, TransitionSafe DEF DriverStep
<1>5. ASSUME NEW d \in Drivers, TransitionFails(d) \/ Crash(d)
      PROVE  Safe'
  BY <1>5, TransitionFailsSafe, CrashSafe
<1> QED
  BY <1>1, <1>2, <1>3, <1>4, <1>5 DEF Next

\* Only the row a tick read is ever replaced by what the tick concluded from it.
LEMMA CompareAndSetReplaces ==
  ASSUME Safe, NEW d \in Drivers, drv[d].pc \in {"write", "recover"},
         CompareAndSet(drv[d].saga, drv[d].before, drv[d].goal),
         NEW local, drv' = [drv EXCEPT ![d] = local], NEW s \in Sagas
  PROVE  ReplacesWhatItRead(s)
<1> SUFFICES ASSUME saga'[s] # saga[s]
             PROVE  /\ saga[s].state \notin Final
                    /\ saga'[s].version = saga[s].version + 1
                    /\ saga'[s].request = saga[s].request
                    /\ drv[d].before = saga[s]
                    /\ \A e \in Drivers : drv'[e] # drv[e] => e = d
  BY DEF ReplacesWhatItRead
<1>1. /\ drv[d] \in Local /\ drv[d].saga \in Sagas
      /\ FollowsRow(drv[d], saga[drv[d].saga], receipt[drv[d].saga])
  BY InsideTick
<1>2. /\ s = drv[d].saga /\ saga[s].version = drv[d].before.version
      /\ saga'[s] = Moved(saga[s], drv[d].before, drv[d].goal)
  BY <1>1 DEF CompareAndSet, Unmoved, Safe, TypeOK
<1>3. drv[d].before = saga[s] /\ saga[s].state \in Pending /\ saga[s] \in Row
  BY <1>1, <1>2 DEF FollowsRow, Safe, TypeOK
<1>4. ASSUME NEW row \in Row, NEW before, NEW goal
      PROVE  /\ Moved(row, before, goal).version = row.version + 1
             /\ Moved(row, before, goal).request = row.request
  BY DEF Moved, Row
<1>5. saga'[s].version = saga[s].version + 1 /\ saga'[s].request = saga[s].request
  BY <1>2, <1>3, <1>4
<1> QED
  BY <1>3, <1>5 DEF Pending, Final, Safe, TypeOK

\* Every step that writes a row replaces the one its writer read, and never a verdict.
LEMMA StepReplacesWhatItRead ==
  ASSUME Safe, Next, NEW s \in Sagas
  PROVE  ReplacesWhatItRead(s)
<1>1. ASSUME UNCHANGED saga PROVE ReplacesWhatItRead(s)
  BY <1>1 DEF ReplacesWhatItRead
<1>2. ASSUME NEW x \in Sagas, NEW r \in Requests, Start(x, r)
      PROVE  ReplacesWhatItRead(s)
  BY <1>2 DEF Start, Startable, NoRow, Final, ReplacesWhatItRead, Safe, TypeOK
<1>3. ASSUME NEW x \in Sagas, ResumeAfterReview(x)
      PROVE  ReplacesWhatItRead(s)
  <2>1. ASSUME NEW row \in Row, NEW state
        PROVE  /\ [row EXCEPT !.state = state, !.failures = 0, !.version = row.version + 1].version
                     = row.version + 1
               /\ [row EXCEPT !.state = state, !.failures = 0, !.version = row.version + 1].request
                     = row.request
    BY DEF Row
  <2> DEFINE new == [saga[x] EXCEPT !.state = saga[x].resume, !.failures = 0,
                                    !.version = saga[x].version + 1]
  <2>2. saga' = [saga EXCEPT ![x] = new] /\ saga[x].state = "MANUAL_REVIEW" /\ UNCHANGED drv
    BY <1>3, Zenon DEF ResumeAfterReview, ParkedStage
  <2>3. saga[x] \in Row
    BY DEF Safe, TypeOK
  <2>4. new.version = saga[x].version + 1 /\ new.request = saga[x].request
    BY <2>1, <2>3, Zenon
  <2> HIDE DEF new
  <2> QED
    BY <2>2, <2>4 DEF Final, ReplacesWhatItRead, Safe, TypeOK
<1>4. ASSUME NEW d \in Drivers, DriverStep(d)
      PROVE  ReplacesWhatItRead(s)
  <2>1. CASE Transition(d)
    BY <2>1, CompareAndSetReplaces DEF Transition
  <2>2. CASE ~Transition(d)
    BY <1>1, <1>4, <2>2 DEF DriverStep, Tick, CheckEvidence, Lookup, CheckReceipt, FindReceipt, Execute
  <2> QED
    BY <2>1, <2>2
<1>5. ASSUME NEW d \in Drivers, TransitionFails(d)
      PROVE  ReplacesWhatItRead(s)
  BY <1>1, <1>5, CompareAndSetReplaces DEF TransitionFails, Conclude
<1>6. ASSUME NEW d \in Drivers, Crash(d)
      PROVE  ReplacesWhatItRead(s)
  BY <1>1, <1>6, CompareAndSetReplaces DEF Crash
<1> QED
  BY <1>2, <1>3, <1>4, <1>5, <1>6 DEF Next

-----------------------------------------------------------------------------
(* What a step does to the rows and to the participants' databases.        *)

\* A participant commits an outcome of stage's action for saga s, and its effect.
CommitsOutcome(s, stage, outcome) ==
  /\ s \in Sagas /\ stage \in Pending /\ outcome \in Outcome
  /\ saga[s].state # "ABSENT" /\ saga[s].request \in Requests
  /\ Backed(receipt[s], stage)
  /\ receipt[s][ActionOf[stage]] = NoReceipt
  /\ CommitOutcome(s, ActionOf[stage], saga[s].request, outcome)
  /\ stage = "RESERVE_PENDING" => outcome \in {"RESERVED", "DECLINED"}
  /\ stage = "PAYMENT_PENDING" => outcome \in {"CHARGED", "DECLINED"}
  /\ stage = "RELEASE_PENDING" => outcome \in {"RELEASED", "DECLINED"}
  /\ outcome = "RELEASED" => receipt[s]["reserve"].outcome = "RESERVED"
  /\ outcome = "RESERVED" => Quantity[saga[s].request] <= stock

\* A participant's transaction that is not rolled back commits one outcome.
LEMMA ExecuteCommits ==
  ASSUME Safe, NEW d \in Drivers, Execute(d)
  PROVE  \/ UNCHANGED <<receipt, stock, captured>>
         \/ \E s \in Sagas, stage \in Pending, outcome \in Outcome : CommitsOutcome(s, stage, outcome)
<1> DEFINE s       == drv[d].saga
           request == drv[d].before.request
           a       == ActionOf[drv[d].before.state]
<1>1. drv[d].pc # "idle"
  BY DEF Execute
<1>2. CASE ~ UNCHANGED <<receipt, stock, captured>>
  <2>1. PICK fault \in Fault :
          LET outcome == IF fault = "UNAVAILABLE_BEFORE" THEN "FAILED" ELSE Decide(s, a, request, fault)
          IN  /\ outcome \in Outcome
              /\ ~KeyTaken(s, a)
              /\ CommitOutcome(s, a, request, outcome)
    BY <1>2 DEF Execute
  <2> DEFINE outcome == IF fault = "UNAVAILABLE_BEFORE" THEN "FAILED" ELSE Decide(s, a, request, fault)
  <2>2. /\ s \in Sagas /\ FollowsRow(drv[d], saga[s], receipt[s]) /\ SagaOK(saga[s], receipt[s])
    BY <1>1, InsideTick
  <2>3. /\ drv[d].before.state \in Pending
        /\ Backed(receipt[s], drv[d].before.state)
        /\ saga[s].state # "ABSENT"
        /\ request = saga[s].request /\ request \in Requests
    BY <2>2 DEF FollowsRow, SagaOK, WellFormed
  <2>4. /\ a = "reserve" => outcome \in {"RESERVED", "DECLINED"}
        /\ a = "charge"  => outcome \in {"CHARGED", "DECLINED"}
        /\ a = "release" => outcome \in {"RELEASED", "DECLINED"}
        /\ outcome = "RELEASED" => receipt[s]["reserve"].outcome = "RESERVED"
        /\ outcome = "RESERVED" => Quantity[request] <= stock
    BY <2>1, <2>3, ActionOfStage DEF Decide, InStock, Outcome, Pending
  <2>5. receipt[s][a] = NoReceipt
    BY <2>1 DEF KeyTaken
  <2>6. outcome \in Outcome /\ CommitOutcome(s, a, saga[s].request, outcome)
    BY <2>1, <2>3
  <2> HIDE DEF outcome
  <2>7. CommitsOutcome(s, drv[d].before.state, outcome)
    BY <2>2, <2>3, <2>4, <2>5, <2>6, ActionOfStage DEF CommitsOutcome
  <2>8. PICK x \in Sagas, stage \in Pending, o \in Outcome :
          x = s /\ stage = drv[d].before.state /\ o = outcome
    BY <2>2, <2>3, <2>6
  <2> HIDE DEF s
  <2>9. CommitsOutcome(x, stage, o)
    BY <2>7, <2>8 DEF CommitsOutcome
  <2> QED
    BY <2>9
<1> QED
  BY <1>2

\* A step writes no row or one: it inserts one that was absent, or replaces one by its
\* successor.  The participants' databases then stay as they are.
LEMMA RowCases ==
  ASSUME Safe, Next
  PROVE  \/ UNCHANGED saga
         \/ /\ UNCHANGED <<receipt, stock, captured>>
            /\ \/ \E s \in Sagas, r \in Requests : Start(s, r)
               \/ \E s \in Sagas : \E new \in Row :
                    /\ saga[s].state # "ABSENT" /\ new.state # "ABSENT"
                    /\ new.request = saga[s].request
                    /\ saga' = [saga EXCEPT ![s] = new]
<1>1. ASSUME NEW s \in Sagas, ResumeAfterReview(s)
      PROVE  /\ UNCHANGED <<receipt, stock, captured>>
             /\ \E new \in Row :
                  /\ saga[s].state # "ABSENT" /\ new.state # "ABSENT"
                  /\ new.request = saga[s].request
                  /\ saga' = [saga EXCEPT ![s] = new]
  <2>1. saga[s].state = "MANUAL_REVIEW" /\ SagaOK(saga[s], receipt[s])
    BY <1>1 DEF ResumeAfterReview, Safe
  <2>2. PICK new : /\ new = [saga[s] EXCEPT !.state = saga[s].resume, !.failures = 0,
                                            !.version = saga[s].version + 1]
                   /\ saga' = [saga EXCEPT ![s] = new] /\ UNCHANGED <<receipt, stock, captured>>
    BY <1>1, Zenon DEF ResumeAfterReview, ParkedStage
  <2>3. SagaOK(new, receipt[s]) /\ new.request = saga[s].request /\ new.state # "ABSENT"
    BY <2>1, <2>2, ResumedRowSafe, Zenon
  <2> QED
    BY <2>1, <2>2, <2>3 DEF SagaOK
<1>2. ASSUME NEW d \in Drivers, drv[d].pc \in {"write", "recover"},
             CompareAndSet(drv[d].saga, drv[d].before, drv[d].goal)
      PROVE  \/ UNCHANGED saga
             \/ \E s \in Sagas : \E new \in Row :
                  /\ saga[s].state # "ABSENT" /\ new.state # "ABSENT"
                  /\ new.request = saga[s].request
                  /\ saga' = [saga EXCEPT ![s] = new]
  <2> DEFINE s   == drv[d].saga
             new == Moved(saga[s], drv[d].before, drv[d].goal)
  <2>1. /\ drv[d] \in Local /\ s \in Sagas /\ FollowsRow(drv[d], saga[s], receipt[s])
        /\ SagaOK(saga[s], receipt[s])
    BY <1>2, InsideTick
  <2>2. CASE saga[s].version # drv[d].before.version
    BY <1>2, <2>2 DEF CompareAndSet, Unmoved
  <2>3. CASE saga[s].version = drv[d].before.version
    <3>1. saga' = [saga EXCEPT ![s] = new]
      BY <1>2, <2>3 DEF CompareAndSet, Unmoved
    <3>2. SagaOK(new, receipt[s]) /\ new.request = saga[s].request /\ new.state # "ABSENT"
      BY <1>2, <2>1, <2>3, MovedRowSafe
    <3> HIDE DEF new
    <3> QED
      BY <2>1, <3>1, <3>2 DEF SagaOK, FollowsRow
  <2> QED
    BY <2>2, <2>3
<1>3. ASSUME NEW d \in Drivers, DriverStep(d), ~ UNCHANGED saga
      PROVE  Transition(d)
  BY <1>3 DEF DriverStep, Tick, CheckEvidence, Lookup, CheckReceipt, FindReceipt, Execute
<1>4. ASSUME NEW s \in Sagas, NEW r \in Requests, Start(s, r)
      PROVE  UNCHANGED <<receipt, stock, captured>>
  BY <1>4 DEF Start
<1>5. ASSUME NEW d \in Drivers, Transition(d) \/ TransitionFails(d) \/ Crash(d)
      PROVE  /\ UNCHANGED <<receipt, stock, captured>>
             /\ \/ UNCHANGED saga
                \/ /\ drv[d].pc \in {"write", "recover"}
                   /\ CompareAndSet(drv[d].saga, drv[d].before, drv[d].goal)
  BY <1>5 DEF Transition, TransitionFails, Crash
<1> QED
  BY <1>1, <1>2, <1>3, <1>4, <1>5 DEF Next

\* A step leaves the participants' databases as they are, or commits one outcome.
LEMMA CommitCases ==
  ASSUME Safe, Next
  PROVE  \/ UNCHANGED <<receipt, stock, captured>>
         \/ /\ UNCHANGED saga
            /\ \E s \in Sagas, stage \in Pending, outcome \in Outcome : CommitsOutcome(s, stage, outcome)
<1>1. ASSUME NEW d \in Drivers, DriverStep(d), ~ UNCHANGED <<receipt, stock, captured>>
      PROVE  Execute(d)
  BY <1>1 DEF DriverStep, Tick, CheckEvidence, Lookup, CheckReceipt, FindReceipt, Transition
<1>2. ASSUME NEW d \in Drivers, Execute(d)
      PROVE  UNCHANGED saga
  BY <1>2 DEF Execute
<1> QED
  BY <1>1, <1>2, ExecuteCommits DEF Next, Start, ResumeAfterReview, TransitionFails, Crash

\* A committed outcome is the action's own receipt, and closes the reservation it releases.
LEMMA CommittedOutcomes ==
  ASSUME NEW s, NEW stage, NEW outcome, CommitsOutcome(s, stage, outcome), Safe
  PROVE  /\ receipt' \in [Sagas -> [Actions -> Receipt]]
         /\ \A x \in Sagas \ {s} : receipt'[x] = receipt[x]
         /\ receipt'[s]["reserve"].outcome =
              IF stage = "RESERVE_PENDING" THEN outcome
              ELSE IF outcome = "RELEASED" THEN "RELEASED" ELSE receipt[s]["reserve"].outcome
         /\ receipt'[s]["charge"].outcome =
              IF stage = "PAYMENT_PENDING" THEN outcome ELSE receipt[s]["charge"].outcome
         /\ receipt'[s]["release"].outcome =
              IF stage = "RELEASE_PENDING" THEN outcome ELSE receipt[s]["release"].outcome
<1> DEFINE a == ActionOf[stage]
           r == receipt[s]
           new == Committed(r, a, saga[s].request, outcome)
<1>1. /\ s \in Sagas /\ stage \in Pending /\ outcome \in Outcome /\ saga[s].request \in Requests
      /\ receipt' = [receipt EXCEPT ![s] = new]
      /\ receipt \in [Sagas -> [Actions -> Receipt]] /\ r \in [Actions -> Receipt]
  BY DEF CommitsOutcome, CommitOutcome, Safe, TypeOK
<1>2. a = IF stage = "RESERVE_PENDING" THEN "reserve"
          ELSE IF stage = "PAYMENT_PENDING" THEN "charge" ELSE "release"
  BY <1>1, ActionOfStage DEF Pending
<1>3. outcome = "RELEASED" => stage = "RELEASE_PENDING"
  BY <1>1 DEF CommitsOutcome, Pending
<1>4. ReservationAfter(r, outcome) \in Receipt
      /\ ReservationAfter(r, outcome).outcome =
           IF outcome = "RELEASED" THEN "RELEASED" ELSE r["reserve"].outcome
  BY <1>1 DEF ReservationAfter, Receipt, Actions, Outcome
<1>5. /\ new \in [Actions -> Receipt]
      /\ new[a].outcome = outcome
      /\ a # "reserve" => new["reserve"] = ReservationAfter(r, outcome)
      /\ \A x \in Actions \ {a, "reserve"} : new[x] = r[x]
  BY <1>1, <1>2, <1>4 DEF Committed, Actions, Receipt
<1> HIDE DEF new
<1>6. receipt' \in [Sagas -> [Actions -> Receipt]] /\ receipt'[s] = new
      /\ \A x \in Sagas \ {s} : receipt'[x] = receipt[x]
  BY <1>1, <1>5
<1> QED
  BY <1>1, <1>2, <1>3, <1>4, <1>5, <1>6 DEF Pending, Actions

-----------------------------------------------------------------------------
(* Accounts.                                                               *)

\* The receipts that hold stock or money are finitely many, and their requests add up.
Accounts ==
  /\ IsFiniteSet(With("reserve", "RESERVED"))
  /\ IsFiniteSet(With("charge", "CHARGED"))
  /\ EffectsMatchReceipts

\* With no receipts nothing is held, sold or charged.
LEMMA InitAccounts == Init => Accounts
<1> SUFFICES ASSUME Init PROVE Accounts
  OBVIOUS
<1>1. With("reserve", "RESERVED") = {} /\ With("charge", "CHARGED") = {}
  BY DEF Init, With, NoReceipt, Actions
<1>2. InitialStock + 0 = InitialStock
  BY BoundAssumption
<1> QED
  BY <1>1, <1>2, SumEmpty, FS_EmptySet DEF Init, Accounts, EffectsMatchReceipts

\* A row that is written keeps the request that its receipts were given for.
LEMMA RowsKeepAccounts ==
  ASSUME Safe, Accounts, Next, UNCHANGED <<receipt, stock, captured>>
  PROVE  Accounts'
<1>1. ASSUME NEW a \in Actions, NEW o \in Outcome, NEW s \in With(a, o)
      PROVE  saga'[s].request = saga[s].request
  <2>1. s \in Sagas /\ saga[s].state # "ABSENT"
    BY <1>1 DEF With, Safe, SagaOK, WellFormed, NoReceipt, Outcome
  <2> QED
    BY <2>1, StepReplacesWhatItRead DEF ReplacesWhatItRead
<1> DEFINE f == [s \in Sagas |-> Quantity[saga[s].request]]
           g == [s \in Sagas |-> Quantity[saga'[s].request]]
           k == [s \in Sagas |-> Cents[saga[s].request]]
           m == [s \in Sagas |-> Cents[saga'[s].request]]
           R == With("reserve", "RESERVED")
           C == With("charge", "CHARGED")
<1>2. \A s \in R : s \in Sagas /\ f[s] = g[s]
  BY <1>1 DEF With, Actions, Outcome
<1>3. \A s \in C : s \in Sagas /\ k[s] = m[s]
  BY <1>1 DEF With, Actions, Outcome
<1>4. IsFiniteSet(R) /\ IsFiniteSet(C)
  BY DEF Accounts
<1>5. SumFunctionOnSet(f, R) = SumFunctionOnSet(g, R) /\ SumFunctionOnSet(k, C) = SumFunctionOnSet(m, C)
  <2> HIDE DEF f, g, k, m, R, C
  <2> QED
    BY <1>2, <1>3, <1>4, SumSame
<1>6. With("reserve", "RESERVED")' = R /\ With("charge", "CHARGED")' = C
  BY DEF With
<1> QED
  BY <1>4, <1>5, <1>6 DEF Accounts, EffectsMatchReceipts

\* A commit books its request once: the receipt it adds, or closes, was not there before.
LEMMA CommitKeepsAccounts ==
  ASSUME Safe, Accounts, NEW s, NEW stage, NEW outcome, CommitsOutcome(s, stage, outcome),
         UNCHANGED saga
  PROVE  Accounts'
<1> DEFINE f == [x \in Sagas |-> Quantity[saga[x].request]]
           k == [x \in Sagas |-> Cents[saga[x].request]]
           R == With("reserve", "RESERVED")
           C == With("charge", "CHARGED")
           q == Quantity[saga[s].request]
           c == Cents[saga[s].request]
<1>1. /\ s \in Sagas /\ stage \in Pending /\ outcome \in Outcome /\ saga[s].request \in Requests
      /\ receipt[s][ActionOf[stage]].outcome = "NONE"
      /\ outcome = "RESERVED" => stage = "RESERVE_PENDING" /\ q <= stock
      /\ outcome = "CHARGED" => stage = "PAYMENT_PENDING"
      /\ outcome = "RELEASED" => stage = "RELEASE_PENDING" /\ receipt[s]["reserve"].outcome = "RESERVED"
      /\ stage = "RESERVE_PENDING" => outcome \in {"RESERVED", "DECLINED"}
      /\ stage = "PAYMENT_PENDING" => outcome \in {"CHARGED", "DECLINED"}
      /\ stage = "RELEASE_PENDING" => outcome \in {"RELEASED", "DECLINED"}
      /\ stock' = IF outcome = "RESERVED" THEN stock - q
                  ELSE IF outcome = "RELEASED" THEN stock + q ELSE stock
      /\ captured' = IF outcome = "CHARGED" THEN captured + c ELSE captured
  BY DEF CommitsOutcome, CommitOutcome, NoReceipt, Pending
<1>2. q \in Nat /\ c \in Nat /\ stock \in Nat /\ captured \in Nat
  BY <1>1, RequestAssumption DEF Safe, TypeOK
<1>3. /\ With("reserve", "RESERVED")' = IF outcome = "RESERVED" THEN R \cup {s}
                                        ELSE IF outcome = "RELEASED" THEN R \ {s} ELSE R
      /\ With("charge", "CHARGED")' = IF outcome = "CHARGED" THEN C \cup {s} ELSE C
      /\ outcome = "RESERVED" => s \notin R
      /\ outcome = "RELEASED" => s \in R
      /\ outcome = "CHARGED" => s \notin C
  BY <1>1, CommittedOutcomes, ActionOfStage DEF With, Pending, Outcome
<1>4. /\ \A x \in R \cup C : x \in Sagas /\ saga[x].request \in Requests
      /\ IsFiniteSet(R) /\ IsFiniteSet(C)
  <2>1. ASSUME NEW x \in R \cup C PROVE x \in Sagas /\ saga[x].request \in Requests
    <3>1. x \in Sagas /\ \E a \in Actions : receipt[x][a].outcome # "NONE"
      BY DEF With, Actions
    <3>2. SagaOK(saga[x], receipt[x])
      BY <3>1 DEF Safe
    <3> QED
      BY <3>1, <3>2 DEF SagaOK, WellFormed, NoReceipt
  <2> QED
    BY <2>1 DEF Accounts
<1>5. /\ \A x \in R \cup {s} : f[x] \in Nat
      /\ \A x \in C \cup {s} : k[x] \in Nat
      /\ f[s] = q /\ k[s] = c
  BY <1>1, <1>4, RequestAssumption
<1>6. /\ stock + SumFunctionOnSet(f, R) = InitialStock
      /\ captured = SumFunctionOnSet(k, C)
  BY DEF Accounts, EffectsMatchReceipts
<1>7. UNCHANGED saga => f' = f /\ k' = k
  OBVIOUS
<1> HIDE DEF f, k, R, C, q, c
<1>8. SumFunctionOnSet(f, R) \in Nat /\ SumFunctionOnSet(k, C) \in Nat
  BY <1>4, <1>5, SumType
<1>9. /\ IsFiniteSet(With("reserve", "RESERVED")')
      /\ IsFiniteSet(With("charge", "CHARGED")')
  BY <1>3, <1>4, FS_AddElement, FS_RemoveElement
<1> DEFINE S == SumFunctionOnSet(f, R)
           M == SumFunctionOnSet(k, C)
<1>12. S \in Nat /\ M \in Nat /\ stock + S = InitialStock /\ captured = M
  BY <1>6, <1>8
<1> HIDE DEF S, M
<1>10. stock' + SumFunctionOnSet(f, With("reserve", "RESERVED")') = InitialStock
  <2>1. CASE outcome = "RESERVED"
    <3>1. SumFunctionOnSet(f, With("reserve", "RESERVED")') = q + S /\ stock' = stock - q
      BY <1>1, <1>3, <1>4, <1>5, <2>1, SumAdd DEF S
    <3>2. (stock - q) + (q + S) = stock + S
      BY <1>2, <1>12
    <3> QED
      BY <1>12, <3>1, <3>2
  <2>2. CASE outcome = "RELEASED"
    <3> DEFINE T == SumFunctionOnSet(f, R \ {s})
    <3>1. S = q + T
      BY <1>3, <1>4, <1>5, <2>2, SumRemove DEF S
    <3>2. T \in Nat
      BY <1>4, <1>5, FS_RemoveElement, SumType
    <3>3. SumFunctionOnSet(f, With("reserve", "RESERVED")') = T /\ stock' = stock + q
      BY <1>1, <1>3, <2>2
    <3> HIDE DEF T
    <3>4. (stock + q) + T = stock + (q + T)
      BY <1>2, <3>2
    <3> QED
      BY <1>12, <3>1, <3>3, <3>4
  <2>3. CASE outcome # "RESERVED" /\ outcome # "RELEASED"
    BY <1>1, <1>3, <1>6, <2>3
  <2> QED
    BY <2>1, <2>2, <2>3
<1>11. captured' = SumFunctionOnSet(k, With("charge", "CHARGED")')
  <2>1. CASE outcome = "CHARGED"
    <3>1. SumFunctionOnSet(k, With("charge", "CHARGED")') = c + M /\ captured' = captured + c
      BY <1>1, <1>3, <1>4, <1>5, <2>1, SumAdd DEF M
    <3> QED
      BY <1>2, <1>12, <3>1
  <2>2. CASE outcome # "CHARGED"
    BY <1>1, <1>3, <1>6, <2>2
  <2> QED
    BY <2>1, <2>2
<1> QED
  BY <1>9, <1>10, <1>11 DEF Accounts, EffectsMatchReceipts, f, k

\* Every step keeps the books: only a commit of a receipt writes them.
LEMMA StepAccounts == Safe /\ Accounts /\ [Next]_vars => Accounts'
<1> SUFFICES ASSUME Safe, Accounts, [Next]_vars PROVE Accounts'
  OBVIOUS
<1>1. CASE UNCHANGED vars
  BY <1>1 DEF vars, Accounts, EffectsMatchReceipts, With
<1>2. CASE Next
  BY <1>2, CommitCases, RowsKeepAccounts, CommitKeepsAccounts
<1> QED
  BY <1>1, <1>2

-----------------------------------------------------------------------------
(* Stages.                                                                 *)

Advances == {<<"ABSENT", "RESERVE_PENDING">>,
             <<"RESERVE_PENDING", "PAYMENT_PENDING">>, <<"RESERVE_PENDING", "REJECTED">>,
             <<"PAYMENT_PENDING", "CONFIRMED">>, <<"PAYMENT_PENDING", "RELEASE_PENDING">>,
             <<"RELEASE_PENDING", "COMPENSATED">>}

LeadsTo(from, to) == to \in {from, "MANUAL_REVIEW"} \/ <<from, to>> \in Advances

\* Where a driver is about to move its saga, the stage it read leads.
GoalsFollow ==
  \A d \in Drivers : drv[d].pc \in {"write", "recover"} =>
    LeadsTo(drv[d].before.state, drv[d].goal.state)

\* Whatever a tick's call returned, it concludes with a state its stage leads to.
LEMMA ConcludedLeads ==
  ASSUME NEW local, local.before.state \in Pending, NEW result
  PROVE  LeadsTo(Concluded(local, result).before.state, Concluded(local, result).goal.state)
<1> DEFINE new == Concluded(local, result)
<1>1. new.before = local.before
  BY DEF Concluded, At
<1>2. CASE result \in Outcome
  <2>1. new.goal.state = Advance(local.before.state, result)
    BY <1>2 DEF Concluded, At
  <2>2. LeadsTo(local.before.state, Advance(local.before.state, result))
    BY <1>2, AdvanceValues DEF LeadsTo, Advances, Pending, Outcome
  <2> QED
    BY <1>1, <2>1, <2>2
<1>3. CASE result \notin Outcome
  <2>1. new.goal.state \in {local.before.state, "MANUAL_REVIEW"}
    BY <1>3 DEF Concluded, At, CountFailure
  <2> QED
    BY <1>1, <2>1 DEF LeadsTo
<1> QED
  BY <1>2, <1>3

\* A driver that has something to write concluded it from its call, or found its stage
\* without evidence; any other step leaves it nothing to write or as it was.
LEMMA LocalCases ==
  ASSUME Safe, Next, NEW d \in Drivers
  PROVE  \/ drv'[d] = drv[d]
         \/ drv'[d].pc \notin {"write", "recover"}
         \/ /\ drv[d].pc # "idle"
            /\ \/ \E result : drv'[d] = Concluded(drv[d], result)
               \/ drv'[d] = At(drv[d], "write", NoGoal)
<1> DEFINE Case ==
      \/ drv'[d] = drv[d]
      \/ drv'[d].pc \notin {"write", "recover"}
      \/ /\ drv[d].pc # "idle"
         /\ \/ \E result : drv'[d] = Concluded(drv[d], result)
            \/ drv'[d] = At(drv[d], "write", NoGoal)
<1>0. drv \in [Drivers -> Local]
  BY DEF Safe, TypeOK
<1>1. ASSUME NEW e \in Drivers, NEW new, drv' = [drv EXCEPT ![e] = new]
      PROVE  drv'[d] = IF d = e THEN new ELSE drv[d]
  BY <1>0, <1>1
<1>2. ASSUME NEW e \in Drivers, NEW result, drv[e].pc # "idle", Conclude(e, result)
      PROVE  Case
  <2>1. drv' = [drv EXCEPT ![e] = Concluded(drv[e], result)]
    BY <1>2 DEF Conclude
  <2> QED
    BY <1>1, <1>2, <2>1
<1>3. ASSUME NEW e \in Drivers, NEW pc \in {"lookup", "execute", "effect", "write"},
             drv[e].pc # "idle", Continue(e, pc)
      PROVE  Case
  <2>1. drv' = [drv EXCEPT ![e] = At(drv[e], pc, NoGoal)]
    BY <1>3 DEF Continue
  <2>2. drv'[d] = IF d = e THEN At(drv[e], pc, NoGoal) ELSE drv[d]
    BY <1>1, <2>1
  <2>3. At(drv[e], pc, NoGoal).pc = pc
    BY DEF At
  <2>4. CASE pc = "write"
    BY <1>3, <2>2, <2>4
  <2>5. CASE pc # "write"
    BY <1>3, <2>2, <2>3, <2>5
  <2> QED
    BY <2>4, <2>5
<1>4. ASSUME NEW e \in Drivers, drv' = [drv EXCEPT ![e] = Idle]
      PROVE  Case
  BY <1>1, <1>4 DEF Idle
<1>5. ASSUME NEW e \in Drivers, NEW s \in Sagas, Tick(e, s)
      PROVE  Case
  <2> DEFINE new == [pc |-> IF saga[s].state \in DOMAIN Evidence THEN "evidence" ELSE "lookup",
                     saga |-> s, before |-> saga[s], goal |-> NoGoal]
  <2>1. drv' = [drv EXCEPT ![e] = new]
    BY <1>5 DEF Tick
  <2>2. new.pc \in {"evidence", "lookup"}
    OBVIOUS
  <2> HIDE DEF new
  <2> QED
    BY <1>1, <2>1, <2>2
<1>6. ASSUME NEW e \in Drivers, CheckEvidence(e)
      PROVE  Case
  BY <1>2, <1>3, <1>6 DEF CheckEvidence
<1>7. ASSUME NEW e \in Drivers, NEW pc, pc # "idle", NEW absent \in {"execute", "effect"},
             FindReceipt(e, pc, absent)
      PROVE  Case
  BY <1>2, <1>3, <1>7 DEF FindReceipt
<1>8. ASSUME NEW e \in Drivers, Execute(e)
      PROVE  Case
  <2>1. drv[e].pc # "idle" /\ \E result : Conclude(e, result)
    BY <1>8 DEF Execute
  <2> QED
    BY <1>2, <2>1
<1>9. ASSUME NEW e \in Drivers, Transition(e) \/ Crash(e)
      PROVE  Case
  BY <1>4, <1>9 DEF Transition, Crash
<1>10. ASSUME NEW e \in Drivers, TransitionFails(e)
       PROVE  Case
  BY <1>2, <1>10 DEF TransitionFails
<1>11. ASSUME UNCHANGED drv
       PROVE  Case
  BY <1>11
<1> HIDE DEF Case
<1>12. ASSUME NEW e \in Drivers, Lookup(e) \/ CheckReceipt(e)
       PROVE  Case
  BY <1>7, <1>12 DEF Lookup, CheckReceipt
<1>13. Case
  BY <1>5, <1>6, <1>8, <1>9, <1>10, <1>11, <1>12 DEF Next, DriverStep, Start, ResumeAfterReview
<1> QED
  BY <1>13 DEF Case

\* Every step leaves every driver with a goal that its stage leads to.
LEMMA StepGoals == Safe /\ GoalsFollow /\ [Next]_vars => GoalsFollow'
<1> SUFFICES ASSUME Safe, GoalsFollow, [Next]_vars, NEW d \in Drivers,
                    drv'[d].pc \in {"write", "recover"}
             PROVE  LeadsTo(drv'[d].before.state, drv'[d].goal.state)
  BY DEF GoalsFollow
<1>1. CASE drv'[d] = drv[d]
  BY <1>1 DEF GoalsFollow
<1>2. ASSUME drv[d].pc # "idle", NEW result, drv'[d] = Concluded(drv[d], result)
      PROVE  LeadsTo(drv'[d].before.state, drv'[d].goal.state)
  <2>1. drv[d].before.state \in Pending
    BY <1>2, InsideTick DEF FollowsRow
  <2> QED
    BY <1>2, <2>1, ConcludedLeads
<1>3. CASE drv'[d] = At(drv[d], "write", NoGoal)
  <2>1. At(drv[d], "write", NoGoal).goal.state = "MANUAL_REVIEW"
    BY DEF At, NoGoal
  <2> QED
    BY <1>3, <2>1 DEF LeadsTo
<1> QED
  BY <1>1, <1>2, <1>3, LocalCases DEF vars

\* The stage of a row, seen through a review that parked it.
Stage(row) == IF row.state = "MANUAL_REVIEW" THEN row.resume ELSE row.state

\* The row a compare-and-set writes is at the stage of the one it replaces, or at the next.
LEMMA MovedRowAdvances ==
  ASSUME NEW row \in Row, row.state \in Pending, NEW goal, LeadsTo(row.state, goal.state)
  PROVE  LET new == Moved(row, row, goal)
         IN  Stage(new) = Stage(row) \/ <<Stage(row), Stage(new)>> \in Advances
<1>1. /\ Moved(row, row, goal).state = goal.state
      /\ Moved(row, row, goal).resume =
           IF goal.state = "MANUAL_REVIEW" THEN row.state ELSE goal.state
  BY DEF Moved, Row
<1> QED
  BY <1>1 DEF Stage, LeadsTo, Pending

\* A step moves a saga to the next stage or keeps it where it is.
LEMMA StepAdvances ==
  ASSUME Safe, GoalsFollow, Next, NEW s \in Sagas
  PROVE  \/ Stage(saga'[s]) = Stage(saga[s])
         \/ <<Stage(saga[s]), Stage(saga'[s])>> \in Advances
<1> DEFINE Case == \/ Stage(saga'[s]) = Stage(saga[s])
                   \/ <<Stage(saga[s]), Stage(saga'[s])>> \in Advances
<1>0. saga \in [Sagas -> Row]
  BY DEF Safe, TypeOK
<1>1. ASSUME UNCHANGED saga PROVE Case
  BY <1>1
<1>2. ASSUME NEW x \in Sagas, NEW r \in Requests, Start(x, r)
      PROVE  Case
  BY <1>0, <1>2 DEF Start, Startable, NoRow, Stage, Advances
<1>3. ASSUME NEW x \in Sagas, ResumeAfterReview(x)
      PROVE  Case
  <2> DEFINE new == [saga[x] EXCEPT !.state = saga[x].resume, !.failures = 0,
                                    !.version = saga[x].version + 1]
  <2>1. saga' = [saga EXCEPT ![x] = new] /\ saga[x].state = "MANUAL_REVIEW"
    BY <1>3, Zenon DEF ResumeAfterReview, ParkedStage
  <2>2. saga[x] \in Row /\ saga[x].resume \in Pending
    BY <1>0, <2>1 DEF Safe, SagaOK, WellFormed
  <2>3. new.state = saga[x].resume
    BY <2>2 DEF Row
  <2> HIDE DEF new
  <2> QED
    BY <1>0, <2>1, <2>2, <2>3 DEF Stage, Pending
<1>4. ASSUME NEW d \in Drivers, drv[d].pc \in {"write", "recover"},
             CompareAndSet(drv[d].saga, drv[d].before, drv[d].goal)
      PROVE  Case
  <2> DEFINE x == drv[d].saga
             new == Moved(saga[x], drv[d].before, drv[d].goal)
  <2>1. x \in Sagas /\ FollowsRow(drv[d], saga[x], receipt[x])
    BY <1>4, InsideTick
  <2>2. CASE saga[x].version # drv[d].before.version
    BY <1>1, <1>4, <2>2 DEF CompareAndSet, Unmoved
  <2>3. CASE saga[x].version = drv[d].before.version
    <3>1. drv[d].before = saga[x] /\ saga[x].state \in Pending /\ saga[x] \in Row
      BY <1>0, <2>1, <2>3 DEF FollowsRow
    <3>2. saga' = [saga EXCEPT ![x] = new]
      BY <1>4, <2>3 DEF CompareAndSet, Unmoved
    <3>3. LeadsTo(saga[x].state, drv[d].goal.state)
      BY <1>4, <3>1 DEF GoalsFollow
    <3>4. Stage(new) = Stage(saga[x]) \/ <<Stage(saga[x]), Stage(new)>> \in Advances
      BY <3>1, <3>3, MovedRowAdvances
    <3> HIDE DEF new
    <3> QED
      BY <1>0, <2>1, <3>2, <3>4
  <2> QED
    BY <2>2, <2>3
<1> HIDE DEF Case
<1>5. ASSUME NEW d \in Drivers, DriverStep(d), ~Transition(d)
      PROVE  UNCHANGED saga
  BY <1>5 DEF DriverStep, Tick, CheckEvidence, Lookup, CheckReceipt, FindReceipt, Execute
<1>6. ASSUME NEW d \in Drivers, Transition(d) \/ TransitionFails(d) \/ Crash(d)
      PROVE  \/ UNCHANGED saga
             \/ /\ drv[d].pc \in {"write", "recover"}
                /\ CompareAndSet(drv[d].saga, drv[d].before, drv[d].goal)
  BY <1>6 DEF Transition, TransitionFails, Crash
<1>7. Case
  BY <1>1, <1>2, <1>3, <1>4, <1>5, <1>6 DEF Next
<1> QED
  BY <1>7 DEF Case

-----------------------------------------------------------------------------
(* The order ledger.                                                       *)

\* An order's entry is written where its row or its receipts are, and only there.
LEMMA EntryStep ==
  ASSUME saga \in [Sagas -> Row], NEW s \in Sagas,
         \A x \in Sagas \ {s} : saga'[x] = saga[x] /\ receipt'[x] = receipt[x]
  PROVE  /\ order' = [order EXCEPT ![s] = order'[s]]
         /\ verdict' = [verdict EXCEPT ![s] = verdict'[s]]
<1>1. ASSUME NEW f, NEW g, f = [x \in Sagas |-> f[x]], g = [x \in Sagas |-> g[x]],
             \A x \in Sagas \ {s} : g[x] = f[x]
      PROVE  g = [f EXCEPT ![s] = g[s]]
  BY <1>1
<1>2. /\ order = [x \in Sagas |-> order[x]] /\ order' = [x \in Sagas |-> order'[x]]
      /\ verdict = [x \in Sagas |-> verdict[x]] /\ verdict' = [x \in Sagas |-> verdict'[x]]
  BY DEF order, verdict
<1>3. \A x \in Sagas \ {s} : order'[x] = order[x] /\ verdict'[x] = verdict[x]
  BY DEF order, verdict
<1> QED
  BY <1>1, <1>2, <1>3

\* A placed order is one that a client starts.
LEMMA StartPlaces ==
  ASSUME Safe, NEW s \in Sagas, NEW r \in Requests, Start(s, r)
  PROVE  Ledger!Place(s, r)
<1>1. /\ saga \in [Sagas -> Row] /\ saga[s] = NoRow /\ WellFormed(saga[s], receipt[s])
      /\ UNCHANGED <<receipt, stock, captured>>
  BY DEF Safe, TypeOK, SagaOK, Start, Startable
<1>2. receipt[s]["reserve"].outcome = "NONE"
  BY <1>1 DEF WellFormed, NoRow, NoReceipt, Actions
<1>3. /\ saga'[s].state = "RESERVE_PENDING" /\ saga'[s].request = r
      /\ \A x \in Sagas \ {s} : saga'[x] = saga[x]
  BY <1>1 DEF Start
<1>4. /\ order[s].status = "new"
      /\ order'[s] = [status |-> "placed", request |-> r]
      /\ verdict'[s] = verdict[s]
  BY <1>1, <1>2, <1>3 DEF order, verdict, StatusOf, NoRow, Final
<1>5. /\ order' = [order EXCEPT ![s] = order'[s]]
      /\ verdict' = [verdict EXCEPT ![s] = verdict'[s]]
  BY <1>1, <1>3, EntryStep
<1>6. verdict' = verdict
  BY <1>4, <1>5 DEF verdict
<1> QED
  BY <1>1, <1>4, <1>5, <1>6 DEF Ledger!Place

\* A row that is replaced reports its verdict, or nothing a client has not been told.
LEMMA RowReports ==
  ASSUME Safe, Safe', Next, NEW s \in Sagas, NEW new \in Row,
         saga[s].state # "ABSENT", new.state # "ABSENT", new.request = saga[s].request,
         saga' = [saga EXCEPT ![s] = new], UNCHANGED <<receipt, stock, captured>>
  PROVE  Ledger!Report(s) \/ UNCHANGED <<order, verdict, stock, captured>>
<1>1. /\ saga \in [Sagas -> Row] /\ saga'[s] = new
      /\ \A x \in Sagas \ {s} : saga'[x] = saga[x]
  BY DEF Safe, TypeOK
<1>2. order' = order
  BY <1>1 DEF order, StatusOf
<1>3. verdict' = [verdict EXCEPT ![s] = verdict'[s]]
  BY <1>1, EntryStep
<1>4. CASE verdict'[s] = verdict[s]
  BY <1>2, <1>3, <1>4 DEF verdict
<1>5. CASE verdict'[s] # verdict[s]
  <2>1. saga[s].state \notin Final /\ new.state \in Final
    BY <1>1, <1>5, StepReplacesWhatItRead DEF ReplacesWhatItRead, verdict
  <2>2. verdict[s] = "open" /\ verdict'[s] = new.state
    BY <1>1, <2>1 DEF verdict
  <2>3. Backed(receipt[s], new.state) /\ PaidXorReleased(receipt[s])
    BY <1>1 DEF Safe, SagaOK
  <2>4. order[s].status = IF new.state = "REJECTED" THEN "refused"
                          ELSE IF new.state = "CONFIRMED" THEN "paid" ELSE "returned"
    BY <2>1, <2>3 DEF order, StatusOf, Backed, PaidXorReleased, Final
  <2>5. /\ order[s].status \in DOMAIN Ledger!VerdictOf
        /\ Ledger!VerdictOf[order[s].status] = new.state
    BY <2>1, <2>4 DEF Ledger!VerdictOf, Final
  <2> QED
    BY <1>2, <1>3, <2>2, <2>5 DEF Ledger!Report
<1> QED
  BY <1>4, <1>5

\* What a participant commits is what the ledger allows at that point, and no more.
LEMMA CommitBooks ==
  ASSUME Safe, NEW s, NEW stage, NEW outcome, CommitsOutcome(s, stage, outcome), UNCHANGED saga
  PROVE  \/ Ledger!Hold(s) \/ Ledger!Refuse(s) \/ Ledger!Pay(s) \/ Ledger!Decline(s)
         \/ Ledger!GiveBack(s) \/ Ledger!Strand(s)
<1> DEFINE r == receipt[s]
           q == Quantity[saga[s].request]
           c == Cents[saga[s].request]
<1>1. /\ s \in Sagas /\ stage \in Pending /\ saga[s].state # "ABSENT"
      /\ Backed(r, stage) /\ PaidXorReleased(r)
      /\ r[ActionOf[stage]].outcome = "NONE"
      /\ saga \in [Sagas -> Row]
  BY DEF CommitsOutcome, Safe, TypeOK, SagaOK, NoReceipt
<1>2. /\ stage = "RESERVE_PENDING" => outcome \in {"RESERVED", "DECLINED"}
      /\ stage = "PAYMENT_PENDING" => outcome \in {"CHARGED", "DECLINED"}
      /\ stage = "RELEASE_PENDING" => outcome \in {"RELEASED", "DECLINED"}
      /\ outcome = "RESERVED" => q <= stock
      /\ stock' = IF outcome = "RESERVED" THEN stock - q
                  ELSE IF outcome = "RELEASED" THEN stock + q ELSE stock
      /\ captured' = IF outcome = "CHARGED" THEN captured + c ELSE captured
  BY DEF CommitsOutcome, CommitOutcome
<1>3. /\ \A x \in Sagas \ {s} : receipt'[x] = receipt[x]
      /\ receipt'[s]["reserve"].outcome =
           IF stage = "RESERVE_PENDING" THEN outcome
           ELSE IF outcome = "RELEASED" THEN "RELEASED" ELSE r["reserve"].outcome
      /\ receipt'[s]["charge"].outcome =
           IF stage = "PAYMENT_PENDING" THEN outcome ELSE r["charge"].outcome
      /\ receipt'[s]["release"].outcome =
           IF stage = "RELEASE_PENDING" THEN outcome ELSE r["release"].outcome
  BY CommittedOutcomes
<1>4. verdict' = verdict
  BY DEF verdict
<1>5. ASSUME NEW from, NEW to, order[s].status = from, order'[s].status = to
      PROVE  Ledger!Becomes(s, from, to) /\ order[s].request = saga[s].request
  <2>1. order' = [order EXCEPT ![s] = order'[s]]
    BY <1>1, <1>3, EntryStep
  <2>2. /\ order[s] = [status |-> from, request |-> saga[s].request]
        /\ order'[s] = [status |-> to, request |-> saga[s].request]
    BY <1>1, <1>5 DEF order
  <2>3. order'[s] = [order[s] EXCEPT !.status = to]
    BY <2>2
  <2> QED
    BY <1>4, <1>5, <2>1, <2>2, <2>3 DEF Ledger!Becomes
<1>6. CASE stage = "RESERVE_PENDING"
  <2>1. order[s].status = "placed" /\ order'[s].status = IF outcome = "RESERVED" THEN "held" ELSE "refused"
    BY <1>1, <1>2, <1>3, <1>6, ActionOfStage DEF order, StatusOf, PaidXorReleased
  <2> QED
    BY <1>2, <1>5, <1>6, <2>1 DEF Ledger!Hold, Ledger!Refuse
<1>7. CASE stage = "PAYMENT_PENDING"
  <2>1. order[s].status = "held" /\ order'[s].status = IF outcome = "CHARGED" THEN "paid" ELSE "unpaid"
    BY <1>1, <1>2, <1>3, <1>7, ActionOfStage DEF order, StatusOf, PaidXorReleased, Backed
  <2> QED
    BY <1>2, <1>5, <1>7, <2>1 DEF Ledger!Pay, Ledger!Decline
<1>8. CASE stage = "RELEASE_PENDING"
  <2>1. order[s].status = "unpaid" /\ order'[s].status = IF outcome = "RELEASED" THEN "returned" ELSE "stranded"
    BY <1>1, <1>2, <1>3, <1>8, ActionOfStage DEF order, StatusOf, PaidXorReleased, Backed
  <2> QED
    BY <1>2, <1>5, <1>8, <2>1 DEF Ledger!GiveBack, Ledger!Strand
<1> QED
  BY <1>1, <1>6, <1>7, <1>8 DEF Pending

\* An empty saga table is an empty ledger.
LEMMA InitLedger == Init => Ledger!Init
BY DEF Init, Ledger!Init, order, verdict, StatusOf, NoRow, Final

\* Every step of the saga is one step of the ledger or none.
LEMMA StepLedger == Safe /\ [Next]_vars => [Ledger!Next]_(Ledger!vars)
<1> SUFFICES ASSUME Safe, [Next]_vars
             PROVE  Ledger!Next \/ UNCHANGED <<order, verdict, stock, captured>>
  BY DEF Ledger!vars
<1>1. CASE UNCHANGED vars
  BY <1>1 DEF vars, order, verdict
<1>2. CASE Next
  <2>0. Safe'
    BY StepSafe
  <2>1. CASE UNCHANGED <<saga, receipt, stock, captured>>
    BY <2>1 DEF order, verdict
  <2>2. ASSUME NEW s \in Sagas, NEW r \in Requests, Start(s, r)
        PROVE  Ledger!Next
    BY <2>2, StartPlaces DEF Ledger!Next
  <2>3. ASSUME NEW s \in Sagas, NEW new \in Row,
               saga[s].state # "ABSENT", new.state # "ABSENT", new.request = saga[s].request,
               saga' = [saga EXCEPT ![s] = new], UNCHANGED <<receipt, stock, captured>>
        PROVE  Ledger!Next \/ UNCHANGED <<order, verdict, stock, captured>>
    BY <1>2, <2>0, <2>3, RowReports DEF Ledger!Next
  <2>4. ASSUME NEW s \in Sagas, NEW stage \in Pending, NEW outcome \in Outcome,
               CommitsOutcome(s, stage, outcome), UNCHANGED saga
        PROVE  Ledger!Next
    BY <2>4, CommitBooks DEF Ledger!Next
  <2> QED
    BY <1>2, <2>1, <2>2, <2>3, <2>4, RowCases, CommitCases
<1> QED
  BY <1>1, <1>2

-----------------------------------------------------------------------------
(* Theorems.                                                               *)

\* The invariant that ties rows, receipts and the snapshots of drivers together holds
\* for any number of sagas, drivers, crashes, retries and reviews.
THEOREM SpecSafe == Spec => []IInv
<1>1. Spec => []Safe
  BY InitEstablishes, StepSafe, PTL DEF Spec
<1> QED
  BY <1>1, SafeIsIInv, PTL

\* Every variable keeps its type: among them, stock never goes negative and a stage
\* never counts more than three failures.
THEOREM TypeCorrect == Spec => []TypeOK
<1>1. IInv => TypeOK
  BY DEF IInv
<1> QED
  BY <1>1, SpecSafe, PTL

\* No order is both paid for and given back, whatever stale drivers do.
THEOREM NeverBoth == Spec => []NeverPaidAndReleased
<1>1. IInv => NeverPaidAndReleased
  BY DEF IInv
<1> QED
  BY <1>1, SpecSafe, PTL

\* Every stage and every verdict is backed by the participants' receipts.
THEOREM VerdictsBacked == Spec => []StateBackedByReceipts
<1>1. IInv => StateBackedByReceipts
  BY DEF IInv
<1> QED
  BY <1>1, SpecSafe, PTL

\* A participant only ever acts on the request stored for the saga.
THEOREM OneRequestPerSaga == Spec => []ReceiptsBoundToStoredRequest
<1>1. IInv => ReceiptsBoundToStoredRequest
  BY DEF IInv
<1> QED
  BY <1>1, SpecSafe, PTL

\* No stale driver ever overwrites a newer transition, and no verdict is replaced.
THEOREM StaleDriversLose == Spec => NoLostTransition
<1>1. Safe /\ [Next]_vars => [\A s \in Sagas : ReplacesWhatItRead(s)]_vars
  BY StepReplacesWhatItRead
<1>2. Spec => []Safe
  BY InitEstablishes, StepSafe, PTL DEF Spec
<1> QED
  BY <1>1, <1>2, PTL DEF Spec, NoLostTransition

\* Every unit of stock and every cent is accounted for by exactly one receipt.
THEOREM EffectsOnce == Spec => []EffectsMatchReceipts
<1>1. Spec => []Safe
  BY InitEstablishes, StepSafe, PTL DEF Spec
<1>2. Accounts => EffectsMatchReceipts
  BY DEF Accounts
<1> QED
  BY <1>1, <1>2, InitAccounts, StepAccounts, PTL DEF Spec

\* A stage is left only for its successor or, through a review, for itself.
THEOREM StagesAdvance == Spec => StageOnlyAdvances
<1>1. Spec => []Safe
  BY InitEstablishes, StepSafe, PTL DEF Spec
<1>2. Init => GoalsFollow
  BY DEF Init, Idle, GoalsFollow
<1>3. Spec => []GoalsFollow
  BY <1>1, <1>2, StepGoals, PTL DEF Spec
<1> DEFINE Advance1 == \A s \in Sagas :
      LET from == IF saga[s].state = "MANUAL_REVIEW" THEN saga[s].resume ELSE saga[s].state
          to   == IF saga'[s].state = "MANUAL_REVIEW" THEN saga'[s].resume ELSE saga'[s].state
      IN  \/ to = from
          \/ <<from, to>> \in {<<"ABSENT", "RESERVE_PENDING">>,
                <<"RESERVE_PENDING", "PAYMENT_PENDING">>, <<"RESERVE_PENDING", "REJECTED">>,
                <<"PAYMENT_PENDING", "CONFIRMED">>, <<"PAYMENT_PENDING", "RELEASE_PENDING">>,
                <<"RELEASE_PENDING", "COMPENSATED">>}
<1>4. Safe /\ GoalsFollow /\ [Next]_vars => [Advance1]_vars
  BY StepAdvances DEF Stage, Advances
<1> QED
  BY <1>1, <1>3, <1>4, PTL DEF Spec, StageOnlyAdvances

\* The coordinator, its participants and all their failures implement the order ledger.
THEOREM LedgerImplemented == Spec => ImplementsLedger
<1>1. Spec => []Safe
  BY InitEstablishes, StepSafe, PTL DEF Spec
<1> QED
  BY <1>1, InitLedger, StepLedger, PTL DEF Spec, ImplementsLedger, Ledger!Spec

=============================================================================
