---------------------------- MODULE CoalescedLoads ----------------------------
(***************************************************************************)
(* examples/backend-data-services: CoalescedLoads, which lets callers that *)
(* ask for one key at a time share one load of it, within limits on the    *)
(* loads and on the callers.                                               *)
(*                                                                         *)
(* A caller takes a permit, joins or starts a flight under the lock, waits *)
(* for its result at most until the flight's budget is spent, and returns  *)
(* the permit.  A flight is named by the caller that started it; a worker  *)
(* runs it, publishes its result and takes it off the table.  What the     *)
(* work of a flight does is its owner's affair (see CacheAsideTickets):    *)
(* here it ends with any answer, with a failure, or never.                 *)
(*                                                                         *)
(* Exceptions are told from answers but not from one another, and the      *)
(* clock is reduced to whether a flight's budget is spent.  Counters are   *)
(* left out, and so is the five-second wait for the workers at the end of  *)
(* close, which changes nothing but the exception that close may throw.    *)
(***************************************************************************)
EXTENDS Integers, FiniteSets

CONSTANTS
  Calls,         \* calls of load, each made once
  Keys, Answers, \* what is asked for, and what work may answer
  FlightLimit, CallerLimit,
  None, Failed

ASSUME LoadsAssumption ==
  /\ FlightLimit \in 1..8 /\ CallerLimit \in FlightLimit..64
  /\ None \notin Calls \cup Keys \cup Answers \cup {Failed}
  /\ Failed \notin Answers

VARIABLES
  permits,    \* left in the callers' semaphore
  closed,
  table,      \* the flights that can be joined, by leader
  flight,     \* leader -> its flight
  wait        \* call -> where it is inside load

vars == <<permits, closed, table, flight, wait>>

NewFlight == [stage |-> "none", key |-> None, expired |-> FALSE, found |-> None, result |-> None]
NewWait   == [stage |-> "idle", key |-> None, on |-> None, outcome |-> None]

Init ==
  /\ permits = CallerLimit /\ closed = FALSE
  /\ table = {}
  /\ flight = [f \in Calls |-> NewFlight]
  /\ wait = [c \in Calls |-> NewWait]

\* The stages in which a flight is being executed, and those in which it has its worker:
\* a worker that is done is not at once ready for the next flight.
Executing == {"begin", "work", "publish", "remove"}
Busy      == {f \in Calls : flight[f].stage \in Executing \cup {"exit"}}

Running(k) == {f \in Calls : flight[f].stage \in Executing /\ flight[f].key = k}

\* Budget.check, on the flight's worker, which close interrupts.
WithinBudget(f) == ~flight[f].expired /\ ~closed

\* A future that is completed once stays as it is.
Completed(f, r) == IF flight[f].result = None THEN r ELSE flight[f].result

-----------------------------------------------------------------------------
(* A caller.                                                               *)

\* A caller without a permit has its exception at once.
Acquire(c, k) ==
  /\ wait[c].stage = "idle"
  /\ IF permits = 0
     THEN /\ wait' = [wait EXCEPT ![c].stage = "done"]
          /\ UNCHANGED permits
     ELSE /\ wait' = [wait EXCEPT ![c].stage = "lock", ![c].key = k]
          /\ permits' = permits - 1
  /\ UNCHANGED <<closed, table, flight>>

Leaves(c, r) == wait' = [wait EXCEPT ![c] = [NewWait EXCEPT !.stage = "leave", !.outcome = r]]
Awaits(c, f) == wait' = [wait EXCEPT ![c] = [NewWait EXCEPT !.stage = "await", !.on = f]]

Flying(k) == {f \in table : flight[f].key = k}

\* The block under the lock, for a caller that is turned away: after close, with the
\* table full, or with no worker ready.
TurnedAway(c) ==
  /\ wait[c].stage = "lock"
  /\ \/ closed
     \/ /\ Flying(wait[c].key) = {}
        /\ Cardinality(table) >= FlightLimit \/ Cardinality(Busy) >= FlightLimit
  /\ Leaves(c, Failed)
  /\ UNCHANGED <<permits, closed, table, flight>>

Join(c) ==
  /\ wait[c].stage = "lock"
  /\ ~closed
  /\ \E f \in Flying(wait[c].key) : Awaits(c, f)
  /\ UNCHANGED <<permits, closed, table, flight>>

Start(c) ==
  /\ wait[c].stage = "lock"
  /\ ~closed /\ Flying(wait[c].key) = {}
  /\ Cardinality(table) < FlightLimit /\ Cardinality(Busy) < FlightLimit
  /\ table' = table \cup {c}
  /\ flight' = [flight EXCEPT ![c].stage = "begin", ![c].key = wait[c].key]
  /\ Awaits(c, c)
  /\ UNCHANGED <<permits, closed>>

Take(c) ==
  /\ wait[c].stage = "await"
  /\ flight[wait[c].on].result # None
  /\ Leaves(c, flight[wait[c].on].result)
  /\ UNCHANGED <<permits, closed, table, flight>>

\* Slips: the flight is forgotten with its deadline, and a wait without a deadline.
DeadlineForgets(c) ==
  /\ wait[c].stage = "await" /\ flight[wait[c].on].expired
  /\ table' = table \ {wait[c].on}
  /\ Leaves(c, Failed)
  /\ UNCHANGED <<permits, closed, flight>>
DeadlineIgnored(c) == FALSE /\ UNCHANGED vars

Deadline(c) ==
  /\ wait[c].stage = "await"
  /\ flight[wait[c].on].expired
  /\ Leaves(c, Failed)
  /\ UNCHANGED <<permits, closed, table, flight>>

Interrupted(c) ==
  /\ wait[c].stage = "await"
  /\ Leaves(c, Failed)
  /\ UNCHANGED <<permits, closed, table, flight>>

Return(c) ==
  /\ wait[c].stage = "leave"
  /\ wait' = [wait EXCEPT ![c] = [NewWait EXCEPT !.stage = "done"]]
  /\ permits' = permits + 1
  /\ UNCHANGED <<closed, table, flight>>

-----------------------------------------------------------------------------
(* The worker of a flight.                                                 *)

Ends(f, r) ==
  flight' = [flight EXCEPT ![f].stage = "remove", ![f].found = None,
                           ![f].result = Completed(f, r)]

Begin(f) ==
  /\ flight[f].stage = "begin"
  /\ IF WithinBudget(f) THEN flight' = [flight EXCEPT ![f].stage = "work"] ELSE Ends(f, Failed)
  /\ UNCHANGED <<permits, closed, table, wait>>

WorkReturns(f, a) ==
  /\ flight[f].stage = "work"
  /\ flight' = [flight EXCEPT ![f].stage = "publish", ![f].found = a]
  /\ UNCHANGED <<permits, closed, table, wait>>

WorkFails(f) ==
  /\ flight[f].stage = "work"
  /\ Ends(f, Failed)
  /\ UNCHANGED <<permits, closed, table, wait>>

Publish(f) ==
  /\ flight[f].stage = "publish"
  /\ Ends(f, IF WithinBudget(f) THEN flight[f].found ELSE Failed)
  /\ UNCHANGED <<permits, closed, table, wait>>

Remove(f) ==
  /\ flight[f].stage = "remove"
  /\ table' = table \ {f}
  /\ flight' = [flight EXCEPT ![f].stage = "exit", ![f].key = None]
  /\ UNCHANGED <<permits, closed, wait>>

\* The worker is back at the pool's queue.
Exit(f) ==
  /\ flight[f].stage = "exit"
  /\ flight' = [flight EXCEPT ![f].stage = "over"]
  /\ UNCHANGED <<permits, closed, table, wait>>

-----------------------------------------------------------------------------
(* The clock and the thread that closes.                                   *)

Expire(f) ==
  /\ ~flight[f].expired
  /\ flight[f].stage \in Executing \/ \E c \in Calls : wait[c].on = f
  /\ flight' = [flight EXCEPT ![f].expired = TRUE]
  /\ UNCHANGED <<permits, closed, table, wait>>

Close ==
  /\ ~closed /\ closed' = TRUE
  /\ flight' = [f \in Calls |-> IF f \in table
                  THEN [flight[f] EXCEPT !.result = Completed(f, Failed)]
                  ELSE flight[f]]
  /\ UNCHANGED <<permits, table, wait>>

-----------------------------------------------------------------------------

CallerStep(c) == TurnedAway(c) \/ Join(c) \/ Start(c) \/ Take(c) \/ Deadline(c) \/ Return(c)
WorkerStep(f) == Begin(f) \/ Publish(f) \/ Remove(f) \/ Exit(f)
WorkEnds(f)   == WorkFails(f) \/ \E a \in Answers : WorkReturns(f, a)

Next ==
  \/ \E c \in Calls : \/ CallerStep(c) \/ WorkerStep(c) \/ WorkEnds(c)
                      \/ Interrupted(c) \/ Expire(c)
                      \/ \E k \in Keys : Acquire(c, k)
  \/ Close

Spec == Init /\ [][Next]_vars

\* Threads run on and budgets run out; work that is stuck may stay so, and nobody has to
\* call, interrupt or close.
Fairness ==
  \A c \in Calls : WF_vars(CallerStep(c)) /\ WF_vars(WorkerStep(c)) /\ WF_vars(Expire(c))
FairSpec == Spec /\ Fairness

-----------------------------------------------------------------------------
(* Properties.                                                             *)

Flight == [stage : Executing \cup {"none", "exit", "over"}, key : Keys \cup {None},
           expired : BOOLEAN, found : Answers \cup {None}, result : Answers \cup {None, Failed}]
Wait   == [stage : {"idle", "lock", "await", "leave", "done"}, key : Keys \cup {None},
           on : Calls \cup {None}, outcome : Answers \cup {None, Failed}]

TypeOK ==
  /\ permits \in 0..CallerLimit /\ closed \in BOOLEAN
  /\ table \subseteq Calls
  /\ flight \in [Calls -> Flight]
  /\ wait \in [Calls -> Wait]

\* Callers that gave up leave the load they waited for at work: it keeps its place until
\* it ends, so that there is one load of a key at a time and never more loads, or more
\* callers, than the limits allow.
LoadsAreBounded ==
  /\ TypeOK
  /\ permits + Cardinality({c \in Calls : wait[c].stage \in {"lock", "await", "leave"}})
       = CallerLimit
  /\ table = {f \in Calls : flight[f].stage \in Executing}
  /\ Cardinality(table) <= Cardinality(Busy)
  /\ Cardinality(Busy) <= FlightLimit
  /\ \A k \in Keys : Cardinality(Running(k)) <= 1

\* Whoever waits for a flight without a result waits for one that is going to have one: it
\* is on the table, a worker has still to answer it, and close has not passed it by.
NobodyWaitsInVain == \A c \in Calls :
  wait[c].stage = "await" /\ flight[wait[c].on].result = None =>
    /\ wait[c].on \in table
    /\ flight[wait[c].on].stage \in {"begin", "work", "publish"}
    /\ ~closed

\* Both, whatever becomes of callers and work: no load too many, and none waited for in vain.
FlightsAreSound == LoadsAreBounded /\ NobodyWaitsInVain

\* A caller returns whatever becomes of the work it waits for.
CallersReturn == \A c \in Calls : wait[c].stage = "await" ~> wait[c].stage = "done"

\* A flight leaves the table unless its own work is stuck.
CapacityReturns == \A f \in Calls :
  f \in table /\ flight[f].stage # "work" ~> f \notin table \/ flight[f].stage = "work"

\* What was begun, by a caller or for it, comes to its end.
LoadsEnd == CallersReturn /\ CapacityReturns
=============================================================================
