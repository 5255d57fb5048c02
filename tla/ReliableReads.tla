---------------------------- MODULE ReliableReads ----------------------------
(***************************************************************************)
(* examples/backend-reliability: ReliableReads, which runs bounded reads   *)
(* of a dependency behind an admission semaphore, a bounded pool, a        *)
(* deadline, a retry loop and a CircuitGate, and lets a client cancel a    *)
(* read and an owner close the whole at any moment.                        *)
(*                                                                         *)
(* A call is handled by up to four threads: the one that executes it, the  *)
(* pool thread that runs its task, the one that cancels its future (and    *)
(* runs the whenComplete callback), and the one that closes the client     *)
(* (and runs the tasks it drained from the queue).  Events and counters    *)
(* are left out, and a future says only that it was answered, not with     *)
(* what; a call refused for want of a permit leaves no trace.  A thread's  *)
(* locals are forgotten once nothing reads them again.                     *)
(***************************************************************************)
EXTENDS Integers, Sequences, FiniteSets, TLC

CONSTANTS
  Calls,
  Capacity,         \* of the semaphore, of the pool and of its queue
  MaxAttempts,      \* of the retry policy
  AttemptTimeout,   \* ticks
  Budget,           \* ticks from execute to the deadline
  MaxDelay,         \* longest delay before a retry, in ticks
  Threshold, Cooldown, NoPermit,
  MaxClock          \* bound: no call is executed that could outlive this tick

ASSUME ReadsAssumption ==
  /\ Capacity \in 1..8 /\ MaxAttempts \in 1..3
  /\ AttemptTimeout \in Nat \ {0} /\ Budget \in Nat \ {0} /\ MaxDelay \in Nat
  /\ Threshold \in Nat \ {0} /\ Cooldown \in Nat \ {0}
  /\ NoPermit \notin [generation : Nat, probe : BOOLEAN]
  /\ MaxClock \in Nat /\ IsFiniteSet(Calls)

\* How a task ends.  GOOD: a 2xx, or a status that is no failure of the dependency.  BAD: a
\* failure that is not retried (a 500, an oversized body, a broken configuration).
Reason  == {"GOOD", "BAD", "RETRY_EXHAUSTED", "DEADLINE", "CIRCUIT_OPEN", "CANCELLED", "CLOSED"}

\* The stages of a task.  A skipped task was cancelled in the queue, where it stays until
\* a worker takes it.
Working == {"attempt", "await", "pause", "complete", "tell", "release"}
Stage   == {"new", "submit", "queued", "skipped", "begun", "enter", "publish", "done"} \cup Working

VARIABLES
  gate, now,
  phase,      \* of the client: "open", "closing" (closed is set) or "shut"
  admission,  \* permits left in the semaphore
  queue,      \* tasks in the pool's queue
  drained,    \* tasks that shutdownNow took from it
  call        \* call -> its future, its task and the locals of the thread that runs it

vars == <<gate, now, phase, admission, queue, drained, call>>

held == [c \in Calls |-> call[c].permit]
Gate == INSTANCE CircuitGate WITH
  circuit <- gate, permits <- held, ticker <- now, Refused <- NoPermit,
  FailureThreshold <- Threshold, CooldownTicks <- Cooldown,
  Callers <- Calls, MaxGeneration <- 2 * Cardinality(Calls) + 1, MaxTicker <- MaxClock

NewCall == [stage |-> "new", runner |-> "none", result |-> "none", slot |-> FALSE,
            started |-> FALSE, interrupted |-> FALSE, canceller |-> "none",
            permit |-> NoPermit, attempts |-> 0, outcome |-> "none", cancelled |-> FALSE,
            deadline |-> 0, until |-> 0]

Init ==
  /\ gate = Gate!NewGate /\ now = 0
  /\ phase = "open"
  /\ admission = Capacity
  /\ queue = <<>> /\ drained = <<>>
  /\ call = [c \in Calls |-> NewCall]

Idle(s)    == s \in {"new", "submit", "queued", "skipped", "done"}
RunBy(w)   == {c \in Calls : ~Idle(call[c].stage) /\ call[c].runner = w}

\* releaseSlot, which releases once per call.
Returned(c) == IF call[c].slot THEN admission + 1 ELSE admission

Goes(c, stage)     == call' = [call EXCEPT ![c].stage = stage]
Concludes(c, why)  == call' = [call EXCEPT ![c].stage = "complete", ![c].outcome = why,
                                           ![c].deadline = 0, ![c].until = 0]

-----------------------------------------------------------------------------
(* The thread that executes a call.                                        *)

Execute(c) ==
  /\ call[c].stage = "new"
  /\ phase = "open"
  /\ admission > 0
  /\ now + Budget <= MaxClock
  /\ admission' = admission - 1
  /\ call' = [call EXCEPT ![c].stage = "submit", ![c].slot = TRUE,
                          ![c].deadline = now + Budget]
  /\ UNCHANGED <<gate, now, phase, queue, drained>>

\* workers.execute accepts while a worker or a place in the queue is free.
Submit(c) ==
  /\ call[c].stage = "submit"
  /\ phase # "shut"
  /\ Len(queue) + Cardinality(RunBy("pool")) < 2 * Capacity
  /\ queue' = Append(queue, c)
  /\ call' = [call EXCEPT ![c].stage = "queued", ![c].result = "open"]
  /\ UNCHANGED <<gate, now, phase, admission, drained>>

\* It rejects when the queue is full, a worker about to take from it or not, and after
\* shutdown.
Reject(c) ==
  /\ call[c].stage = "submit"
  /\ phase = "shut" \/ Len(queue) >= Capacity
  /\ admission' = Returned(c)
  /\ call' = [call EXCEPT ![c].stage = "done", ![c].slot = FALSE,
                          ![c].deadline = 0, ![c].result = "answered"]
  /\ UNCHANGED <<gate, now, phase, queue, drained>>

-----------------------------------------------------------------------------
(* The thread that cancels a call's future.                                *)

Cancel(c) ==
  /\ call[c].result = "open"
  /\ call' = [call EXCEPT ![c].result = "cancelled", ![c].canceller = "interrupt"]
  /\ UNCHANGED <<gate, now, phase, admission, queue, drained>>

\* work.cancel(true): a task that has not begun never will; a running one is interrupted.
CancelWork(c) ==
  /\ call[c].canceller = "interrupt"
  /\ call' = [call EXCEPT ![c].canceller = "release",
                ![c].stage = IF @ = "queued" THEN "skipped" ELSE @,
                ![c].interrupted = @ \/ ~Idle(call[c].stage)]
  /\ UNCHANGED <<gate, now, phase, admission, queue, drained>>

AlwaysReleases(c) == TRUE       \* slip: the canceller does not look at started
ReleasedByCanceller(c) == ~call[c].started

CancelRelease(c) ==
  /\ call[c].canceller = "release"
  /\ IF ReleasedByCanceller(c)
     THEN /\ admission' = Returned(c)
          /\ call' = [call EXCEPT ![c].canceller = "none", ![c].slot = FALSE]
     ELSE /\ UNCHANGED admission
          /\ call' = [call EXCEPT ![c].canceller = "none"]
  /\ UNCHANGED <<gate, now, phase, queue, drained>>

-----------------------------------------------------------------------------
(* The thread that runs a call's task.                                     *)

Taken(c, runner) ==
  call' = IF call[c].stage = "skipped"
          THEN [call EXCEPT ![c].stage = "done", ![c].deadline = 0]
          ELSE [call EXCEPT ![c].stage = "begun", ![c].runner = runner]

Begin(c) ==
  /\ queue # <<>> /\ c = Head(queue)
  /\ Cardinality(RunBy("pool")) < Capacity
  /\ queue' = Tail(queue)
  /\ Taken(c, "pool")
  /\ UNCHANGED <<gate, now, phase, admission, drained>>

\* The task's first block, under startLock.
Start(c) ==
  /\ call[c].stage = "begun"
  /\ IF call[c].result = "cancelled"
     THEN /\ admission' = Returned(c)
          /\ call' = [call EXCEPT ![c].stage = "done", ![c].slot = FALSE, ![c].deadline = 0,
                                  ![c].interrupted = FALSE, ![c].runner = "none"]
     ELSE /\ UNCHANGED admission
          /\ call' = [call EXCEPT ![c].stage = "enter", ![c].started = TRUE]
  /\ UNCHANGED <<gate, now, phase, queue, drained>>

\* The closing thread may carry an interrupt from a task that it ran before this one.
Enter(c) ==
  /\ call[c].stage = "enter"
  /\ LET stops  == call[c].interrupted \/ call[c].result = "cancelled"
         permit == Gate!PermitFor(gate, now)
     IN  \/ /\ stops \/ call[c].runner = "closer"
            /\ Concludes(c, "CANCELLED")
            /\ UNCHANGED gate
         \/ /\ ~stops /\ phase # "open"
            /\ Concludes(c, "CLOSED")
            /\ UNCHANGED gate
         \/ /\ ~stops /\ phase = "open" /\ permit = NoPermit
            /\ Concludes(c, "CIRCUIT_OPEN")
            /\ UNCHANGED gate
         \/ /\ ~stops /\ phase = "open" /\ permit # NoPermit
            /\ call' = [call EXCEPT ![c].stage = "attempt", ![c].permit = permit]
            /\ gate' = Gate!Entered(gate, now)
  /\ UNCHANGED <<now, phase, admission, queue, drained>>

Earlier(a, b) == IF a < b THEN a ELSE b

ProbesRetry(c) == MaxAttempts      \* slip: a probe is retried like any call
Limit(c) == IF call[c].permit.probe THEN 1 ELSE MaxAttempts

\* The head of the retry loop.
Attempt(c) ==
  /\ call[c].stage = "attempt"
  /\ \/ /\ call[c].interrupted
        /\ Concludes(c, "CANCELLED")
     \/ /\ ~call[c].interrupted /\ now >= call[c].deadline
        /\ Concludes(c, "DEADLINE")
     \/ /\ ~call[c].interrupted /\ now < call[c].deadline
        /\ call' = [call EXCEPT ![c].stage = "await", ![c].attempts = @ + 1,
                      ![c].until = Earlier(now + AttemptTimeout, call[c].deadline)]
  /\ UNCHANGED <<gate, now, phase, admission, queue, drained>>

Fits(c, delay) == delay < call[c].deadline - now

\* What follows an attempt that may be retried.
RetryOrStop(c) ==
  IF call[c].attempts >= Limit(c) THEN Concludes(c, "RETRY_EXHAUSTED")
  ELSE \E delay \in 0..MaxDelay :
         IF Fits(c, delay)
         THEN call' = [call EXCEPT ![c].stage = IF delay = 0 THEN "attempt" ELSE "pause",
                                   ![c].until = now + delay]
         ELSE Concludes(c, "DEADLINE")

\* pending.get: a response, a failed exchange, an attempt that took too long (or could not
\* connect in time), or the interrupt.
Answer(c) ==
  /\ call[c].stage = "await"
  /\ \/ \E response \in {"GOOD", "BAD", "RETRYABLE"} :
          IF now >= call[c].deadline THEN Concludes(c, "DEADLINE")
          ELSE IF response = "RETRYABLE" THEN RetryOrStop(c)
          ELSE Concludes(c, response)
     \/ Concludes(c, "BAD")
     \/ RetryOrStop(c)
     \/ IF now >= call[c].deadline \/ call[c].until = call[c].deadline
        THEN Concludes(c, "DEADLINE")
        ELSE RetryOrStop(c)
     \/ /\ call[c].interrupted
        /\ Concludes(c, "CANCELLED")
  /\ UNCHANGED <<gate, now, phase, admission, queue, drained>>

Resume(c) ==
  /\ call[c].stage = "pause"
  /\ \/ call[c].interrupted /\ Concludes(c, "CANCELLED")
     \/ ~call[c].interrupted /\ now >= call[c].until /\ Goes(c, "attempt")
  /\ UNCHANGED <<gate, now, phase, admission, queue, drained>>

\* A call that was cancelled, or never reached the dependency, is no verdict on it.
OnlyIfInterrupted(c) == call[c].interrupted \/ call[c].attempts = 0   \* slip: isCancelled is not asked
NoVerdict(c) == \/ call[c].result = "cancelled" \/ call[c].interrupted
                \/ call[c].attempts = 0

Settles(c) == call[c].permit # NoPermit

\* The task's finally block: whoever has a permit looks whether it was cancelled, and then
\* tells the gate, which may be too late for a cancellation in between.
Decide(c) ==
  /\ call[c].stage = "complete" /\ Settles(c)
  /\ call' = [call EXCEPT ![c].stage = "tell", ![c].cancelled = NoVerdict(c)]
  /\ UNCHANGED <<gate, now, phase, admission, queue, drained>>

\* Slip: the gate is not told of a call that is no verdict.
ToldOfVerdicts(c) == IF call[c].cancelled THEN gate
  ELSE Gate!Completed(gate, call[c].permit, call[c].outcome # "GOOD", FALSE, now)
GateAfter(c) ==
  Gate!Completed(gate, call[c].permit, call[c].outcome # "GOOD", call[c].cancelled, now)

\* The gate hears of the outcome; then the slot is returned and the future completed.
Complete(c) ==
  /\ call[c].stage = IF Settles(c) THEN "tell" ELSE "complete"
  /\ gate' = IF Settles(c) THEN GateAfter(c) ELSE gate
  /\ call' = [call EXCEPT ![c].stage = "release", ![c].attempts = 0, ![c].cancelled = FALSE,
                          ![c].permit = IF Settles(c) THEN NoPermit ELSE @,
                          ![c].outcome = "none"]
  /\ UNCHANGED <<now, phase, admission, queue, drained>>

Release(c) ==
  /\ call[c].stage = "release"
  /\ admission' = Returned(c)
  /\ call' = [call EXCEPT ![c].stage = "publish", ![c].slot = FALSE]
  /\ UNCHANGED <<gate, now, phase, queue, drained>>

Publish(c) ==
  /\ call[c].stage = "publish"
  /\ call' = [call EXCEPT ![c].stage = "done", ![c].interrupted = FALSE, ![c].runner = "none",
                          ![c].result = IF @ = "open" THEN "answered" ELSE @]
  /\ UNCHANGED <<gate, now, phase, admission, queue, drained>>

-----------------------------------------------------------------------------
(* The thread that closes the client, and the clock.                       *)

SetClosed ==
  /\ phase = "open"
  /\ phase' = "closing"
  /\ UNCHANGED <<gate, now, admission, queue, drained, call>>

LeftBehind == <<>>                   \* slip: what shutdownNow returns is ignored
HandedOver == queue

\* shutdownNow: every worker is interrupted and the queue is handed over.
Shutdown ==
  /\ phase = "closing"
  /\ phase' = "shut"
  /\ drained' = HandedOver /\ queue' = <<>>
  /\ call' = [c \in Calls |-> [call[c] EXCEPT !.interrupted = @ \/ c \in RunBy("pool")]]
  /\ UNCHANGED <<gate, now, admission>>

BeginDrained(c) ==
  /\ drained # <<>> /\ c = Head(drained)
  /\ RunBy("closer") = {}
  /\ drained' = Tail(drained)
  /\ Taken(c, "closer")
  /\ UNCHANGED <<gate, now, phase, admission, queue>>

Tick ==
  /\ now < MaxClock
  /\ now' = now + 1
  /\ UNCHANGED <<gate, phase, admission, queue, drained, call>>

-----------------------------------------------------------------------------

CallerStep(c)  == Submit(c) \/ Reject(c)
CancelStep(c)  == CancelWork(c) \/ CancelRelease(c)
TaskStep(c)    == \/ Begin(c) \/ BeginDrained(c) \/ Start(c) \/ Enter(c)
                  \/ Attempt(c) \/ Answer(c) \/ Resume(c)
                  \/ Decide(c) \/ Complete(c) \/ Release(c) \/ Publish(c)

Next ==
  \/ \E c \in Calls : Execute(c) \/ Cancel(c) \/ CallerStep(c) \/ CancelStep(c) \/ TaskStep(c)
  \/ SetClosed \/ Shutdown \/ Tick

Spec == Init /\ [][Next]_vars

\* Threads run on and time passes; nobody has to execute, cancel or close.
Fairness ==
  /\ \A c \in Calls : WF_vars(CallerStep(c)) /\ WF_vars(CancelStep(c)) /\ WF_vars(TaskStep(c))
  /\ WF_vars(Shutdown)
  /\ WF_vars(Tick)
FairSpec == Spec /\ Fairness

-----------------------------------------------------------------------------
(* Properties.                                                             *)

Call == [stage : Stage, runner : {"none", "pool", "closer"},
         result : {"none", "open", "cancelled", "answered"},
         slot : BOOLEAN, started : BOOLEAN, interrupted : BOOLEAN,
         canceller : {"none", "interrupt", "release"},
         permit : Gate!Permit \cup {NoPermit}, attempts : 0..MaxAttempts,
         outcome : {"none"} \cup Reason, cancelled : BOOLEAN, deadline : Nat, until : Nat]

TypeOK ==
  /\ gate \in Gate!Circuit /\ now \in 0..MaxClock
  /\ phase \in {"open", "closing", "shut"}
  /\ admission \in 0..Capacity
  /\ queue \in Seq(Calls) /\ drained \in Seq(Calls)
  /\ call \in [Calls -> Call]

\* The slot of a call follows it through every race of its executor, worker, canceller and
\* closer: it is held as long as the call may use the dependency, and it is returned,
\* once, when the call is over, so that admission never leaks and never overfills.  (And
\* every variable has its type.)
SlotsFollowCalls ==
  /\ TypeOK
  /\ admission + Cardinality({c \in Calls : call[c].slot}) = Capacity
  /\ \A c \in Calls :
       /\ call[c].started /\ call[c].stage \in {"enter"} \cup Working => call[c].slot
       /\ call[c].stage \in {"submit", "begun"} /\ call[c].result # "cancelled" => call[c].slot
       /\ call[c].stage \in {"done", "skipped"} /\ call[c].canceller = "none" => ~call[c].slot

\* A half-open gate sends the dependency exactly one request on behalf of its probe, and
\* whoever is not the probe was admitted before the gate opened.
HalfOpenSendsOneProbe ==
  gate.state = "HALF_OPEN" =>
    \E c \in Calls : /\ call[c].permit # NoPermit /\ call[c].permit.probe
                     /\ call[c].permit.generation = gate.generation
                     /\ call[c].attempts <= 1
                     /\ \A b \in Calls \ {c} : call[b].permit # NoPermit =>
                          call[b].permit.generation < gate.generation

Looks(c) == call[c].stage = "complete" /\ call'[c].stage = "tell"
Tells(c) == call[c].stage = "tell" /\ call'[c].stage = "release"
MovesAgainst == gate'.failures > gate.failures \/ (gate.state = "CLOSED" /\ gate'.state = "OPEN")
Recloses     == gate.state = "HALF_OPEN" /\ gate'.state = "CLOSED"
Forgives     == gate.state = "CLOSED" /\ gate'.state = "CLOSED" /\ gate'.failures < gate.failures
Failure      == {"BAD", "RETRY_EXHAUSTED", "DEADLINE"}

\* Only a call that has reached the dependency counts for or against it, and only if
\* neither its client had cancelled it nor its thread was interrupted when the task
\* looked: however its attempts ended, a cancelled call does not count in a closed gate,
\* and as the probe of a half-open one it opens it again.  Local overload, an open gate,
\* shutdown, and a budget that was spent before the first attempt do not count either; a
\* budget spent later does, as a failure.
OnlyAttemptsCount == [][
  /\ \A c \in Calls : Looks(c) /\ (call[c].result = "cancelled" \/ call[c].interrupted)
                        => call'[c].cancelled
  /\ MovesAgainst => \E c \in Calls : /\ Tells(c) /\ ~call[c].cancelled
                                      /\ call[c].attempts > 0 /\ call[c].outcome \in Failure
  /\ Recloses \/ Forgives => \E c \in Calls :
        /\ Tells(c) /\ ~call[c].cancelled /\ (Recloses => call[c].permit.probe)
        /\ call[c].attempts > 0 /\ call[c].outcome = "GOOD"
  /\ \A c \in Calls : Tells(c) /\ call[c].cancelled /\ gate.state = "HALF_OPEN"
                     /\ call[c].permit.generation = gate.generation => gate'.state = "OPEN"]_vars

\* Whoever holds an open future is told how it ended, through overload, cancellation of
\* others, an open gate or close.
EveryCallIsAnswered == \A c \in Calls : call[c].result = "open" ~> call[c].result # "open"

\* What CircuitGate assumes of its callers: a permit that was taken is given back.
PermitsAreReturned == \A c \in Calls : call[c].permit # NoPermit ~> call[c].permit = NoPermit

\* Every path through a call ends it, for its caller and for the gate.
CallsEnd == EveryCallIsAnswered /\ PermitsAreReturned

\* The calls use the gate as its own specification has it, so what is proved of the
\* gate holds here.
UsesGate == Gate!GateSpec

(* Calls differ in nothing but their names, for the runs that check safety. *)
CallSymmetry == Permutations(Calls)
=============================================================================
