----------------------------- MODULE ReadsProofs -----------------------------
(***************************************************************************)
(* Proofs about ReliableReads, for any calls, workers, capacity and clock: *)
(* a slot follows its call whichever of the two threads that may return it *)
(* gets there first, a half-open circuit sends one probe, only attempts    *)
(* count against the circuit, and the client uses the gate as CircuitGate  *)
(* says it is used.                                                        *)
(*                                                                         *)
(* The argument.  The stage of a call, with its result and its canceller,  *)
(* decides whether it still has its slot, so the admissions that are left  *)
(* are the capacity less those calls.  A task is in one line, once.  No    *)
(* more of the gate's generations can have passed than calls have entered  *)
(* and settled, which keeps it below the bound CircuitGate is given; the   *)
(* gate's own invariant is carried along its actions.                      *)
(*                                                                         *)
(* The last part is about CircuitGate by itself, among any callers.        *)
(***************************************************************************)
EXTENDS ReliableReads, CircuitGate, FiniteSetTheorems, TLAPS

USE ReadsAssumption

\* Calls whose task nobody has begun; calls that entered the gate; calls whose permit is
\* settled; calls with a slot.
Waiting   == {"queued", "skipped"}
Crossed   == {c \in Calls : call[c].stage \in Working \cup {"publish", "done"}}
Settled   == {c \in Calls : call[c].stage \in {"release", "publish", "done"}}
Slots     == {c \in Calls : call[c].slot}

\* Where a call's slot is, by its stage, and who may still return it.
SoundSlot(k) ==
  /\ k.stage = "new" => ~k.slot
  /\ k.stage \in {"submit", "queued", "enter"} \cup Working => k.slot
  /\ k.stage = "begun" /\ ~k.slot => k.result = "cancelled"
  /\ k.stage \in {"skipped", "done"} /\ k.slot => k.canceller # "none" /\ ~k.started
  /\ k.stage = "publish" => ~k.slot
  /\ k.stage \in {"new", "submit"} => k.result = "none"
  /\ k.stage = "skipped" => k.result = "cancelled"
  /\ k.stage = "done" => k.result # "open"
  /\ k.canceller # "none" => k.result = "cancelled"
  /\ k.stage = "queued" => k.canceller # "release"
  /\ k.stage \in {"enter", "publish"} \cup Working <=> k.started /\ k.stage # "done"

\* What a call has of the gate, how often it has tried, and what it will tell the gate.
SoundAttempts(k) ==
  /\ k.stage \in {"attempt", "await", "pause", "tell"} => k.permit # NoPermit
  /\ k.permit # NoPermit => k.stage \in {"attempt", "await", "pause", "complete", "tell"}
  /\ k.stage \notin {"attempt", "await", "pause", "complete", "tell"} => k.attempts = 0
  /\ k.stage \in {"attempt", "pause"} => k.attempts < MaxAttempts /\ (k.permit.probe => k.attempts = 0)
  /\ k.stage = "await" => k.attempts >= 1
  /\ k.permit # NoPermit /\ k.permit.probe => k.attempts <= 1
  /\ k.permit # NoPermit /\ k.outcome = "CANCELLED" => k.interrupted \/ k.result = "cancelled"
  /\ k.permit # NoPermit => k.outcome \notin {"CLOSED", "CIRCUIT_OPEN"}
  /\ k.stage \in {"complete", "tell"} <=> k.outcome # "none"
  /\ k.stage = "tell" /\ ~k.cancelled => k.attempts # 0 /\ k.outcome # "CANCELLED"

SoundCall(k) == k \in Call /\ SoundSlot(k) /\ SoundAttempts(k)

\* A line of tasks: each is in it once, and has not begun.
Lined(q, calls) ==
  /\ q \in Seq(Calls)
  /\ \A i \in 1..Len(q) : calls[q[i]].stage \in Waiting
  /\ \A i, j \in 1..Len(q) : q[i] = q[j] => i = j

\* The parts of the inductive invariant: the calls, the lines of tasks, the slots, the gate.
CallsInv ==
  /\ call \in [Calls -> Call]
  /\ \A c \in Calls : SoundCall(call[c])
LinesInv ==
  /\ phase \in {"open", "closing", "shut"}
  /\ Lined(queue, call) /\ Lined(drained, call)
  /\ phase # "shut" => drained = <<>>
  /\ phase = "shut" => queue = <<>>
SlotsInv ==
  /\ admission \in 0..Capacity
  /\ admission + Cardinality(Slots) = Capacity
GateInv ==
  /\ Gate!CircuitInv /\ now <= MaxClock
  /\ gate.generation <= Cardinality(Crossed) + Cardinality(Settled)

ReadsInv == CallsInv /\ LinesInv /\ SlotsInv /\ GateInv

-----------------------------------------------------------------------------
(* The gate, as its own proofs have it.                                    *)

\* What a completion does: it leaves the gate's state, unless it is the verdict on a probe,
\* or starts a generation; and only a failure that is a verdict counts against the gate.
LEMMA Verdict ==
  ASSUME NEW g \in Gate!Circuit, NEW p \in Gate!Permit, NEW f \in BOOLEAN, NEW x \in BOOLEAN,
         NEW t \in Nat, g.failures < Threshold, g.state # "CLOSED" => g.failures = 0,
         g.openedAt <= t
  PROVE  LET h == Gate!Completed(g, p, f, x, t)
         IN  /\ h \in Gate!Circuit
             /\ h.failures < Threshold
             /\ h.state # "CLOSED" => h.failures = 0
             /\ h.openedAt <= t
             /\ \/ /\ h.generation = g.generation /\ h.state = g.state
                   /\ p.generation = g.generation => g.state # "HALF_OPEN"
                \/ h.generation = g.generation + 1 /\ h.state \in {"OPEN", "CLOSED"}
             /\ h.failures > g.failures => f /\ ~x
             /\ g.state = "CLOSED" /\ h.state = "OPEN" => f /\ ~x
             /\ g.state = "HALF_OPEN" /\ h.state = "CLOSED" =>
                  ~f /\ ~x /\ p.generation = g.generation
             /\ g.state = "CLOSED" /\ h.state = "CLOSED" /\ h.failures < g.failures => ~f /\ ~x
             /\ g.state = "HALF_OPEN" /\ p.generation = g.generation /\ x => h.state = "OPEN"
  BY DEF Gate!Completed, Gate!ProbeVerdict, Gate!ClosedVerdict, Gate!Opened, Gate!Reclosed,
         Gate!Counted, Gate!GateOf, Gate!Circuit, Gate!State, Gate!Permit

\* A new gate is closed and nobody holds a permit.
LEMMA InitGate == Gate!GateInit => Gate!CircuitInv
  BY DEF Gate!GateInit, Gate!CircuitInv, Gate!GateTypeOK, Gate!OneProbe, Gate!Current, Gate!NewGate,
         Gate!GateOf, Gate!Circuit, Gate!State

\* Entering a closed gate adds a voter; entering a cooled one makes the caller the only
\* voter, for no permit carries the generation that the gate moves to.
LEMMA EnterGate ==
  ASSUME Gate!CircuitInv, NEW c \in Calls, Gate!EnterCircuit(c)
  PROVE  Gate!CircuitInv'
<1> DEFINE permit == Gate!PermitFor(gate, now)
<1>1. /\ gate \in Gate!Circuit /\ held \in [Calls -> Gate!Permit \cup {NoPermit}] /\ now \in Nat
      /\ held[c] = NoPermit /\ permit # NoPermit
      /\ held' = [held EXCEPT ![c] = permit] /\ now' = now
      /\ gate' = Gate!Entered(gate, now)
  BY DEF Gate!CircuitInv, Gate!GateTypeOK, Gate!EnterCircuit
<1>2. CASE gate.state = "CLOSED"
  <2>1. gate' = gate /\ permit = [generation |-> gate.generation, probe |-> FALSE]
    BY <1>1, <1>2 DEF Gate!Entered, Gate!PermitFor
  <2>2. permit \in Gate!Permit
    BY <1>1, <2>1 DEF Gate!Circuit, Gate!Permit
  <2> QED
    BY <1>1, <1>2, <2>1, <2>2 DEF Gate!CircuitInv, Gate!GateTypeOK, Gate!OneProbe, Gate!Current,
                                  Gate!Circuit, Gate!Permit
<1>3. CASE gate.state # "CLOSED"
  <2>1. /\ gate.state = "OPEN"
        /\ permit = [generation |-> gate.generation + 1, probe |-> TRUE]
        /\ gate' = [state |-> "HALF_OPEN", failures |-> gate.failures,
                    generation |-> gate.generation + 1, openedAt |-> gate.openedAt]
    BY <1>1, <1>3 DEF Gate!Entered, Gate!PermitFor, Gate!GateOf
  <2>2. permit \in Gate!Permit /\ gate' \in Gate!Circuit
    BY <1>1, <2>1 DEF Gate!Circuit, Gate!Permit, Gate!State
  <2>3. \A b \in Calls \ {c} : ~Gate!Current(b)'
    BY <1>1, <2>1 DEF Gate!CircuitInv, Gate!Current, Gate!Circuit, Gate!Permit
  <2> QED
    BY <1>1, <1>3, <2>1, <2>2, <2>3 DEF Gate!CircuitInv, Gate!GateTypeOK, Gate!OneProbe,
                                        Gate!Current, Gate!Circuit, Gate!Permit
<1> QED
  BY <1>2, <1>3

\* A completion that changes the state leaves no voter behind.
LEMMA CompleteGate ==
  ASSUME Gate!CircuitInv, NEW c \in Calls, Gate!Ends(c)
  PROVE  Gate!CircuitInv'
<1>1. PICK f \in BOOLEAN, x \in BOOLEAN : Gate!CompleteCircuit(c, f, x)
  BY DEF Gate!Ends
<1> DEFINE h == Gate!Completed(gate, held[c], f, x, now)
<1>2. /\ gate \in Gate!Circuit /\ held \in [Calls -> Gate!Permit \cup {NoPermit}] /\ now \in Nat
      /\ held[c] # NoPermit /\ held[c] \in Gate!Permit
      /\ held' = [held EXCEPT ![c] = NoPermit] /\ now' = now /\ gate' = h
  BY <1>1 DEF Gate!CircuitInv, Gate!GateTypeOK, Gate!CompleteCircuit
<1>3. \A b \in Calls : Gate!Current(b)' => b # c /\ held'[b] = held[b] /\ held[b] \in Gate!Permit
  BY <1>2 DEF Gate!Current
<1>4. /\ h \in Gate!Circuit /\ h.failures < Threshold
      /\ h.state # "CLOSED" => h.failures = 0
      /\ h.openedAt <= now
      /\ \/ h.generation = gate.generation /\ h.state = gate.state
            /\ (held[c].generation = gate.generation => gate.state # "HALF_OPEN")
         \/ h.generation = gate.generation + 1 /\ h.state \in {"OPEN", "CLOSED"}
  BY <1>2, Verdict DEF Gate!CircuitInv
<1> HIDE DEF h
<1>5. CASE /\ h.generation = gate.generation /\ h.state = gate.state
           /\ held[c].generation = gate.generation => gate.state # "HALF_OPEN"
  <2>1. \A b \in Calls : Gate!Current(b)' <=> (b # c /\ Gate!Current(b))
    BY <1>2, <1>5 DEF Gate!Current
  <2>2. gate.state = "HALF_OPEN" => ~Gate!Current(c)
    BY <1>5 DEF Gate!Current
  <2>3. Gate!OneProbe'
    BY <1>2, <1>3, <1>5, <2>1, <2>2 DEF Gate!CircuitInv, Gate!OneProbe
  <2> QED
    BY <1>2, <1>4, <1>5, <2>3 DEF Gate!CircuitInv, Gate!GateTypeOK
<1>6. CASE h.generation = gate.generation + 1 /\ h.state \in {"OPEN", "CLOSED"}
  <2>1. \A b \in Calls : ~Gate!Current(b)'
    BY <1>2, <1>3, <1>6 DEF Gate!CircuitInv, Gate!Current, Gate!Circuit, Gate!Permit
  <2>2. Gate!OneProbe'
    BY <1>2, <1>6, <2>1 DEF Gate!OneProbe
  <2>3. \A b \in Calls : held'[b] # NoPermit => held'[b].generation <= h.generation
    BY <1>2, <1>6 DEF Gate!CircuitInv, Gate!Circuit, Gate!Permit
  <2> QED
    BY <1>2, <1>4, <2>2, <2>3 DEF Gate!CircuitInv, Gate!GateTypeOK
<1> QED
  BY <1>4, <1>5, <1>6

\* Time changes nobody's permit.
LEMMA TickGate == Gate!CircuitInv /\ Gate!GateTick => Gate!CircuitInv'
  BY DEF Gate!CircuitInv, Gate!GateTypeOK, Gate!OneProbe, Gate!Current, Gate!GateTick, Gate!Circuit

-----------------------------------------------------------------------------
(* What a step of one call leaves alone.                                   *)

\* What the invariant says of a call.
LEMMA CallFacts ==
  ASSUME ReadsInv, NEW c \in Calls
  PROVE  /\ call[c] \in Call /\ SoundSlot(call[c]) /\ SoundAttempts(call[c])
         /\ call \in [Calls -> Call] /\ call = [call EXCEPT ![c] = call[c]]
         /\ held[c] = call[c].permit
         /\ now \in 0..MaxClock /\ now \in Nat
         /\ gate \in Gate!Circuit /\ admission \in 0..Capacity
BY DEF ReadsInv, CallsInv, SoundCall, SlotsInv, GateInv, Gate!CircuitInv, Gate!GateTypeOK, held

\* Other calls stay as they are.
LEMMA CallsStep ==
  ASSUME ReadsInv, NEW c \in Calls, NEW k, call' = [call EXCEPT ![c] = k], SoundCall(k)
  PROVE  CallsInv'
BY DEF ReadsInv, CallsInv, SoundCall

\* A call that is in line stays so.
LEMMA LinesStep ==
  ASSUME ReadsInv, NEW c \in Calls, NEW k, call' = [call EXCEPT ![c] = k],
         call[c].stage \in Waiting => k.stage \in Waiting,
         UNCHANGED <<phase, queue, drained>>
  PROVE  LinesInv'
<1>1. ASSUME NEW q, Lined(q, call) PROVE Lined(q, call')
  <2>1. \A i \in 1..Len(q) : q[i] \in Calls
    BY <1>1 DEF Lined
  <2>2. \A b \in Calls : call[b].stage \in Waiting => call'[b].stage \in Waiting
    BY DEF ReadsInv, CallsInv
  <2> QED
    BY <1>1, <2>1, <2>2 DEF Lined
<1> QED
  BY <1>1 DEF ReadsInv, LinesInv

\* A slot that is taken or returned is one permit.
LEMMA SlotsStep ==
  ASSUME ReadsInv, NEW c \in Calls, NEW k, call' = [call EXCEPT ![c] = k],
         k.slot \in BOOLEAN,
         \/ k.slot = call[c].slot /\ admission' = admission
         \/ ~k.slot /\ admission' = Returned(c)
         \/ k.slot /\ ~call[c].slot /\ admission > 0 /\ admission' = admission - 1
  PROVE  SlotsInv'
<1>1. /\ call \in [Calls -> Call] /\ call[c].slot \in BOOLEAN /\ IsFiniteSet(Slots)
      /\ Cardinality(Slots) \in Nat /\ admission \in 0..Capacity /\ Capacity \in Nat
      /\ admission + Cardinality(Slots) = Capacity
  <2>1. Slots \in SUBSET Calls
    BY DEF Slots
  <2>2. IsFiniteSet(Slots) /\ Cardinality(Slots) \in Nat
    BY <2>1, FS_Subset, FS_CardinalityType
  <2> QED
    BY <2>2 DEF ReadsInv, CallsInv, SlotsInv, Call
<1>2. Slots' = IF k.slot THEN Slots \cup {c} ELSE Slots \ {c}
  BY <1>1 DEF Slots
<1>3. c \in Slots <=> call[c].slot
  BY DEF Slots
<1>4. CASE k.slot = call[c].slot /\ admission' = admission
  <2>1. Slots' = Slots
    BY <1>2, <1>3, <1>4
  <2> QED
    BY <1>1, <1>4, <2>1 DEF SlotsInv
<1>5. CASE ~k.slot /\ call[c].slot /\ admission' = admission + 1
  <2>1. Cardinality(Slots') = Cardinality(Slots) - 1 /\ Cardinality(Slots') \in Nat
    BY <1>1, <1>2, <1>3, <1>5, FS_RemoveElement, FS_CardinalityType
  <2> QED
    BY <1>1, <1>5, <2>1 DEF SlotsInv
<1>6. CASE k.slot /\ ~call[c].slot /\ admission > 0 /\ admission' = admission - 1
  <2>1. Cardinality(Slots') = Cardinality(Slots) + 1
    BY <1>1, <1>2, <1>3, <1>6, FS_AddElement
  <2> QED
    BY <1>1, <1>6, <2>1 DEF SlotsInv
<1> QED
  BY <1>1, <1>4, <1>5, <1>6 DEF Returned

\* The calls that have been at the gate, and those that have told it how they ended, only
\* become more.
LEMMA Counts ==
  ASSUME ReadsInv, NEW c \in Calls, NEW k, call' = [call EXCEPT ![c] = k],
         c \in Crossed => k.stage \in Working \cup {"publish", "done"},
         c \in Settled => k.stage \in {"release", "publish", "done"}
  PROVE  /\ Cardinality(Crossed) \in Nat /\ Cardinality(Crossed') \in Nat
         /\ Cardinality(Settled) \in Nat /\ Cardinality(Settled') \in Nat
         /\ Cardinality(Crossed) <= Cardinality(Crossed')
         /\ Cardinality(Settled) <= Cardinality(Settled')
         /\ c \notin Crossed /\ k.stage \in Working \cup {"publish", "done"} =>
              Cardinality(Crossed') = Cardinality(Crossed) + 1
         /\ c \notin Settled /\ k.stage \in {"release", "publish", "done"} =>
              Cardinality(Settled') = Cardinality(Settled) + 1
<1>1. call \in [Calls -> Call]
  BY DEF ReadsInv, CallsInv
<1>2. Crossed' = IF k.stage \in Working \cup {"publish", "done"} THEN Crossed \cup {c} ELSE Crossed
  BY <1>1 DEF Crossed
<1>3. Settled' = IF k.stage \in {"release", "publish", "done"} THEN Settled \cup {c} ELSE Settled
  BY <1>1 DEF Settled
<1>4. IsFiniteSet(Crossed) /\ IsFiniteSet(Settled)
  <2>1. Crossed \in SUBSET Calls /\ Settled \in SUBSET Calls
    BY DEF Crossed, Settled
  <2> QED
    BY <2>1, FS_Subset
<1>5. Cardinality(Crossed) \in Nat /\ Cardinality(Settled) \in Nat
  BY <1>4, FS_CardinalityType
<1>6. /\ c \notin Crossed => Cardinality(Crossed \cup {c}) = Cardinality(Crossed) + 1
      /\ c \in Crossed => Crossed \cup {c} = Crossed
  BY <1>4, FS_AddElement
<1>7. /\ c \notin Settled => Cardinality(Settled \cup {c}) = Cardinality(Settled) + 1
      /\ c \in Settled => Settled \cup {c} = Settled
  BY <1>4, FS_AddElement
<1>8. /\ Cardinality(Crossed') \in Nat /\ Cardinality(Crossed) <= Cardinality(Crossed')
      /\ c \notin Crossed /\ k.stage \in Working \cup {"publish", "done"} =>
           Cardinality(Crossed') = Cardinality(Crossed) + 1
  <2>1. CASE c \notin Crossed /\ k.stage \in Working \cup {"publish", "done"}
    <3>1. Cardinality(Crossed') = Cardinality(Crossed) + 1
      BY <1>2, <1>6, <2>1
    <3> QED
      BY <1>5, <2>1, <3>1
  <2>2. CASE ~(c \notin Crossed /\ k.stage \in Working \cup {"publish", "done"})
    <3>1. Crossed' = Crossed
      BY <1>2, <1>6, <2>2
    <3> QED
      BY <1>5, <2>2, <3>1
  <2> QED
    BY <2>1, <2>2
<1>9. /\ Cardinality(Settled') \in Nat /\ Cardinality(Settled) <= Cardinality(Settled')
      /\ c \notin Settled /\ k.stage \in {"release", "publish", "done"} =>
           Cardinality(Settled') = Cardinality(Settled) + 1
  <2>1. CASE c \notin Settled /\ k.stage \in {"release", "publish", "done"}
    <3>1. Cardinality(Settled') = Cardinality(Settled) + 1
      BY <1>3, <1>7, <2>1
    <3> QED
      BY <1>5, <2>1, <3>1
  <2>2. CASE ~(c \notin Settled /\ k.stage \in {"release", "publish", "done"})
    <3>1. Settled' = Settled
      BY <1>3, <1>7, <2>2
    <3> QED
      BY <1>5, <2>2, <3>1
  <2> QED
    BY <2>1, <2>2
<1> QED
  BY <1>5, <1>8, <1>9

\* The gate is not touched, and no call forgets that it was there.
LEMMA GateStep ==
  ASSUME ReadsInv, NEW c \in Calls, NEW k, call' = [call EXCEPT ![c] = k],
         UNCHANGED <<gate, now>>, k.permit = call[c].permit,
         c \in Crossed => k.stage \in Working \cup {"publish", "done"},
         c \in Settled => k.stage \in {"release", "publish", "done"}
  PROVE  GateInv' /\ UNCHANGED Gate!gateVars
<1>1. held' = held
  BY DEF held, ReadsInv, CallsInv
<1>2. Gate!CircuitInv'
  BY <1>1 DEF ReadsInv, GateInv, Gate!CircuitInv, Gate!GateTypeOK, Gate!OneProbe, Gate!Current
<1>3. gate.generation \in Nat /\ gate.generation <= Cardinality(Crossed) + Cardinality(Settled)
  BY DEF ReadsInv, GateInv, Gate!CircuitInv, Gate!GateTypeOK, Gate!Circuit
<1>4. gate.generation <= Cardinality(Crossed') + Cardinality(Settled')
  <2>1. /\ Cardinality(Crossed) \in Nat /\ Cardinality(Crossed') \in Nat
        /\ Cardinality(Settled) \in Nat /\ Cardinality(Settled') \in Nat
        /\ Cardinality(Crossed) <= Cardinality(Crossed')
        /\ Cardinality(Settled) <= Cardinality(Settled')
    BY Counts
  <2> QED
    BY <1>3, <2>1
<1> QED
  BY <1>1, <1>2, <1>4 DEF ReadsInv, GateInv, Gate!gateVars

\* A step of one call, away from the gate and the lines, to the record k.
Moves(c, k) ==
  /\ SoundCall(k)
  /\ call[c].stage \in Waiting => k.stage \in Waiting
  /\ \/ k.slot = call[c].slot /\ admission' = admission
     \/ ~k.slot /\ admission' = Returned(c)
     \/ k.slot /\ ~call[c].slot /\ admission > 0 /\ admission' = admission - 1
  /\ k.permit = call[c].permit
  /\ c \in Crossed => k.stage \in Working \cup {"publish", "done"}
  /\ c \in Settled => k.stage \in {"release", "publish", "done"}

\* Such a step is one that the whole invariant allows and the gate does not see.
LEMMA CallStep ==
  ASSUME ReadsInv, NEW c \in Calls, NEW k, call' = [call EXCEPT ![c] = k], Moves(c, k),
         UNCHANGED <<gate, now, phase, queue, drained>>
  PROVE  ReadsInv' /\ UNCHANGED Gate!gateVars
<1>1. k.slot \in BOOLEAN
  BY DEF Moves, SoundCall, Call
<1>2. CallsInv'
  BY CallsStep DEF Moves
<1>3. LinesInv'
  BY LinesStep DEF Moves
<1>4. SlotsInv'
  BY <1>1, SlotsStep DEF Moves
<1>5. GateInv' /\ UNCHANGED Gate!gateVars
  BY GateStep DEF Moves
<1> QED
  BY <1>2, <1>3, <1>4, <1>5 DEF ReadsInv

-----------------------------------------------------------------------------
(* The threads that execute a call and cancel it.                          *)

\* A call that gets a permit waits to be accepted by the pool.
LEMMA ExecuteStep ==
  ASSUME ReadsInv, NEW c \in Calls, Execute(c)
  PROVE  ReadsInv' /\ UNCHANGED Gate!gateVars
<1> DEFINE k == [call[c] EXCEPT !.stage = "submit", !.slot = TRUE, !.deadline = now + Budget]
<1>1. call' = [call EXCEPT ![c] = k]
  BY Zenon DEF Execute
<1>2. Moves(c, k)
  BY CallFacts DEF Execute, Moves, SoundCall, SoundSlot, SoundAttempts, Call, Stage,
                   Working, Waiting, Crossed, Settled
<1> HIDE DEF k
<1> QED
  BY <1>1, <1>2, CallStep DEF Execute

\* A call that the pool rejects returns its permit.
LEMMA RejectStep ==
  ASSUME ReadsInv, NEW c \in Calls, Reject(c)
  PROVE  ReadsInv' /\ UNCHANGED Gate!gateVars
<1> DEFINE k == [call[c] EXCEPT !.stage = "done", !.slot = FALSE, !.deadline = 0, !.result = "answered"]
<1>1. call' = [call EXCEPT ![c] = k]
  BY Zenon DEF Reject
<1>2. Moves(c, k)
  BY CallFacts DEF Reject, Moves, SoundCall, SoundSlot, SoundAttempts, Call, Stage,
                   Working, Waiting, Crossed, Settled
<1> HIDE DEF k
<1> QED
  BY <1>1, <1>2, CallStep DEF Reject

\* A future is cancelled.
LEMMA CancelStepSafe ==
  ASSUME ReadsInv, NEW c \in Calls, Cancel(c)
  PROVE  ReadsInv' /\ UNCHANGED Gate!gateVars
<1> DEFINE k == [call[c] EXCEPT !.result = "cancelled", !.canceller = "interrupt"]
<1>1. call' = [call EXCEPT ![c] = k]
  BY Zenon DEF Cancel
<1>2. Moves(c, k)
  BY CallFacts DEF Cancel, Moves, SoundCall, SoundSlot, SoundAttempts, Call, Stage,
                   Working, Waiting, Crossed, Settled
<1> HIDE DEF k
<1> QED
  BY <1>1, <1>2, CallStep DEF Cancel

\* The task of a cancelled future is skipped, or interrupted.
LEMMA CancelWorkStep ==
  ASSUME ReadsInv, NEW c \in Calls, CancelWork(c)
  PROVE  ReadsInv' /\ UNCHANGED Gate!gateVars
<1> DEFINE s == IF call[c].stage = "queued" THEN "skipped" ELSE call[c].stage
           i == call[c].interrupted \/ ~Idle(call[c].stage)
           k == [call[c] EXCEPT !.canceller = "release", !.stage = s, !.interrupted = i]
<1>1. call' = [call EXCEPT ![c] = k]
  BY Zenon DEF CancelWork
<1>2. s \in Stage /\ i \in BOOLEAN /\ (call[c].interrupted => i)
  BY CallFacts DEF Call, Stage, Working, Idle
<1>3. \/ call[c].stage = "queued" /\ s = "skipped"
      \/ call[c].stage # "queued" /\ s = call[c].stage
  OBVIOUS
<1> HIDE DEF s, i
<1>4. Moves(c, k)
  <2>1. /\ call[c] \in Call /\ SoundSlot(call[c]) /\ SoundAttempts(call[c])
    BY CallFacts
  <2>2. k \in Call
    BY <1>2, <1>3, <2>1 DEF Call, Stage, Working
  <2>3. /\ k.stage = s /\ k.interrupted = i /\ k.canceller = "release" /\ k.runner = call[c].runner
        /\ k.result = call[c].result /\ k.slot = call[c].slot /\ k.started = call[c].started
        /\ k.permit = call[c].permit /\ k.attempts = call[c].attempts /\ k.outcome = call[c].outcome
        /\ k.cancelled = call[c].cancelled
    BY <2>1 DEF Call
  <2> HIDE DEF k
  <2>4. SoundSlot(k) /\ SoundAttempts(k)
    BY <1>2, <1>3, <2>1, <2>2, <2>3 DEF CancelWork, SoundSlot, SoundAttempts, Call, Working
  <2> QED
    BY <1>2, <1>3, <2>1, <2>2, <2>3, <2>4 DEF CancelWork, Moves, SoundCall, Waiting, Crossed,
                                              Settled, Working
<1> HIDE DEF k
<1> QED
  BY <1>1, <1>4, CallStep DEF CancelWork

\* A task returns its permit.
LEMMA ReleaseStep ==
  ASSUME ReadsInv, NEW c \in Calls, Release(c)
  PROVE  ReadsInv' /\ UNCHANGED Gate!gateVars
<1> DEFINE k == [call[c] EXCEPT !.stage = "publish", !.slot = FALSE]
<1>1. call' = [call EXCEPT ![c] = k]
  BY Zenon DEF Release
<1>2. Moves(c, k)
  BY CallFacts DEF Release, Moves, SoundCall, SoundSlot, SoundAttempts, Call, Stage,
                   Working, Waiting, Crossed, Settled
<1> HIDE DEF k
<1> QED
  BY <1>1, <1>2, CallStep DEF Release

\* A future is completed, unless it was cancelled.
LEMMA PublishStep ==
  ASSUME ReadsInv, NEW c \in Calls, Publish(c)
  PROVE  ReadsInv' /\ UNCHANGED Gate!gateVars
<1> DEFINE a == IF call[c].result = "open" THEN "answered" ELSE call[c].result
           k == [call[c] EXCEPT !.stage = "done", !.interrupted = FALSE, !.runner = "none",
                                !.result = a]
<1>1. call' = [call EXCEPT ![c] = k]
  BY Zenon DEF Publish
<1>2. /\ a \in {"none", "cancelled", "answered"}
      /\ call[c].result = "cancelled" => a = "cancelled"
  BY CallFacts DEF Call
<1> HIDE DEF a
<1>3. Moves(c, k)
  <2>1. /\ call[c] \in Call /\ SoundSlot(call[c]) /\ SoundAttempts(call[c])
    BY CallFacts
  <2>2. k \in Call
    BY <1>2, <2>1 DEF Call, Stage, Working
  <2>3. /\ k.stage = "done" /\ k.result = a /\ k.canceller = call[c].canceller
        /\ k.slot = call[c].slot /\ k.started = call[c].started
        /\ k.permit = call[c].permit /\ k.attempts = call[c].attempts /\ k.outcome = call[c].outcome
        /\ k.cancelled = call[c].cancelled
    BY <2>1 DEF Call
  <2> HIDE DEF k
  <2>4. SoundSlot(k) /\ SoundAttempts(k)
    BY <1>2, <2>1, <2>2, <2>3 DEF Publish, SoundSlot, SoundAttempts, Call, Working
  <2> QED
    BY <1>2, <2>1, <2>2, <2>3, <2>4 DEF Publish, Moves, SoundCall, Waiting, Crossed, Settled,
                                        Working
<1> HIDE DEF k
<1> QED
  BY <1>1, <1>3, CallStep DEF Publish

\* The canceller returns the permit of a task that has not begun.
LEMMA CancelReleaseStep ==
  ASSUME ReadsInv, NEW c \in Calls, CancelRelease(c)
  PROVE  ReadsInv' /\ UNCHANGED Gate!gateVars
<1>1. CASE ~call[c].started
  <2> DEFINE k == [call[c] EXCEPT !.canceller = "none", !.slot = FALSE]
  <2>1. call' = [call EXCEPT ![c] = k]
    BY <1>1, Zenon DEF CancelRelease, ReleasedByCanceller
  <2>2. Moves(c, k)
    <3>1. call[c] \in Call /\ SoundSlot(call[c]) /\ SoundAttempts(call[c]) /\ now \in Nat
      BY CallFacts
    <3>2. k \in Call
      BY <1>1, <3>1 DEF CancelRelease, ReleasedByCanceller, Call, Stage, Working
    <3>3. SoundSlot(k)
      BY <1>1, <3>1 DEF CancelRelease, ReleasedByCanceller, SoundSlot, Call, Working
    <3>4. SoundAttempts(k)
      BY <1>1, <3>1 DEF CancelRelease, ReleasedByCanceller, SoundAttempts, Call, Working
    <3> QED
      BY <1>1, <3>1, <3>2, <3>3, <3>4, CallFacts DEF CancelRelease, ReleasedByCanceller, Moves,
                                                     SoundCall, SoundSlot, Call, Working, Waiting,
                                                     Crossed, Settled
  <2> HIDE DEF k
  <2> QED
    BY <2>1, <2>2, CallStep DEF CancelRelease
<1>2. CASE call[c].started
  <2> DEFINE k == [call[c] EXCEPT !.canceller = "none"]
  <2>1. call' = [call EXCEPT ![c] = k]
    BY <1>2, Zenon DEF CancelRelease, ReleasedByCanceller
  <2>2. Moves(c, k)
    BY <1>2, CallFacts DEF CancelRelease, ReleasedByCanceller, Moves, SoundCall, SoundSlot,
                           SoundAttempts, Call, Stage, Working, Waiting, Crossed, Settled
  <2> HIDE DEF k
  <2> QED
    BY <2>1, <2>2, CallStep DEF CancelRelease
<1> QED
  BY <1>1, <1>2

-----------------------------------------------------------------------------
(* The thread that runs a task.                                            *)

\* A task that was cancelled in time returns its permit, unless the canceller has.
LEMMA StartStep ==
  ASSUME ReadsInv, NEW c \in Calls, Start(c)
  PROVE  ReadsInv' /\ UNCHANGED Gate!gateVars
<1>1. CASE call[c].result = "cancelled"
  <2> DEFINE k == [call[c] EXCEPT !.stage = "done", !.slot = FALSE, !.deadline = 0,
                                  !.interrupted = FALSE, !.runner = "none"]
  <2>1. call' = [call EXCEPT ![c] = k]
    BY <1>1, Zenon DEF Start
  <2>2. Moves(c, k)
    <3>1. call[c] \in Call /\ SoundSlot(call[c]) /\ SoundAttempts(call[c]) /\ now \in Nat
      BY CallFacts
    <3>2. k \in Call
      BY <1>1, <3>1 DEF Start, Call, Stage, Working
    <3>3. SoundSlot(k)
      BY <1>1, <3>1 DEF Start, SoundSlot, Call, Working
    <3>4. SoundAttempts(k)
      BY <1>1, <3>1 DEF Start, SoundAttempts, Call, Working
    <3> QED
      BY <1>1, <3>1, <3>2, <3>3, <3>4, CallFacts DEF Start, Moves, SoundCall, SoundSlot, Call,
                                                     Working, Waiting, Crossed, Settled
  <2> HIDE DEF k
  <2> QED
    BY <2>1, <2>2, CallStep DEF Start
<1>2. CASE call[c].result # "cancelled"
  <2> DEFINE k == [call[c] EXCEPT !.stage = "enter", !.started = TRUE]
  <2>1. call' = [call EXCEPT ![c] = k]
    BY <1>2, Zenon DEF Start
  <2>2. Moves(c, k)
    BY <1>2, CallFacts DEF Start, Moves, SoundCall, SoundSlot, SoundAttempts, Call, Stage,
                           Working, Waiting, Crossed, Settled
  <2> HIDE DEF k
  <2> QED
    BY <2>1, <2>2, CallStep DEF Start
<1> QED
  BY <1>1, <1>2

\* A task comes to its end; one that has been admitted ends as cancelled only if it was.
LEMMA ConcludesStep ==
  ASSUME ReadsInv, NEW c \in Calls, call[c].stage \in {"enter", "attempt", "await", "pause"},
         NEW why \in Reason, Concludes(c, why),
         why = "CANCELLED" /\ call[c].permit # NoPermit =>
           call[c].interrupted \/ call[c].result = "cancelled",
         call[c].permit # NoPermit => why \notin {"CLOSED", "CIRCUIT_OPEN"},
         UNCHANGED <<gate, now, phase, admission, queue, drained>>
  PROVE  ReadsInv' /\ UNCHANGED Gate!gateVars
<1> DEFINE k == [call[c] EXCEPT !.stage = "complete", !.outcome = why, !.deadline = 0, !.until = 0]
<1>1. call' = [call EXCEPT ![c] = k]
  BY Zenon DEF Concludes
<1>2. Moves(c, k)
  <2>1. call[c] \in Call /\ SoundSlot(call[c]) /\ SoundAttempts(call[c]) /\ now \in Nat
    BY CallFacts
  <2>2. k \in Call
    BY <2>1 DEF Call, Stage, Working
  <2>3. SoundSlot(k)
    BY <2>1 DEF SoundSlot, Call, Working
  <2>4. SoundAttempts(k)
    BY <2>1 DEF SoundAttempts, Call, Working, Reason
  <2> QED
    BY <2>1, <2>2, <2>3, <2>4, CallFacts DEF Moves, SoundCall, SoundSlot, Call, Working, Waiting,
                                             Crossed, Settled
<1> HIDE DEF k
<1> QED
  BY <1>1, <1>2, CallStep

\* The head of the retry loop.
LEMMA AttemptStep ==
  ASSUME ReadsInv, NEW c \in Calls, Attempt(c)
  PROVE  ReadsInv' /\ UNCHANGED Gate!gateVars
<1>1. CASE Concludes(c, "DEADLINE") \/ (call[c].interrupted /\ Concludes(c, "CANCELLED"))
  BY <1>1, ConcludesStep DEF Attempt, Reason
<1>2. CASE call' = [call EXCEPT ![c].stage = "await", ![c].attempts = @ + 1,
                      ![c].until = Earlier(now + AttemptTimeout, call[c].deadline)]
  <2> DEFINE u == Earlier(now + AttemptTimeout, call[c].deadline)
             k == [call[c] EXCEPT !.stage = "await", !.attempts = call[c].attempts + 1, !.until = u]
  <2>1. call' = [call EXCEPT ![c] = k]
    BY <1>2, Zenon
  <2>2. u \in Nat /\ call[c].attempts + 1 \in 0..MaxAttempts
    BY CallFacts DEF Earlier, Call, Attempt, SoundAttempts
  <2> HIDE DEF u
  <2>3. Moves(c, k)
    <3>1. call[c] \in Call /\ SoundSlot(call[c]) /\ SoundAttempts(call[c]) /\ now \in Nat
      BY CallFacts
    <3>2. k \in Call
      BY <2>2, <3>1 DEF Call, Stage, Working
    <3>3. SoundSlot(k)
      BY <2>2, <3>1 DEF Attempt, SoundSlot, Call, Working
    <3>4. SoundAttempts(k)
      BY <2>2, <3>1 DEF Attempt, SoundAttempts, Call, Working
    <3> QED
      BY <2>2, <3>1, <3>2, <3>3, <3>4, CallFacts DEF Attempt, Moves, SoundCall, SoundSlot, Call,
                                                     Working, Waiting, Crossed, Settled
  <2> HIDE DEF k
  <2> QED
    BY <2>1, <2>3, CallStep DEF Attempt
<1> QED
  BY <1>1, <1>2 DEF Attempt

\* A probe has had its one attempt by then; others are retried while attempts are left.
LEMMA RetryStep ==
  ASSUME ReadsInv, NEW c \in Calls, call[c].stage = "await", RetryOrStop(c),
         UNCHANGED <<gate, now, phase, admission, queue, drained>>
  PROVE  ReadsInv' /\ UNCHANGED Gate!gateVars
<1>1. CASE Concludes(c, "RETRY_EXHAUSTED") \/ Concludes(c, "DEADLINE")
  BY <1>1, ConcludesStep DEF Reason
<1>2. ASSUME call[c].attempts < Limit(c), NEW delay \in 0..MaxDelay,
             call' = [call EXCEPT ![c].stage = IF delay = 0 THEN "attempt" ELSE "pause",
                                  ![c].until = now + delay]
      PROVE  ReadsInv' /\ UNCHANGED Gate!gateVars
  <2> DEFINE s == IF delay = 0 THEN "attempt" ELSE "pause"
             u == now + delay
             k == [call[c] EXCEPT !.stage = s, !.until = u]
  <2>1. call' = [call EXCEPT ![c] = k]
    BY <1>2, Zenon
  <2>2. u \in Nat /\ s \in {"attempt", "pause"}
    BY CallFacts
  <2>3. call[c].attempts < MaxAttempts /\ ~call[c].permit.probe
    BY <1>2, CallFacts DEF Limit, SoundAttempts, Call
  <2> HIDE DEF u, s
  <2>4. Moves(c, k)
    <3>1. call[c] \in Call /\ SoundSlot(call[c]) /\ SoundAttempts(call[c]) /\ now \in Nat
      BY CallFacts
    <3>2. k \in Call
      BY <2>2, <2>3, <3>1 DEF Call, Stage, Working
    <3>3. SoundSlot(k)
      BY <2>2, <2>3, <3>1 DEF SoundSlot, Call, Working
    <3>4. SoundAttempts(k)
      BY <2>2, <2>3, <3>1 DEF SoundAttempts, Call, Working
    <3> QED
      BY <2>2, <2>3, <3>1, <3>2, <3>3, <3>4, CallFacts DEF Moves, SoundCall, SoundSlot, Call,
                                                           Working, Waiting, Crossed, Settled
  <2> HIDE DEF k
  <2> QED
    BY <2>1, <2>4, CallStep
<1>3. \/ call[c].attempts >= Limit(c) /\ Concludes(c, "RETRY_EXHAUSTED")
      \/ ~(call[c].attempts >= Limit(c))
  BY DEF RetryOrStop
<1>4. call[c].attempts >= Limit(c) \/ call[c].attempts < Limit(c)
  BY CallFacts DEF Limit, Call
<1> QED
  BY <1>1, <1>2, <1>3, <1>4 DEF RetryOrStop

\* A response, a failed exchange, an attempt that took too long, or the interrupt.
LEMMA AnswerStep ==
  ASSUME ReadsInv, NEW c \in Calls, Answer(c)
  PROVE  ReadsInv' /\ UNCHANGED Gate!gateVars
<1>1. call[c].stage = "await" /\ UNCHANGED <<gate, now, phase, admission, queue, drained>>
  BY DEF Answer
<1>2. CASE RetryOrStop(c)
  BY <1>1, <1>2, RetryStep
<1>3. ASSUME NEW why \in {"GOOD", "BAD", "DEADLINE"}, Concludes(c, why)
      PROVE  ReadsInv' /\ UNCHANGED Gate!gateVars
  BY <1>1, <1>3, ConcludesStep DEF Reason
<1>4. CASE call[c].interrupted /\ Concludes(c, "CANCELLED")
  BY <1>1, <1>4, ConcludesStep DEF Reason
<1> QED
  BY <1>2, <1>3, <1>4 DEF Answer

\* The delay before a retry.
LEMMA ResumeStep ==
  ASSUME ReadsInv, NEW c \in Calls, Resume(c)
  PROVE  ReadsInv' /\ UNCHANGED Gate!gateVars
<1>1. CASE call[c].interrupted /\ Concludes(c, "CANCELLED")
  BY <1>1, ConcludesStep DEF Resume, Reason
<1>2. CASE Goes(c, "attempt")
  <2> DEFINE k == [call[c] EXCEPT !.stage = "attempt"]
  <2>1. call' = [call EXCEPT ![c] = k]
    BY <1>2, Zenon DEF Goes
  <2>2. Moves(c, k)
    <3>1. /\ call[c] \in Call /\ SoundSlot(call[c]) /\ SoundAttempts(call[c]) /\ now \in Nat
          /\ call[c].stage = "pause"
      BY CallFacts DEF Resume
    <3>2. k \in Call
      BY <3>1 DEF Call, Stage, Working
    <3>3. SoundSlot(k)
      BY <3>1 DEF SoundSlot, Call, Working
    <3>4. SoundAttempts(k)
      BY <3>1 DEF SoundAttempts, Call, Working
    <3> QED
      BY <3>1, <3>2, <3>3, <3>4, CallFacts DEF Resume, Moves, SoundCall, SoundSlot, Call,
                                               Working, Waiting, Crossed, Settled
  <2> HIDE DEF k
  <2> QED
    BY <2>1, <2>2, CallStep DEF Resume
<1> QED
  BY <1>1, <1>2 DEF Resume

\* Whoever goes to tell the gate without having been cancelled has made an attempt.
LEMMA DecideStep ==
  ASSUME ReadsInv, NEW c \in Calls, Decide(c)
  PROVE  ReadsInv' /\ UNCHANGED Gate!gateVars
<1> DEFINE x == NoVerdict(c)
           k == [call[c] EXCEPT !.stage = "tell", !.cancelled = x]
<1>1. call' = [call EXCEPT ![c] = k]
  BY Zenon DEF Decide
<1>2. /\ x \in BOOLEAN /\ call[c].stage = "complete" /\ call[c].permit # NoPermit
      /\ ~x => /\ call[c].attempts # 0 /\ ~call[c].interrupted
               /\ call[c].result # "cancelled"
  BY DEF NoVerdict, Decide, Settles
<1> HIDE DEF x
<1>3. Moves(c, k)
  <2>1. call[c] \in Call /\ SoundSlot(call[c]) /\ SoundAttempts(call[c]) /\ now \in Nat
    BY CallFacts
  <2>2. k \in Call
    BY <1>2, <2>1 DEF Call, Stage, Working
  <2>3. SoundSlot(k)
    BY <1>2, <2>1 DEF SoundSlot, Call, Working
  <2>4. SoundAttempts(k)
    BY <1>2, <2>1 DEF SoundAttempts, Call, Working
  <2> QED
    BY <1>2, <2>1, <2>2, <2>3, <2>4, CallFacts DEF Decide, Moves, SoundCall, SoundSlot, Call,
                                                   Working, Waiting, Crossed, Settled
<1> HIDE DEF k
<1> QED
  BY <1>1, <1>3, CallStep DEF Decide

-----------------------------------------------------------------------------
(* The lines of tasks.                                                     *)

\* A task that joins the line waited outside it.
LEMMA LinedAppend ==
  ASSUME NEW calls, NEW calls_, NEW q, Lined(q, calls), NEW c \in Calls,
         calls[c].stage \notin Waiting, calls_[c].stage \in Waiting,
         \A b \in Calls \ {c} : calls_[b] = calls[b]
  PROVE  Lined(Append(q, c), calls_)
<1>1. q \in Seq(Calls) /\ \A i \in 1..Len(q) : q[i] \in Calls \ {c}
  BY DEF Lined
<1>2. /\ Append(q, c) \in Seq(Calls) /\ Len(Append(q, c)) = Len(q) + 1
      /\ \A i \in 1..Len(q) : Append(q, c)[i] = q[i]
      /\ Append(q, c)[Len(q) + 1] = c
  BY <1>1
<1>3. ASSUME NEW i \in 1..Len(Append(q, c))
      PROVE  i \in 1..Len(q) \/ i = Len(q) + 1
  BY <1>1, <1>2
<1>4. \A i \in 1..Len(Append(q, c)) : calls_[Append(q, c)[i]].stage \in Waiting
  BY <1>1, <1>2, <1>3 DEF Lined
<1>5. ASSUME NEW i \in 1..Len(Append(q, c)), NEW j \in 1..Len(Append(q, c)),
             Append(q, c)[i] = Append(q, c)[j]
      PROVE  i = j
  BY <1>1, <1>2, <1>3, <1>5 DEF Lined
<1> QED
  BY <1>2, <1>4, <1>5 DEF Lined

\* A task that leaves the line is not in it any more.
LEMMA LinedTail ==
  ASSUME NEW calls, NEW calls_, NEW q, Lined(q, calls), q # <<>>,
         \A b \in Calls \ {Head(q)} : calls_[b] = calls[b]
  PROVE  /\ Head(q) \in Calls /\ calls[Head(q)].stage \in Waiting
         /\ Lined(Tail(q), calls_)
<1>1. /\ q \in Seq(Calls) /\ Len(q) \in Nat \ {0} /\ Head(q) = q[1] /\ 1 \in 1..Len(q)
      /\ Tail(q) \in Seq(Calls) /\ Len(Tail(q)) = Len(q) - 1
      /\ \A i \in 1..Len(Tail(q)) : Tail(q)[i] = q[i + 1] /\ i + 1 \in 1..Len(q) /\ i + 1 # 1
  BY DEF Lined
<1>2. ASSUME NEW i \in 1..Len(Tail(q)) PROVE Tail(q)[i] \in Calls \ {Head(q)}
  <2>1. q[i + 1] # q[1]
    BY <1>1 DEF Lined
  <2> QED
    BY <1>1, <2>1
<1>3. \A i \in 1..Len(Tail(q)) : calls_[Tail(q)[i]].stage \in Waiting
  BY <1>1, <1>2 DEF Lined
<1>4. ASSUME NEW i \in 1..Len(Tail(q)), NEW j \in 1..Len(Tail(q)), Tail(q)[i] = Tail(q)[j]
      PROVE  i = j
  <2>1. i + 1 = j + 1
    BY <1>1, <1>4 DEF Lined
  <2> QED
    BY <1>1, <2>1
<1> QED
  BY <1>1, <1>3, <1>4 DEF Lined

\* The pool accepts a task.
LEMMA SubmitStep ==
  ASSUME ReadsInv, NEW c \in Calls, Submit(c)
  PROVE  ReadsInv' /\ UNCHANGED Gate!gateVars
<1> DEFINE k == [call[c] EXCEPT !.stage = "queued", !.result = "open"]
<1>1. call' = [call EXCEPT ![c] = k]
  BY Zenon DEF Submit
<1>2. /\ SoundCall(k) /\ k.stage = "queued" /\ k.slot = call[c].slot /\ k.slot \in BOOLEAN
      /\ k.permit = call[c].permit /\ c \notin Crossed /\ c \notin Settled
  <2>1. call[c] \in Call /\ SoundSlot(call[c]) /\ SoundAttempts(call[c]) /\ call[c].stage = "submit"
    BY CallFacts DEF Submit
  <2>2. k \in Call
    BY <2>1 DEF Call, Stage
  <2>3. SoundSlot(k) /\ SoundAttempts(k)
    BY <2>1 DEF SoundSlot, SoundAttempts, Call, Working
  <2>4. k.stage = "queued" /\ k.slot = call[c].slot /\ k.slot \in BOOLEAN /\ k.permit = call[c].permit
    BY <2>1 DEF Call
  <2>5. c \notin Crossed /\ c \notin Settled
    BY <2>1 DEF Crossed, Settled, Working
  <2> QED
    BY <2>2, <2>3, <2>4, <2>5 DEF SoundCall
<1> HIDE DEF k
<1>3. CallsInv' /\ SlotsInv'
  BY <1>1, <1>2, CallsStep, SlotsStep DEF Submit
<1>4. GateInv' /\ UNCHANGED Gate!gateVars
  BY <1>1, <1>2, GateStep DEF Submit
<1>5. LinesInv'
  <2>1. call'[c].stage \in Waiting /\ \A b \in Calls \ {c} : call'[b] = call[b]
    BY <1>1, <1>2, CallFacts DEF Waiting
  <2>2. Lined(queue', call')
    BY <2>1, LinedAppend DEF Submit, Waiting, ReadsInv, LinesInv
  <2>3. drained = <<>> /\ Lined(<<>>, call')
    BY DEF Submit, ReadsInv, LinesInv, Lined
  <2> QED
    BY <2>2, <2>3 DEF Submit, ReadsInv, LinesInv
<1> QED
  BY <1>3, <1>4, <1>5 DEF ReadsInv

\* A worker, or the closing thread, takes a task.
LEMMA TakenStep ==
  ASSUME ReadsInv, NEW c \in Calls, NEW runner \in {"pool", "closer"}, Taken(c, runner),
         call[c].stage \in Waiting, UNCHANGED <<gate, now, admission>>
  PROVE  /\ CallsInv' /\ SlotsInv' /\ GateInv' /\ UNCHANGED Gate!gateVars
         /\ \A b \in Calls \ {c} : call'[b] = call[b]
<1> DEFINE k == IF call[c].stage = "skipped"
                THEN [call[c] EXCEPT !.stage = "done", !.deadline = 0]
                ELSE [call[c] EXCEPT !.stage = "begun", !.runner = runner]
<1>1. call' = [call EXCEPT ![c] = k]
  <2>1. CASE call[c].stage = "skipped"
    BY <2>1, Zenon DEF Taken
  <2>2. CASE call[c].stage # "skipped"
    BY <2>2, Zenon DEF Taken
  <2> QED
    BY <2>1, <2>2
<1>2. /\ SoundCall(k) /\ k.slot = call[c].slot /\ k.slot \in BOOLEAN /\ k.permit = call[c].permit
      /\ c \notin Crossed /\ c \notin Settled
  <2>1. call[c] \in Call /\ SoundSlot(call[c]) /\ SoundAttempts(call[c])
    BY CallFacts
  <2>2. k \in Call
    BY <2>1 DEF Call, Stage
  <2>3. SoundSlot(k) /\ SoundAttempts(k)
    BY <2>1 DEF SoundSlot, SoundAttempts, Call, Working, Waiting
  <2>4. k.slot = call[c].slot /\ k.slot \in BOOLEAN /\ k.permit = call[c].permit
    BY <2>1 DEF Call
  <2>5. c \notin Crossed /\ c \notin Settled
    BY DEF Crossed, Settled, Working, Waiting
  <2> QED
    BY <2>2, <2>3, <2>4, <2>5 DEF SoundCall
<1> HIDE DEF k
<1> QED
  BY <1>1, <1>2, CallsStep, SlotsStep, GateStep, CallFacts

\* The same, with the line that the task comes from.
LEMMA BeginStep ==
  ASSUME ReadsInv, NEW c \in Calls, Begin(c) \/ BeginDrained(c)
  PROVE  ReadsInv' /\ UNCHANGED Gate!gateVars
<1>1. Lined(<<>>, call')
  BY DEF Lined
<1>2. CASE Begin(c)
  <2>1. /\ call[c].stage \in Waiting /\ Taken(c, "pool") /\ UNCHANGED <<gate, now, admission>>
        /\ drained = <<>> /\ phase # "shut"
    BY <1>2, LinedTail DEF Begin, ReadsInv, LinesInv
  <2>2. /\ CallsInv' /\ SlotsInv' /\ GateInv' /\ UNCHANGED Gate!gateVars
        /\ \A b \in Calls \ {c} : call'[b] = call[b]
    BY <2>1, TakenStep
  <2>3. Lined(queue', call')
    BY <1>2, <2>2, LinedTail DEF Begin, ReadsInv, LinesInv
  <2> QED
    BY <1>1, <1>2, <2>1, <2>2, <2>3 DEF Begin, ReadsInv, LinesInv
<1>3. CASE BeginDrained(c)
  <2>1. /\ call[c].stage \in Waiting /\ Taken(c, "closer") /\ UNCHANGED <<gate, now, admission>>
        /\ queue = <<>> /\ phase = "shut"
    BY <1>3, LinedTail DEF BeginDrained, ReadsInv, LinesInv
  <2>2. /\ CallsInv' /\ SlotsInv' /\ GateInv' /\ UNCHANGED Gate!gateVars
        /\ \A b \in Calls \ {c} : call'[b] = call[b]
    BY <2>1, TakenStep
  <2>3. Lined(drained', call')
    BY <1>3, <2>2, LinedTail DEF BeginDrained, ReadsInv, LinesInv
  <2> QED
    BY <1>1, <1>3, <2>1, <2>2, <2>3 DEF BeginDrained, ReadsInv, LinesInv
<1> QED
  BY <1>2, <1>3

-----------------------------------------------------------------------------
(* The gate.                                                               *)

\* A task enters the gate, or is turned away.
LEMMA EnterStep ==
  ASSUME ReadsInv, NEW c \in Calls, Enter(c)
  PROVE  ReadsInv' /\ [Gate!GateNext]_(Gate!gateVars)
<1>1. /\ call[c].stage = "enter" /\ call[c].permit = NoPermit
      /\ UNCHANGED <<now, phase, admission, queue, drained>>
  BY CallFacts DEF Enter, SoundAttempts
<1>2. CASE /\ Concludes(c, "CANCELLED") \/ Concludes(c, "CLOSED") \/ Concludes(c, "CIRCUIT_OPEN")
           /\ UNCHANGED gate
  <2>1. PICK why \in {"CANCELLED", "CLOSED", "CIRCUIT_OPEN"} : Concludes(c, why)
    BY <1>2
  <2> QED
    BY <1>1, <1>2, <2>1, ConcludesStep DEF Reason
<1>3. CASE /\ Gate!PermitFor(gate, now) # NoPermit /\ gate' = Gate!Entered(gate, now)
           /\ call' = [call EXCEPT ![c].stage = "attempt", ![c].permit = Gate!PermitFor(gate, now)]
  <2> DEFINE p == Gate!PermitFor(gate, now)
             k == [call[c] EXCEPT !.stage = "attempt", !.permit = p]
  <2>1. call' = [call EXCEPT ![c] = k]
    BY <1>3, Zenon
  <2>2. p \in Gate!Permit /\ p # NoPermit
    BY <1>3, CallFacts DEF Gate!PermitFor, Gate!Permit, Gate!Circuit
  <2>3. /\ gate.generation \in Nat /\ gate'.generation \in Nat
        /\ gate'.generation <= gate.generation + 1
    BY <1>3, CallFacts DEF Gate!Entered, Gate!GateOf, Gate!Circuit
  <2> HIDE DEF p
  <2>4. /\ SoundCall(k) /\ k.stage = "attempt" /\ k.slot = call[c].slot /\ k.slot \in BOOLEAN
        /\ k.permit = p /\ c \notin Crossed /\ c \notin Settled /\ call[c].stage \notin Waiting
    <3>1. call[c] \in Call /\ SoundSlot(call[c]) /\ SoundAttempts(call[c])
      BY CallFacts
    <3>2. k \in Call
      BY <2>2, <3>1 DEF Call, Stage, Working
    <3>3. SoundSlot(k)
      BY <1>1, <3>1 DEF SoundSlot, Call, Working
    <3>4. SoundAttempts(k)
      BY <1>1, <2>2, <3>1 DEF SoundAttempts, Call, Working
    <3>5. k.stage = "attempt" /\ k.slot = call[c].slot /\ k.slot \in BOOLEAN /\ k.permit = p
      BY <3>1 DEF Call
    <3>6. c \notin Crossed /\ c \notin Settled /\ call[c].stage \notin Waiting
      BY <1>1 DEF Crossed, Settled, Working, Waiting
    <3> QED
      BY <3>2, <3>3, <3>4, <3>5, <3>6 DEF SoundCall
  <2> HIDE DEF k
  <2>5. held[c] = NoPermit /\ held' = [held EXCEPT ![c] = p]
    BY <1>1, <2>1, <2>4, CallFacts DEF held
  <2>6. /\ Cardinality(Crossed) \in Nat /\ Cardinality(Settled) \in Nat
        /\ Cardinality(Crossed') = Cardinality(Crossed) + 1
        /\ Cardinality(Settled') \in Nat /\ Cardinality(Settled) <= Cardinality(Settled')
        /\ gate.generation <= Cardinality(Crossed) + Cardinality(Settled)
    BY <2>1, <2>4, Counts DEF Working, ReadsInv, GateInv
  <2>7. gate.generation < 2 * Cardinality(Calls) + 1
    <3>1. Crossed \in SUBSET Calls /\ Settled \in SUBSET Calls
      BY DEF Crossed, Settled
    <3>2. Cardinality(Calls) \in Nat
      BY FS_CardinalityType
    <3>3. Cardinality(Crossed) <= Cardinality(Calls) /\ Cardinality(Settled) <= Cardinality(Calls)
      BY <3>1, FS_Subset
    <3> QED
      BY <2>3, <2>6, <3>2, <3>3
  <2>8. Gate!EnterCircuit(c)
    BY <1>1, <1>3, <2>5, <2>7 DEF Gate!EnterCircuit, p
  <2>9. Gate!CircuitInv' /\ now' <= MaxClock
    BY <1>1, <2>8, EnterGate DEF ReadsInv, GateInv
  <2>10. gate'.generation <= Cardinality(Crossed') + Cardinality(Settled')
    BY <2>3, <2>6
  <2>11. CallsInv' /\ LinesInv' /\ SlotsInv'
    BY <1>1, <2>1, <2>4, CallsStep, LinesStep, SlotsStep
  <2> QED
    BY <2>8, <2>9, <2>10, <2>11 DEF ReadsInv, GateInv, Gate!GateNext
<1> QED
  BY <1>2, <1>3 DEF Enter

\* The gate hears how a task that it admitted has ended.
LEMMA CompleteStep ==
  ASSUME ReadsInv, NEW c \in Calls, Complete(c)
  PROVE  ReadsInv' /\ [Gate!GateNext]_(Gate!gateVars)
<1> DEFINE k == [call[c] EXCEPT !.stage = "release", !.attempts = 0, !.cancelled = FALSE,
                                !.permit = NoPermit, !.outcome = "none"]
<1>1. call' = [call EXCEPT ![c] = k]
  <2>1. CASE Settles(c)
    BY <2>1, Zenon DEF Complete
  <2>2. CASE ~Settles(c)
    <3>1. call[c].permit = NoPermit
      BY <2>2 DEF Settles
    <3> QED
      BY <2>2, <3>1, Zenon DEF Complete
  <2> QED
    BY <2>1, <2>2
<1>2. /\ SoundCall(k) /\ k.stage = "release" /\ k.slot = call[c].slot /\ k.slot \in BOOLEAN
      /\ k.permit = NoPermit /\ c \notin Settled /\ call[c].stage \notin Waiting
  <2>1. /\ call[c] \in Call /\ SoundSlot(call[c]) /\ SoundAttempts(call[c])
        /\ call[c].stage \in {"complete", "tell"}
    BY CallFacts DEF Complete
  <2>2. k \in Call
    <3>1. 0 \in 0..MaxAttempts
      OBVIOUS
    <3> QED
      BY <2>1, <3>1 DEF Call, Stage, Working
  <2>3. SoundSlot(k)
    BY <2>1 DEF SoundSlot, Call, Working
  <2>4. SoundAttempts(k)
    BY <2>1 DEF SoundAttempts, Call, Working
  <2>5. k.stage = "release" /\ k.slot = call[c].slot /\ k.slot \in BOOLEAN /\ k.permit = NoPermit
    BY <2>1 DEF Call
  <2>6. c \notin Settled /\ call[c].stage \notin Waiting
    BY <2>1 DEF Settled, Waiting
  <2> QED
    BY <2>2, <2>3, <2>4, <2>5, <2>6 DEF SoundCall
<1> HIDE DEF k
<1>3. CallsInv' /\ LinesInv' /\ SlotsInv'
  BY <1>1, <1>2, CallsStep, LinesStep, SlotsStep DEF Complete
<1>4. CASE ~Settles(c)
  <2>1. k.permit = call[c].permit /\ UNCHANGED <<gate, now>>
    BY <1>2, <1>4 DEF Settles, Complete
  <2> QED
    BY <1>1, <1>2, <1>3, <2>1, GateStep DEF ReadsInv, Working
<1>5. CASE Settles(c)
  <2> DEFINE f == call[c].outcome # "GOOD"
             x == call[c].cancelled
  <2>1. /\ call[c].permit # NoPermit /\ held[c] = call[c].permit /\ f \in BOOLEAN /\ x \in BOOLEAN
        /\ UNCHANGED now
    BY <1>5, CallFacts DEF Settles, Call, Complete
  <2>2. held' = [held EXCEPT ![c] = NoPermit]
    BY <1>1, <1>2, CallFacts DEF held
  <2>3. gate' = Gate!Completed(gate, held[c], f, x, now)
    BY <1>5, <2>1 DEF Complete, GateAfter
  <2> HIDE DEF f, x
  <2>4. Gate!CompleteCircuit(c, f, x)
    BY <2>1, <2>2, <2>3 DEF Gate!CompleteCircuit
  <2>5. Gate!Ends(c)
    BY <2>1, <2>4 DEF Gate!Ends
  <2>6. Gate!CircuitInv' /\ now' <= MaxClock
    BY <2>1, <2>5, CompleteGate DEF ReadsInv, GateInv
  <2>7. gate.generation \in Nat /\ gate'.generation <= gate.generation + 1 /\ gate'.generation \in Nat
    <3>1. /\ held[c] \in Gate!Permit /\ gate \in Gate!Circuit /\ now \in Nat /\ gate.failures < Threshold
          /\ gate.state # "CLOSED" => gate.failures = 0
          /\ gate.openedAt <= now
      BY <2>1, CallFacts DEF Call, ReadsInv, GateInv, Gate!CircuitInv
    <3>2. gate' \in Gate!Circuit /\ gate'.generation \in {gate.generation, gate.generation + 1}
      BY <2>1, <2>3, <3>1, Verdict
    <3> QED
      BY <3>1, <3>2 DEF Gate!Circuit
  <2>8. /\ Cardinality(Crossed) \in Nat /\ Cardinality(Settled) \in Nat
        /\ Cardinality(Crossed') \in Nat /\ Cardinality(Crossed) <= Cardinality(Crossed')
        /\ Cardinality(Settled') = Cardinality(Settled) + 1
        /\ gate.generation <= Cardinality(Crossed) + Cardinality(Settled)
    BY <1>1, <1>2, Counts DEF Working, ReadsInv, GateInv
  <2>9. gate'.generation <= Cardinality(Crossed') + Cardinality(Settled')
    BY <2>7, <2>8
  <2> QED
    BY <1>3, <2>5, <2>6, <2>9 DEF ReadsInv, GateInv, Gate!GateNext
<1> QED
  BY <1>4, <1>5

-----------------------------------------------------------------------------
(* The thread that closes the client, and the clock.                       *)

\* shutdownNow interrupts the pool's tasks and hands its line over.
LEMMA ShutdownStep ==
  ASSUME ReadsInv, Shutdown
  PROVE  ReadsInv' /\ UNCHANGED Gate!gateVars
<1>1. ASSUME NEW c \in Calls
      PROVE  /\ SoundCall(call'[c]) /\ call'[c].stage = call[c].stage /\ call'[c].slot = call[c].slot
             /\ call'[c].permit = call[c].permit
  <2> DEFINE i == call[c].interrupted \/ c \in RunBy("pool")
             k == [call[c] EXCEPT !.interrupted = i]
  <2>1. call'[c] = k
    BY DEF Shutdown
  <2>2. call[c] \in Call /\ SoundSlot(call[c]) /\ SoundAttempts(call[c])
    BY CallFacts
  <2>3. i \in BOOLEAN /\ (call[c].interrupted => i)
    BY <2>2 DEF Call
  <2> HIDE DEF i
  <2>4. k \in Call
    BY <2>2, <2>3 DEF Call
  <2>5. SoundSlot(k)
    BY <2>2 DEF SoundSlot, Call
  <2>6. SoundAttempts(k)
    BY <2>2, <2>3 DEF SoundAttempts, Call
  <2>7. k.stage = call[c].stage /\ k.slot = call[c].slot /\ k.permit = call[c].permit
    BY <2>2 DEF Call
  <2> HIDE DEF k
  <2> QED
    BY <2>1, <2>4, <2>5, <2>6, <2>7 DEF SoundCall
<1>2. CallsInv'
  <2>1. call' = [c \in Calls |-> call'[c]]
    BY DEF Shutdown
  <2> QED
    BY <1>1, <2>1 DEF CallsInv, SoundCall
<1>3. Slots' = Slots /\ Crossed' = Crossed /\ Settled' = Settled /\ held' = held
  BY <1>1 DEF Slots, Crossed, Settled, held
<1>4. LinesInv'
  <2>1. Lined(queue, call') /\ Lined(<<>>, call')
    BY <1>1 DEF ReadsInv, LinesInv, Lined
  <2> QED
    BY <2>1 DEF Shutdown, HandedOver, LinesInv
<1>5. SlotsInv'
  BY <1>3 DEF Shutdown, ReadsInv, SlotsInv
<1>6. GateInv' /\ UNCHANGED Gate!gateVars
  <2>1. UNCHANGED Gate!gateVars
    BY <1>3 DEF Shutdown, Gate!gateVars
  <2>2. Gate!CircuitInv'
    BY <2>1 DEF ReadsInv, GateInv, Gate!gateVars, Gate!CircuitInv, Gate!GateTypeOK, Gate!OneProbe,
                Gate!Current
  <2> QED
    BY <1>3, <2>1, <2>2 DEF Shutdown, ReadsInv, GateInv, Gate!gateVars
<1> QED
  BY <1>2, <1>4, <1>5, <1>6 DEF ReadsInv

\* closed is set, or time passes, or nothing happens.
LEMMA OtherStep ==
  ASSUME ReadsInv, SetClosed \/ Tick \/ UNCHANGED vars
  PROVE  ReadsInv' /\ [Gate!GateNext]_(Gate!gateVars)
<1>1. UNCHANGED <<gate, admission, queue, drained, call>> /\ held' = held
  BY DEF SetClosed, Tick, vars, held
<1>2. CallsInv' /\ SlotsInv'
  BY <1>1 DEF ReadsInv, CallsInv, SlotsInv, Slots
<1>3. LinesInv'
  BY <1>1 DEF SetClosed, Tick, vars, ReadsInv, LinesInv
<1>4. CASE Tick
  <2>1. Gate!GateTick
    BY <1>1, <1>4 DEF Tick, Gate!GateTick
  <2>2. Gate!CircuitInv' /\ now' <= MaxClock
    BY <1>4, <2>1, TickGate DEF Tick, ReadsInv, GateInv, Gate!CircuitInv, Gate!GateTypeOK
  <2> QED
    BY <1>1, <1>2, <1>3, <2>1, <2>2 DEF ReadsInv, GateInv, Gate!GateNext, Crossed, Settled
<1>5. CASE now' = now
  <2>1. UNCHANGED Gate!gateVars
    BY <1>1, <1>5 DEF Gate!gateVars
  <2>2. Gate!CircuitInv'
    BY <2>1 DEF ReadsInv, GateInv, Gate!gateVars, Gate!CircuitInv, Gate!GateTypeOK, Gate!OneProbe,
                Gate!Current
  <2> QED
    BY <1>1, <1>2, <1>3, <1>5, <2>1, <2>2 DEF ReadsInv, GateInv, Crossed, Settled
<1> QED
  BY <1>4, <1>5 DEF SetClosed, vars

-----------------------------------------------------------------------------
(* The theorems.                                                           *)

\* No call has been made, and the gate is new.
LEMMA InitReads == Init => ReadsInv /\ Gate!GateInit
<1> SUFFICES ASSUME Init PROVE ReadsInv /\ Gate!GateInit
  OBVIOUS
<1>1. SoundCall(NewCall)
  <2>1. NewCall \in Call
    BY DEF NewCall, Call, Stage
  <2> QED
    BY <2>1 DEF SoundCall, SoundSlot, SoundAttempts, NewCall, Working
<1>2. CallsInv
  BY <1>1 DEF Init, CallsInv, SoundCall
<1>3. LinesInv
  BY DEF Init, LinesInv, Lined
<1>4. SlotsInv
  <2>1. Slots = {}
    BY DEF Init, Slots, NewCall
  <2>2. Cardinality(Slots) = 0
    BY <2>1, FS_EmptySet
  <2> QED
    BY <2>2 DEF Init, SlotsInv
<1>5. Gate!GateInit
  BY DEF Init, Gate!GateInit, held, NewCall
<1>6. Gate!CircuitInv /\ gate.generation = 0
  BY <1>5, InitGate DEF Gate!GateInit, Gate!NewGate, Gate!GateOf
<1>7. Crossed = {} /\ Settled = {} /\ Cardinality({}) = 0
  BY FS_EmptySet DEF Init, Crossed, Settled, NewCall, Working
<1> QED
  BY <1>2, <1>3, <1>4, <1>5, <1>6, <1>7 DEF Init, ReadsInv, GateInv

\* Every step keeps the invariant, and is one of the gate's or unknown to it.
LEMMA StepReads ==
  ASSUME ReadsInv, [Next]_vars
  PROVE  ReadsInv' /\ [Gate!GateNext]_(Gate!gateVars)
<1>1. ASSUME NEW c \in Calls, Execute(c) \/ Cancel(c) \/ CallerStep(c) \/ CancelStep(c)
      PROVE  ReadsInv' /\ UNCHANGED Gate!gateVars
  BY <1>1, ExecuteStep, CancelStepSafe, SubmitStep, RejectStep, CancelWorkStep, CancelReleaseStep
     DEF CallerStep, CancelStep
<1>2. ASSUME NEW c \in Calls, Begin(c) \/ BeginDrained(c) \/ Start(c) \/ Attempt(c) \/ Answer(c)
                               \/ Resume(c) \/ Decide(c) \/ Release(c) \/ Publish(c)
      PROVE  ReadsInv' /\ UNCHANGED Gate!gateVars
  BY <1>2, BeginStep, StartStep, AttemptStep, AnswerStep, ResumeStep, DecideStep, ReleaseStep,
     PublishStep
<1>3. ASSUME NEW c \in Calls, Enter(c) \/ Complete(c)
      PROVE  ReadsInv' /\ [Gate!GateNext]_(Gate!gateVars)
  BY <1>3, EnterStep, CompleteStep
<1>4. ASSUME NEW c \in Calls, TaskStep(c) PROVE ReadsInv' /\ [Gate!GateNext]_(Gate!gateVars)
  BY <1>2, <1>3, <1>4 DEF TaskStep
<1>5. CASE Shutdown
  BY <1>5, ShutdownStep
<1>6. CASE SetClosed \/ Tick \/ UNCHANGED vars
  BY <1>6, OtherStep
<1> QED
  BY <1>1, <1>4, <1>5, <1>6 DEF Next

\* The invariant of ReliableReads, for any calls, capacities, policies and bounds.
THEOREM ReadsSafe == Spec => []ReadsInv
<1> QED
  BY InitReads, StepReads, PTL DEF Spec

\* A slot is held as long as its call may use the dependency, and is returned once: for any
\* number of calls, whichever of its four threads gets there first.
THEOREM SlotsFollow == Spec => []SlotsFollowCalls
<1>1. ReadsInv => SlotsFollowCalls
  <2> SUFFICES ASSUME ReadsInv PROVE SlotsFollowCalls
    OBVIOUS
  <2>1. TypeOK
    BY DEF ReadsInv, CallsInv, LinesInv, Lined, SlotsInv, GateInv, Gate!CircuitInv, Gate!GateTypeOK,
           TypeOK
  <2>2. admission + Cardinality({c \in Calls : call[c].slot}) = Capacity
    BY DEF ReadsInv, SlotsInv, Slots
  <2> QED
    BY <2>1, <2>2, CallFacts DEF SlotsFollowCalls, SoundSlot
<1> QED
  BY <1>1, ReadsSafe, PTL

\* A half-open gate sends one request, whatever became of the calls it admitted before.
THEOREM OneProbeIsSent == Spec => []HalfOpenSendsOneProbe
<1>1. ReadsInv => HalfOpenSendsOneProbe
  <2> SUFFICES ASSUME ReadsInv, gate.state = "HALF_OPEN"
               PROVE \E c \in Calls :
                       /\ call[c].permit # NoPermit /\ call[c].permit.probe
                       /\ call[c].permit.generation = gate.generation
                       /\ call[c].attempts <= 1
                       /\ \A b \in Calls \ {c} : call[b].permit # NoPermit =>
                            call[b].permit.generation < gate.generation
    BY DEF HalfOpenSendsOneProbe
  <2>1. PICK c \in Calls : /\ Gate!Current(c) /\ held[c].probe
                           /\ \A b \in Calls \ {c} : ~Gate!Current(b)
    BY DEF ReadsInv, GateInv, Gate!CircuitInv, Gate!OneProbe
  <2>2. /\ call[c].permit # NoPermit /\ call[c].permit.probe
        /\ call[c].permit.generation = gate.generation /\ call[c].attempts <= 1
    BY <2>1, CallFacts DEF Gate!Current, SoundAttempts
  <2>3. ASSUME NEW b \in Calls \ {c}, call[b].permit # NoPermit
        PROVE  call[b].permit.generation < gate.generation
    <3>1. held[b] = call[b].permit /\ held[b] \in Gate!Permit /\ gate \in Gate!Circuit
      BY <2>3, CallFacts DEF Call
    <3>2. held[b].generation <= gate.generation /\ held[b].generation # gate.generation
      BY <2>1, <2>3, <3>1 DEF Gate!Current, ReadsInv, GateInv, Gate!CircuitInv
    <3> QED
      BY <3>1, <3>2 DEF Gate!Permit, Gate!Circuit
  <2> QED
    BY <2>2, <2>3
<1> QED
  BY <1>1, ReadsSafe, PTL

\* What a completion does to the gate, by the call whose task completes.
LEMMA TellsGate ==
  ASSUME ReadsInv, NEW c \in Calls, Complete(c), Settles(c)
  PROVE  /\ Tells(c) /\ call[c].outcome # "none" /\ gate \in Gate!Circuit
         /\ gate'.failures > gate.failures \/ (gate.state = "CLOSED" /\ gate'.state = "OPEN") =>
              ~call[c].cancelled /\ call[c].outcome # "GOOD"
         /\ gate.state = "HALF_OPEN" /\ gate'.state = "CLOSED" =>
              /\ ~call[c].cancelled /\ call[c].outcome = "GOOD"
              /\ call[c].permit.generation = gate.generation
         /\ gate.state = "CLOSED" /\ gate'.state = "CLOSED" /\ gate'.failures < gate.failures =>
              ~call[c].cancelled /\ call[c].outcome = "GOOD"
         /\ gate.state = "HALF_OPEN" /\ call[c].permit.generation = gate.generation
              /\ call[c].cancelled => gate'.state = "OPEN"
<1> DEFINE f == call[c].outcome # "GOOD"
           x == call[c].cancelled
<1>1. /\ call[c] \in Call /\ SoundAttempts(call[c]) /\ call \in [Calls -> Call]
      /\ gate \in Gate!Circuit /\ now \in Nat /\ gate.failures < Threshold
      /\ gate.state # "CLOSED" => gate.failures = 0
      /\ gate.openedAt <= now
  BY CallFacts DEF ReadsInv, GateInv, Gate!CircuitInv
<1>2. /\ call[c].stage = "tell" /\ call'[c].stage = "release"
      /\ gate' = Gate!Completed(gate, call[c].permit, f, x, now)
  BY <1>1 DEF Complete, GateAfter
<1>3. call[c].permit \in Gate!Permit /\ f \in BOOLEAN /\ x \in BOOLEAN
  BY <1>1 DEF Settles, Call
<1> HIDE DEF f, x
<1>4. /\ gate'.failures > gate.failures => f /\ ~x
      /\ gate.state = "CLOSED" /\ gate'.state = "OPEN" => f /\ ~x
      /\ gate.state = "HALF_OPEN" /\ gate'.state = "CLOSED" =>
           ~f /\ ~x /\ call[c].permit.generation = gate.generation
      /\ gate.state = "CLOSED" /\ gate'.state = "CLOSED" /\ gate'.failures < gate.failures => ~f /\ ~x
      /\ gate.state = "HALF_OPEN" /\ call[c].permit.generation = gate.generation /\ x =>
           gate'.state = "OPEN"
  BY <1>1, <1>2, <1>3, Verdict
<1> QED
  BY <1>1, <1>2, <1>4 DEF f, x, Tells, SoundAttempts

\* Nothing else moves the gate than entering it and a completion.
LEMMA MovesOfGate ==
  ASSUME ReadsInv, [Next]_vars, gate' # gate
  PROVE  \/ \E c \in Calls : Complete(c) /\ Settles(c)
         \/ gate'.failures = gate.failures /\ gate'.state = "HALF_OPEN" /\ gate.state # "HALF_OPEN"
<1>1. ASSUME NEW c \in Calls, Enter(c)
      PROVE  gate'.failures = gate.failures /\ gate'.state = "HALF_OPEN" /\ gate.state # "HALF_OPEN"
  <2>1. gate' = Gate!Entered(gate, now) /\ Gate!PermitFor(gate, now) # NoPermit
    BY <1>1 DEF Enter
  <2> QED
    BY <2>1 DEF Gate!Entered, Gate!PermitFor, Gate!GateOf
<1>2. (\E c \in Calls : Enter(c)) \/ (\E c \in Calls : Complete(c))
  BY DEF Next, vars, Execute, Cancel, CallerStep, Submit, Reject, CancelStep, CancelWork,
         CancelRelease, TaskStep, Begin, BeginDrained, Start, Attempt, Answer, Resume, Decide,
         Release, Publish, SetClosed, Shutdown, Tick
<1>3. ASSUME NEW c \in Calls, Complete(c) PROVE Settles(c)
  BY <1>3 DEF Complete
<1> QED
  BY <1>1, <1>2, <1>3

\* A step of one call leaves the others alone.
LEMMA OthersStay ==
  ASSUME ReadsInv, NEW b \in Calls, NEW c \in Calls, b # c,
         Execute(b) \/ Cancel(b) \/ CallerStep(b) \/ CancelStep(b) \/ TaskStep(b)
  PROVE  call'[c] = call[c]
<1>1. call \in [Calls -> Call]
  BY CallFacts
<1>2. CASE Execute(b) \/ Cancel(b) \/ Submit(b) \/ Reject(b) \/ CancelWork(b) \/ CancelRelease(b)
  BY <1>1, <1>2 DEF Execute, Cancel, Submit, Reject, CancelWork, CancelRelease
<1>3. CASE Begin(b) \/ BeginDrained(b) \/ Start(b) \/ Decide(b) \/ Complete(b) \/ Release(b) \/ Publish(b)
  BY <1>1, <1>3 DEF Begin, BeginDrained, Taken, Start, Decide, Complete, Release, Publish
<1>4. CASE Enter(b) \/ Attempt(b) \/ Answer(b) \/ Resume(b)
  <2>1. ASSUME NEW why, Concludes(b, why) PROVE call'[c] = call[c]
    BY <1>1, <2>1 DEF Concludes
  <2>2. RetryOrStop(b) => call'[c] = call[c]
    BY <1>1, <2>1 DEF RetryOrStop
  <2> QED
    BY <1>1, <1>4, <2>1, <2>2 DEF Enter, Attempt, Answer, Resume, Goes
<1> QED
  BY <1>2, <1>3, <1>4 DEF CallerStep, CancelStep, TaskStep

\* Only the task's own last block leads on from the end of its attempts.
LEMMA LateStages ==
  ASSUME ReadsInv, [Next]_vars, NEW c \in Calls, call[c].stage \in {"complete", "tell"},
         call'[c].stage # call[c].stage
  PROVE  Decide(c) \/ Complete(c)
<1>1. call \in [Calls -> Call]
  BY CallFacts
<1>2. ~(SetClosed \/ Tick \/ UNCHANGED vars)
  BY DEF SetClosed, Tick, vars
<1>3. ~Shutdown
  BY <1>1 DEF Shutdown, Call
<1>4. Execute(c) \/ Cancel(c) \/ CallerStep(c) \/ CancelStep(c) \/ TaskStep(c)
  BY <1>2, <1>3, OthersStay DEF Next
<1>5. ~Execute(c) /\ ~Submit(c) /\ ~Reject(c)
  BY DEF Execute, Submit, Reject
<1>6. ~Cancel(c) /\ ~CancelWork(c) /\ ~CancelRelease(c)
  BY <1>1 DEF Cancel, CancelWork, CancelRelease, Call
<1>7. ~Begin(c) /\ ~BeginDrained(c)
  BY LinedTail DEF Begin, BeginDrained, ReadsInv, LinesInv, Waiting
<1>8. /\ ~Start(c) /\ ~Enter(c) /\ ~Attempt(c) /\ ~Answer(c) /\ ~Resume(c)
      /\ ~Release(c) /\ ~Publish(c)
  BY DEF Start, Enter, Attempt, Answer, Resume, Release, Publish
<1> QED
  BY <1>4, <1>5, <1>6, <1>7, <1>8 DEF CallerStep, CancelStep, TaskStep

\* A call whose client has cancelled it, or whose thread was interrupted, when its task looks
\* counts neither for nor against the dependency, however its attempts ended, and as a probe
\* it opens the gate again; nor does one that never reached the dependency count.
THEOREM AttemptsCount == Spec => OnlyAttemptsCount
<1> DEFINE A == \A c \in Calls : Looks(c) /\ (call[c].result = "cancelled" \/ call[c].interrupted)
                                   => call'[c].cancelled
           B == MovesAgainst => \E c \in Calls : /\ Tells(c) /\ ~call[c].cancelled
                                                 /\ call[c].attempts > 0 /\ call[c].outcome \in Failure
           C == Recloses \/ Forgives => \E c \in Calls :
                  /\ Tells(c) /\ ~call[c].cancelled /\ (Recloses => call[c].permit.probe)
                  /\ call[c].attempts > 0 /\ call[c].outcome = "GOOD"
           D == \A c \in Calls : Tells(c) /\ call[c].cancelled /\ gate.state = "HALF_OPEN"
                     /\ call[c].permit.generation = gate.generation => gate'.state = "OPEN"
<1>1. ASSUME ReadsInv, NEW c \in Calls, Tells(c), ~call[c].cancelled
      PROVE  /\ call[c].attempts > 0
             /\ call[c].outcome \in {"GOOD"} \cup Failure
  BY <1>1, CallFacts DEF Tells, SoundAttempts, Call, Reason, Failure
<1>2. ASSUME ReadsInv, [Next]_vars PROVE A
  <2> SUFFICES ASSUME NEW c \in Calls, Looks(c), call[c].result = "cancelled" \/ call[c].interrupted
               PROVE  call'[c].cancelled
    OBVIOUS
  <2>1. Decide(c)
    <3>1. ~Complete(c)
      BY <1>2, CallFacts DEF Complete, Looks, Call
    <3> QED
      BY <1>2, <3>1, LateStages DEF Looks
  <2> QED
    BY <1>2, <2>1, CallFacts DEF Decide, NoVerdict, Call
<1>3. ASSUME ReadsInv, [Next]_vars PROVE B
  <2> SUFFICES ASSUME MovesAgainst
               PROVE \E c \in Calls : /\ Tells(c) /\ ~call[c].cancelled
                                      /\ call[c].attempts > 0 /\ call[c].outcome \in Failure
    OBVIOUS
  <2>1. gate.failures \in Nat /\ gate.state \in Gate!State
    BY <1>3 DEF ReadsInv, GateInv, Gate!CircuitInv, Gate!GateTypeOK, Gate!Circuit
  <2>2. gate' # gate /\ ~(gate'.failures = gate.failures /\ gate'.state = "HALF_OPEN")
    BY <2>1 DEF MovesAgainst
  <2>3. PICK c \in Calls : Complete(c) /\ Settles(c)
    BY <1>3, <2>2, MovesOfGate
  <2>4. Tells(c) /\ ~call[c].cancelled /\ call[c].outcome # "GOOD"
    BY <1>3, <2>3, TellsGate DEF MovesAgainst
  <2> QED
    BY <1>1, <1>3, <2>4
<1>4. ASSUME ReadsInv, [Next]_vars PROVE C
  <2> SUFFICES ASSUME Recloses \/ Forgives
               PROVE \E c \in Calls : /\ Tells(c) /\ ~call[c].cancelled
                                      /\ Recloses => call[c].permit.probe
                                      /\ call[c].attempts > 0 /\ call[c].outcome = "GOOD"
    OBVIOUS
  <2>0. gate.failures \in Nat
    BY <1>4 DEF ReadsInv, GateInv, Gate!CircuitInv, Gate!GateTypeOK, Gate!Circuit
  <2>1. PICK c \in Calls : Complete(c) /\ Settles(c)
    BY <1>4, <2>0, MovesOfGate DEF Recloses, Forgives
  <2>2. /\ Tells(c) /\ ~call[c].cancelled /\ call[c].outcome = "GOOD"
        /\ Recloses => call[c].permit.generation = gate.generation
    BY <1>4, <2>1, TellsGate DEF Recloses, Forgives
  <2>3. ASSUME Recloses PROVE call[c].permit.probe
    <3>1. Gate!Current(c) /\ held[c] = call[c].permit
      BY <1>4, <2>1, <2>2, <2>3, CallFacts DEF Gate!Current, Settles
    <3> QED
      BY <1>4, <2>3, <3>1 DEF Recloses, ReadsInv, GateInv, Gate!CircuitInv, Gate!OneProbe
  <2> QED
    BY <1>1, <1>4, <2>2, <2>3
<1>5. ASSUME ReadsInv, [Next]_vars PROVE D
  <2> SUFFICES ASSUME NEW c \in Calls, Tells(c), call[c].cancelled, gate.state = "HALF_OPEN",
                      call[c].permit.generation = gate.generation
               PROVE  gate'.state = "OPEN"
    OBVIOUS
  <2>1. Complete(c)
    BY <1>5, LateStages DEF Tells, Decide
  <2>2. Settles(c)
    BY <1>5, CallFacts DEF Tells, Settles, SoundAttempts
  <2> QED
    BY <1>5, <2>1, <2>2, TellsGate
<1> HIDE DEF A, B, C, D
<1>6. ReadsInv /\ [Next]_vars => [A /\ B /\ C /\ D]_vars
  BY <1>2, <1>3, <1>4, <1>5
<1> QED
  BY <1>6, ReadsSafe, PTL DEF Spec, OnlyAttemptsCount, A, B, C, D

\* The calls use the gate as CircuitGate's own specification has it.
THEOREM GateIsUsed == Spec => UsesGate
<1> QED
  BY InitReads, StepReads, ReadsSafe, PTL DEF Spec, UsesGate, Gate!GateSpec
-----------------------------------------------------------------------------
(* The breaker by itself, among any callers: CircuitGate's own invariant,  *)
(* and that its generation numbers implement episodes.                     *)
(*                                                                         *)
(* The argument.  A verdict either leaves the gate alone, changes only the *)
(* failure count, or starts a generation no permit has yet; so after every *)
(* change of state the set of callers with a vote is empty, and it is the  *)
(* probe alone after a half opening.                                       *)

USE GateAssumption, PermitAssumption

\* What a completion can do to a gate: nothing, count, open or close.
LEMMA BreakerVerdict ==
  ASSUME NEW g \in Circuit, NEW p \in Permit, NEW f \in BOOLEAN, NEW x \in BOOLEAN,
         NEW t \in Nat, g.failures < FailureThreshold, g.state # "CLOSED" => g.failures = 0,
         g.openedAt <= t
  PROVE  LET h == Completed(g, p, f, x, t)
         IN  /\ h \in Circuit
             /\ h.failures < FailureThreshold
             /\ h.state # "CLOSED" => h.failures = 0
             /\ h.openedAt <= t
             /\ \/ h = g
                \/ /\ p.generation = g.generation
                   /\ g.state = "CLOSED" /\ h.state = "CLOSED"
                   /\ h.generation = g.generation /\ h.openedAt = g.openedAt
                   /\ h.failures = 0 \/ (h.failures = g.failures + 1 /\ g.failures + 1 < FailureThreshold)
                \/ /\ p.generation = g.generation
                   /\ g.state = "HALF_OPEN" \/ (g.state = "CLOSED" /\ g.failures + 1 >= FailureThreshold)
                   /\ h.state = "OPEN" /\ h.failures = 0
                   /\ h.generation = g.generation + 1 /\ h.openedAt = t
                \/ /\ p.generation = g.generation
                   /\ g.state = "HALF_OPEN"
                   /\ h.state = "CLOSED" /\ h.failures = 0
                   /\ h.generation = g.generation + 1 /\ h.openedAt = g.openedAt
PROOF
  BY DEF Completed, ProbeVerdict, ClosedVerdict, Opened,
         Reclosed, Counted, GateOf, Circuit, State,
         Permit
-----------------------------------------------------------------------------
(* The inductive invariant.                                                *)

\* A new gate is closed and nobody holds a permit.
LEMMA BreakerStart == GateInit => CircuitInv
PROOF
  BY DEF GateInit, CircuitInv, GateTypeOK, OneProbe, Current,
         NewGate, GateOf, Circuit, State

\* Entering a closed gate adds a voter; entering a cooled one makes the caller the only
\* voter, for no permit carries the generation that the gate moves to.
LEMMA BreakerEnters ==
  ASSUME CircuitInv, NEW c \in Callers, EnterCircuit(c)
  PROVE  CircuitInv'
PROOF
<1> DEFINE permit == PermitFor(circuit, ticker)
<1>1. /\ circuit \in Circuit /\ permits \in [Callers -> Permit \cup {Refused}] /\ ticker \in Nat
      /\ permits[c] = Refused /\ permit # Refused
      /\ permits' = [permits EXCEPT ![c] = permit] /\ ticker' = ticker
      /\ circuit' = Entered(circuit, ticker)
  BY DEF CircuitInv, GateTypeOK, EnterCircuit
<1>2. CASE circuit.state = "CLOSED"
  <2>1. circuit' = circuit /\ permit = [generation |-> circuit.generation, probe |-> FALSE]
    BY <1>1, <1>2 DEF Entered, PermitFor
  <2>2. permit \in Permit
    BY <1>1, <2>1 DEF Circuit, Permit
  <2> QED
    BY <1>1, <1>2, <2>1, <2>2 DEF CircuitInv, GateTypeOK, OneProbe,
                                  Current, Circuit, Permit
<1>3. CASE circuit.state # "CLOSED"
  <2>1. /\ circuit.state = "OPEN"
        /\ permit = [generation |-> circuit.generation + 1, probe |-> TRUE]
        /\ circuit' = [state |-> "HALF_OPEN", failures |-> circuit.failures,
                    generation |-> circuit.generation + 1, openedAt |-> circuit.openedAt]
    BY <1>1, <1>3 DEF Entered, PermitFor, GateOf
  <2>2. permit \in Permit /\ circuit' \in Circuit
    BY <1>1, <2>1 DEF Circuit, Permit, State
  <2>3. \A b \in Callers \ {c} : ~Current(b)'
    BY <1>1, <2>1 DEF CircuitInv, Current, Circuit, Permit
  <2> QED
    BY <1>1, <1>3, <2>1, <2>2, <2>3 DEF CircuitInv, GateTypeOK, OneProbe,
                                        Current, Circuit, Permit
<1> QED
  BY <1>2, <1>3

\* A completion that changes the state leaves no voter behind.
LEMMA BreakerCompletes ==
  ASSUME CircuitInv, NEW c \in Callers, Ends(c)
  PROVE  CircuitInv'
PROOF
<1>1. PICK f \in BOOLEAN, x \in BOOLEAN : CompleteCircuit(c, f, x)
  BY DEF Ends
<1> DEFINE h == Completed(circuit, permits[c], f, x, ticker)
<1>2. /\ circuit \in Circuit /\ permits \in [Callers -> Permit \cup {Refused}] /\ ticker \in Nat
      /\ permits[c] # Refused /\ permits[c] \in Permit
      /\ permits' = [permits EXCEPT ![c] = Refused] /\ ticker' = ticker /\ circuit' = h
  BY <1>1 DEF CircuitInv, GateTypeOK, CompleteCircuit
<1>3. \A b \in Callers : Current(b)' => b # c /\ permits'[b] = permits[b] /\ permits[b] \in Permit
  BY <1>2 DEF Current
<1>4. /\ h \in Circuit /\ h.failures < FailureThreshold
      /\ h.state # "CLOSED" => h.failures = 0
      /\ h.openedAt <= ticker
      /\ \/ h.generation = circuit.generation /\ h.state = circuit.state
            /\ (permits[c].generation = circuit.generation => circuit.state # "HALF_OPEN")
         \/ h.generation = circuit.generation + 1 /\ h.state \in {"OPEN", "CLOSED"}
  <2>1. circuit.state # "HALF_OPEN" \/ permits[c].generation # circuit.generation \/ h # circuit
    BY <1>2 DEF Completed, ProbeVerdict, Opened, Reclosed,
                GateOf, Circuit, Permit
  <2>2. /\ circuit.failures < FailureThreshold /\ circuit.openedAt <= ticker
        /\ circuit.state # "CLOSED" => circuit.failures = 0
    BY DEF CircuitInv
  <2>3. /\ h \in Circuit /\ h.failures < FailureThreshold
        /\ h.state # "CLOSED" => h.failures = 0
        /\ h.openedAt <= ticker
        /\ \/ h = circuit
           \/ circuit.state = "CLOSED" /\ h.state = "CLOSED" /\ h.generation = circuit.generation
           \/ h.state = "OPEN" /\ h.generation = circuit.generation + 1
           \/ h.state = "CLOSED" /\ h.generation = circuit.generation + 1
    <3> HIDE DEF h
    <3>1. h = Completed(circuit, permits[c], f, x, ticker)
      BY DEF h
    <3> QED
      BY <1>2, <2>2, <3>1, BreakerVerdict
  <2> HIDE DEF h
  <2> QED
    BY <2>1, <2>3
<1> HIDE DEF h
<1>5. CASE /\ h.generation = circuit.generation /\ h.state = circuit.state
           /\ permits[c].generation = circuit.generation => circuit.state # "HALF_OPEN"
  <2>1. \A b \in Callers : Current(b)' <=> (b # c /\ Current(b))
    BY <1>2, <1>5 DEF Current
  <2>2. circuit.state = "HALF_OPEN" => ~Current(c)
    BY <1>5 DEF Current
  <2>3. OneProbe'
    BY <1>2, <1>3, <1>5, <2>1, <2>2 DEF CircuitInv, OneProbe
  <2> QED
    BY <1>2, <1>4, <1>5, <2>3 DEF CircuitInv, GateTypeOK
<1>6. CASE h.generation = circuit.generation + 1 /\ h.state \in {"OPEN", "CLOSED"}
  <2>1. \A b \in Callers : ~Current(b)'
    BY <1>2, <1>3, <1>6 DEF CircuitInv, Current, Circuit, Permit
  <2>2. OneProbe'
    BY <1>2, <1>6, <2>1 DEF OneProbe
  <2>3. \A b \in Callers : permits'[b] # Refused => permits'[b].generation <= h.generation
    BY <1>2, <1>6 DEF CircuitInv, Circuit, Permit
  <2> QED
    BY <1>2, <1>4, <2>2, <2>3 DEF CircuitInv, GateTypeOK
<1> QED
  BY <1>4, <1>5, <1>6

\* Time changes nobody's permit.
LEMMA BreakerTicks == CircuitInv /\ GateTick => CircuitInv'
PROOF
  BY DEF CircuitInv, GateTypeOK, OneProbe, Current, GateTick,
         Circuit

\* Every step keeps the invariant.
LEMMA BreakerStep == CircuitInv /\ [GateNext]_(gateVars) => CircuitInv'
PROOF
<1> SUFFICES ASSUME CircuitInv, [GateNext]_(gateVars) PROVE CircuitInv'
  OBVIOUS
<1>1. CASE GateTick
  BY <1>1, BreakerTicks
<1>2. ASSUME NEW c \in Callers, EnterCircuit(c) PROVE CircuitInv'
  BY <1>2, BreakerEnters
<1>3. ASSUME NEW c \in Callers, Ends(c) PROVE CircuitInv'
  BY <1>3, BreakerCompletes
<1>4. CASE UNCHANGED gateVars
  BY <1>4 DEF CircuitInv, GateTypeOK, OneProbe, Current, gateVars
<1> QED
  BY <1>1, <1>2, <1>3, <1>4 DEF GateNext

\* The invariant of CircuitGate, for any number of callers, any threshold and any cooldown:
\* types, a single probe, a failure count below the threshold, and no permit from the future.
THEOREM GateSafe == GateSpec => []CircuitInv
PROOF
  BY BreakerStart, BreakerStep, PTL DEF GateSpec

\* enter and complete keep a half-open gate in the hands of exactly one probe, however late
\* other callers complete.
THEOREM ProbesAreUnique == GateSpec => []OneProbe
PROOF
<1>1. CircuitInv => OneProbe
  BY DEF CircuitInv
<1> QED
  BY GateSafe, <1>1, PTL
-----------------------------------------------------------------------------
(* Generations implement episodes: each step of the gate is a step of the  *)
(* breaker or none.                                                        *)

Voters == {c \in Callers : Current(c)}

\* A new gate is a breaker in its first episode, without voters.
LEMMA InitEpisodes == GateInit => Episodes!Init
PROOF
  BY DEF GateInit, Episodes!Init, NewGate, GateOf, Current

\* enter admits a voter to the closed episode, or starts a half-open one with one voter.
LEMMA EnterEpisodes ==
  ASSUME CircuitInv, NEW c \in Callers, EnterCircuit(c)
  PROVE  Episodes!Admit(c) \/ Episodes!Probe(c)
PROOF
<1> DEFINE permit == PermitFor(circuit, ticker)
<1>1. /\ circuit \in Circuit /\ permits \in [Callers -> Permit \cup {Refused}] /\ ticker \in Nat
      /\ permits[c] = Refused /\ permit # Refused
      /\ permits' = [permits EXCEPT ![c] = permit] /\ ticker' = ticker
      /\ circuit' = Entered(circuit, ticker)
  BY DEF CircuitInv, GateTypeOK, EnterCircuit
<1>2. CASE circuit.state = "CLOSED"
  <2>1. circuit' = circuit /\ permit = [generation |-> circuit.generation, probe |-> FALSE]
    BY <1>1, <1>2 DEF Entered, PermitFor
  <2>2. Voters' = Voters \cup {c}
    BY <1>1, <2>1 DEF Voters, Current, Circuit, Permit
  <2> QED
    BY <1>1, <1>2, <2>1, <2>2 DEF Voters, Episodes!Admit
<1>3. CASE circuit.state # "CLOSED"
  <2>1. /\ circuit.state = "OPEN" /\ Cooled(circuit, ticker)
        /\ permit = [generation |-> circuit.generation + 1, probe |-> TRUE]
        /\ circuit' = [state |-> "HALF_OPEN", failures |-> circuit.failures,
                    generation |-> circuit.generation + 1, openedAt |-> circuit.openedAt]
    BY <1>1, <1>3 DEF Entered, PermitFor, GateOf
  <2>2. Voters' = {c}
    BY <1>1, <2>1 DEF CircuitInv, Voters, Current, Circuit, Permit
  <2>3. ticker >= circuit.openedAt + CooldownTicks
    BY <1>1, <2>1 DEF Cooled, Circuit
  <2> QED
    BY <1>1, <2>1, <2>2, <2>3 DEF Voters, Episodes!Probe
<1> QED
  BY <1>2, <1>3

\* complete is the vote of a voter of the present episode; from anyone else it is a
\* stutter.
LEMMA CompleteEpisodes ==
  ASSUME CircuitInv, NEW c \in Callers, Ends(c)
  PROVE  Episodes!Vote(c) \/ UNCHANGED Episodes!vars
PROOF
<1>1. PICK f \in BOOLEAN, x \in BOOLEAN : CompleteCircuit(c, f, x)
  BY DEF Ends
<1> DEFINE h == Completed(circuit, permits[c], f, x, ticker)
<1>2. /\ circuit \in Circuit /\ permits \in [Callers -> Permit \cup {Refused}] /\ ticker \in Nat
      /\ permits[c] # Refused /\ permits[c] \in Permit
      /\ permits' = [permits EXCEPT ![c] = Refused] /\ ticker' = ticker /\ circuit' = h
  BY <1>1 DEF CircuitInv, GateTypeOK, CompleteCircuit
<1>3. CASE ~Current(c)
  <2>1. h = circuit
    BY <1>2, <1>3 DEF Completed, Current
  <2>2. Voters' = Voters
    BY <1>2, <1>3, <2>1 DEF Voters, Current
  <2> QED
    BY <1>2, <2>1, <2>2 DEF Voters, Episodes!vars
<1>4. CASE Current(c)
  <2>1. h.generation = circuit.generation => Voters' = Voters \ {c}
    BY <1>2 DEF Voters, Current
  <2>2. h.generation = circuit.generation + 1 => Voters' = {}
    BY <1>2 DEF CircuitInv, Voters, Current, Circuit, Permit
  <2>3. circuit.state # "OPEN"
    BY <1>4 DEF CircuitInv, OneProbe
  <2>4. circuit.state = "HALF_OPEN" => h # circuit
    BY <1>2, <1>4 DEF Completed, ProbeVerdict, Opened, Reclosed,
                      GateOf, Circuit, Permit, Current
  <2>5. /\ h \in Circuit
        /\ \/ h = circuit
           \/ /\ circuit.state = "CLOSED" /\ h.state = "CLOSED"
              /\ h.generation = circuit.generation /\ h.openedAt = circuit.openedAt
              /\ h.failures = 0 \/ (h.failures = circuit.failures + 1 /\ circuit.failures + 1 < FailureThreshold)
           \/ /\ circuit.state = "HALF_OPEN" \/ (circuit.state = "CLOSED" /\ circuit.failures + 1 >= FailureThreshold)
              /\ h.state = "OPEN" /\ h.failures = 0
              /\ h.generation = circuit.generation + 1 /\ h.openedAt = ticker
           \/ /\ circuit.state = "HALF_OPEN" /\ h.state = "CLOSED" /\ h.failures = 0
              /\ h.generation = circuit.generation + 1 /\ h.openedAt = circuit.openedAt
    BY <1>2, BreakerVerdict DEF CircuitInv
  <2>6. circuit.state \in {"CLOSED", "OPEN", "HALF_OPEN"}
    BY <1>2 DEF Circuit, State
  <2>7. c \in Voters
    BY <1>4 DEF Voters
  <2> HIDE DEF h
  <2> QED
    BY <1>2, <2>1, <2>2, <2>3, <2>4, <2>5, <2>6, <2>7
    DEF Voters, Circuit, Episodes!Vote, Episodes!Open, Episodes!Close, Episodes!NewEpisode, Episodes!Leave
<1> QED
  BY <1>3, <1>4

\* Every step of the gate is a step of the breaker, or none.
LEMMA NextEpisodes == CircuitInv /\ [GateNext]_(gateVars) => [Episodes!Next]_(Episodes!vars)
PROOF
<1> SUFFICES ASSUME CircuitInv, [GateNext]_(gateVars) PROVE [Episodes!Next]_(Episodes!vars)
  OBVIOUS
<1>1. CASE GateTick
  <2>1. Episodes!Tick
    BY <1>1 DEF GateTick, Episodes!Tick, Current
  <2> QED
    BY <2>1 DEF Episodes!Next
<1>2. ASSUME NEW c \in Callers, EnterCircuit(c) PROVE Episodes!Next
  BY <1>2, EnterEpisodes DEF Episodes!Next
<1>3. ASSUME NEW c \in Callers, Ends(c) PROVE Episodes!Next \/ UNCHANGED Episodes!vars
  BY <1>3, CompleteEpisodes DEF Episodes!Next
<1>4. CASE UNCHANGED gateVars
  BY <1>4 DEF gateVars, Episodes!vars, Current
<1> QED
  BY <1>1, <1>2, <1>3, <1>4 DEF GateNext

\* Only callers admitted in the present episode can open or close the gate: what the
\* generation numbers of CircuitGate are for.
THEOREM EpisodesImplemented == GateSpec => ImplementsEpisodes
PROOF
  BY InitEpisodes, NextEpisodes, GateSafe, PTL DEF GateSpec, ImplementsEpisodes,
                                                   Episodes!Spec
=============================================================================
