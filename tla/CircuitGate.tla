----------------------------- MODULE CircuitGate -----------------------------
(***************************************************************************)
(* examples/backend-reliability: CircuitGate, a circuit breaker shared by  *)
(* the worker threads of ReliableReads.  A caller enters, does its call    *)
(* outside the monitor for any length of time, and completes; permits      *)
(* carry the generation in which they were given so that a late completion *)
(* cannot speak for a state it never saw.                                  *)
(*                                                                         *)
(* enter and complete are synchronized, so each is one action.  A refused  *)
(* enter returns null and changes nothing: it is no action.                *)
(***************************************************************************)
EXTENDS Integers

CONSTANTS
  Callers,
  FailureThreshold,  \* consecutive failures that open the gate
  CooldownTicks,     \* how long it then stays open
  Refused,           \* no permit
  MaxGeneration,     \* bound: no caller enters at or above this generation
  MaxTicker          \* bound: the clock stops here

ASSUME GateAssumption ==
  /\ FailureThreshold \in Nat \ {0} /\ CooldownTicks \in Nat \ {0}
  /\ MaxGeneration \in Nat /\ MaxTicker \in Nat

State   == {"CLOSED", "OPEN", "HALF_OPEN"}
Circuit == [state : State, failures : Nat, generation : Nat, openedAt : Nat]
Permit  == [generation : Nat, probe : BOOLEAN]
ASSUME PermitAssumption == Refused \notin Permit

VARIABLES
  circuit,
  permits,  \* caller -> the permit it runs under
  ticker

gateVars == <<circuit, permits, ticker>>

GateOf(state, failures, generation, openedAt) ==
  [state |-> state, failures |-> failures, generation |-> generation, openedAt |-> openedAt]

NewGate == GateOf("CLOSED", 0, 0, 0)

GateInit == circuit = NewGate /\ permits = [c \in Callers |-> Refused] /\ ticker = 0

-----------------------------------------------------------------------------
(* The monitor's methods as functions of its fields.                       *)

NeverCooled(g, time) == TRUE             \* slip: the cooldown is not awaited
Cooled(g, time) == time - g.openedAt >= CooldownTicks

\* enter: the permit it returns and the gate it leaves.
PermitFor(g, time) ==
  IF g.state = "CLOSED" THEN [generation |-> g.generation, probe |-> FALSE]
  ELSE IF g.state = "OPEN" /\ Cooled(g, time)
       THEN [generation |-> g.generation + 1, probe |-> TRUE]
  ELSE Refused

Entered(g, time) ==
  IF g.state = "OPEN" /\ Cooled(g, time)
  THEN GateOf("HALF_OPEN", g.failures, g.generation + 1, g.openedAt)
  ELSE g

\* Slip: opening starts no generation.
SameGeneration(g, time) == GateOf("OPEN", 0, g.generation, time)
Opened(g, time) == GateOf("OPEN", 0, g.generation + 1, time)

Reclosed(g) == GateOf("CLOSED", 0, g.generation + 1, g.openedAt)

\* Slip: a cancelled probe is no verdict, so nothing happens.
CancelledProbeIgnored(g, failure, cancelled, time) ==
  IF cancelled THEN g ELSE IF failure THEN Opened(g, time) ELSE Reclosed(g)
ProbeVerdict(g, failure, cancelled, time) ==
  IF failure \/ cancelled THEN Opened(g, time) ELSE Reclosed(g)

Counted(g, count) == GateOf(g.state, count, g.generation, g.openedAt)

ClosedVerdict(g, failure, cancelled, time) ==
  IF cancelled THEN g
  ELSE IF ~failure THEN Counted(g, 0)
  ELSE IF g.failures + 1 >= FailureThreshold THEN Opened(g, time)
  ELSE Counted(g, g.failures + 1)

\* complete.
Completed(g, permit, failure, cancelled, time) ==
  IF permit.generation # g.generation THEN g
  ELSE IF g.state = "HALF_OPEN" THEN ProbeVerdict(g, failure, cancelled, time)
  ELSE IF g.state = "CLOSED" THEN ClosedVerdict(g, failure, cancelled, time)
  ELSE g

-----------------------------------------------------------------------------

EnterCircuit(c) ==
  /\ permits[c] = Refused
  /\ circuit.generation < MaxGeneration
  /\ PermitFor(circuit, ticker) # Refused
  /\ permits' = [permits EXCEPT ![c] = PermitFor(circuit, ticker)]
  /\ circuit' = Entered(circuit, ticker)
  /\ UNCHANGED ticker

CompleteCircuit(c, failure, cancelled) ==
  /\ permits[c] # Refused
  /\ circuit' = Completed(circuit, permits[c], failure, cancelled, ticker)
  /\ permits' = [permits EXCEPT ![c] = Refused]
  /\ UNCHANGED ticker

GateTick == ticker < MaxTicker /\ ticker' = ticker + 1 /\ UNCHANGED <<circuit, permits>>

Ends(c) == \E failure, cancelled \in BOOLEAN : CompleteCircuit(c, failure, cancelled)

GateNext == GateTick \/ \E c \in Callers : EnterCircuit(c) \/ Ends(c)

GateSpec == GateInit /\ [][GateNext]_gateVars

\* Whoever entered completes: ReliableReads calls complete in a finally block.
GateFairness == \A c \in Callers : WF_gateVars(Ends(c))
FairGateSpec == GateSpec /\ GateFairness

-----------------------------------------------------------------------------
(* Properties.                                                             *)

GateTypeOK ==
  /\ circuit \in Circuit
  /\ permits \in [Callers -> Permit \cup {Refused}]
  /\ ticker \in Nat

\* The callers whose completion still counts.
Current(c) == permits[c] # Refused /\ permits[c].generation = circuit.generation

\* A half-open gate waits for exactly one probe, which some caller holds, so it can never
\* be stuck half open nor let two probes through; an open gate waits for no one; and no
\* probe of an earlier episode has a vote in a closed one.
OneProbe ==
  /\ circuit.state = "HALF_OPEN" =>
       \E c \in Callers : /\ Current(c) /\ permits[c].probe
                          /\ \A b \in Callers \ {c} : ~Current(b)
  /\ circuit.state = "OPEN" => \A c \in Callers : ~Current(c)
  /\ circuit.state = "CLOSED" => \A c \in Callers : Current(c) => ~permits[c].probe

\* With the gate's generation never behind a permit's, OneProbe is inductive.
CircuitInv ==
  /\ GateTypeOK
  /\ OneProbe
  /\ circuit.failures < FailureThreshold
  /\ circuit.openedAt <= ticker
  /\ circuit.state # "CLOSED" => circuit.failures = 0
  /\ \A c \in Callers : permits[c] # Refused => permits[c].generation <= circuit.generation

\* A half-open gate is decided as soon as its probe is.
ProbesAreDecided == circuit.state = "HALF_OPEN" ~> circuit.state # "HALF_OPEN"

\* Generation numbers do what they are for: the gate behaves as a breaker in which
\* only the callers of the present episode vote.
Episodes == INSTANCE BreakerEpisodes WITH
  mode     <- circuit.state,
  voters   <- {c \in Callers : Current(c)},
  streak   <- circuit.failures,
  openedAt <- circuit.openedAt,
  now      <- ticker,
  Threshold <- FailureThreshold, Cooldown <- CooldownTicks

ImplementsEpisodes == Episodes!Spec
=============================================================================
