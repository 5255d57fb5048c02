----------------------------- MODULE LoadsProofs -----------------------------
(***************************************************************************)
(* Proofs about CoalescedLoads, for any calls, keys and answers and every  *)
(* limit that its constructor accepts: no load too many, no caller too     *)
(* many, and nobody who waits for a result that is never going to come.    *)
(*                                                                         *)
(* The argument.  A permit is out exactly for every caller between Acquire *)
(* and Return, and a place in the pool for every flight between Start and  *)
(* Exit, so the two counts follow the sets.  A call starts a flight at     *)
(* most once, before which its flight is untouched; a flight off the       *)
(* table has its result, and close gives one to every flight that is on    *)
(* the table at that moment and lets no other start.                       *)
(***************************************************************************)
EXTENDS CoalescedLoads, FiniteSetTheorems, TLAPS

USE LoadsAssumption

Holds(w) == w.stage \in {"lock", "await", "leave"}
Holders  == {c \in Calls : Holds(wait[c])}

\* What is true of every flight, on the table or off it.
SoundFlight(g) ==
  /\ g \in Flight
  /\ g.stage = "none" => g = NewFlight
  /\ g.stage = "publish" => g.found \in Answers
  /\ g.stage \in {"remove", "exit", "over"} => g.result # None
  /\ closed /\ g.stage # "none" => g.result # None

\* What is true of every caller: the flight it may still start is untouched, and the one
\* it waits for has begun.
SoundWait(c, w) ==
  /\ w \in Wait
  /\ w.stage \in {"idle", "lock"} => flight[c] = NewFlight
  /\ w.stage = "lock" => w.key \in Keys
  /\ w.stage = "await" => w.on \in Calls /\ flight[w.on].stage # "none"
  /\ w.stage # "await" => w.on = None

OneLoadPerKey == \A f, g \in table : flight[f].key = flight[g].key => f = g

LoadsInv ==
  /\ permits \in Nat /\ closed \in BOOLEAN
  /\ flight \in [Calls -> Flight] /\ wait \in [Calls -> Wait]
  /\ IsFiniteSet(Holders) /\ permits + Cardinality(Holders) = CallerLimit
  /\ table = {f \in Calls : flight[f].stage \in Executing}
  /\ IsFiniteSet(Busy) /\ Cardinality(Busy) <= FlightLimit
  /\ OneLoadPerKey
  /\ \A f \in Calls : SoundFlight(flight[f])
  /\ \A c \in Calls : SoundWait(c, wait[c])

\* Nobody is inside and no flight has begun.
LEMMA InitLoads == Init => LoadsInv
<1> SUFFICES ASSUME Init PROVE LoadsInv
  OBVIOUS
<1>1. /\ flight \in [Calls -> Flight] /\ wait \in [Calls -> Wait] /\ closed = FALSE
      /\ \A c \in Calls : flight[c] = NewFlight /\ wait[c] = NewWait
      /\ permits = CallerLimit /\ CallerLimit \in Nat /\ FlightLimit \in Nat /\ table = {}
  BY DEF Init, Flight, Wait, NewFlight, NewWait, Executing
<1>2. Holders = {} /\ Busy = {} /\ table = {f \in Calls : flight[f].stage \in Executing}
  BY <1>1 DEF Holders, Holds, Busy, Executing, NewWait, NewFlight
<1>3. \A f \in Calls : SoundFlight(flight[f]) /\ SoundWait(f, wait[f])
  BY <1>1 DEF SoundFlight, SoundWait, NewFlight, NewWait
<1>4. CallerLimit + 0 = CallerLimit /\ 0 <= FlightLimit
  BY <1>1
<1> QED
  BY <1>1, <1>2, <1>3, <1>4, FS_EmptySet DEF LoadsInv, OneLoadPerKey

-----------------------------------------------------------------------------
(* A caller's step.                                                        *)

\* A step of one caller: it takes a permit where it starts to hold one, returns it where
\* it stops, and otherwise changes its own locals alone.
LEMMA WaitStep ==
  ASSUME LoadsInv, NEW c \in Calls, NEW w, SoundWait(c, w),
         wait' = [wait EXCEPT ![c] = w], UNCHANGED <<closed, table, flight>>,
         (Holds(w) <=> Holds(wait[c])) => permits' = permits,
         Holds(w) /\ ~Holds(wait[c]) => permits' = permits - 1 /\ permits > 0,
         ~Holds(w) /\ Holds(wait[c]) => permits' = permits + 1
  PROVE  LoadsInv'
<1>1. /\ permits \in Nat /\ wait \in [Calls -> Wait]
      /\ IsFiniteSet(Holders) /\ permits + Cardinality(Holders) = CallerLimit
  BY DEF LoadsInv
<1>2. wait' \in [Calls -> Wait] /\ wait'[c] = w /\ \A b \in Calls \ {c} : wait'[b] = wait[b]
  BY <1>1 DEF SoundWait
<1>3. Holders' = IF Holds(w) THEN Holders \cup {c} ELSE Holders \ {c}
  BY <1>2 DEF Holders
<1>4. c \in Holders <=> Holds(wait[c])
  BY DEF Holders
<1>5. IsFiniteSet(Holders') /\ permits' \in Nat /\ permits' + Cardinality(Holders') = CallerLimit
  <2>1. Cardinality(Holders) \in Nat
    BY <1>1, FS_CardinalityType
  <2>2. CASE Holds(w)
    <3>1. IsFiniteSet(Holders')
          /\ Cardinality(Holders') = IF c \in Holders THEN Cardinality(Holders) ELSE Cardinality(Holders) + 1
      BY <1>1, <1>3, <2>2, FS_AddElement
    <3>2. CASE c \in Holders
      <4>1. permits' = permits /\ Cardinality(Holders') = Cardinality(Holders)
        BY <1>4, <2>2, <3>1, <3>2
      <4> QED
        BY <1>1, <3>1, <4>1
    <3>3. CASE c \notin Holders
      <4>1. permits' = permits - 1 /\ permits > 0 /\ Cardinality(Holders') = Cardinality(Holders) + 1
        BY <1>4, <2>2, <3>1, <3>3
      <4> QED
        BY <1>1, <2>1, <3>1, <4>1
    <3> QED
      BY <3>2, <3>3
  <2>3. CASE ~Holds(w)
    <3>1. IsFiniteSet(Holders')
          /\ Cardinality(Holders') = IF c \in Holders THEN Cardinality(Holders) - 1 ELSE Cardinality(Holders)
      BY <1>1, <1>3, <2>3, FS_RemoveElement
    <3>2. c \in Holders => Cardinality(Holders) - 1 \in Nat
      BY <1>1, <2>1, <3>1, FS_CardinalityType
    <3> QED
      BY <1>1, <1>4, <2>1, <2>3, <3>1, <3>2
  <2> QED
    BY <2>2, <2>3
<1>6. \A f \in Calls : SoundFlight(flight[f])'
  BY DEF LoadsInv, SoundFlight
<1>7. \A b \in Calls : SoundWait(b, wait[b])'
  BY <1>2 DEF LoadsInv, SoundWait
<1>8. Busy' = Busy /\ (OneLoadPerKey <=> OneLoadPerKey')
  BY DEF Busy, OneLoadPerKey
<1> QED
  BY <1>2, <1>5, <1>6, <1>7, <1>8 DEF LoadsInv

\* The caller's locals on its way out of the lock, and out of load.
LEMMA WaitValues ==
  ASSUME NEW r \in Answers \cup {Failed}, NEW f \in Calls
  PROVE  LET leaves == [NewWait EXCEPT !.stage = "leave", !.outcome = r]
             awaits == [NewWait EXCEPT !.stage = "await", !.on = f]
             done   == [NewWait EXCEPT !.stage = "done"]
         IN  /\ leaves \in Wait /\ leaves.stage = "leave" /\ leaves.on = None
             /\ awaits \in Wait /\ awaits.stage = "await" /\ awaits.on = f
             /\ done \in Wait /\ done.stage = "done" /\ done.on = None
BY DEF NewWait, Wait

\* A caller that is turned away, answered, interrupted or out of time leaves with what it got.
LEMMA LeavesSafe ==
  ASSUME LoadsInv, NEW c \in Calls, Holds(wait[c]), NEW r \in Answers \cup {Failed}, Leaves(c, r),
         UNCHANGED <<permits, closed, table, flight>>
  PROVE  LoadsInv'
<1> DEFINE w == [NewWait EXCEPT !.stage = "leave", !.outcome = r]
<1>1. wait' = [wait EXCEPT ![c] = w]
  BY DEF Leaves
<1>2. SoundWait(c, w) /\ Holds(w)
  BY WaitValues DEF SoundWait, Holds
<1> HIDE DEF w
<1> QED
  BY <1>1, <1>2, WaitStep

\* A call is turned away, or takes one of the permits that are left.
LEMMA AcquireSafe ==
  ASSUME LoadsInv, NEW c \in Calls, NEW k \in Keys, Acquire(c, k)
  PROVE  LoadsInv'
<1> DEFINE gone == [wait[c] EXCEPT !.stage = "done"]
           held == [wait[c] EXCEPT !.stage = "lock", !.key = k]
<1>1. /\ wait[c] \in Wait /\ wait[c].stage = "idle" /\ SoundWait(c, wait[c]) /\ permits \in Nat
      /\ ~Holds(wait[c])
  BY DEF Acquire, LoadsInv, Holds
<1>2. SoundWait(c, gone) /\ ~Holds(gone)
  BY <1>1 DEF SoundWait, Wait, Holds
<1>3. SoundWait(c, held) /\ Holds(held)
  BY <1>1 DEF SoundWait, Wait, Holds
<1>4. CASE permits = 0
  <2>1. wait' = [wait EXCEPT ![c] = gone] /\ permits' = permits
    BY <1>4, Zenon DEF Acquire
  <2> HIDE DEF gone
  <2> QED
    BY <1>1, <1>2, <2>1, WaitStep DEF Acquire
<1>5. CASE permits # 0
  <2>1. wait' = [wait EXCEPT ![c] = held]
    BY <1>5, Zenon DEF Acquire
  <2>2. permits' = permits - 1 /\ permits > 0
    BY <1>1, <1>5 DEF Acquire
  <2> HIDE DEF held
  <2> QED
    BY <1>1, <1>3, <2>1, <2>2, WaitStep DEF Acquire
<1> QED
  BY <1>4, <1>5

\* Who joins a flight waits for one that is on the table, so still owed a result.
LEMMA JoinSafe ==
  ASSUME LoadsInv, NEW c \in Calls, Join(c)
  PROVE  LoadsInv'
<1>1. PICK f \in table : Awaits(c, f)
  BY DEF Join, Flying
<1> DEFINE w == [NewWait EXCEPT !.stage = "await", !.on = f]
<1>2. f \in Calls /\ flight[f].stage # "none"
  BY DEF LoadsInv, Executing
<1>3. wait' = [wait EXCEPT ![c] = w]
  BY <1>1 DEF Awaits
<1>4. SoundWait(c, w) /\ Holds(w) /\ Holds(wait[c])
  BY <1>2, WaitValues DEF SoundWait, Holds, Join
<1> HIDE DEF w
<1> QED
  BY <1>3, <1>4, WaitStep DEF Join

\* Who gives the permit back is out.
LEMMA ReturnSafe ==
  ASSUME LoadsInv, NEW c \in Calls, Return(c)
  PROVE  LoadsInv'
<1> DEFINE w == [NewWait EXCEPT !.stage = "done"]
<1>1. wait' = [wait EXCEPT ![c] = w]
  BY DEF Return
<1>2. SoundWait(c, w) /\ ~Holds(w) /\ Holds(wait[c])
  BY WaitValues DEF SoundWait, Holds, Return
<1> HIDE DEF w
<1> QED
  BY <1>1, <1>2, WaitStep DEF Return

-----------------------------------------------------------------------------
(* A flight's step.                                                        *)

\* A step of one flight that has begun: it goes on, or leaves the table, or its worker.
LEMMA FlightStep ==
  ASSUME LoadsInv, NEW f \in Calls, NEW g, SoundFlight(g), flight[f].stage # "none", g.stage # "none",
         flight' = [flight EXCEPT ![f] = g], UNCHANGED <<permits, closed, wait>>,
         g.stage \in Executing \cup {"exit"} => flight[f].stage \in Executing \cup {"exit"},
         g.stage \in Executing => flight[f].stage \in Executing /\ g.key = flight[f].key,
         table' = IF g.stage \in Executing THEN table ELSE table \ {f}
  PROVE  LoadsInv'
<1>1. /\ flight \in [Calls -> Flight] /\ IsFiniteSet(Busy) /\ Cardinality(Busy) <= FlightLimit
      /\ table = {h \in Calls : flight[h].stage \in Executing}
  BY DEF LoadsInv
<1>2. /\ flight' \in [Calls -> Flight] /\ flight'[f] = g
      /\ \A h \in Calls \ {f} : flight'[h] = flight[h]
  BY <1>1 DEF SoundFlight
<1>3. table' = {h \in Calls : flight'[h].stage \in Executing} /\ table' \subseteq table
  BY <1>1, <1>2
<1>4. Busy' \in SUBSET Busy
  BY <1>2 DEF Busy
<1>5. IsFiniteSet(Busy') /\ Cardinality(Busy') <= FlightLimit
  <2>1. IsFiniteSet(Busy') /\ Cardinality(Busy') <= Cardinality(Busy)
    BY <1>1, <1>4, FS_Subset
  <2>2. Cardinality(Busy') \in Nat /\ Cardinality(Busy) \in Nat /\ FlightLimit \in Nat
    BY <1>1, <2>1, FS_CardinalityType
  <2> QED
    BY <1>1, <2>1, <2>2
<1>6. OneLoadPerKey'
  BY <1>2, <1>3 DEF LoadsInv, OneLoadPerKey
<1>7. \A h \in Calls : SoundFlight(flight[h])'
  BY <1>2 DEF LoadsInv, SoundFlight
<1>8. \A c \in Calls : SoundWait(c, wait[c])'
  <2>1. ASSUME NEW c \in Calls PROVE SoundWait(c, wait[c])'
    <3>1. SoundWait(c, wait[c])
      BY DEF LoadsInv
    <3>2. flight[f] # NewFlight
      BY DEF NewFlight
    <3> QED
      BY <1>2, <3>1, <3>2 DEF SoundWait
  <2> QED
    BY <2>1
<1>9. Holders' = Holders
  BY DEF Holders
<1> QED
  BY <1>2, <1>3, <1>5, <1>6, <1>7, <1>8, <1>9 DEF LoadsInv

\* A flight whose work is over has a result for good.
LEMMA EndsSafe ==
  ASSUME LoadsInv, NEW f \in Calls, flight[f].stage \in Executing,
         NEW r \in Answers \cup {Failed}, Ends(f, r), UNCHANGED <<permits, closed, table, wait>>
  PROVE  LoadsInv'
<1> DEFINE g == [flight[f] EXCEPT !.stage = "remove", !.found = None, !.result = Completed(f, r)]
<1>1. flight[f] \in Flight /\ SoundFlight(flight[f]) /\ flight[f].stage # "none"
  BY DEF LoadsInv, Executing
<1>2. Completed(f, r) \in Answers \cup {Failed}
  BY <1>1 DEF Completed, Flight
<1>3. \A x : LET h == [flight[f] EXCEPT !.stage = "remove", !.found = None, !.result = x]
            IN  /\ h.stage = "remove" /\ h.result = x /\ h.key = flight[f].key
                /\ x \in Answers \cup {Failed} => h \in Flight
  BY <1>1 DEF Flight, Executing
<1>4. SoundFlight(g) /\ g.stage = "remove" /\ g.key = flight[f].key
  <2>1. g.stage = "remove" /\ g.result = Completed(f, r) /\ g.key = flight[f].key /\ g \in Flight
    BY <1>2, <1>3
  <2> HIDE DEF g
  <2> QED
    BY <1>2, <2>1 DEF SoundFlight
<1>5. flight' = [flight EXCEPT ![f] = g]
  BY Zenon DEF Ends
<1> HIDE DEF g
<1> QED
  BY <1>1, <1>4, <1>5, FlightStep DEF Executing

\* A worker takes up the flight, or gives it a failure when its time is already over.
LEMMA BeginSafe ==
  ASSUME LoadsInv, NEW f \in Calls, Begin(f)
  PROVE  LoadsInv'
<1> DEFINE g == [flight[f] EXCEPT !.stage = "work"]
<1>1. flight[f] \in Flight /\ SoundFlight(flight[f]) /\ flight[f].stage = "begin"
  BY DEF LoadsInv, Begin
<1>2. CASE flight' = [flight EXCEPT ![f] = g]
  <2>1. SoundFlight(g) /\ g.stage = "work" /\ g.key = flight[f].key
    BY <1>1 DEF SoundFlight, Flight, Executing
  <2> HIDE DEF g
  <2> QED
    BY <1>1, <1>2, <2>1, FlightStep DEF Begin, Executing
<1>3. CASE Ends(f, Failed)
  BY <1>1, <1>3, EndsSafe DEF Begin, Executing
<1> QED
  BY <1>2, <1>3 DEF Begin

\* The work has an answer and is about to publish it.
LEMMA WorkReturnsSafe ==
  ASSUME LoadsInv, NEW f \in Calls, NEW a \in Answers, WorkReturns(f, a)
  PROVE  LoadsInv'
<1> DEFINE g == [flight[f] EXCEPT !.stage = "publish", !.found = a]
<1>1. flight[f] \in Flight /\ SoundFlight(flight[f]) /\ flight[f].stage = "work"
  BY DEF LoadsInv, WorkReturns
<1>2. SoundFlight(g) /\ g.stage = "publish" /\ g.key = flight[f].key
  BY <1>1 DEF SoundFlight, Flight, Executing
<1>3. flight' = [flight EXCEPT ![f] = g]
  BY DEF WorkReturns
<1> HIDE DEF g
<1> QED
  BY <1>1, <1>2, <1>3, FlightStep DEF WorkReturns, Executing

\* The flight has its result before it leaves the table.
LEMMA PublishSafe ==
  ASSUME LoadsInv, NEW f \in Calls, Publish(f)
  PROVE  LoadsInv'
<1>1. SoundFlight(flight[f]) /\ flight[f].stage = "publish"
  BY DEF LoadsInv, Publish
<1>2. (IF WithinBudget(f) THEN flight[f].found ELSE Failed) \in Answers \cup {Failed}
  BY <1>1 DEF SoundFlight
<1> QED
  BY <1>1, <1>2, EndsSafe DEF Publish, Executing

\* A flight that leaves the table has its result.
LEMMA RemoveSafe ==
  ASSUME LoadsInv, NEW f \in Calls, Remove(f)
  PROVE  LoadsInv'
<1> DEFINE g == [flight[f] EXCEPT !.stage = "exit", !.key = None]
<1>1. flight[f] \in Flight /\ SoundFlight(flight[f]) /\ flight[f].stage = "remove"
  BY DEF LoadsInv, Remove
<1>2. SoundFlight(g) /\ g.stage = "exit"
  BY <1>1 DEF SoundFlight, Flight, Executing
<1>3. flight' = [flight EXCEPT ![f] = g]
  BY DEF Remove
<1> HIDE DEF g
<1> QED
  BY <1>1, <1>2, <1>3, FlightStep DEF Remove, Executing

\* A place in the pool is given back by the flight that held it.
LEMMA ExitSafe ==
  ASSUME LoadsInv, NEW f \in Calls, Exit(f)
  PROVE  LoadsInv'
<1> DEFINE g == [flight[f] EXCEPT !.stage = "over"]
<1>1. flight[f] \in Flight /\ SoundFlight(flight[f]) /\ flight[f].stage = "exit" /\ f \notin table
  BY DEF LoadsInv, Exit, Executing
<1>2. SoundFlight(g) /\ g.stage = "over"
  BY <1>1 DEF SoundFlight, Flight, Executing
<1>3. flight' = [flight EXCEPT ![f] = g] /\ table' = table \ {f}
  BY <1>1 DEF Exit
<1> HIDE DEF g
<1> QED
  BY <1>1, <1>2, <1>3, FlightStep DEF Exit, Executing

\* The clock runs out on a flight; its callers have yet to notice.
LEMMA ExpireSafe ==
  ASSUME LoadsInv, NEW f \in Calls, Expire(f)
  PROVE  LoadsInv'
<1> DEFINE g == [flight[f] EXCEPT !.expired = TRUE]
<1>1. /\ flight[f] \in Flight /\ SoundFlight(flight[f])
      /\ table = {h \in Calls : flight[h].stage \in Executing}
  BY DEF LoadsInv
<1>2. flight[f].stage # "none"
  <2>1. CASE \E c \in Calls : wait[c].on = f
    <3>1. f # None
      OBVIOUS
    <3> QED
      BY <2>1, <3>1 DEF LoadsInv, SoundWait
  <2> QED
    BY <2>1 DEF Expire, Executing
<1>3. SoundFlight(g) /\ g.stage = flight[f].stage /\ g.key = flight[f].key
  BY <1>1, <1>2 DEF SoundFlight, Flight
<1>4. flight' = [flight EXCEPT ![f] = g]
  BY DEF Expire
<1>5. table' = IF g.stage \in Executing THEN table ELSE table \ {f}
  BY <1>1, <1>3 DEF Expire
<1> HIDE DEF g
<1> QED
  BY <1>2, <1>3, <1>4, <1>5, FlightStep DEF Expire

-----------------------------------------------------------------------------
(* A caller starts a flight, and close.                                    *)

\* The flight that a call starts was untouched, and a place was free for it.
LEMMA StartSafe ==
  ASSUME LoadsInv, NEW c \in Calls, Start(c)
  PROVE  LoadsInv'
<1> DEFINE g == [flight[c] EXCEPT !.stage = "begin", !.key = wait[c].key]
           w == [NewWait EXCEPT !.stage = "await", !.on = c]
<1>1. /\ flight \in [Calls -> Flight] /\ wait \in [Calls -> Wait] /\ flight[c] = NewFlight
      /\ wait[c].stage = "lock" /\ wait[c].key \in Keys /\ closed = FALSE
      /\ table = {f \in Calls : flight[f].stage \in Executing}
      /\ UNCHANGED <<permits, closed>>
  BY DEF LoadsInv, SoundWait, Start
<1>2. flight' = [flight EXCEPT ![c] = g] /\ wait' = [wait EXCEPT ![c] = w]
  BY Zenon DEF Start, Awaits
<1>3. /\ g \in Flight /\ g.stage = "begin" /\ g.key = wait[c].key /\ SoundFlight(g)
      /\ w \in Wait /\ w.stage = "await" /\ w.on = c
  <2>1. flight[c] \in Flight
    BY <1>1
  <2>2. g \in Flight /\ g.stage = "begin" /\ g.key = wait[c].key /\ SoundFlight(g)
    BY <1>1, <2>1 DEF Flight, Executing, SoundFlight
  <2> QED
    BY <2>2, WaitValues
<1> HIDE DEF g, w
<1>4. /\ flight' \in [Calls -> Flight] /\ flight'[c] = g
      /\ \A f \in Calls \ {c} : flight'[f] = flight[f]
      /\ wait' \in [Calls -> Wait] /\ wait'[c] = w
      /\ \A b \in Calls \ {c} : wait'[b] = wait[b]
  BY <1>1, <1>2, <1>3
<1>5. table' = table \cup {c} /\ table' = {f \in Calls : flight'[f].stage \in Executing}
  BY <1>1, <1>3, <1>4 DEF Start, Executing
<1>6. IsFiniteSet(Busy') /\ Cardinality(Busy') <= FlightLimit
  <2>1. Busy' = Busy \cup {c}
    BY <1>3, <1>4 DEF Busy, Executing
  <2>2. IsFiniteSet(Busy) /\ Cardinality(Busy) \in Nat /\ Cardinality(Busy) < FlightLimit /\ FlightLimit \in Nat
    BY FS_CardinalityType DEF LoadsInv, Start
  <2>3. IsFiniteSet(Busy') /\ Cardinality(Busy') = IF c \in Busy THEN Cardinality(Busy) ELSE Cardinality(Busy) + 1
    BY <2>1, <2>2, FS_AddElement
  <2> QED
    BY <2>2, <2>3
<1>7. OneLoadPerKey'
  <2>1. \A f \in table : flight[f].key # wait[c].key
    BY DEF Start, Flying
  <2>2. c \notin table
    BY <1>1 DEF NewFlight, Executing
  <2> QED
    BY <1>1, <1>3, <1>4, <1>5, <2>1, <2>2 DEF LoadsInv, OneLoadPerKey
<1>8. Holders' = Holders
  BY <1>1, <1>3, <1>4 DEF Holders, Holds
<1>9. \A f \in Calls : SoundFlight(flight[f])'
  BY <1>1, <1>3, <1>4 DEF LoadsInv, SoundFlight
<1>10. \A b \in Calls : SoundWait(b, wait[b])'
  BY <1>3, <1>4 DEF LoadsInv, SoundWait
<1> QED
  BY <1>1, <1>4, <1>5, <1>6, <1>7, <1>8, <1>9, <1>10 DEF LoadsInv

\* Close gives every flight on the table a result; none begins afterwards.
LEMMA CloseSafe ==
  ASSUME LoadsInv, Close
  PROVE  LoadsInv'
<1>1. /\ flight \in [Calls -> Flight] /\ table = {f \in Calls : flight[f].stage \in Executing}
      /\ \A f \in Calls : SoundFlight(flight[f]) /\ SoundWait(f, wait[f])
      /\ closed' = TRUE /\ UNCHANGED <<permits, table, wait>>
  BY DEF LoadsInv, Close
<1>2. ASSUME NEW f \in Calls
      PROVE  /\ flight'[f] \in Flight
             /\ flight'[f].stage = flight[f].stage /\ flight'[f].key = flight[f].key
             /\ flight'[f].found = flight[f].found
             /\ f \notin table => flight'[f] = flight[f]
             /\ f \in table => flight'[f].result # None
  <2>1. flight'[f] = IF f \in table THEN [flight[f] EXCEPT !.result = Completed(f, Failed)] ELSE flight[f]
    BY DEF Close
  <2>2. Completed(f, Failed) \in Answers \cup {Failed} /\ flight[f] \in Flight
    BY <1>1 DEF Completed, Flight
  <2> QED
    BY <2>1, <2>2 DEF Flight
<1>3. flight' \in [Calls -> Flight]
  <2>1. flight' = [f \in Calls |-> flight'[f]]
    BY DEF Close
  <2> QED
    BY <1>2, <2>1
<1>4. ASSUME NEW f \in Calls PROVE SoundFlight(flight[f])'
  <2>1. SoundFlight(flight[f])
    BY <1>1
  <2>2. CASE f \in table
    BY <1>1, <1>2, <2>1, <2>2 DEF SoundFlight, Executing
  <2>3. CASE f \notin table
    <3>1. flight[f].stage \in {"none", "exit", "over"}
      BY <1>1, <2>3, <2>1 DEF SoundFlight, Flight
    <3> QED
      BY <1>2, <2>1, <2>3, <3>1 DEF SoundFlight
  <2> QED
    BY <2>2, <2>3
<1>5. ASSUME NEW c \in Calls PROVE SoundWait(c, wait[c])'
  <2>1. flight[c] = NewFlight => c \notin table
    BY <1>1 DEF NewFlight, Executing
  <2> QED
    BY <1>1, <1>2, <2>1 DEF SoundWait
<1>6. Holders' = Holders /\ Busy' = Busy
  BY <1>1, <1>2 DEF Holders, Busy
<1>7. OneLoadPerKey' /\ table' = {f \in Calls : flight'[f].stage \in Executing}
  BY <1>1, <1>2 DEF LoadsInv, OneLoadPerKey
<1> QED
  BY <1>1, <1>3, <1>4, <1>5, <1>6, <1>7 DEF LoadsInv

-----------------------------------------------------------------------------

\* Every step keeps the invariant.
LEMMA StepLoads == LoadsInv /\ [Next]_vars => LoadsInv'
<1> SUFFICES ASSUME LoadsInv, [Next]_vars PROVE LoadsInv'
  OBVIOUS
<1>1. CASE UNCHANGED vars
  BY <1>1 DEF vars, LoadsInv, Holders, Busy, OneLoadPerKey, SoundFlight, SoundWait
<1>2. ASSUME NEW c \in Calls, TurnedAway(c) \/ Take(c) \/ Deadline(c) \/ Interrupted(c)
      PROVE  LoadsInv'
  <2>1. Holds(wait[c]) /\ UNCHANGED <<permits, closed, table, flight>>
    BY <1>2 DEF TurnedAway, Take, Deadline, Interrupted, Holds
  <2>2. CASE Leaves(c, Failed)
    BY <2>1, <2>2, LeavesSafe
  <2>3. CASE Take(c)
    <3>1. wait[c].on \in Calls
      BY <2>3 DEF Take, LoadsInv, SoundWait
    <3>2. flight[wait[c].on].result \in Answers \cup {Failed}
      BY <2>3, <3>1 DEF Take, LoadsInv, Flight
    <3> QED
      BY <2>1, <2>3, <3>2, LeavesSafe DEF Take
  <2> QED
    BY <1>2, <2>2, <2>3 DEF TurnedAway, Deadline, Interrupted
<1>3. ASSUME NEW f \in Calls, WorkEnds(f)
      PROVE  LoadsInv'
  BY <1>3, WorkReturnsSafe, EndsSafe DEF WorkEnds, WorkFails, Executing
<1>4. CASE Close
  BY <1>4, CloseSafe
<1>5. ASSUME NEW c \in Calls, CallerStep(c)
      PROVE  LoadsInv'
  BY <1>2, <1>5, JoinSafe, StartSafe, ReturnSafe DEF CallerStep
<1>6. ASSUME NEW f \in Calls, WorkerStep(f)
      PROVE  LoadsInv'
  BY <1>6, BeginSafe, PublishSafe, RemoveSafe, ExitSafe DEF WorkerStep
<1> QED
  BY <1>1, <1>2, <1>3, <1>4, <1>5, <1>6, AcquireSafe, ExpireSafe DEF Next

\* The invariant holds as long as the coordinator runs.
THEOREM LoadsSafe == Spec => []LoadsInv
BY InitLoads, StepLoads, PTL DEF Spec

\* What callers and owners of the coordinator rely on.
LEMMA SoundFlights == LoadsInv => FlightsAreSound
<1> SUFFICES ASSUME LoadsInv PROVE FlightsAreSound
  OBVIOUS
<1>1. /\ Cardinality(Holders) \in Nat /\ permits \in Nat /\ CallerLimit \in Nat
      /\ permits + Cardinality(Holders) = CallerLimit
  BY FS_CardinalityType DEF LoadsInv
<1>2. TypeOK
  BY <1>1 DEF LoadsInv, TypeOK
<1>3. Holders = {c \in Calls : wait[c].stage \in {"lock", "await", "leave"}}
  BY DEF Holders, Holds
<1>4. Cardinality(table) <= Cardinality(Busy)
  <2>1. table \in SUBSET Busy /\ IsFiniteSet(Busy)
    BY DEF LoadsInv, Busy
  <2> QED
    BY <2>1, FS_Subset
<1>5. ASSUME NEW k \in Keys PROVE Cardinality(Running(k)) <= 1
  <2>1. \A f, g \in Running(k) : f = g
    BY DEF Running, LoadsInv, OneLoadPerKey
  <2>2. CASE Running(k) = {}
    BY <2>2, FS_EmptySet
  <2>3. CASE Running(k) # {}
    <3>1. PICK f : f \in Running(k)
      BY <2>3
    <3>2. Running(k) = {f}
      BY <2>1, <3>1
    <3> QED
      BY <3>2, FS_Singleton, 1 <= 1
  <2> QED
    BY <2>2, <2>3
<1>6. LoadsAreBounded
  BY <1>1, <1>2, <1>3, <1>4, <1>5 DEF LoadsAreBounded, LoadsInv
<1>7. ASSUME NEW c \in Calls, wait[c].stage = "await", flight[wait[c].on].result = None
      PROVE  /\ wait[c].on \in table
             /\ flight[wait[c].on].stage \in {"begin", "work", "publish"}
             /\ ~closed
  <2>1. wait[c].on \in Calls /\ flight[wait[c].on].stage # "none" /\ SoundFlight(flight[wait[c].on])
    BY <1>7 DEF LoadsInv, SoundWait
  <2> QED
    BY <1>7, <2>1 DEF LoadsInv, SoundFlight, Flight, Executing
<1> QED
  BY <1>6, <1>7 DEF FlightsAreSound, NobodyWaitsInVain

\* Whatever becomes of callers and work, there is no load too many and none is waited for
\* in vain.
THEOREM FlightsSound == Spec => []FlightsAreSound
BY LoadsSafe, SoundFlights, PTL

=============================================================================
