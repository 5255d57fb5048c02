---------------------------- MODULE TicketsProofs ----------------------------
(***************************************************************************)
(* Proofs about CacheAsideTickets, for any calls, versions and limits of   *)
(* its coordinator: whatever is on its way to a reader was true after the  *)
(* reader asked, and the reads implement FreshReads.                       *)
(*                                                                         *)
(* The argument.  A flight on the table is keyed by a version that its     *)
(* source has reached, and everybody who waits for it asked under that     *)
(* very version; what its work finds lies between its key and the source.  *)
(* Once it is off the table it has no key any more, but its result, bound  *)
(* by the version of each of its callers, stays.  Of the cache nothing is   *)
(* assumed: a hit compares the version that is stored with the one asked.  *)
(***************************************************************************)
EXTENDS CacheAsideTickets, TLAPS

USE TicketsAssumption

\* A reader's version was the source's when it asked, and its answer is not older.
SoundReader(r, ver) ==
  /\ r \in Reader
  /\ r.known # None => r.known <= ver
  /\ r.stage = "new" => r.known = None
  /\ r.stage \in {"look", "load", "wait", "fill"} => r.known # None
  /\ r.stage \in {"load", "wait", "fill"} => r.known # 0
  /\ r.stage # "done" => r.answer = None
  /\ r.answer \notin {None, Failed} => r.known # None /\ r.answer \in r.known..ver

\* A job runs for a reader alone or for a flight at work, and what it has got is not
\* older than the version it runs for.
SoundJob(j, r, g, ver) ==
  /\ j \in Job
  /\ r.stage \in {"new", "look"} => j = NewJob
  /\ j.at \in {"none", "again", "find"} => j.got = None
  /\ j.at \in {"hit", "found", "put"} =>
       j.got \in (IF r.stage = "fill" THEN r.known ELSE g.key)..ver
  /\ j.at # "none" /\ r.stage # "fill" => g.stage = "work"
  /\ j.at \in {"again", "hit"} => r.stage # "fill"

\* A flight that is being executed is keyed by a version that the source has had.
SoundFlight(g, ver) ==
  /\ g \in Loads!Flight
  /\ g.stage = "none" => g = Loads!NewFlight
  /\ g.stage \in Loads!Executing => g.key \in Versions /\ g.key <= ver
  /\ g.stage = "publish" => g.found \in g.key..ver
  /\ g.stage # "publish" => g.found = None
  /\ g.stage \in Loads!Executing /\ g.result \notin {None, Failed} => g.result \in g.key..ver

\* The locals of a caller follow its reader, and its own flight is untouched until it
\* starts it.
SoundWait(w, r, g, ver) ==
  /\ w \in Loads!Wait
  /\ r.stage \in {"new", "look", "load", "fill"} => w = Loads!NewWait
  /\ w.stage \in {"lock", "await", "leave"} => r.stage = "wait"
  /\ w.stage \in {"idle", "lock"} => g = Loads!NewFlight
  /\ w.key = IF w.stage = "lock" THEN r.known ELSE None
  /\ w.stage = "await" <=> w.on # None
  /\ w.stage = "leave" <=> w.outcome # None
  /\ w.outcome \notin {None, Failed} => w.outcome \in r.known..ver

\* The flight that a caller waits for is keyed by the version that it asked under, and its
\* result is not older than that version.
SoundAwait(r, g, ver) ==
  /\ g.stage # "none"
  /\ g.stage \in Loads!Executing => g.key = r.known
  /\ g.result \notin {None, Failed} => g.result \in r.known..ver

SoundCall(c) ==
  /\ SoundReader(reader[c], version)
  /\ SoundJob(job[c], reader[c], flight[c], version)
  /\ SoundFlight(flight[c], version)
  /\ SoundWait(wait[c], reader[c], flight[c], version)
  /\ wait[c].on # None => SoundAwait(reader[c], flight[wait[c].on], version)

TicketsInv ==
  /\ TypeOK
  /\ table = {f \in Calls : flight[f].stage \in Loads!Executing}
  /\ \A c \in Calls : SoundCall(c)

\* Nobody has asked anything before the system starts.
LEMMA InitTickets == Init => TicketsInv
<1> SUFFICES ASSUME Init PROVE TicketsInv
  OBVIOUS
<1>1. /\ NewReader \in Reader /\ NewJob \in Job
      /\ Loads!NewFlight \in Loads!Flight /\ Loads!NewWait \in Loads!Wait
  BY DEF NewReader, Reader, NewJob, Job, Loads!NewFlight, Loads!Flight, Loads!NewWait, Loads!Wait,
         Loads!Executing
<1>2. TypeOK
  <2>1. version \in 0..MaxVersion /\ cache \in [Versions -> 0..MaxVersion] /\ pending \subseteq Versions
    BY DEF Init
  <2>2. permits \in Nat /\ closed \in BOOLEAN /\ table \subseteq Calls
    <3>1. FlightLimit \in Nat
      OBVIOUS
    <3>2. CallerLimit \in Nat
      BY <3>1
    <3> QED
      BY <3>2 DEF Init, Loads!Init
  <2>3. reader \in [Calls -> Reader] /\ job \in [Calls -> Job]
    BY <1>1 DEF Init
  <2>4. flight \in [Calls -> Loads!Flight] /\ wait \in [Calls -> Loads!Wait]
    BY <1>1 DEF Init, Loads!Init
  <2> QED
    BY <2>1, <2>2, <2>3, <2>4 DEF TypeOK
<1>3. table = {f \in Calls : flight[f].stage \in Loads!Executing}
  BY DEF Init, Loads!Init, Loads!NewFlight, Loads!Executing
<1>4. ASSUME NEW c \in Calls PROVE SoundCall(c)
  <2>1. reader[c] = NewReader /\ job[c] = NewJob /\ flight[c] = Loads!NewFlight /\ wait[c] = Loads!NewWait
    BY DEF Init, Loads!Init
  <2>2. SoundReader(NewReader, version)
    BY <1>1 DEF SoundReader, NewReader
  <2>3. SoundJob(NewJob, NewReader, Loads!NewFlight, version)
    BY <1>1 DEF SoundJob, NewJob, NewReader
  <2>4. SoundFlight(Loads!NewFlight, version)
    BY <1>1 DEF SoundFlight, Loads!NewFlight, Loads!Executing
  <2>5. SoundWait(Loads!NewWait, NewReader, Loads!NewFlight, version) /\ Loads!NewWait.on = None
    BY <1>1 DEF SoundWait, Loads!NewWait, NewReader
  <2> QED
    BY <2>1, <2>2, <2>3, <2>4, <2>5 DEF SoundCall
<1> QED
  BY <1>2, <1>3, <1>4 DEF TicketsInv

-----------------------------------------------------------------------------
(* What a step leaves alone.                                               *)

\* The types, one by one.
LEMMA Types ==
  ASSUME TicketsInv
  PROVE  /\ version \in 0..MaxVersion /\ cache \in [Versions -> 0..MaxVersion]
         /\ pending \subseteq Versions /\ permits \in Nat /\ closed \in BOOLEAN
         /\ reader \in [Calls -> Reader] /\ job \in [Calls -> Job]
         /\ flight \in [Calls -> Loads!Flight] /\ wait \in [Calls -> Loads!Wait]
         /\ \A c \in Calls : /\ reader = [reader EXCEPT ![c] = reader[c]]
                             /\ job = [job EXCEPT ![c] = job[c]]
                             /\ flight = [flight EXCEPT ![c] = flight[c]]
                             /\ wait = [wait EXCEPT ![c] = wait[c]]
BY DEF TicketsInv, TypeOK

\* What was not too old remains so when the source moves on.
LEMMA LaterVersion ==
  ASSUME NEW old \in 0..MaxVersion, NEW new \in 0..MaxVersion, old <= new,
         NEW r, NEW j, NEW g, NEW w
  PROVE  /\ SoundReader(r, old) => SoundReader(r, new)
         /\ SoundReader(r, old) /\ SoundJob(j, r, g, old) => SoundJob(j, r, g, new)
         /\ SoundFlight(g, old) => SoundFlight(g, new)
         /\ SoundWait(w, r, g, old) => SoundWait(w, r, g, new)
         /\ SoundAwait(r, g, old) => SoundAwait(r, g, new)
<1>1. \A x, k : x \in k..old => x \in k..new
  OBVIOUS
<1>2. SoundReader(r, old) => SoundReader(r, new)
  BY <1>1 DEF SoundReader, Reader
<1>3. SoundJob(j, r, g, old) => SoundJob(j, r, g, new)
  BY <1>1 DEF SoundJob
<1>4. SoundFlight(g, old) => SoundFlight(g, new)
  BY <1>1 DEF SoundFlight, Versions
<1>5. SoundWait(w, r, g, old) => SoundWait(w, r, g, new)
  BY <1>1 DEF SoundWait
<1>6. SoundAwait(r, g, old) => SoundAwait(r, g, new)
  BY <1>1 DEF SoundAwait
<1> QED
  BY <1>2, <1>3, <1>4, <1>5, <1>6

\* A step of the source or of the cache.
LEMMA WorldStep ==
  ASSUME TicketsInv, version' \in 0..MaxVersion, version <= version',
         cache' \in [Versions -> 0..MaxVersion], pending' \subseteq Versions,
         UNCHANGED <<reader, job, loads>>
  PROVE  TicketsInv'
<1>1. TypeOK' /\ version \in 0..MaxVersion
  BY DEF TicketsInv, TypeOK, loads
<1>2. table' = {f \in Calls : flight[f].stage \in Loads!Executing}'
  BY DEF TicketsInv, loads
<1>3. ASSUME NEW c \in Calls PROVE SoundCall(c)'
  <2>1. SoundCall(c)
    BY DEF TicketsInv
  <2>2. /\ reader'[c] = reader[c] /\ job'[c] = job[c] /\ flight'[c] = flight[c] /\ wait'[c] = wait[c]
        /\ flight' = flight
    BY DEF loads
  <2> QED
    BY <1>1, <2>1, <2>2, LaterVersion DEF SoundCall
<1> QED
  BY <1>1, <1>2, <1>3 DEF TicketsInv

\* A step of one call's reader, its job and its locals inside the coordinator.
LEMMA CallStep ==
  ASSUME TicketsInv, NEW c \in Calls, NEW r, NEW j, NEW w,
         reader' = [reader EXCEPT ![c] = r], job' = [job EXCEPT ![c] = j],
         wait' = [wait EXCEPT ![c] = w], cache' \in [Versions -> 0..MaxVersion],
         permits' \in Nat, UNCHANGED <<version, pending, closed, table, flight>>,
         SoundReader(r, version), SoundJob(j, r, flight[c], version),
         SoundWait(w, r, flight[c], version),
         w.on # None => SoundAwait(r, flight[w.on], version)
  PROVE  TicketsInv'
<1>1. /\ reader'[c] = r /\ \A b \in Calls \ {c} : reader'[b] = reader[b]
      /\ job'[c] = j /\ \A b \in Calls \ {c} : job'[b] = job[b]
      /\ wait'[c] = w /\ \A b \in Calls \ {c} : wait'[b] = wait[b]
  BY Types
<1>2. r \in Reader /\ j \in Job /\ w \in Loads!Wait
  BY DEF SoundReader, SoundJob, SoundWait
<1>3. TypeOK'
  BY <1>2 DEF TicketsInv, TypeOK
<1>4. table' = {f \in Calls : flight[f].stage \in Loads!Executing}'
  BY DEF TicketsInv
<1>5. ASSUME NEW b \in Calls PROVE SoundCall(b)'
  <2>1. SoundCall(b)
    BY DEF TicketsInv
  <2>2. CASE b = c
    BY <1>1, <2>1, <2>2 DEF SoundCall
  <2>3. CASE b # c
    BY <1>1, <2>1, <2>3 DEF SoundCall
  <2> QED
    BY <2>2, <2>3
<1> QED
  BY <1>3, <1>4, <1>5 DEF TicketsInv

\* The same where a call's reader is all that changes of it.
LEMMA ReaderStep ==
  ASSUME TicketsInv, NEW c \in Calls, NEW r, reader' = [reader EXCEPT ![c] = r],
         cache' \in [Versions -> 0..MaxVersion], UNCHANGED <<version, pending, job, loads>>,
         SoundReader(r, version), SoundJob(job[c], r, flight[c], version),
         SoundWait(wait[c], r, flight[c], version),
         wait[c].on # None => SoundAwait(r, flight[wait[c].on], version)
  PROVE  TicketsInv'
<1> DEFINE j == job[c]
           w == wait[c]
<1>1. job' = [job EXCEPT ![c] = j] /\ wait' = [wait EXCEPT ![c] = w] /\ permits' \in Nat
      /\ UNCHANGED <<version, pending, closed, table, flight>>
  BY Types DEF loads
<1>2. /\ SoundJob(j, r, flight[c], version) /\ SoundWait(w, r, flight[c], version)
      /\ w.on # None => SoundAwait(r, flight[w.on], version)
  OBVIOUS
<1> HIDE DEF j, w
<1> QED
  BY <1>1, <1>2, CallStep

\* The same where its job is all that changes of it.
LEMMA JobChanges ==
  ASSUME TicketsInv, NEW c \in Calls, NEW j, job' = [job EXCEPT ![c] = j],
         cache' \in [Versions -> 0..MaxVersion], UNCHANGED <<version, pending, reader, loads>>,
         SoundJob(j, reader[c], flight[c], version)
  PROVE  TicketsInv'
<1> DEFINE r == reader[c]
           w == wait[c]
<1>1. reader' = [reader EXCEPT ![c] = r] /\ wait' = [wait EXCEPT ![c] = w] /\ permits' \in Nat
      /\ UNCHANGED <<version, pending, closed, table, flight>>
  BY Types DEF loads
<1>2. /\ SoundReader(r, version) /\ SoundWait(w, r, flight[c], version)
      /\ w.on # None => SoundAwait(r, flight[w.on], version)
      /\ SoundJob(j, r, flight[c], version)
  BY DEF TicketsInv, SoundCall
<1> HIDE DEF r, w
<1> QED
  BY <1>1, <1>2, CallStep

\* The same where its locals inside the coordinator are.
LEMMA WaitStep ==
  ASSUME TicketsInv, NEW c \in Calls, NEW w, wait' = [wait EXCEPT ![c] = w], permits' \in Nat,
         UNCHANGED <<version, cache, pending, reader, job, closed, table, flight>>,
         SoundWait(w, reader[c], flight[c], version),
         w.on # None => SoundAwait(reader[c], flight[w.on], version)
  PROVE  TicketsInv'
<1> DEFINE r == reader[c]
           j == job[c]
<1>1. /\ reader' = [reader EXCEPT ![c] = r] /\ job' = [job EXCEPT ![c] = j]
      /\ cache' \in [Versions -> 0..MaxVersion]
      /\ UNCHANGED <<version, pending, closed, table, flight>>
  BY Types
<1>2. /\ SoundReader(r, version) /\ SoundJob(j, r, flight[c], version)
      /\ SoundWait(w, r, flight[c], version)
      /\ w.on # None => SoundAwait(r, flight[w.on], version)
  BY DEF TicketsInv, SoundCall
<1> HIDE DEF r, j
<1> QED
  BY <1>1, <1>2, CallStep

\* A step of one flight that has begun, and of its job.
LEMMA FlightStep ==
  ASSUME TicketsInv, NEW f \in Calls, NEW g, NEW j,
         flight' = [flight EXCEPT ![f] = g], job' = [job EXCEPT ![f] = j],
         cache' \in [Versions -> 0..MaxVersion],
         UNCHANGED <<version, pending, reader, permits, closed, wait>>,
         flight[f].stage # "none", g.stage # "none",
         SoundFlight(g, version), SoundJob(j, reader[f], g, version),
         g.stage \in Loads!Executing => flight[f].stage \in Loads!Executing /\ g.key = flight[f].key,
         g.result = flight[f].result \/ g.result = Failed
           \/ (flight[f].stage \in Loads!Executing /\ g.result \in flight[f].key..version),
         table' = IF g.stage \in Loads!Executing THEN table ELSE table \ {f}
  PROVE  TicketsInv'
<1>1. /\ flight'[f] = g /\ \A h \in Calls \ {f} : flight'[h] = flight[h]
      /\ job'[f] = j /\ \A h \in Calls \ {f} : job'[h] = job[h]
  BY Types
<1>2. j \in Job /\ g \in Loads!Flight
  BY DEF SoundFlight, SoundJob
<1>3. table' = {h \in Calls : flight[h].stage \in Loads!Executing}'
  BY <1>1 DEF TicketsInv
<1>4. TypeOK'
  BY <1>2, <1>3 DEF TicketsInv, TypeOK
<1>5. ASSUME NEW c \in Calls PROVE SoundCall(c)'
  <2>1. SoundCall(c)
    BY DEF TicketsInv
  <2>2. SoundReader(reader[c], version)' /\ SoundFlight(flight[c], version)'
    BY <1>1, <2>1 DEF SoundCall
  <2>3. SoundJob(job[c], reader[c], flight[c], version)'
    BY <1>1, <2>1 DEF SoundCall
  <2>4. SoundWait(wait[c], reader[c], flight[c], version)'
    <3>1. flight[f] # Loads!NewFlight
      BY DEF Loads!NewFlight
    <3>2. CASE c # f
      BY <1>1, <2>1, <3>2 DEF SoundCall
    <3>3. CASE c = f
      BY <2>1, <3>1, <3>3 DEF SoundCall, SoundWait
    <3> QED
      BY <3>2, <3>3
  <2>5. ASSUME wait[c].on # None PROVE SoundAwait(reader[c], flight'[wait[c].on], version)
    <3>1. wait[c].on \in Calls /\ SoundAwait(reader[c], flight[wait[c].on], version)
      BY <2>1, <2>5, Types DEF SoundCall, Loads!Wait
    <3>2. CASE wait[c].on # f
      BY <1>1, <3>1, <3>2
    <3>3. CASE wait[c].on = f
      BY <1>1, <3>1, <3>3 DEF SoundAwait
    <3> QED
      BY <3>2, <3>3
  <2> QED
    BY <2>2, <2>3, <2>4, <2>5 DEF SoundCall
<1> QED
  BY <1>3, <1>4, <1>5 DEF TicketsInv

-----------------------------------------------------------------------------
(* find, up to the load.                                                   *)

\* What the invariant says of a call.
LEMMA CallFacts ==
  ASSUME TicketsInv, NEW c \in Calls
  PROVE  /\ version \in 0..MaxVersion /\ permits \in Nat
         /\ cache \in [Versions -> 0..MaxVersion] /\ reader[c] \in Reader /\ job[c] \in Job
         /\ flight[c] \in Loads!Flight /\ wait[c] \in Loads!Wait
         /\ SoundReader(reader[c], version) /\ SoundJob(job[c], reader[c], flight[c], version)
         /\ SoundFlight(flight[c], version) /\ SoundWait(wait[c], reader[c], flight[c], version)
         /\ wait[c].on # None => SoundAwait(reader[c], flight[wait[c].on], version)
BY DEF TicketsInv, TypeOK, SoundCall

\* A reader before its load has nothing on its way.
LEMMA NothingYet ==
  ASSUME TicketsInv, NEW c \in Calls, reader[c].stage \in {"new", "look"}
  PROVE  /\ job[c] = NewJob /\ wait[c] = Loads!NewWait /\ wait[c].on = None
         /\ flight[c] = Loads!NewFlight
BY CallFacts DEF SoundJob, SoundWait, Loads!NewWait

\* A reader that begins reads the version at that moment, and carries no ticket yet.
LEMMA AskVersionSafe ==
  ASSUME TicketsInv, NEW c \in Calls, AskVersion(c)
  PROVE  TicketsInv'
<1> DEFINE r == [reader[c] EXCEPT !.stage = "look", !.known = version]
<1>1. reader[c] \in Reader /\ reader[c].stage = "new" /\ version \in 0..MaxVersion
      /\ SoundReader(reader[c], version) /\ SoundWait(wait[c], reader[c], flight[c], version)
  BY CallFacts DEF AskVersion
<1>2. r \in Reader /\ r.stage = "look" /\ r.known = version /\ r.answer = None
  BY <1>1 DEF Reader, SoundReader
<1>3. reader' = [reader EXCEPT ![c] = r] /\ UNCHANGED <<version, cache, pending, job, loads>>
  BY Zenon DEF AskVersion
<1> HIDE DEF r
<1>4. SoundReader(r, version)
  BY <1>1, <1>2 DEF SoundReader
<1>5. SoundJob(job[c], r, flight[c], version)
  BY <1>1, <1>2, NothingYet, CallFacts DEF SoundJob, NewJob
<1>6. SoundWait(wait[c], r, flight[c], version)
  BY <1>1, <1>2, NothingYet DEF SoundWait, Loads!NewWait
<1> QED
  BY <1>1, <1>3, <1>4, <1>5, <1>6, NothingYet, Types, ReaderStep

\* A reader that is done, and the rest of its call.
Done(r, a) == [r EXCEPT !.stage = "done", !.answer = a]

\* A reader that is done is held to nothing but its answer.
LEMMA DoneReader ==
  ASSUME NEW r, NEW ver, SoundReader(r, ver), ver \in 0..MaxVersion,
         NEW a, a = Failed \/ (r.known # None /\ a \in r.known..ver)
  PROVE  /\ Done(r, a) \in Reader /\ Done(r, a).stage = "done" /\ Done(r, a).known = r.known
         /\ Done(r, a).answer = a
         /\ SoundReader(Done(r, a), ver)
<1>1. a \in 0..MaxVersion \cup {None, Failed}
  BY DEF SoundReader, Reader
<1>2. /\ Done(r, a) \in Reader /\ Done(r, a).stage = "done" /\ Done(r, a).known = r.known
      /\ Done(r, a).answer = a
  BY <1>1 DEF SoundReader, Reader, Done
<1> QED
  BY <1>2 DEF SoundReader

\* A reader that is answered before its load.
LEMMA FinishesEarly ==
  ASSUME TicketsInv, NEW c \in Calls, reader[c].stage \in {"new", "look"},
         NEW a, a = Failed \/ (reader[c].known # None /\ a \in reader[c].known..version),
         Finishes(c, a), UNCHANGED <<version, cache, pending, job, loads>>
  PROVE  TicketsInv'
<1> DEFINE r == Done(reader[c], a)
<1>1. reader' = [reader EXCEPT ![c] = r]
  BY Zenon DEF Finishes, Done
<1>2. r \in Reader /\ r.stage = "done" /\ r.known = reader[c].known /\ SoundReader(r, version)
  BY CallFacts, DoneReader
<1> HIDE DEF r
<1>3. SoundJob(job[c], r, flight[c], version)
  BY <1>2, NothingYet, CallFacts DEF SoundJob, NewJob
<1>4. SoundWait(wait[c], r, flight[c], version)
  BY <1>2, NothingYet, CallFacts DEF SoundWait, Loads!NewWait
<1> QED
  BY <1>1, <1>2, <1>3, <1>4, NothingYet, Types, ReaderStep

\* A hit is an entry whose stored version is the one that was asked for, so no older.
\* A miss, or no cache at all, leads to the coordinator or to a load of one's own.
LEMMA LookSafe ==
  ASSUME TicketsInv, NEW c \in Calls, Look(c)
  PROVE  TicketsInv'
<1> DEFINE v == reader[c].known
<1>1. /\ reader[c].stage = "look" /\ v \in Versions /\ v <= version /\ version \in 0..MaxVersion
      /\ reader[c] \in Reader /\ reader[c].answer = None
  BY CallFacts DEF Look, SoundReader, Reader, Versions
<1>2. CASE Hit(v) /\ Finishes(c, cache[v]) /\ UNCHANGED <<cache, job>>
  <2>1. cache[v] \in v..version
    BY <1>1, <1>2 DEF Hit, Versions
  <2>2. v # None
    BY <1>1 DEF Versions
  <2>3. UNCHANGED <<version, cache, pending, job, loads>>
    BY <1>2 DEF Look
  <2> QED
    BY <1>1, <1>2, <2>1, <2>2, <2>3, FinishesEarly
<1>3. ASSUME NEW blind \in BOOLEAN, IF blind THEN UNCHANGED cache ELSE ~Hit(v) /\ Missed(v),
             FillsAlone(c, blind) \/ FillsTogether(c, blind)
      PROVE  TicketsInv'
  <2>1. cache' \in [Versions -> 0..MaxVersion]
    BY <1>1, <1>3, Types DEF Missed
  <2>2. /\ job[c] = NewJob /\ wait[c] = Loads!NewWait /\ wait[c].on = None
        /\ flight[c] = Loads!NewFlight
        /\ UNCHANGED <<version, pending, permits, closed, table, flight, wait>>
    BY <1>1, NothingYet DEF Look, loads
  <2> DEFINE w == wait[c]
  <2>3. wait' = [wait EXCEPT ![c] = w] /\ permits' \in Nat /\ w.on = None
        /\ w = Loads!NewWait /\ w \in Loads!Wait
    BY <2>2, Types DEF loads
  <2>4. CASE FillsAlone(c, blind)
    <3> DEFINE r == [reader[c] EXCEPT !.stage = "fill"]
               j == [job[c] EXCEPT !.at = "find", !.blind = blind]
    <3>1. reader' = [reader EXCEPT ![c] = r] /\ job' = [job EXCEPT ![c] = j]
      BY <2>4, Zenon DEF FillsAlone
    <3>2. r \in Reader /\ r.stage = "fill" /\ r.known = v /\ r.answer = None
      BY <1>1 DEF Reader
    <3>3. j \in Job /\ j.at = "find" /\ j.got = None
      <4>1. job[c] \in Job /\ job[c].got = None /\ blind \in BOOLEAN
        BY <1>3, <2>2, CallFacts DEF NewJob
      <4> QED
        BY <4>1 DEF Job
    <3> HIDE DEF r, j, w
    <3>4. SoundReader(r, version)
      BY <1>1, <3>2 DEF SoundReader, Versions
    <3>5. SoundJob(j, r, flight[c], version)
      BY <3>2, <3>3 DEF SoundJob
    <3>6. SoundWait(w, r, flight[c], version)
      BY <2>2, <2>3, <3>2 DEF SoundWait, Loads!NewWait
    <3> QED
      BY <2>1, <2>2, <2>3, <3>1, <3>4, <3>5, <3>6, CallStep
  <2>5. CASE FillsTogether(c, blind)
    <3> DEFINE r == [reader[c] EXCEPT !.stage = "load"]
               j == [job[c] EXCEPT !.blind = blind]
    <3>1. reader' = [reader EXCEPT ![c] = r] /\ job' = [job EXCEPT ![c] = j]
      BY <2>5, Zenon DEF FillsTogether
    <3>2. r \in Reader /\ r.stage = "load" /\ r.known = v /\ r.answer = None
      BY <1>1 DEF Reader
    <3>3. j \in Job /\ j.at = "none" /\ j.got = None
      BY <2>2, CallFacts DEF Job, NewJob
    <3> HIDE DEF r, j, w
    <3>4. SoundReader(r, version)
      BY <1>1, <3>2 DEF SoundReader, Versions
    <3>5. SoundJob(j, r, flight[c], version)
      BY <3>2, <3>3 DEF SoundJob
    <3>6. SoundWait(w, r, flight[c], version)
      BY <2>2, <2>3, <3>2 DEF SoundWait, Loads!NewWait
    <3> QED
      BY <2>1, <2>2, <2>3, <3>1, <3>4, <3>5, <3>6, CallStep
  <2> QED
    BY <1>3, <2>4, <2>5
<1> QED
  BY <1>2, <1>3 DEF Look

\* A reader that finds no ticket, or no source.
LEMMA NoTicketSafe ==
  ASSUME TicketsInv, NEW c \in Calls, SourceDown(c) \/ FindNothing(c)
  PROVE  TicketsInv'
<1>1. CASE SourceDown(c)
  BY <1>1, FinishesEarly DEF SourceDown
<1>2. CASE FindNothing(c)
  <2>1. 0 \in 0..version
    BY CallFacts
  <2>2. reader[c].known # None /\ 0 \in reader[c].known..version
    BY <1>2, <2>1, CallFacts DEF FindNothing, SoundReader
  <2> QED
    BY <1>2, <2>2, FinishesEarly DEF FindNothing
<1> QED
  BY <1>1, <1>2

-----------------------------------------------------------------------------
(* The load.                                                               *)

\* The locals of a caller in each of its stages.
LEMMA WaitValues ==
  /\ \A a \in Versions \cup {Failed} :
       LET w == [Loads!NewWait EXCEPT !.stage = "leave", !.outcome = a]
       IN  w \in Loads!Wait /\ w.stage = "leave" /\ w.key = None /\ w.on = None /\ w.outcome = a
  /\ \A f \in Calls :
       LET w == [Loads!NewWait EXCEPT !.stage = "await", !.on = f]
       IN  w \in Loads!Wait /\ w.stage = "await" /\ w.key = None /\ w.on = f /\ w.outcome = None
  /\ LET w == [Loads!NewWait EXCEPT !.stage = "done"]
     IN  w \in Loads!Wait /\ w.stage = "done" /\ w.key = None /\ w.on = None /\ w.outcome = None
  /\ \A k \in Versions :
       LET w == [Loads!NewWait EXCEPT !.stage = "lock", !.key = k]
       IN  w \in Loads!Wait /\ w.stage = "lock" /\ w.key = k /\ w.on = None /\ w.outcome = None
BY DEF Loads!Wait, Loads!NewWait

\* A caller with a permit or without one.
LEMMA LoadSafe ==
  ASSUME TicketsInv, NEW c \in Calls, Load(c)
  PROVE  TicketsInv'
<1>1. /\ reader[c].stage = "load" /\ reader[c] \in Reader /\ reader[c].known # None
      /\ reader[c].known \in Versions /\ reader[c].known <= version /\ reader[c].answer = None
      /\ wait[c] = Loads!NewWait /\ flight[c] = Loads!NewFlight /\ permits \in Nat
      /\ version \in 0..MaxVersion
  BY CallFacts DEF Load, SoundReader, SoundWait, Loads!NewWait, Reader, Versions
<1>2. /\ SoundReader(reader[c], version) /\ SoundJob(job[c], reader[c], flight[c], version)
      /\ cache' \in [Versions -> 0..MaxVersion]
      /\ UNCHANGED <<version, cache, pending, job, closed, table, flight>>
  BY CallFacts DEF Load, Loads!Acquire
<1> DEFINE j == job[c]
<1>3. job' = [job EXCEPT ![c] = j] /\ SoundJob(j, reader[c], flight[c], version)
  BY <1>2, Types
<1> HIDE DEF j
<1>4. CASE permits = 0
  <2> DEFINE r == Done(reader[c], Failed)
             w == [Loads!NewWait EXCEPT !.stage = "done"]
  <2>1. reader' = [reader EXCEPT ![c] = r]
    BY <1>4, Zenon DEF Load, Finishes, Done
  <2>2. r.stage = "done" /\ r.known = reader[c].known /\ SoundReader(r, version)
    BY <1>1, <1>2, DoneReader
  <2>3. wait' = [wait EXCEPT ![c] = w] /\ permits' = permits
    <3>1. wait' = [wait EXCEPT ![c] = [wait[c] EXCEPT !.stage = "done"]]
      BY <1>4, Zenon DEF Load, Loads!Acquire
    <3> QED
      BY <1>1, <1>4, <3>1 DEF Load, Loads!Acquire
  <2>4. w \in Loads!Wait /\ w.stage = "done" /\ w.key = None /\ w.on = None /\ w.outcome = None
    BY WaitValues
  <2> HIDE DEF r, w
  <2>5. SoundJob(j, r, flight[c], version)
    BY <1>1, <1>3, <2>2 DEF SoundJob
  <2>6. SoundWait(w, r, flight[c], version)
    BY <2>2, <2>4 DEF SoundWait
  <2> QED
    BY <1>1, <1>2, <1>3, <2>1, <2>2, <2>3, <2>4, <2>5, <2>6, CallStep
<1>5. CASE permits # 0
  <2> DEFINE r == [reader[c] EXCEPT !.stage = "wait"]
             w == [Loads!NewWait EXCEPT !.stage = "lock", !.key = reader[c].known]
  <2>1. reader' = [reader EXCEPT ![c] = r]
    BY <1>5, Zenon DEF Load
  <2>2. r \in Reader /\ r.stage = "wait" /\ r.known = reader[c].known /\ r.answer = None
    BY <1>1 DEF Reader
  <2>3. wait' = [wait EXCEPT ![c] = w] /\ permits' \in Nat
    <3>1. wait' = [wait EXCEPT ![c] = [wait[c] EXCEPT !.stage = "lock", !.key = Key(c)]]
      BY <1>5, Zenon DEF Load, Loads!Acquire
    <3> QED
      BY <1>1, <1>5, <3>1 DEF Load, Loads!Acquire, Key
  <2>4. w \in Loads!Wait /\ w.stage = "lock" /\ w.key = r.known /\ w.on = None /\ w.outcome = None
    BY <1>1, <2>2, WaitValues
  <2> HIDE DEF r, w
  <2>5. SoundReader(r, version)
    BY <1>1, <1>2, <2>2 DEF SoundReader, Versions
  <2>6. SoundJob(j, r, flight[c], version)
    BY <1>1, <1>3, <2>2 DEF SoundJob
  <2>7. SoundWait(w, r, flight[c], version)
    BY <1>1, <2>2, <2>4 DEF SoundWait
  <2> QED
    BY <1>1, <1>2, <1>3, <2>1, <2>3, <2>4, <2>5, <2>6, <2>7, CallStep
<1> QED
  BY <1>4, <1>5

\* A caller leaves with a failure or with what is not older than it asked for.
LEMMA Leaving ==
  ASSUME TicketsInv, NEW c \in Calls, wait[c].stage \in {"lock", "await"},
         NEW a \in Versions \cup {Failed}, a = Failed \/ a \in reader[c].known..version,
         Loads!Leaves(c, a),
         UNCHANGED <<version, cache, pending, reader, job, permits, closed, table, flight>>
  PROVE  TicketsInv'
<1> DEFINE w == [Loads!NewWait EXCEPT !.stage = "leave", !.outcome = a]
<1>1. wait' = [wait EXCEPT ![c] = w]
  BY DEF Loads!Leaves
<1>2. w \in Loads!Wait /\ w.stage = "leave" /\ w.key = None /\ w.on = None /\ w.outcome = a
  BY WaitValues
<1> HIDE DEF w
<1>3. reader[c].stage = "wait" /\ permits \in Nat
  BY CallFacts DEF SoundWait
<1>4. SoundWait(w, reader[c], flight[c], version)
  BY <1>2, <1>3 DEF SoundWait, Versions
<1> QED
  BY <1>1, <1>2, <1>3, <1>4, WaitStep

\* A caller joins a flight under its own key.
LEMMA JoinSafe ==
  ASSUME TicketsInv, NEW c \in Calls, Loads!Join(c),
         UNCHANGED <<version, cache, pending, reader, job>>
  PROVE  TicketsInv'
<1>1. PICK f \in Loads!Flying(wait[c].key) : Loads!Awaits(c, f)
  BY DEF Loads!Join
<1> DEFINE w == [Loads!NewWait EXCEPT !.stage = "await", !.on = f]
<1>2. /\ f \in Calls /\ flight[f].stage \in Loads!Executing /\ flight[f].key = reader[c].known
      /\ wait[c].stage = "lock" /\ reader[c].stage = "wait" /\ permits \in Nat
  BY <1>1, CallFacts DEF Loads!Join, Loads!Flying, SoundWait, TicketsInv
<1>3. wait' = [wait EXCEPT ![c] = w]
  BY <1>1 DEF Loads!Awaits
<1>4. w \in Loads!Wait /\ w.stage = "await" /\ w.key = None /\ w.on = f /\ w.outcome = None
  BY <1>2, WaitValues
<1> HIDE DEF w
<1>5. f # None
  BY <1>2
<1>6. SoundWait(w, reader[c], flight[c], version)
  BY <1>2, <1>4, <1>5 DEF SoundWait
<1>7. SoundAwait(reader[c], flight[f], version)
  BY <1>2, CallFacts DEF SoundAwait, SoundFlight, Loads!Executing
<1>8. UNCHANGED <<version, cache, pending, reader, job, closed, table, flight>> /\ permits' \in Nat
  BY <1>2 DEF Loads!Join
<1> QED
  BY <1>3, <1>4, <1>6, <1>7, <1>8, WaitStep

\* A caller starts a flight, which nobody waits for yet.
LEMMA StartSafe ==
  ASSUME TicketsInv, NEW c \in Calls, Loads!Start(c),
         UNCHANGED <<version, cache, pending, reader, job>>
  PROVE  TicketsInv'
<1> DEFINE g == [flight[c] EXCEPT !.stage = "begin", !.key = wait[c].key]
           w == [Loads!NewWait EXCEPT !.stage = "await", !.on = c]
<1>1. /\ wait[c].stage = "lock" /\ reader[c].stage = "wait" /\ flight[c] = Loads!NewFlight
      /\ wait[c].key = reader[c].known /\ reader[c].known # None /\ reader[c].known # 0
      /\ reader[c].known \in Versions /\ reader[c].known <= version
      /\ flight[c] \in Loads!Flight /\ version \in 0..MaxVersion /\ c # None
  BY CallFacts DEF Loads!Start, SoundWait, SoundReader, Reader, Versions
<1>2. flight' = [flight EXCEPT ![c] = g] /\ wait' = [wait EXCEPT ![c] = w]
  BY Zenon DEF Loads!Start, Loads!Awaits
<1>3. /\ g \in Loads!Flight /\ g.stage = "begin" /\ g.key = reader[c].known /\ g.result = None
      /\ g.found = None
  <2>1. flight[c].result = None /\ flight[c].found = None
    BY <1>1 DEF Loads!NewFlight
  <2>2. flight[c] \in Loads!Flight /\ wait[c].key \in Versions
    BY <1>1
  <2>3. g \in Loads!Flight /\ g.stage = "begin" /\ g.key = wait[c].key
    BY <2>2 DEF Loads!Flight, Loads!Executing
  <2>4. g.result = flight[c].result /\ g.found = flight[c].found
    BY <2>2 DEF Loads!Flight
  <2> QED
    BY <1>1, <2>1, <2>3, <2>4
<1>4. w \in Loads!Wait /\ w.stage = "await" /\ w.key = None /\ w.on = c /\ w.outcome = None
  BY WaitValues
<1> HIDE DEF g, w
<1>5. /\ flight'[c] = g /\ \A h \in Calls \ {c} : flight'[h] = flight[h]
      /\ wait'[c] = w /\ \A b \in Calls \ {c} : wait'[b] = wait[b]
  BY <1>2, Types
<1>6. table' = {f \in Calls : flight[f].stage \in Loads!Executing}'
  <2>1. table' = table \cup {c} /\ table = {f \in Calls : flight[f].stage \in Loads!Executing}
    BY DEF Loads!Start, TicketsInv
  <2> QED
    BY <1>3, <1>5, <2>1 DEF Loads!Executing
<1>7. TypeOK'
  <2>1. flight' \in [Calls -> Loads!Flight] /\ wait' \in [Calls -> Loads!Wait]
    BY <1>2, <1>3, <1>4, Types
  <2>2. table' \subseteq Calls /\ permits' \in Nat /\ closed' \in BOOLEAN
    BY <1>6, Types DEF Loads!Start
  <2> QED
    BY <2>1, <2>2 DEF TicketsInv, TypeOK
<1>8. SoundCall(c)'
  <2>1. SoundReader(reader[c], version)
    BY CallFacts
  <2>2. SoundJob(job[c], reader[c], g, version)
    <3>1. SoundJob(job[c], reader[c], flight[c], version) /\ flight[c].stage = "none"
      BY <1>1, CallFacts DEF Loads!NewFlight
    <3> QED
      BY <1>1, <3>1 DEF SoundJob, Job
  <2>3. SoundFlight(g, version)
    BY <1>1, <1>3 DEF SoundFlight
  <2>4. SoundWait(w, reader[c], g, version)
    BY <1>1, <1>4 DEF SoundWait
  <2>5. SoundAwait(reader[c], g, version)
    BY <1>3 DEF SoundAwait
  <2> QED
    BY <1>4, <1>5, <2>1, <2>2, <2>3, <2>4, <2>5 DEF SoundCall
<1>9. ASSUME NEW b \in Calls \ {c} PROVE SoundCall(b)'
  <2>1. SoundCall(b)
    BY DEF TicketsInv
  <2>2. wait[b].on # c
    BY <1>1, <2>1 DEF SoundCall, SoundAwait, Loads!NewFlight
  <2>3. wait[b].on # None => wait[b].on \in Calls
    BY CallFacts DEF Loads!Wait
  <2> QED
    BY <1>5, <2>1, <2>2, <2>3 DEF SoundCall
<1> QED
  BY <1>6, <1>7, <1>8, <1>9 DEF TicketsInv

\* Everything a caller does in the coordinator but take a permit and return it.
LEMMA CoordinateSafe ==
  ASSUME TicketsInv, NEW c \in Calls, Coordinate(c)
  PROVE  TicketsInv'
<1>1. UNCHANGED <<version, cache, pending, reader, job>>
  BY DEF Coordinate
<1>2. CASE Loads!TurnedAway(c)
  BY <1>1, <1>2, Leaving DEF Loads!TurnedAway
<1>3. CASE Loads!Join(c)
  BY <1>1, <1>3, JoinSafe
<1>4. CASE Loads!Start(c)
  BY <1>1, <1>4, StartSafe
<1>5. CASE Loads!Take(c)
  <2> DEFINE a == flight[wait[c].on].result
  <2>1. /\ wait[c].stage = "await" /\ a # None /\ Loads!Leaves(c, a)
        /\ UNCHANGED <<permits, closed, table, flight>>
    BY <1>5 DEF Loads!Take
  <2>2. wait[c].on \in Calls /\ SoundAwait(reader[c], flight[wait[c].on], version)
    BY <2>1, CallFacts DEF SoundWait, Loads!Wait
  <2>3. a \in Versions \cup {Failed}
    BY <2>1, <2>2, CallFacts DEF Loads!Flight
  <2>4. a = Failed \/ a \in reader[c].known..version
    BY <2>1, <2>2 DEF SoundAwait
  <2> HIDE DEF a
  <2> QED
    BY <1>1, <2>1, <2>3, <2>4, Leaving
<1>6. CASE Loads!Deadline(c)
  BY <1>1, <1>6, Leaving DEF Loads!Deadline
<1>7. CASE Loads!Interrupted(c)
  BY <1>1, <1>7, Leaving DEF Loads!Interrupted
<1> QED
  BY <1>2, <1>3, <1>4, <1>5, <1>6, <1>7 DEF Coordinate

\* A caller returns its permit, and the reader answers with what it left with.
LEMMA ReturnSafe ==
  ASSUME TicketsInv, NEW c \in Calls, Return(c)
  PROVE  TicketsInv'
<1> DEFINE a == wait[c].outcome
           r == Done(reader[c], a)
           w == [Loads!NewWait EXCEPT !.stage = "done"]
           j == job[c]
<1>1. /\ wait[c].stage = "leave" /\ reader[c].stage = "wait" /\ reader[c].known # None
      /\ permits \in Nat /\ permits' = permits + 1 /\ version \in 0..MaxVersion
      /\ SoundReader(reader[c], version) /\ cache \in [Versions -> 0..MaxVersion]
      /\ UNCHANGED <<version, cache, pending, job, closed, table, flight>>
  BY CallFacts DEF Return, Loads!Return, SoundWait, SoundReader
<1>2. a = Failed \/ a \in reader[c].known..version
  BY <1>1, CallFacts DEF SoundWait
<1>3. reader' = [reader EXCEPT ![c] = r]
  BY Zenon DEF Return, Finishes, Done
<1>4. wait' = [wait EXCEPT ![c] = w] /\ job' = [job EXCEPT ![c] = j]
  BY <1>1, Types DEF Return, Loads!Return
<1>5. SoundJob(j, reader[c], flight[c], version)
  BY CallFacts
<1>6. w \in Loads!Wait /\ w.stage = "done" /\ w.key = None /\ w.on = None /\ w.outcome = None
  BY WaitValues
<1> HIDE DEF a, w, j
<1>7. r.stage = "done" /\ r.known = reader[c].known /\ SoundReader(r, version)
  BY <1>1, <1>2, DoneReader
<1> HIDE DEF r
<1>8. SoundJob(j, r, flight[c], version)
  BY <1>1, <1>5, <1>7 DEF SoundJob
<1>9. SoundWait(w, r, flight[c], version)
  BY <1>6, <1>7 DEF SoundWait
<1>10. permits' \in Nat
  BY <1>1
<1> QED
  BY <1>1, <1>3, <1>4, <1>6, <1>7, <1>8, <1>9, <1>10, CallStep

-----------------------------------------------------------------------------
(* A flight and its work.                                                  *)

\* Whose flight has begun is past its load; a flight at work has a key.
LEMMA Flown ==
  ASSUME TicketsInv, NEW f \in Calls, flight[f].stage # "none"
  PROVE  /\ reader[f].stage \in {"wait", "done"}
         /\ flight[f].stage \in Loads!Executing => flight[f].key \in Versions /\ flight[f].key <= version
<1>1. flight[f] # Loads!NewFlight
  BY DEF Loads!NewFlight
<1>2. wait[f].stage \notin {"idle", "lock"}
  BY <1>1, CallFacts DEF SoundWait
<1>3. reader[f].stage \notin {"new", "look", "load", "fill"}
  BY <1>2, CallFacts DEF SoundWait, Loads!NewWait
<1> QED
  BY <1>3, CallFacts DEF Reader, SoundFlight

\* The work of a flight is over, and its job with it.
LEMMA EndsSafe ==
  ASSUME TicketsInv, NEW f \in Calls, flight[f].stage \in Loads!Executing,
         NEW a, a = Failed \/ a \in flight[f].key..version, Loads!Ends(f, a),
         NEW j \in Job, j.at = "none", j.got = None, job' = [job EXCEPT ![f] = j],
         UNCHANGED <<version, pending, reader, permits, closed, table, wait>>,
         cache' \in [Versions -> 0..MaxVersion]
  PROVE  TicketsInv'
<1> DEFINE x == Loads!Completed(f, a)
           g == [flight[f] EXCEPT !.stage = "remove", !.found = None, !.result = x]
<1>1. /\ flight[f] \in Loads!Flight /\ SoundFlight(flight[f], version) /\ flight[f].stage # "none"
      /\ version \in 0..MaxVersion
  BY CallFacts DEF Loads!Executing
<1>2. reader[f].stage \in {"wait", "done"} /\ flight[f].key \in Versions
  BY <1>1, Flown
<1>3. /\ x = flight[f].result \/ x = a
      /\ x # None
      /\ x \in Versions \cup {Failed}
      /\ x = Failed \/ x \in flight[f].key..version
  BY <1>1, <1>2 DEF Loads!Completed, Loads!Flight, SoundFlight, Versions
<1>4. flight' = [flight EXCEPT ![f] = g]
  BY Zenon DEF Loads!Ends
<1> HIDE DEF x
<1>5. g \in Loads!Flight /\ g.stage = "remove" /\ g.key = flight[f].key /\ g.found = None /\ g.result = x
  BY <1>1, <1>3 DEF Loads!Flight, Loads!Executing
<1> HIDE DEF g
<1>6. g.stage # "none" /\ g.stage \in Loads!Executing
  BY <1>5 DEF Loads!Executing
<1>7. SoundFlight(g, version)
  BY <1>1, <1>3, <1>5 DEF SoundFlight
<1>8. SoundJob(j, reader[f], g, version)
  BY <1>2 DEF SoundJob
<1> QED
  BY <1>1, <1>3, <1>4, <1>5, <1>6, <1>7, <1>8, FlightStep

\* A job ends with a failure or with what is not older than the version it runs for.
LEMMA JobEndsSafe ==
  ASSUME TicketsInv, NEW f \in Calls,
         NEW a, a = Failed \/ a \in (IF Alone(f) THEN reader[f].known ELSE flight[f].key)..version,
         JobEnds(f, a), UNCHANGED <<version, pending>>, cache' \in [Versions -> 0..MaxVersion]
  PROVE  TicketsInv'
<1> DEFINE j == NewJob
<1>1. job' = [job EXCEPT ![f] = j] /\ j \in Job /\ j.at = "none" /\ j.got = None /\ j = NewJob
  BY DEF JobEnds, NewJob, Job
<1> HIDE DEF j
<1>2. CASE Alone(f)
  <2> DEFINE r == Done(reader[f], a)
             w == wait[f]
  <2>1. /\ reader[f].stage = "fill" /\ reader[f].known # None /\ SoundReader(reader[f], version)
        /\ version \in 0..MaxVersion /\ w = Loads!NewWait /\ w.on = None
        /\ flight[f] = Loads!NewFlight /\ permits \in Nat
        /\ UNCHANGED <<version, pending, permits, closed, table, flight, wait>>
    BY <1>2, CallFacts DEF Alone, SoundReader, SoundWait, Loads!NewWait, JobEnds, loads
  <2>2. a = Failed \/ a \in reader[f].known..version
    BY <1>2
  <2>3. reader' = [reader EXCEPT ![f] = r]
    BY <1>2, Zenon DEF JobEnds, Finishes, Done
  <2>4. wait' = [wait EXCEPT ![f] = w] /\ w \in Loads!Wait
    BY <2>1, Types
  <2> HIDE DEF w
  <2>5. r.stage = "done" /\ r.known = reader[f].known /\ SoundReader(r, version)
    BY <2>1, <2>2, DoneReader
  <2> HIDE DEF r
  <2>6. SoundJob(j, r, flight[f], version)
    BY <1>1, <2>5 DEF SoundJob
  <2>7. SoundWait(w, r, flight[f], version)
    BY <2>1, <2>4, <2>5 DEF SoundWait, Loads!NewWait
  <2> QED
    BY <1>1, <2>1, <2>3, <2>4, <2>5, <2>6, <2>7, CallStep
<1>3. CASE ~Alone(f) /\ a = Failed
  <2>1. Loads!WorkFails(f) /\ UNCHANGED reader
    BY <1>3 DEF JobEnds
  <2>2. /\ flight[f].stage \in Loads!Executing /\ Loads!Ends(f, Failed)
        /\ UNCHANGED <<version, pending, reader, permits, closed, table, wait>>
    BY <2>1 DEF Loads!WorkFails, Loads!Executing
  <2> QED
    BY <1>1, <2>2, EndsSafe
<1>4. CASE ~Alone(f) /\ a # Failed
  <2> DEFINE g == [flight[f] EXCEPT !.stage = "publish", !.found = a]
  <2>1. Loads!WorkReturns(f, a) /\ UNCHANGED reader
    BY <1>4 DEF JobEnds
  <2>2. /\ flight[f].stage = "work" /\ flight[f].stage \in Loads!Executing /\ flight[f].stage # "none"
        /\ flight' = [flight EXCEPT ![f] = g]
        /\ UNCHANGED <<version, pending, reader, permits, closed, table, wait>>
    BY <2>1 DEF Loads!WorkReturns, Loads!Executing
  <2>3. /\ flight[f] \in Loads!Flight /\ SoundFlight(flight[f], version) /\ version \in 0..MaxVersion
        /\ flight[f].key \in Versions /\ flight[f].key <= version
        /\ reader[f].stage \in {"wait", "done"}
    BY <2>2, Flown, CallFacts
  <2>4. a \in flight[f].key..version
    BY <1>4
  <2>5. a \in Versions
    BY <2>3, <2>4 DEF Versions
  <2>6. /\ g \in Loads!Flight /\ g.stage = "publish" /\ g.key = flight[f].key /\ g.found = a
        /\ g.result = flight[f].result
    BY <2>3, <2>5 DEF Loads!Flight, Loads!Executing
  <2> HIDE DEF g
  <2>7. SoundFlight(g, version)
    BY <2>2, <2>3, <2>4, <2>6 DEF SoundFlight
  <2>8. g.stage # "none" /\ g.stage \in Loads!Executing
    BY <2>6 DEF Loads!Executing
  <2>9. SoundJob(j, reader[f], g, version)
    BY <1>1, <2>3 DEF SoundJob
  <2> QED
    BY <1>1, <2>2, <2>6, <2>7, <2>8, <2>9, FlightStep
<1> QED
  BY <1>2, <1>3, <1>4

\* What a job that runs has got, and for whom it runs.
LEMMA JobFacts ==
  ASSUME TicketsInv, NEW f \in Calls, job[f].at # "none"
  PROVE  /\ version \in 0..MaxVersion /\ job[f] \in Job
         /\ reader[f].stage \notin {"new", "look"}
         /\ Alone(f) => reader[f].known \in Versions /\ reader[f].known <= version
         /\ ~Alone(f) => flight[f].stage = "work" /\ flight[f].key \in Versions /\ flight[f].key <= version
         /\ job[f].at \in {"again", "hit"} => ~Alone(f)
         /\ job[f].at \in {"none", "again", "find"} => job[f].got = None
         /\ job[f].at \in {"hit", "found", "put"} =>
              /\ job[f].got \in (IF Alone(f) THEN reader[f].known ELSE flight[f].key)..version
              /\ job[f].got \in Versions
<1>1. /\ version \in 0..MaxVersion /\ job[f] \in Job /\ reader[f] \in Reader
      /\ SoundJob(job[f], reader[f], flight[f], version) /\ SoundReader(reader[f], version)
  BY CallFacts
<1>2. reader[f].stage \notin {"new", "look"}
  BY <1>1 DEF SoundJob, NewJob
<1>3. Alone(f) => reader[f].known \in Versions /\ reader[f].known <= version
  BY <1>1 DEF SoundReader, Alone, Reader, Versions
<1>4. ~Alone(f) => flight[f].stage = "work"
  BY <1>1 DEF SoundJob, Alone
<1>5. flight[f].stage = "work" => flight[f].key \in Versions /\ flight[f].key <= version
  BY Flown DEF Loads!Executing
<1>6. job[f].at \in {"hit", "found", "put"} =>
        job[f].got \in (IF Alone(f) THEN reader[f].known ELSE flight[f].key)..version
  BY <1>1 DEF SoundJob, Alone
<1>7. ASSUME job[f].at \in {"hit", "found", "put"} PROVE job[f].got \in Versions
  BY <1>1, <1>3, <1>4, <1>5, <1>6, <1>7 DEF Versions
<1> QED
  BY <1>1, <1>2, <1>3, <1>4, <1>5, <1>6, <1>7 DEF SoundJob, Alone

\* A step of a job that goes on.
LEMMA JobGoesOn ==
  ASSUME TicketsInv, NEW f \in Calls, job[f].at # "none", NEW j \in Job, job' = [job EXCEPT ![f] = j],
         j.at # "none",
         j.at \in {"none", "again", "find"} => j.got = None,
         j.at \in {"hit", "found", "put"} =>
           j.got \in (IF Alone(f) THEN reader[f].known ELSE flight[f].key)..version,
         j.at \in {"again", "hit"} => ~Alone(f),
         cache' \in [Versions -> 0..MaxVersion], UNCHANGED <<version, pending, reader, loads>>
  PROVE  TicketsInv'
<1>1. SoundJob(j, reader[f], flight[f], version)
  BY JobFacts DEF SoundJob, Alone
<1> QED
  BY <1>1, JobChanges

\* The worker takes the flight up, or finds that it is too late.
LEMMA WorkSafe ==
  ASSUME TicketsInv, NEW f \in Calls, Work(f)
  PROVE  TicketsInv'
<1>1. /\ flight[f].stage = "begin" /\ flight[f].stage # "none" /\ flight[f].stage \in Loads!Executing
      /\ UNCHANGED <<version, cache, pending, reader, permits, closed, table, wait>>
  BY DEF Work, Loads!Begin, Loads!Executing
<1>2. /\ reader[f].stage \in {"wait", "done"} /\ job[f] \in Job /\ flight[f] \in Loads!Flight
      /\ SoundJob(job[f], reader[f], flight[f], version) /\ SoundFlight(flight[f], version)
      /\ cache' \in [Versions -> 0..MaxVersion]
  BY <1>1, Flown, CallFacts
<1>3. job[f].at = "none" /\ job[f].got = None
  BY <1>1, <1>2 DEF SoundJob
<1>4. CASE Loads!WithinBudget(f)
  <2> DEFINE g == [flight[f] EXCEPT !.stage = "work"]
             j == [job[f] EXCEPT !.at = IF job[f].blind THEN "find" ELSE "again"]
  <2>1. flight' = [flight EXCEPT ![f] = g] /\ job' = [job EXCEPT ![f] = j]
    BY <1>4, Zenon DEF Work, Loads!Begin
  <2>2. g \in Loads!Flight /\ g.stage = "work" /\ g.key = flight[f].key
        /\ g.found = flight[f].found /\ g.result = flight[f].result
    BY <1>2 DEF Loads!Flight, Loads!Executing
  <2>3. j \in Job /\ j.at \in {"find", "again"} /\ j.got = None
    BY <1>2, <1>3 DEF Job
  <2> HIDE DEF g, j
  <2>4. SoundFlight(g, version)
    BY <1>1, <1>2, <2>2 DEF SoundFlight
  <2>5. SoundJob(j, reader[f], g, version)
    BY <1>2, <2>2, <2>3 DEF SoundJob
  <2>6. g.stage # "none" /\ g.stage \in Loads!Executing
    BY <2>2 DEF Loads!Executing
  <2> QED
    BY <1>1, <1>2, <2>1, <2>2, <2>4, <2>5, <2>6, FlightStep
<1>5. CASE ~Loads!WithinBudget(f)
  <2> DEFINE j == job[f]
  <2>1. job' = [job EXCEPT ![f] = j] /\ j \in Job /\ j.at = "none" /\ j.got = None
    BY <1>2, <1>3, <1>5, Types DEF Work
  <2> HIDE DEF j
  <2>2. Loads!Ends(f, Failed)
    BY <1>5 DEF Work, Loads!Begin
  <2> QED
    BY <1>1, <1>2, <2>1, <2>2, EndsSafe
<1> QED
  BY <1>4, <1>5

\* The work of a flight looks into the cache again.
LEMMA LookAgainSafe ==
  ASSUME TicketsInv, NEW f \in Calls, LookAgain(f)
  PROVE  TicketsInv'
<1> DEFINE k == flight[f].key
<1>1. /\ job[f].at = "again" /\ job[f] \in Job /\ job[f].got = None /\ ~Alone(f)
      /\ k \in Versions /\ k <= version /\ version \in 0..MaxVersion
      /\ cache \in [Versions -> 0..MaxVersion]
      /\ UNCHANGED <<version, pending, reader, loads>>
  BY JobFacts, CallFacts DEF LookAgain
<1>2. CASE Hit(k) /\ job' = [job EXCEPT ![f].at = "hit", ![f].got = cache[k]] /\ UNCHANGED cache
  <2> DEFINE j == [job[f] EXCEPT !.at = "hit", !.got = cache[k]]
  <2>1. job' = [job EXCEPT ![f] = j]
    BY <1>2, Zenon
  <2>2. j \in Job /\ j.at = "hit" /\ j.got = k
    BY <1>1, <1>2 DEF Job, Hit
  <2> HIDE DEF j
  <2>3. j.got \in k..version
    BY <1>1, <2>2 DEF Versions
  <2> QED
    BY <1>1, <1>2, <2>1, <2>2, <2>3, JobGoesOn
<1>3. CASE Missed(k) /\ job' = [job EXCEPT ![f].at = "find"]
  <2> DEFINE j == [job[f] EXCEPT !.at = "find"]
  <2>1. job' = [job EXCEPT ![f] = j]
    BY <1>3, Zenon
  <2>2. j \in Job /\ j.at = "find" /\ j.got = None
    BY <1>1 DEF Job
  <2>3. cache' \in [Versions -> 0..MaxVersion]
    BY <1>1, <1>3 DEF Missed
  <2> HIDE DEF j
  <2> QED
    BY <1>1, <2>1, <2>2, <2>3, JobGoesOn
<1>4. CASE UNCHANGED cache /\ job' = [job EXCEPT ![f].at = "find", ![f].blind = TRUE]
  <2> DEFINE j == [job[f] EXCEPT !.at = "find", !.blind = TRUE]
  <2>1. job' = [job EXCEPT ![f] = j]
    BY <1>4, Zenon
  <2>2. j \in Job /\ j.at = "find" /\ j.got = None
    BY <1>1 DEF Job
  <2> HIDE DEF j
  <2> QED
    BY <1>1, <1>4, <2>1, <2>2, JobGoesOn
<1> QED
  BY <1>2, <1>3, <1>4 DEF LookAgain

\* A job reads the source, which has moved on or not since it was asked for the version.
LEMMA FindSafe ==
  ASSUME TicketsInv, NEW f \in Calls, Find(f)
  PROVE  TicketsInv'
<1> DEFINE j == [job[f] EXCEPT !.at = "found", !.got = version]
<1>1. job' = [job EXCEPT ![f] = j] /\ job[f].at = "find"
  BY Zenon DEF Find
<1>2. /\ job[f] \in Job /\ version \in 0..MaxVersion
      /\ Alone(f) => reader[f].known \in Versions /\ reader[f].known <= version
      /\ ~Alone(f) => flight[f].key \in Versions /\ flight[f].key <= version
      /\ cache' \in [Versions -> 0..MaxVersion] /\ UNCHANGED <<version, pending, reader, loads>>
  BY <1>1, JobFacts, CallFacts DEF Find
<1>3. version \in (IF Alone(f) THEN reader[f].known ELSE flight[f].key)..version /\ version \in Versions
  BY <1>2 DEF Versions
<1>4. j \in Job /\ j.at = "found" /\ j.got = version
  BY <1>2, <1>3 DEF Job
<1> HIDE DEF j
<1> QED
  BY <1>1, <1>2, <1>3, <1>4, JobGoesOn

\* A job that has got a ticket returns it, or stores it first.
LEMMA FoundSafe ==
  ASSUME TicketsInv, NEW f \in Calls, ReturnHit(f) \/ Found(f) \/ Put(f)
  PROVE  TicketsInv'
<1> DEFINE a == job[f].got
<1>1. /\ job[f].at \in {"hit", "found", "put"} /\ job[f] \in Job /\ a \in Versions
      /\ a \in (IF Alone(f) THEN reader[f].known ELSE flight[f].key)..version
      /\ cache \in [Versions -> 0..MaxVersion]
  BY JobFacts, CallFacts DEF ReturnHit, Found, Put
<1>2. CASE JobEnds(f, a)
  <2>1. UNCHANGED <<version, pending>> /\ cache' \in [Versions -> 0..MaxVersion]
    BY <1>1 DEF ReturnHit, Found, Put, Versions
  <2> HIDE DEF a
  <2> QED
    BY <1>1, <1>2, <2>1, JobEndsSafe
<1>3. CASE Found(f) /\ job' = [job EXCEPT ![f].at = "put"] /\ UNCHANGED <<reader, loads>>
  <2> DEFINE j == [job[f] EXCEPT !.at = "put"]
  <2>1. job' = [job EXCEPT ![f] = j]
    BY <1>3, Zenon
  <2>2. j \in Job /\ j.at = "put" /\ j.got = a
    BY <1>1 DEF Job
  <2>3. /\ UNCHANGED <<version, pending, reader, loads>> /\ cache' \in [Versions -> 0..MaxVersion]
        /\ job[f].at # "none"
    BY <1>1, <1>3 DEF Found
  <2> HIDE DEF j, a
  <2> QED
    BY <1>1, <2>1, <2>2, <2>3, JobGoesOn
<1> QED
  BY <1>2, <1>3 DEF ReturnHit, Found, Put

\* A job that fails.
LEMMA JobFailsSafe ==
  ASSUME TicketsInv, NEW f \in Calls, JobFails(f)
  PROVE  TicketsInv'
<1>1. /\ JobEnds(f, Failed) /\ UNCHANGED <<version, pending>>
      /\ cache' \in [Versions -> 0..MaxVersion]
  BY CallFacts DEF JobFails
<1> QED
  BY <1>1, JobEndsSafe

\* The coordinator publishes a result, takes a flight off the table, is ready for the next,
\* or lets its time run out.
LEMMA CoordinatorSafe ==
  ASSUME TicketsInv, NEW f \in Calls, Coordinator(f)
  PROVE  TicketsInv'
<1> DEFINE j == job[f]
<1>1. /\ UNCHANGED <<version, cache, pending, reader, job>> /\ job' = [job EXCEPT ![f] = j]
      /\ cache' \in [Versions -> 0..MaxVersion]
      /\ table = {h \in Calls : flight[h].stage \in Loads!Executing}
  BY Types DEF Coordinator, TicketsInv
<1>2. /\ flight[f] \in Loads!Flight /\ SoundFlight(flight[f], version) /\ j \in Job
      /\ SoundJob(j, reader[f], flight[f], version)
  BY CallFacts
<1>3. /\ j.at \in {"none", "again", "find"} => j.got = None
      /\ flight[f].stage \notin {"none", "work"} => j.at = "none"
  <2>1. flight[f].stage # "none" => reader[f].stage \in {"wait", "done"}
    BY Flown
  <2> QED
    BY <1>2, <2>1 DEF SoundJob
<1> HIDE DEF j
<1>4. CASE Loads!Publish(f)
  <2> DEFINE a == IF Loads!WithinBudget(f) THEN flight[f].found ELSE Failed
  <2>1. /\ flight[f].stage = "publish" /\ flight[f].stage \in Loads!Executing /\ Loads!Ends(f, a)
        /\ UNCHANGED <<permits, closed, table, wait>>
    BY <1>4 DEF Loads!Publish, Loads!Executing
  <2>2. a = Failed \/ a \in flight[f].key..version
    BY <1>2, <2>1 DEF SoundFlight
  <2>3. j.at = "none" /\ j.got = None
    BY <1>3, <2>1
  <2> HIDE DEF a
  <2> QED
    BY <1>1, <1>2, <2>1, <2>2, <2>3, EndsSafe
<1>5. CASE Loads!Remove(f)
  <2> DEFINE g == [flight[f] EXCEPT !.stage = "exit", !.key = None]
  <2>1. /\ flight[f].stage = "remove" /\ flight[f].stage # "none" /\ flight' = [flight EXCEPT ![f] = g]
        /\ table' = table \ {f} /\ UNCHANGED <<permits, closed, wait>>
    BY <1>5, Zenon DEF Loads!Remove
  <2>2. g \in Loads!Flight /\ g.stage = "exit" /\ g.found = flight[f].found /\ g.result = flight[f].result
    BY <1>2 DEF Loads!Flight, Loads!Executing
  <2> HIDE DEF g
  <2>3. g.stage # "none" /\ g.stage \notin Loads!Executing /\ SoundFlight(g, version)
    BY <1>2, <2>1, <2>2 DEF SoundFlight, Loads!Executing
  <2>4. SoundJob(j, reader[f], g, version) /\ UNCHANGED <<version, pending, reader>>
    BY <1>1, <1>2, <1>3, <2>1 DEF SoundJob
  <2> QED
    BY <1>1, <2>1, <2>2, <2>3, <2>4, FlightStep
<1>6. CASE Loads!Exit(f)
  <2> DEFINE g == [flight[f] EXCEPT !.stage = "over"]
  <2>1. /\ flight[f].stage = "exit" /\ flight[f].stage # "none" /\ flight' = [flight EXCEPT ![f] = g]
        /\ UNCHANGED <<permits, closed, table, wait>>
    BY <1>6, Zenon DEF Loads!Exit
  <2>2. g \in Loads!Flight /\ g.stage = "over" /\ g.found = flight[f].found /\ g.result = flight[f].result
    BY <1>2 DEF Loads!Flight, Loads!Executing
  <2> HIDE DEF g
  <2>3. g.stage # "none" /\ g.stage \notin Loads!Executing /\ SoundFlight(g, version)
    BY <1>2, <2>1, <2>2 DEF SoundFlight, Loads!Executing
  <2>4. SoundJob(j, reader[f], g, version) /\ UNCHANGED <<version, pending, reader>>
    BY <1>1, <1>2, <1>3, <2>1 DEF SoundJob
  <2>5. table' = table \ {f}
    BY <1>1, <2>1 DEF Loads!Executing
  <2> QED
    BY <1>1, <2>1, <2>2, <2>3, <2>4, <2>5, FlightStep
<1>7. CASE Loads!Expire(f)
  <2> DEFINE g == [flight[f] EXCEPT !.expired = TRUE]
  <2>1. flight' = [flight EXCEPT ![f] = g] /\ UNCHANGED <<permits, closed, table, wait>>
    BY <1>7 DEF Loads!Expire
  <2>2. /\ g \in Loads!Flight /\ g.stage = flight[f].stage /\ g.key = flight[f].key
        /\ g.found = flight[f].found /\ g.result = flight[f].result
    BY <1>2 DEF Loads!Flight
  <2>3. flight[f].stage # "none"
    <3>1. CASE \E c \in Calls : wait[c].on = f
      <4>1. f # None
        OBVIOUS
      <4> QED
        BY <3>1, <4>1, CallFacts DEF SoundAwait
    <3> QED
      BY <1>7, <3>1 DEF Loads!Expire, Loads!Executing
  <2> HIDE DEF g
  <2>4. SoundFlight(g, version)
    BY <1>2, <2>2, <2>3 DEF SoundFlight
  <2>5. SoundJob(j, reader[f], g, version) /\ UNCHANGED <<version, pending, reader>>
    BY <1>1, <1>2, <2>2 DEF SoundJob
  <2>6. table' = IF g.stage \in Loads!Executing THEN table ELSE table \ {f}
    BY <1>1, <2>1, <2>2
  <2> QED
    BY <1>1, <2>1, <2>2, <2>3, <2>4, <2>5, <2>6, FlightStep
<1> QED
  BY <1>4, <1>5, <1>6, <1>7 DEF Coordinator

\* Close answers everybody who still waits with a failure.
LEMMA CloseSafe ==
  ASSUME TicketsInv, Close
  PROVE  TicketsInv'
<1>1. /\ closed' = TRUE
      /\ UNCHANGED <<version, cache, pending, reader, job, permits, table, wait>>
      /\ table = {f \in Calls : flight[f].stage \in Loads!Executing}
  BY DEF Close, Loads!Close, TicketsInv
<1>2. ASSUME NEW f \in Calls
      PROVE  /\ flight'[f] \in Loads!Flight /\ SoundFlight(flight'[f], version)
             /\ flight'[f].stage = flight[f].stage /\ flight'[f].key = flight[f].key
             /\ flight'[f].result = flight[f].result \/ flight'[f].result = Failed
             /\ flight[f] = Loads!NewFlight => flight'[f] = Loads!NewFlight
  <2> DEFINE g == [flight[f] EXCEPT !.result = Loads!Completed(f, Failed)]
  <2>1. flight[f] \in Loads!Flight /\ SoundFlight(flight[f], version)
    BY CallFacts
  <2>2. flight'[f] = IF f \in table THEN g ELSE flight[f]
    BY DEF Close, Loads!Close
  <2>3. CASE f \notin table
    BY <2>1, <2>2, <2>3
  <2>4. CASE f \in table
    <3>1. Loads!Completed(f, Failed) \in {flight[f].result, Failed}
      BY DEF Loads!Completed
    <3>2. /\ g \in Loads!Flight /\ g.stage = flight[f].stage /\ g.key = flight[f].key
          /\ g.found = flight[f].found /\ g.result \in {flight[f].result, Failed}
      BY <2>1, <3>1 DEF Loads!Flight
    <3>3. flight'[f] = g /\ flight[f].stage # "none"
      BY <1>1, <2>2, <2>4 DEF Loads!Executing
    <3> HIDE DEF g
    <3>4. SoundFlight(g, version)
      BY <2>1, <3>2, <3>3 DEF SoundFlight
    <3>5. flight[f] # Loads!NewFlight
      BY <3>3 DEF Loads!NewFlight
    <3> QED
      BY <3>2, <3>3, <3>4, <3>5
  <2> QED
    BY <2>3, <2>4
<1>3. flight' \in [Calls -> Loads!Flight]
  <2>1. flight' = [f \in Calls |-> flight'[f]]
    BY DEF Close, Loads!Close
  <2> QED
    BY <1>2, <2>1
<1>4. TypeOK'
  BY <1>1, <1>3 DEF TicketsInv, TypeOK
<1>5. table' = {f \in Calls : flight[f].stage \in Loads!Executing}'
  BY <1>1, <1>2
<1>6. ASSUME NEW c \in Calls PROVE SoundCall(c)'
  <2>1. SoundCall(c)
    BY DEF TicketsInv
  <2>2. SoundJob(job[c], reader[c], flight'[c], version)
    BY <1>2, <2>1 DEF SoundCall, SoundJob
  <2>3. SoundWait(wait[c], reader[c], flight'[c], version)
    BY <1>2, <2>1 DEF SoundCall, SoundWait
  <2>4. ASSUME wait[c].on # None PROVE SoundAwait(reader[c], flight'[wait[c].on], version)
    <3>1. wait[c].on \in Calls
      BY <2>4, CallFacts DEF Loads!Wait
    <3> QED
      BY <1>2, <2>1, <2>4, <3>1 DEF SoundCall, SoundAwait
  <2> QED
    BY <1>1, <1>2, <2>1, <2>2, <2>3, <2>4 DEF SoundCall
<1> QED
  BY <1>4, <1>5, <1>6 DEF TicketsInv

-----------------------------------------------------------------------------
(* Every step.                                                             *)

\* The source and the cache: the version only grows, and the cache holds what it likes.
LEMMA WorldSafe ==
  ASSUME TicketsInv,
         Create \/ Rename
           \/ \E v \in Versions : Invalidate(v) \/ EntryExpires(v) \/ EntryOverwritten(v)
  PROVE  TicketsInv'
<1>1. /\ version \in 0..MaxVersion /\ cache \in [Versions -> 0..MaxVersion] /\ pending \subseteq Versions
      /\ MaxVersion \in Nat \ {0}
  BY DEF TicketsInv, TypeOK
<1>2. CASE Create
  <2>1. version' \in 0..MaxVersion /\ version <= version'
    BY <1>1, <1>2 DEF Create
  <2> QED
    BY <1>1, <1>2, <2>1, WorldStep DEF Create
<1>3. CASE Rename
  <2>1. version' \in 0..MaxVersion /\ version <= version' /\ pending' \subseteq Versions
    BY <1>1, <1>3 DEF Rename, Versions
  <2> QED
    BY <1>1, <1>3, <2>1, WorldStep DEF Rename
<1>4. ASSUME NEW v \in Versions, Invalidate(v) \/ EntryExpires(v) \/ EntryOverwritten(v)
      PROVE  TicketsInv'
  <2>1. cache' \in [Versions -> 0..MaxVersion] /\ pending' \subseteq Versions
    <3>1. Versions \subseteq 0..MaxVersion /\ 0 \in 0..MaxVersion
      BY <1>1 DEF Versions
    <3>2. CASE Invalidate(v)
      BY <1>1, <3>1, <3>2 DEF Invalidate
    <3>3. CASE EntryExpires(v)
      BY <1>1, <3>1, <3>3 DEF EntryExpires
    <3>4. CASE EntryOverwritten(v)
      BY <1>1, <3>1, <3>4 DEF EntryOverwritten
    <3> QED
      BY <1>4, <3>2, <3>3, <3>4
  <2>2. version' = version /\ UNCHANGED <<reader, job, loads>>
    BY <1>4 DEF Invalidate, EntryExpires, EntryOverwritten
  <2> QED
    BY <1>1, <2>1, <2>2, WorldStep
<1> QED
  BY <1>2, <1>3, <1>4

\* The invariant is inductive.
LEMMA StepTickets == TicketsInv /\ [Next]_vars => TicketsInv'
<1> SUFFICES ASSUME TicketsInv, [Next]_vars PROVE TicketsInv'
  OBVIOUS
<1>1. CASE Create \/ Rename
             \/ \E v \in Versions : Invalidate(v) \/ EntryExpires(v) \/ EntryOverwritten(v)
  BY <1>1, WorldSafe
<1>2. CASE Close
  BY <1>2, CloseSafe
<1>3. ASSUME NEW c \in Calls, FindStep(c) PROVE TicketsInv'
  BY <1>3, AskVersionSafe, NoTicketSafe, LookSafe, LoadSafe, CoordinateSafe, ReturnSafe DEF FindStep
<1>4. ASSUME NEW c \in Calls, JobStep(c) PROVE TicketsInv'
  BY <1>4, WorkSafe, JobFailsSafe, LookAgainSafe, FindSafe, FoundSafe, CoordinatorSafe DEF JobStep
<1>5. CASE UNCHANGED vars
  BY <1>5, WorldStep, Types DEF vars
<1> QED
  BY <1>1, <1>2, <1>3, <1>4, <1>5 DEF Next

\* For any readers, versions and limits, whoever waits for a flight waits under its own
\* version, and whoever fills does so for it.
THEOREM TicketsSafe == Spec => []TicketsInv
<1> QED
  BY InitTickets, StepTickets, PTL DEF Spec

\* The invariant says so of every call.
LEMMA NothingStaleNow ==
  ASSUME TicketsInv
  PROVE  NothingStaleOnItsWay
<1>1. TypeOK
  BY DEF TicketsInv
<1>2. ASSUME NEW c \in Calls
      PROVE  /\ reader[c].known # None => reader[c].known <= version
             /\ reader[c].answer \notin {None, Failed} =>
                  reader[c].answer \in reader[c].known..version
             /\ wait[c].key # None => wait[c].key = reader[c].known
  BY CallFacts DEF SoundReader, SoundWait
<1>3. ASSUME NEW c \in Calls, job[c].got # None
      PROVE  job[c].got \in (IF Alone(c) THEN reader[c].known ELSE flight[c].key)..version
  <2>1. job[c].at \notin {"none", "again", "find"}
    BY <1>3, CallFacts DEF SoundJob
  <2> QED
    BY <2>1, JobFacts DEF Job
<1>4. ASSUME NEW c \in Calls, flight[c].found # None
      PROVE  flight[c].found \in flight[c].key..version
  BY <1>4, CallFacts DEF SoundFlight
<1>5. ASSUME NEW c \in Calls, wait[c].on \in table
      PROVE  flight[wait[c].on].key = reader[c].known
  <2>1. wait[c].on # None /\ flight[wait[c].on].stage \in Loads!Executing
    BY <1>5 DEF TicketsInv
  <2> QED
    BY <2>1, CallFacts DEF SoundAwait
<1>6. ASSUME NEW c \in Calls, wait[c].on # None, flight[wait[c].on].result \notin {None, Failed}
      PROVE  flight[wait[c].on].result \in reader[c].known..version
  BY <1>6, CallFacts DEF SoundAwait
<1> QED
  BY <1>1, <1>2, <1>3, <1>4, <1>5, <1>6 DEF NothingStaleOnItsWay

\* Nothing on its way to a reader is older than what the reader asked for, or newer than the
\* source.
THEOREM NothingStale == Spec => []NothingStaleOnItsWay
<1> QED
  BY NothingStaleNow, TicketsSafe, PTL

-----------------------------------------------------------------------------
(* Every step is one of FreshReads, or changes nothing that it speaks of.  *)

\* A reader is answered, or refused.
LEMMA Answered ==
  ASSUME TicketsInv, NEW c \in Calls, reader[c].stage # "done",
         NEW a, a = Failed \/ (reader[c].known # None /\ a \in reader[c].known..version),
         Finishes(c, a), version' = version
  PROVE  Fresh!Next
<1>1. /\ SoundReader(reader[c], version) /\ reader \in [Calls -> Reader]
  BY CallFacts, Types
<1>2. reader[c].answer = None /\ answer[c] = None /\ floor[c] = reader[c].known
  BY <1>1 DEF SoundReader, answer, floor
<1> DEFINE r == Done(reader[c], a)
<1>3. reader' = [reader EXCEPT ![c] = r] /\ r.answer = a /\ r.known = reader[c].known
  <2>1. reader' = [reader EXCEPT ![c] = r]
    BY Zenon DEF Finishes, Done
  <2>2. version \in 0..MaxVersion
    BY CallFacts
  <2> QED
    BY <1>1, <2>1, <2>2, DoneReader
<1> HIDE DEF r
<1>4. answer' = [answer EXCEPT ![c] = a] /\ floor' = floor
  BY <1>1, <1>3 DEF answer, floor
<1>5. CASE a = Failed
  BY <1>2, <1>4, <1>5 DEF Fresh!Next, Fresh!Refuse
<1>6. CASE reader[c].known # None /\ a \in reader[c].known..version
  BY <1>2, <1>4, <1>6 DEF Fresh!Next, Fresh!Answer
<1> QED
  BY <1>5, <1>6

\* A reader that goes on, or that has no part in the step, keeps its version and its answer.
LEMMA GoesOn ==
  ASSUME TicketsInv, NEW c \in Calls, NEW s, version' = version,
         reader' = reader \/ reader' = [reader EXCEPT ![c].stage = s]
  PROVE  UNCHANGED Fresh!vars
BY Types DEF Fresh!vars, floor, answer, Reader

\* The end of a job that a reader runs for itself answers it.
LEMMA JobAnswers ==
  ASSUME TicketsInv, NEW f \in Calls,
         NEW a, a = Failed \/ a \in (IF Alone(f) THEN reader[f].known ELSE flight[f].key)..version,
         JobEnds(f, a), version' = version
  PROVE  [Fresh!Next]_(Fresh!vars)
<1>1. CASE Alone(f)
  <2>1. reader[f].stage # "done" /\ reader[f].known # None
    BY <1>1, CallFacts DEF Alone, SoundReader
  <2> QED
    BY <1>1, <2>1, Answered DEF JobEnds
<1>2. CASE ~Alone(f)
  BY <1>2, GoesOn DEF JobEnds
<1> QED
  BY <1>1, <1>2

\* A reader's step up to the load, in it and after it.
LEMMA FindRefines ==
  ASSUME TicketsInv, NEW c \in Calls, FindStep(c)
  PROVE  [Fresh!Next]_(Fresh!vars)
<1>1. CASE AskVersion(c)
  <2>1. /\ reader[c].known = None /\ reader[c].answer = None /\ reader \in [Calls -> Reader]
        /\ floor[c] = None /\ answer[c] = None
    BY <1>1, CallFacts, Types DEF AskVersion, SoundReader, floor, answer
  <2>2. floor' = [floor EXCEPT ![c] = version] /\ answer' = answer /\ version' = version
    BY <1>1, <2>1 DEF AskVersion, floor, answer, Reader
  <2> QED
    BY <2>1, <2>2 DEF Fresh!Next, Fresh!Ask
<1>2. CASE SourceDown(c)
  BY <1>2, Answered DEF SourceDown
<1>3. CASE FindNothing(c)
  <2>1. reader[c].known # None /\ 0 \in reader[c].known..version
    BY <1>3, CallFacts DEF FindNothing, SoundReader
  <2> QED
    BY <1>3, <2>1, Answered DEF FindNothing
<1>4. CASE Look(c)
  <2> DEFINE v == reader[c].known
  <2>1. /\ reader[c].stage = "look" /\ version' = version /\ v \in Versions /\ v <= version
        /\ v # None /\ version \in 0..MaxVersion
    BY <1>4, CallFacts DEF Look, SoundReader, Reader, Versions
  <2>2. CASE Hit(v) /\ Finishes(c, cache[v])
    <3>1. cache[v] \in v..version
      BY <2>1, <2>2 DEF Hit, Versions
    <3> QED
      BY <2>1, <2>2, <3>1, Answered
  <2>3. CASE \E blind \in BOOLEAN : FillsAlone(c, blind) \/ FillsTogether(c, blind)
    BY <2>1, <2>3, GoesOn DEF FillsAlone, FillsTogether
  <2> QED
    BY <1>4, <2>2, <2>3 DEF Look
<1>5. CASE Load(c)
  <2>1. reader[c].stage = "load" /\ version' = version
    BY <1>5 DEF Load
  <2>2. CASE Finishes(c, Failed)
    BY <2>1, <2>2, Answered
  <2>3. CASE reader' = [reader EXCEPT ![c].stage = "wait"]
    BY <2>1, <2>3, GoesOn
  <2> QED
    BY <1>5, <2>2, <2>3 DEF Load
<1>6. CASE Coordinate(c)
  BY <1>6, GoesOn DEF Coordinate
<1>7. CASE Return(c)
  <2>1. /\ wait[c].stage = "leave" /\ reader[c].stage = "wait" /\ reader[c].known # None
        /\ wait[c].outcome = Failed \/ wait[c].outcome \in reader[c].known..version
    BY <1>7, CallFacts DEF Return, Loads!Return, SoundWait, SoundReader
  <2> QED
    BY <1>7, <2>1, Answered DEF Return
<1> QED
  BY <1>1, <1>2, <1>3, <1>4, <1>5, <1>6, <1>7 DEF FindStep

\* A job's step.
LEMMA JobRefines ==
  ASSUME TicketsInv, NEW f \in Calls, JobStep(f)
  PROVE  [Fresh!Next]_(Fresh!vars)
<1>1. CASE Work(f) \/ LookAgain(f) \/ Find(f) \/ Coordinator(f)
  BY <1>1, GoesOn DEF Work, LookAgain, Find, Coordinator
<1>2. CASE JobFails(f)
  BY <1>2, JobAnswers DEF JobFails
<1>3. CASE (ReturnHit(f) \/ Found(f) \/ Put(f)) /\ JobEnds(f, job[f].got)
  <2>1. /\ job[f].got \in (IF Alone(f) THEN reader[f].known ELSE flight[f].key)..version
        /\ version' = version
    BY <1>3, JobFacts DEF ReturnHit, Found, Put
  <2> QED
    BY <1>3, <2>1, JobAnswers
<1>4. CASE Found(f) /\ UNCHANGED reader
  BY <1>4, GoesOn DEF Found
<1> QED
  BY <1>1, <1>2, <1>3, <1>4 DEF JobStep, ReturnHit, Found, Put

\* Whatever flights, evictions, renames and outages do in between, a reader is answered with
\* the ticket as it was at some moment since it asked, or not at all.
THEOREM FreshReadsImplemented == Spec => ImplementsFreshReads
<1>1. ASSUME Init PROVE Fresh!Init
  BY <1>1 DEF Init, Fresh!Init, floor, answer, NewReader
<1>2. ASSUME TicketsInv, [Next]_vars PROVE [Fresh!Next]_(Fresh!vars)
  <2>1. version \in 0..MaxVersion /\ MaxVersion \in Nat \ {0}
    BY <1>2, Types
  <2>2. CASE Create \/ Rename
    <3>1. floor' = floor /\ answer' = answer
      BY <2>2 DEF Create, Rename, floor, answer
    <3>2. version < MaxVersion /\ version' = version + 1
      BY <2>1, <2>2 DEF Create, Rename
    <3> QED
      BY <3>1, <3>2 DEF Fresh!Next, Fresh!Change
  <2>3. CASE UNCHANGED <<reader, version>>
    BY <2>3 DEF Fresh!vars, floor, answer
  <2>4. ASSUME NEW c \in Calls, FindStep(c) PROVE [Fresh!Next]_(Fresh!vars)
    BY <1>2, <2>4, FindRefines
  <2>5. ASSUME NEW c \in Calls, JobStep(c) PROVE [Fresh!Next]_(Fresh!vars)
    BY <1>2, <2>5, JobRefines
  <2> QED
    BY <1>2, <2>2, <2>3, <2>4, <2>5
       DEF Next, vars, Close, Invalidate, EntryExpires, EntryOverwritten
<1> QED
  BY <1>1, <1>2, TicketsSafe, PTL DEF Spec, ImplementsFreshReads, Fresh!Spec
=============================================================================
