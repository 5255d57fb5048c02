-------------------------- MODULE CacheAsideTickets --------------------------
(***************************************************************************)
(* examples/backend-data-services: CacheAsideTickets over MongoTickets, a  *)
(* Redis cache and, optionally, CoalescedLoads: two services over the same *)
(* source and cache, one of them with a coordinator.                       *)
(*                                                                         *)
(* One ticket.  A reader asks the source for the version, looks in the     *)
(* cache under a key that names the version, and on a miss reads the       *)
(* ticket itself and fills the cache: alone, or as the work of a flight,   *)
(* which looks in the cache again first.  A rename changes the source and  *)
(* then removes the old version's entry.  Source and cache may be          *)
(* unavailable at every access, entries may expire, and others may have    *)
(* written to the cache.                                                   *)
(*                                                                         *)
(* A version stands for the ticket's contents and, tenant and id being the *)
(* same throughout, for the cache key.  Scope checks, time to live and the *)
(* cacheState of a result are left out.                                    *)
(***************************************************************************)
EXTENDS Integers, FiniteSets, TLC

CONSTANTS
  Calls,        \* of find
  MaxVersion,   \* bound: no ticket is renamed beyond it
  FlightLimit, CallerLimit,
  None, Failed

Versions == 1..MaxVersion

ASSUME TicketsAssumption ==
  /\ MaxVersion \in Nat \ {0}
  /\ FlightLimit \in 1..8 /\ CallerLimit \in FlightLimit..64
  /\ None \notin Int /\ Failed \notin Int /\ None # Failed
  /\ None \notin Calls

VARIABLES
  version,    \* of the ticket at its source; 0 before it is created
  cache,      \* version -> the version of the ticket stored under its key; 0 if none
  pending,    \* versions whose entries are about to be removed by those who renamed them
  reader,     \* call -> where it is in find, outside load
  job,        \* call -> where its fill is, and whether its lookup did without the cache
  permits, closed, table, flight, wait    \* of the coordinator

loads == <<permits, closed, table, flight, wait>>
vars  == <<version, cache, pending, reader, job, loads>>

Loads == INSTANCE CoalescedLoads WITH Keys <- Versions, Answers <- Versions

NewReader == [stage |-> "new", known |-> None, answer |-> None]
NewJob    == [at |-> "none", blind |-> FALSE, got |-> None]

Init ==
  /\ version = 0
  /\ cache = [v \in Versions |-> 0]
  /\ pending = {}
  /\ reader = [c \in Calls |-> NewReader]
  /\ job = [c \in Calls |-> NewJob]
  /\ Loads!Init

-----------------------------------------------------------------------------
(* The source and the cache.                                               *)

Create ==
  /\ version = 0
  /\ version' = 1
  /\ UNCHANGED <<cache, pending, reader, job, loads>>

Rename ==
  /\ version \in 1..(MaxVersion - 1)
  /\ version' = version + 1
  /\ pending' = pending \cup {version}
  /\ UNCHANGED <<cache, reader, job, loads>>

\* The second half of rename; it may find the cache unavailable.
Invalidate(v) ==
  /\ v \in pending
  /\ pending' = pending \ {v}
  /\ cache' \in {cache, [cache EXCEPT ![v] = 0]}
  /\ UNCHANGED <<version, reader, job, loads>>

EntryExpires(v) ==
  /\ cache[v] # 0
  /\ cache' = [cache EXCEPT ![v] = 0]
  /\ UNCHANGED <<version, pending, reader, job, loads>>

\* An entry that does not hold what its key says.
EntryOverwritten(v) ==
  /\ \E w \in Versions \ {v} : cache' = [cache EXCEPT ![v] = w]
  /\ UNCHANGED <<version, pending, reader, job, loads>>

\* The lookup: a hit, a miss that removes what does not fit, or nothing known for want of
\* the cache, which may fail before or after the entry is read.
AnyEntry(v) == cache[v] # 0      \* slip: the stored version is not compared
Hit(v)      == cache[v] = v
Missed(v)   == cache' = [cache EXCEPT ![v] = 0]

-----------------------------------------------------------------------------
(* find, up to the load.                                                   *)

Finishes(c, a) ==
  reader' = [reader EXCEPT ![c].stage = "done", ![c].answer = a]

AskVersion(c) ==
  /\ reader[c].stage = "new"
  /\ reader' = [reader EXCEPT ![c].stage = "look", ![c].known = version]
  /\ UNCHANGED <<version, cache, pending, job, loads>>

SourceDown(c) ==
  /\ reader[c].stage = "new"
  /\ Finishes(c, Failed)
  /\ UNCHANGED <<version, cache, pending, job, loads>>

FindNothing(c) ==
  /\ reader[c].stage = "look" /\ reader[c].known = 0
  /\ Finishes(c, 0)
  /\ UNCHANGED <<version, cache, pending, job, loads>>

FillsAlone(c, blind) ==
  /\ reader' = [reader EXCEPT ![c].stage = "fill"]
  /\ job' = [job EXCEPT ![c].at = "find", ![c].blind = blind]

FillsTogether(c, blind) ==
  /\ reader' = [reader EXCEPT ![c].stage = "load"]
  /\ job' = [job EXCEPT ![c].blind = blind]

Look(c) ==
  LET v == reader[c].known IN
  /\ reader[c].stage = "look" /\ v # 0
  /\ \/ Hit(v) /\ Finishes(c, cache[v]) /\ UNCHANGED <<cache, job>>
     \/ \E blind \in BOOLEAN :
          /\ IF blind THEN UNCHANGED cache ELSE ~Hit(v) /\ Missed(v)
          /\ FillsAlone(c, blind) \/ FillsTogether(c, blind)
  /\ UNCHANGED <<version, pending, loads>>

AnyVersion(c) == 1               \* slip: callers of all versions share a key
Key(c)        == reader[c].known

Load(c) ==
  /\ reader[c].stage = "load"
  /\ Loads!Acquire(c, Key(c))
  /\ IF permits = 0 THEN Finishes(c, Failed)
     ELSE reader' = [reader EXCEPT ![c].stage = "wait"]
  /\ UNCHANGED <<version, cache, pending, job>>

Coordinate(c) ==
  /\ \/ Loads!TurnedAway(c) \/ Loads!Join(c) \/ Loads!Start(c)
     \/ Loads!Take(c) \/ Loads!Deadline(c) \/ Loads!Interrupted(c)
  /\ UNCHANGED <<version, cache, pending, reader, job>>

Return(c) ==
  /\ Loads!Return(c)
  /\ Finishes(c, wait[c].outcome)
  /\ UNCHANGED <<version, cache, pending, job>>

-----------------------------------------------------------------------------
(* fill, and what a flight does before it.                                 *)

Work(f) ==
  /\ Loads!Begin(f)
  /\ job' = IF Loads!WithinBudget(f)
            THEN [job EXCEPT ![f].at = IF job[f].blind THEN "find" ELSE "again"]
            ELSE job
  /\ UNCHANGED <<version, cache, pending, reader>>

\* Only work under a budget is checked.
Alone(f)   == reader[f].stage = "fill"
MayGoOn(f) == Alone(f) \/ Loads!WithinBudget(f)

\* A job ends: the reader that runs it alone is answered, or its flight has its result.
JobEnds(f, a) ==
  /\ job' = [job EXCEPT ![f] = NewJob]
  /\ IF Alone(f) THEN Finishes(f, a) /\ UNCHANGED loads
     ELSE /\ UNCHANGED reader
          /\ IF a = Failed THEN Loads!WorkFails(f) ELSE Loads!WorkReturns(f, a)

\* A check that fails, a source that is down, a blocking call that is interrupted.
JobFails(f) ==
  /\ \/ job[f].at \in {"again", "hit", "find", "found"} /\ ~MayGoOn(f)
     \/ job[f].at = "find"
     \/ job[f].at # "none" /\ ~Alone(f) /\ closed
  /\ JobEnds(f, Failed)
  /\ UNCHANGED <<version, cache, pending>>

LookAgain(f) ==
  LET k == flight[f].key IN
  /\ job[f].at = "again" /\ MayGoOn(f)
  /\ \/ Hit(k) /\ job' = [job EXCEPT ![f].at = "hit", ![f].got = cache[k]] /\ UNCHANGED cache
     \/ ~Hit(k) /\ Missed(k) /\ job' = [job EXCEPT ![f].at = "find"]
     \/ UNCHANGED cache /\ job' = [job EXCEPT ![f].at = "find", ![f].blind = TRUE]
  /\ UNCHANGED <<version, pending, reader, loads>>

ReturnHit(f) ==
  /\ job[f].at = "hit" /\ MayGoOn(f)
  /\ JobEnds(f, job[f].got)
  /\ UNCHANGED <<version, cache, pending>>

Find(f) ==
  /\ job[f].at = "find" /\ MayGoOn(f)
  /\ job' = [job EXCEPT ![f].at = "found", ![f].got = version]
  /\ UNCHANGED <<version, cache, pending, reader, loads>>

\* Without a cache to fill the result is returned at once.
Found(f) ==
  /\ job[f].at = "found" /\ MayGoOn(f)
  /\ IF job[f].blind THEN JobEnds(f, job[f].got)
     ELSE job' = [job EXCEPT ![f].at = "put"] /\ UNCHANGED <<reader, loads>>
  /\ UNCHANGED <<version, cache, pending>>

Put(f) ==
  /\ job[f].at = "put"
  /\ cache' \in {cache, [cache EXCEPT ![job[f].got] = job[f].got]}
  /\ JobEnds(f, job[f].got)
  /\ UNCHANGED <<version, pending>>

Coordinator(f) ==
  /\ Loads!Publish(f) \/ Loads!Remove(f) \/ Loads!Exit(f) \/ Loads!Expire(f)
  /\ UNCHANGED <<version, cache, pending, reader, job>>

Close ==
  /\ Loads!Close
  /\ UNCHANGED <<version, cache, pending, reader, job>>

-----------------------------------------------------------------------------

FindStep(c) == \/ AskVersion(c) \/ SourceDown(c) \/ FindNothing(c) \/ Look(c)
               \/ Load(c) \/ Coordinate(c) \/ Return(c)
JobStep(f)  == \/ Work(f) \/ JobFails(f) \/ LookAgain(f) \/ ReturnHit(f)
               \/ Find(f) \/ Found(f) \/ Put(f) \/ Coordinator(f)

Next ==
  \/ Create \/ Rename \/ Close
  \/ \E v \in Versions : Invalidate(v) \/ EntryExpires(v) \/ EntryOverwritten(v)
  \/ \E c \in Calls : FindStep(c) \/ JobStep(c)

Spec == Init /\ [][Next]_vars

-----------------------------------------------------------------------------
(* Properties.                                                             *)

Reader == [stage : {"new", "look", "load", "wait", "fill", "done"},
           known : 0..MaxVersion \cup {None},
           answer : 0..MaxVersion \cup {None, Failed}]
Job    == [at : {"none", "again", "hit", "find", "found", "put"}, blind : BOOLEAN,
           got : Versions \cup {None}]

TypeOK ==
  /\ version \in 0..MaxVersion
  /\ cache \in [Versions -> 0..MaxVersion]
  /\ pending \subseteq Versions
  /\ reader \in [Calls -> Reader] /\ job \in [Calls -> Job]
  /\ permits \in Nat /\ closed \in BOOLEAN /\ table \subseteq Calls
  /\ flight \in [Calls -> Loads!Flight] /\ wait \in [Calls -> Loads!Wait]

\* Whether a caller leads a flight, waits for another's, or fills alone, everything on its
\* way to it was true after it read the version: the flight it waits for is keyed by
\* just that version, and neither a job nor a result falls behind it, nor runs ahead of
\* the source.  The cache is not trusted: its entries may hold anything.
NothingStaleOnItsWay ==
  /\ TypeOK
  /\ \A c \in Calls :
       /\ reader[c].known # None => reader[c].known <= version
       /\ job[c].got # None =>
            job[c].got \in (IF Alone(c) THEN reader[c].known ELSE flight[c].key)..version
       /\ flight[c].found # None => flight[c].found \in flight[c].key..version
       /\ wait[c].key # None => wait[c].key = reader[c].known
       /\ wait[c].on \in table => flight[wait[c].on].key = reader[c].known
       /\ wait[c].on # None /\ flight[wait[c].on].result \notin {None, Failed} =>
            flight[wait[c].on].result \in reader[c].known..version
       /\ reader[c].answer \notin {None, Failed} =>
            reader[c].answer \in reader[c].known..version

\* No interleaving of readers, flights, renames, evictions and outages hands out a ticket
\* older than the reader's own version read.
floor  == [c \in Calls |-> reader[c].known]
answer == [c \in Calls |-> reader[c].answer]
Fresh == INSTANCE FreshReads WITH Readers <- Calls

ImplementsFreshReads == Fresh!Spec

(* Calls differ in nothing but their names, for the runs that check safety. *)
CallSymmetry == Permutations(Calls)
=============================================================================
