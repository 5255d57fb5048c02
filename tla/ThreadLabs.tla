----------------------------- MODULE ThreadLabs ------------------------------
(***************************************************************************)
(* Two animated pages about what many threads share: a connection pool,    *)
(* and the carriers of virtual threads.                                    *)
(***************************************************************************)
EXTENDS Integers, Sequences, FiniteSets, SequencesExt

CONSTANT MaxPoolSize

CONSTANTS CarrierCount, FirstSpawn, LaterSpawn

VARIABLE page
Player == INSTANCE StepPlayer

(* -------- the connection pool ------------------------------------------- *)

(* The connection pool page: a fixed pool, a FIFO queue of those that wait. *)
(* Threads are numbered in the order in which they ask.                     *)

Conns == 1..MaxPoolSize
PoolNobody == 0
Available(e) == {c \in Conns : e.by[c] = PoolNobody}
InUse(e) == Conns \ Available(e)

(* `by': whom a connection is leased to; it is IN_USE when to somebody.    *)
NewPool == [by |-> [c \in Conns |-> PoolNobody], waiting |-> <<>>, threads |-> 0]

First(S) == CHOOSE c \in S : \A d \in S : c <= d

(* ------------------------------ the engine ----------------------------- *)

Leased(e, c, t) == [d \in Conns |-> IF d = c THEN t ELSE e.by[d]]

Asked(e) == [e EXCEPT !.threads = @ + 1]

Requested(e) ==
    LET t == e.threads + 1 IN
    IF Available(e) # {} THEN [Asked(e) EXCEPT !.by = Leased(e, First(Available(e)), t)]
                         ELSE [Asked(e) EXCEPT !.waiting = Append(@, t)]

RequestConnection(e) == <<Asked(e), Requested(e)>>

(* Slip: the waiting thread gets a connection and stays in the queue.      *)
ReturnedNotShifted(e, c) ==
    IF e.waiting # <<>> THEN [e EXCEPT !.by = Leased(e, c, Head(e.waiting))] ELSE [e EXCEPT !.by = Leased(e, c, PoolNobody)]

Returned(e, c) ==
    IF e.waiting # <<>> THEN [e EXCEPT !.by = Leased(e, c, Head(e.waiting)), !.waiting = Tail(@)]
                        ELSE [e EXCEPT !.by = Leased(e, c, PoolNobody)]

(* ------------------------------- the page ------------------------------ *)

PoolInit == \E still \in BOOLEAN :
            LET two == Requested(Requested(NewPool))
            IN page = Player!Opened(two, RequestConnection(NewPool) \o RequestConnection(Requested(NewPool)), still)

HandleRequest == page' = Player!Played(Requested(page.engine), RequestConnection(page.engine))

ReturnOffered == InUse(Player!Shown)

HandleReturn(c) ==
    /\ c \in ReturnOffered
    /\ IF c \in Available(page.engine) THEN page' = Player!Played(page.engine, <<>>)
       ELSE page' = Player!Played(Returned(page.engine, c), <<Returned(page.engine, c)>>)

PoolTimer == Player!Tick
PoolControlBar == Player!Bar

PoolGesture == \/ page.visible /\ HandleRequest
               \/ page.visible /\ \E c \in Conns : HandleReturn(c)
               \/ PoolControlBar \/ Player!Tabs

PoolMetrics(s) == [active |-> Cardinality(InUse(s)), available |-> Cardinality(Available(s)),
               queued |-> Len(s.waiting)]

(* ------------------------------ properties ----------------------------- *)

(* PoolNobody waits while a connection is free, nobody holds two or waits and  *)
(* holds, those that wait do so in the order in which they asked, and who  *)
(* holds or waits has asked before.                                        *)
PoolIsFair(s) ==
    LET held == {s.by[c] : c \in InUse(s)} IN
    /\ s.waiting # <<>> => Available(s) = {}
    /\ Cardinality(held) = PoolMetrics(s).active
    /\ \A i \in 1..Len(s.waiting) : /\ s.waiting[i] \notin held
                                    /\ i > 1 => s.waiting[i - 1] < s.waiting[i]
                                    /\ \A t \in held : t < s.waiting[i]
    /\ \A t \in held : t <= s.threads

PoolEngineIsSound == PoolIsFair(page.engine)
PoolShownIsSound == PoolIsFair(Player!Shown)

(* -------- virtual threads ----------------------------------------------- *)

(* The virtual thread page: many virtual threads on few carrier threads.    *)
(* A virtual thread is its number; the status it shows and the carrier it   *)
(* says it is on are kept beside what the carrier has mounted.              *)

Carriers == 1..CarrierCount
LoomNobody == 0
NewEngine == [mounted |-> [c \in Carriers |-> LoomNobody], threads |-> <<>>]
Runnable == [status |-> "RUNNABLE", carrier |-> LoomNobody]
InStatus(e, s) == {v \in 1..Len(e.threads) : e.threads[v].status = s}

(* ------------------------------ the engine ----------------------------- *)

(* Each idle carrier in turn mounts the first runnable thread; a snapshot  *)
(* per mount.                                                              *)
Carrying(e, c, v) == [d \in Carriers |-> IF d = c THEN v ELSE e.mounted[d]]

Mount(e, c, v) == [e EXCEPT !.mounted = Carrying(e, c, v),
                             !.threads[v] = [status |-> "MOUNTED", carrier |-> c]]

ScheduleOn(steps, c) ==
    LET e == Last(steps)
        runnable == InStatus(e, "RUNNABLE")
    IN IF e.mounted[c] # LoomNobody \/ runnable = {} THEN steps
       ELSE Append(steps, Mount(e, c, CHOOSE v \in runnable : \A w \in runnable : v <= w))

Schedule(steps) == FoldLeft(ScheduleOn, steps, [c \in Carriers |-> c])

SpawnVirtualThreads(e, n) ==
    Schedule(<<[e EXCEPT !.threads = @ \o [i \in 1..n |-> Runnable]]>>)

Unmounted(e, v) == [e EXCEPT !.mounted = Carrying(e, e.threads[v].carrier, LoomNobody),
                             !.threads[v] = [status |-> "PARKED_IO", carrier |-> LoomNobody]]

TriggerIO(e, v) == IF e.threads[v].status # "MOUNTED" THEN <<>>
                   ELSE <<e>> \o Schedule(<<Unmounted(e, v)>>)

CompleteIO(e, v) == IF e.threads[v].status # "PARKED_IO" THEN <<>>
                    ELSE Schedule(<<[e EXCEPT !.threads[v].status = "RUNNABLE"]>>)

(* ------------------------------- the page ------------------------------ *)

LoomInit == \E still \in BOOLEAN :
            LET steps == SpawnVirtualThreads(NewEngine, FirstSpawn)
            IN page = Player!Opened(Last(steps), steps, still)

LoomPlays(steps) == page' = Player!Played(IF steps = <<>> THEN page.engine ELSE Last(steps), steps)

HandleSpawn == LoomPlays(SpawnVirtualThreads(page.engine, LaterSpawn))

(* The buttons of a thread follow the status it is shown in.               *)
HandleTriggerIO == \E v \in InStatus(Player!Shown, "MOUNTED") : LoomPlays(TriggerIO(page.engine, v))
HandleCompleteIO == \E v \in InStatus(Player!Shown, "PARKED_IO") : LoomPlays(CompleteIO(page.engine, v))

LoomTimer == Player!Tick
LoomControlBar == Player!Bar

LoomGesture == \/ page.visible /\ (HandleSpawn \/ HandleTriggerIO \/ HandleCompleteIO)
               \/ LoomControlBar \/ Player!Tabs

LoomMetrics(s) == [mounted |-> Cardinality(InStatus(s, "MOUNTED")), parked |-> Cardinality(InStatus(s, "PARKED_IO")),
               runnable |-> Cardinality(InStatus(s, "RUNNABLE"))]

(* ------------------------------ properties ----------------------------- *)

(* Carriers and threads agree on who is mounted where.                     *)
MountsAgree(s) ==
    /\ \A c \in Carriers : s.mounted[c] # LoomNobody =>
           s.threads[s.mounted[c]] = [status |-> "MOUNTED", carrier |-> c]
    /\ \A v \in 1..Len(s.threads) : s.threads[v].status = "MOUNTED" =>
           s.mounted[s.threads[v].carrier] = v
    /\ LoomMetrics(s).mounted <= CarrierCount

(* Once an operation is over no carrier idles beside a runnable thread.    *)
NoCarrierIdles(s) == LoomMetrics(s).runnable > 0 => LoomMetrics(s).mounted = CarrierCount

LoomEngineIsSound == MountsAgree(page.engine) /\ NoCarrierIdles(page.engine)
LoomShownIsSound == MountsAgree(Player!Shown)
==============================================================================
