---------------------------- MODULE CpuScheduling ----------------------------
(***************************************************************************)
(* One CPU scheduling request, from the visualizer's form to the answer it *)
(* draws: the service validates the request and computes the timeline; the *)
(* browser computes it itself when the service refuses or is unreachable.  *)
(* Both run the same five loops, one iteration of the outer loop a step.   *)
(* A process is known by its place in the request, except where the code   *)
(* compares ids.                                                           *)
(***************************************************************************)
EXTENDS Integers, Sequences, FiniteSets, SequencesExt, FiniteSetsExt

CONSTANTS Requests,     \* the requests the form can hold
          MaxTimeline   \* MAX_TIMELINE_UNITS

VARIABLE job

Algorithms == {"FCFS", "SJF", "SRTF", "PRIORITY", "RR"}

Places(r) == 1..Len(r.procs)
Total(r) == MapThenSumSet(LAMBDA i : r.procs[i].burst, Places(r))
Latest(r) == Max({r.procs[i].arrival : i \in Places(r)})

Accepted(r) ==
    /\ r.procs # <<>> /\ r.algo \in Algorithms
    /\ r.quantum \in 1..MaxTimeline
    /\ \A i \in Places(r) : r.procs[i].arrival >= 0 /\ r.procs[i].burst > 0
    /\ \A i, k \in Places(r) : i # k => r.procs[i].id # r.procs[k].id
    /\ Total(r) + Latest(r) <= MaxTimeline

(* The first request of a page: nothing computed, nobody asked yet.        *)
Fresh(r) == [req |-> r, by |-> "nobody", now |-> 0, completed |-> 0,
             left |-> [i \in Places(r) |-> r.procs[i].burst],
             first |-> [i \in Places(r) |-> -1], done |-> [i \in Places(r) |-> 0],
             off |-> {}, gantt |-> <<>>, picks |-> <<>>, queue |-> <<>>, queued |-> {}]

Starts == {Fresh(r) : r \in Requests}
Init == job \in Starts

(* ----------------------------- the loops ------------------------------- *)

Computing(j) == j.by # "nobody" /\ j.completed < Len(j.req.procs)
Proc(j, i) == j.req.procs[i]

(* Slip: shortest-remaining-time compares the whole burst, as SJF does.     *)
WholeBurstKey(j, i) == [FCFS |-> Proc(j, i).arrival, SJF |-> Proc(j, i).burst,
                        SRTF |-> Proc(j, i).burst, PRIORITY |-> Proc(j, i).priority][j.req.algo]

Key(j, i) == [FCFS |-> Proc(j, i).arrival, SJF |-> Proc(j, i).burst,
              SRTF |-> j.left[i], PRIORITY |-> Proc(j, i).priority][j.req.algo]

Before(j, i, k) ==
    \/ Key(j, i) < Key(j, k)
    \/ /\ Key(j, i) = Key(j, k)
       /\ \/ Proc(j, i).arrival < Proc(j, k).arrival
          \/ Proc(j, i).arrival = Proc(j, k).arrival /\ i < k

Available(j) == {i \in Places(j.req) : /\ Proc(j, i).arrival <= j.now
                                       /\ IF j.req.algo = "SRTF" THEN j.left[i] > 0 ELSE i \notin j.off}

Picked(j) == CHOOSE i \in Available(j) : \A k \in Available(j) \ {i} : Before(j, i, k)

Idled(j) == [j EXCEPT !.now = @ + 1, !.gantt = Append(@, 0)]

(* i has the processor for n units from now on.                            *)
Ran(j, i, n) == [j EXCEPT !.now = @ + n, !.gantt = @ \o [t \in 1..n |-> i],
                          !.picks = Append(@, [who |-> i, at |-> j.now, upto |-> j.now + n])]

(* isDone[procs.indexOf(p)] in the service, which holds objects; the       *)
(* browser looks the process up by its id.                                 *)
DoneMark(j, i) == i
DoneMarkById(j, i) == CHOOSE k \in Places(j.req) :
                          /\ Proc(j, k).id = Proc(j, i).id
                          /\ \A m \in 1..k - 1 : Proc(j, m).id # Proc(j, i).id

RanToEnd(j, i, mark) ==
    [Ran(j, i, Proc(j, i).burst) EXCEPT !.first[i] = j.now,
                                        !.done[i] = j.now + Proc(j, i).burst,
                                        !.off = @ \cup {mark}, !.completed = @ + 1]

RanOneUnit(j, i) ==
    LET ran == [Ran(j, i, 1) EXCEPT !.left[i] = @ - 1,
                                    !.first[i] = IF @ = -1 THEN j.now ELSE @]
    IN IF ran.left[i] > 0 THEN ran
       ELSE [ran EXCEPT !.done[i] = ran.now, !.completed = @ + 1]

(* Those that have arrived by t and were never queued join in list order;  *)
(* a process never joins while one of its own id runs.                     *)
Admitted(j, t, running) ==
    LET new == SelectSeq([i \in 1..Len(j.req.procs) |-> i],
                         LAMBDA i : /\ i \notin j.queued /\ j.left[i] > 0
                                    /\ Proc(j, i).arrival <= t
                                    /\ \A r \in running : Proc(j, i).id # Proc(j, r).id)
    IN [j EXCEPT !.queue = @ \o new, !.queued = @ \cup ToSet(new)]

RanSlice(j) ==
    LET i == Head(j.queue)
        n == Min({j.left[i], j.req.quantum})
        met == FoldLeft(LAMBDA k, t : Admitted(k, t, {i}), [j EXCEPT !.queue = Tail(@)],
                        [t \in 1..n |-> j.now + t])
        ran == [Ran(met, i, n) EXCEPT !.left[i] = @ - n, !.first[i] = IF @ = -1 THEN j.now ELSE @]
    IN IF ran.left[i] = 0 THEN [ran EXCEPT !.done[i] = ran.now, !.completed = @ + 1]
       ELSE [ran EXCEPT !.queue = Append(@, i)]

(* Nobody queued: wait a unit for the next arrival, or leave the loop.     *)
HasFuture(j) == \E i \in Places(j.req) : j.left[i] > 0 /\ Proc(j, i).arrival > j.now
Waited(j) == Admitted(Idled(j), j.now + 1, {})

(* ------------------------------ the steps ------------------------------ *)

(* The loop starts on one side; round robin queues who arrives at 0.       *)
Begun(side) == LET j == [job EXCEPT !.by = side]
               IN job' = IF j.req.algo = "RR" THEN Admitted(j, 0, {}) ELSE j

Serve == job.by = "nobody" /\ Accepted(job.req) /\ Begun("service")
FallBack == job.by = "nobody" /\ Begun("browser")

(* Loops that let the chosen process run to the end of its burst; FCFS     *)
(* idles up to the next arrival in one go, which is unit by unit here.     *)
Idle(side, algo) == /\ Computing(job) /\ job.by = side /\ job.req.algo = algo
                    /\ Available(job) = {}
                    /\ job' = Idled(job)

RunToEnd(algo) == /\ Computing(job) /\ job.by = "service" /\ job.req.algo = algo
                  /\ Available(job) # {}
                  /\ LET i == Picked(job) IN job' = RanToEnd(job, i, DoneMark(job, i))

FallbackRunToEnd(algo) ==
    /\ Computing(job) /\ job.by = "browser" /\ job.req.algo = algo
    /\ Available(job) # {}
    /\ LET i == Picked(job) IN job' = RanToEnd(job, i, DoneMarkById(job, i))

RunOneUnit(side) == /\ Computing(job) /\ job.by = side /\ job.req.algo = "SRTF"
                    /\ Available(job) # {}
                    /\ job' = RanOneUnit(job, Picked(job))

RunSlice(side) ==
    /\ Computing(job) /\ job.by = side /\ job.req.algo = "RR"
    /\ \/ job.queue # <<>> /\ job' = RanSlice(job)
       \/ job.queue = <<>> /\ HasFuture(job) /\ job' = Waited(job)

FirstComeFirstServed == Idle("service", "FCFS") \/ RunToEnd("FCFS")
ShortestJobFirst == Idle("service", "SJF") \/ RunToEnd("SJF")
ShortestRemainingFirst == Idle("service", "SRTF") \/ RunOneUnit("service")
HighestPriorityFirst == Idle("service", "PRIORITY") \/ RunToEnd("PRIORITY")
RoundRobin == RunSlice("service")

(* The browser's FCFS walks the sorted list and looks nobody up by id.     *)
FallbackFcfs == \/ Idle("browser", "FCFS")
                \/ /\ Computing(job) /\ job.by = "browser" /\ job.req.algo = "FCFS"
                   /\ Available(job) # {}
                   /\ LET i == Picked(job) IN job' = RanToEnd(job, i, i)
FallbackSjf == Idle("browser", "SJF") \/ FallbackRunToEnd("SJF")
FallbackSrtf == Idle("browser", "SRTF") \/ RunOneUnit("browser")
FallbackPriority == Idle("browser", "PRIORITY") \/ FallbackRunToEnd("PRIORITY")
FallbackRoundRobin == RunSlice("browser")

Next == \/ Serve \/ FallBack
        \/ FirstComeFirstServed \/ ShortestJobFirst \/ ShortestRemainingFirst
        \/ HighestPriorityFirst \/ RoundRobin
        \/ FallbackFcfs \/ FallbackSjf \/ FallbackSrtf \/ FallbackPriority \/ FallbackRoundRobin

Spec == Init /\ [][Next]_job

(* ------------------------------ the answer ----------------------------- *)

Metrics(j, i) == [turnaround |-> j.done[i] - Proc(j, i).arrival,
                  waiting |-> j.done[i] - Proc(j, i).arrival - Proc(j, i).burst,
                  response |-> j.first[i] - Proc(j, i).arrival]

Answered(j) == /\ j.by # "nobody"
               /\ \/ j.completed = Len(j.req.procs)
                  \/ j.req.algo = "RR" /\ j.queue = <<>> /\ ~HasFuture(j)

(* ------------------------------ properties ----------------------------- *)

UniqueIds(r) == \A i, k \in Places(r) : i # k => r.procs[i].id # r.procs[k].id

(* What the timeline alone says: units of i before t, who waits at t.      *)
Units(j, i, t) == Cardinality({u \in 1..t : j.gantt[u] = i})
Waiting(j, t) == {i \in Places(j.req) : /\ Proc(j, i).arrival <= t
                                       /\ Units(j, i, t) < Proc(j, i).burst}
KeyAt(j, i, t) == IF j.req.algo = "SRTF" THEN Proc(j, i).burst - Units(j, i, t) ELSE Key(j, i)

(* The timeline gives every process exactly its burst and never before it  *)
(* arrived, the processor idles only when nobody waits, and the timeline   *)
(* is no longer than the validated request allows.                         *)
EveryUnitIsAccounted(j) ==
    /\ \A i \in Places(j.req) : Units(j, i, Len(j.gantt)) = Proc(j, i).burst
    /\ \A t \in 1..Len(j.gantt) :
         IF j.gantt[t] = 0 THEN Waiting(j, t - 1) = {} ELSE j.gantt[t] \in Waiting(j, t - 1)
    /\ Len(j.gantt) <= Total(j.req) + Latest(j.req)

(* Whoever gets the processor has the least key of those that wait, and    *)
(* only shortest-remaining-time takes it from a process in its burst.      *)
LeastKeyRuns(j) ==
    \A t \in 1..Len(j.gantt) : LET i == j.gantt[t] IN
        (i # 0 /\ (j.req.algo = "SRTF" \/ Units(j, i, t - 1) = 0)) =>
            \A k \in Waiting(j, t - 1) \ {i} :
                /\ KeyAt(j, i, t - 1) <= KeyAt(j, k, t - 1)
                /\ KeyAt(j, i, t - 1) = KeyAt(j, k, t - 1) => Proc(j, i).arrival <= Proc(j, k).arrival
                /\ j.req.algo # "SRTF" => Units(j, k, t - 1) = 0

(* Round robin: nobody keeps the processor past its quantum, and nobody is *)
(* overtaken twice by the same process while it waits for one slice.       *)
NobodyOvertakenTwice(j) ==
    \A p \in 1..Len(j.picks) :
        LET mine == j.picks[p]
            prev == {j.picks[q].upto : q \in {q \in 1..p - 1 : j.picks[q].who = mine.who}}
            since == Max(prev \cup {Proc(j, mine.who).arrival})
        IN /\ mine.upto - mine.at <= j.req.quantum
           /\ \A k \in Places(j.req) \ {mine.who} :
                Cardinality({q \in 1..p - 1 : j.picks[q].who = k /\ j.picks[q].at >= since}) <= 1

(* The metrics say what the timeline shows.                                *)
MetricsMatchTimeline(j) ==
    \A i \in Places(j.req) :
        LET mine == {t \in 1..Len(j.gantt) : j.gantt[t] = i} IN
        /\ Metrics(j, i).turnaround = Max(mine) - Proc(j, i).arrival
        /\ Metrics(j, i).response = Min(mine) - 1 - Proc(j, i).arrival
        /\ Metrics(j, i).waiting =
             Cardinality({t \in Proc(j, i).arrival + 1..Max(mine) : j.gantt[t] # i})

SchedulesAreSound ==
    (Answered(job) /\ UniqueIds(job.req)) =>
        /\ EveryUnitIsAccounted(job)
        /\ IF job.req.algo = "RR" THEN NobodyOvertakenTwice(job) ELSE LeastKeyRuns(job)
        /\ MetricsMatchTimeline(job)
==============================================================================
