---------------------------- MODULE StorageLessons ----------------------------
(* Two lessons.  Disk scheduling: in which order the head serves a queue.   *)
(* File systems: how many data and index blocks a file of some size takes   *)
(* behind the pointers of its inode.                                        *)
EXTENDS Integers, Sequences, FiniteSets, SequencesExt, FiniteSetsExt

CONSTANTS MaxCylinder, DiskQueues,   \* DiskQueues: [head, requests], the first the lesson's own
          BlockSizeBytes, DirectPointers, FileSizes, FirstSize

VARIABLE page
Lesson == INSTANCE StepPlayer

Algorithms == {"fcfs", "sstf", "scan", "cscan"}
Abs(n) == IF n < 0 THEN -n ELSE n
Clamp(n) == Max({0, Min({MaxCylinder, n})})

(* --------------------------- computeSequence --------------------------- *)

(* A stable sort by a key of the cylinder.                                 *)
SortedBy(s, Key(_)) ==
    [n \in DOMAIN s |-> s[CHOOSE i \in DOMAIN s : n - 1 =
        Cardinality({j \in DOMAIN s : \/ Key(s[j]) < Key(s[i])
                                      \/ Key(s[j]) = Key(s[i]) /\ j < i})]]

Up(s) == SortedBy(s, LAMBDA r : r)
Down(s) == SortedBy(s, LAMBDA r : -r)
RightOf(c) == SelectSeq(c.requests, LAMBDA r : r >= c.head)
LeftOf(c) == SelectSeq(c.requests, LAMBDA r : r < c.head)

(* Shortest seek first: the rest is sorted anew after every move.          *)
NearestFirst(c) ==
    LET move(a, n) == LET near == SortedBy(a.rest, LAMBDA r : Abs(r - a.at))
                      IN [at |-> Head(near), rest |-> Tail(near), seq |-> Append(a.seq, Head(near))]
    IN FoldLeft(move, [at |-> c.head, rest |-> c.requests, seq |-> <<>>],
                [n \in DOMAIN c.requests |-> n]).seq

ComputeSequence(c) ==
    CASE c.algorithm = "fcfs" -> c.requests
      [] c.algorithm = "sstf" -> NearestFirst(c)
      [] c.algorithm = "scan" -> Up(RightOf(c)) \o <<MaxCylinder>> \o Down(LeftOf(c))
      [] OTHER -> Up(RightOf(c)) \o <<MaxCylinder, 0>> \o Up(LeftOf(c))

(* ---------------------------- generateSteps ---------------------------- *)

DiskSteps(c) ==
    LET seq == ComputeSequence(c)
        step(steps, i) == LET was == Last(steps) IN
            Append(steps, [head |-> seq[i], moved |-> Abs(seq[i] - was.head),
                           total |-> was.total + Abs(seq[i] - was.head), served |-> i])
    IN FoldLeft(step, <<[head |-> c.head, moved |-> 0, total |-> 0, served |-> 0]>>, [i \in DOMAIN seq |-> i])

SetAlgorithm(algo) == LET c == [page.choice EXCEPT !.algorithm = algo]
                      IN page' = Lesson!Chosen(c, DiskSteps(c))

SetHeadAndRequests(q) ==
    LET c == [page.choice EXCEPT !.head = Clamp(q.head),
                                 !.requests = IF q.requests = <<>> THEN @ ELSE [i \in DOMAIN q.requests |-> Clamp(q.requests[i])]]
    IN page' = Lesson!Chosen(c, DiskSteps(c))

(* ------------------------------- the page ------------------------------ *)

DiskInit == LET c == [algorithm |-> "fcfs", head |-> DiskQueues[1].head, requests |-> DiskQueues[1].requests]
        IN page = Lesson!LessonOpened(c, DiskSteps(c), {"onStepForward", "onStepBackward", "onReset"})

HandleAlgoChange == \E algo \in Algorithms : SetAlgorithm(algo)
ChangeQueue == \E i \in DOMAIN DiskQueues : SetHeadAndRequests(DiskQueues[i])
DiskBar == Lesson!StepBar

DiskGesture == HandleAlgoChange \/ ChangeQueue \/ DiskBar

(* The pins of requests on cylinders the head has been sent to are green.  *)
ServicedPins == {i \in DOMAIN page.choice.requests :
                    page.choice.requests[i] \in ToSet(SubSeq(ComputeSequence(page.choice), 1, Lesson!StepData.served))}

(* ------------------------------ properties ----------------------------- *)

Turns == [fcfs |-> <<>>, sstf |-> <<>>, scan |-> <<MaxCylinder>>, cscan |-> <<MaxCylinder, 0>>]
Turned(a, b, c) == (b - a) * (c - b) < 0
Count(s, x) == Cardinality({i \in DOMAIN s : s[i] = x})

(* Every request is served as often as it was made, the head goes nowhere  *)
(* else but to the turning points, and the seek total is what it moved.    *)
EveryRequestIsServed(c, steps) ==
    LET visits == [i \in 1..Len(steps) - 1 |-> steps[i + 1].head] IN
    /\ \A x \in 0..MaxCylinder : Count(visits, x) = Count(c.requests, x) + Count(Turns[c.algorithm], x)
    /\ \A i \in 2..Len(steps) : steps[i].total - steps[i - 1].total = Abs(steps[i].head - steps[i - 1].head)

(* SSTF goes to the nearest request left; the elevators do not turn before *)
(* their turning points.                                                   *)
MovesFollowPolicy(c, steps) ==
    /\ c.algorithm = "sstf" => \A i, k \in 2..Len(steps) :
           i < k => steps[i].moved <= Abs(steps[k].head - steps[i - 1].head)
    /\ c.algorithm \in {"scan", "cscan"} =>
           Cardinality({i \in 2..Len(steps) - 1 : Turned(steps[i - 1].head, steps[i].head, steps[i + 1].head)})
             <= Len(Turns[c.algorithm])

DiskEngineIsSound == EveryRequestIsServed(page.choice, page.steps) /\ MovesFollowPolicy(page.choice, page.steps)
DiskShownIsSound == page.index = Len(page.steps) => ServicedPins = DOMAIN page.choice.requests

PointersPerBlock == BlockSizeBytes \div 4
Ceil(a, b) == (a + b - 1) \div b
Least(a, b) == IF a < b THEN a ELSE b
Rest(a, b) == IF a > b THEN a - b ELSE 0

(* ---------------------------- generateSteps ---------------------------- *)

DoubleIndex(n) == IF n > 0 THEN 1 + Ceil(n, PointersPerBlock) ELSE 0

Allocation(bytes) ==
    LET blocks == Ceil(bytes, BlockSizeBytes)
        afterDirect == Rest(blocks, DirectPointers)
        afterSingle == Rest(afterDirect, PointersPerBlock)
        triple == Rest(afterSingle, PointersPerBlock * PointersPerBlock)
        single == Least(afterDirect, PointersPerBlock)
        double == Least(afterSingle, PointersPerBlock * PointersPerBlock)
    IN [blocks |-> blocks, direct |-> Least(blocks, DirectPointers),
        single |-> single, double |-> double, triple |-> triple,
        index |-> (IF single > 0 THEN 1 ELSE 0) + DoubleIndex(double)
                  + (IF triple > 0 THEN 1 + Ceil(triple, PointersPerBlock * PointersPerBlock) + Ceil(triple, PointersPerBlock)
                     ELSE 0)]

(* Three steps with the same numbers; what differs is the tier they light. *)
InodeSteps(bytes) ==
    LET a == Allocation(bytes)
        single == IF a.single > 0 THEN "single" ELSE "direct"
    IN <<[tier |-> "direct", uses |-> a], [tier |-> single, uses |-> a],
         [tier |-> IF a.double > 0 THEN "double" ELSE single, uses |-> a]>>

SetFileSize(bytes) == LET size == IF bytes < 1 THEN 1 ELSE bytes
                      IN page' = Lesson!Chosen([page.choice EXCEPT !.size = size], InodeSteps(size))

(* ------------------------------- the page ------------------------------ *)

InodeInit == page = Lesson!LessonOpened([size |-> FirstSize, tab |-> "inode"], InodeSteps(FirstSize),
                             {"onStepForward", "onStepBackward", "onReset"})

HandlePresetChange == page.choice.tab = "inode" /\ \E bytes \in FileSizes : SetFileSize(bytes)
SelectTab == \E tab \in {"inode", "vfs"} : page' = [page EXCEPT !.choice.tab = tab]
InodeBar == page.choice.tab = "inode" /\ Lesson!StepBar

InodeGesture == HandlePresetChange \/ SelectTab \/ InodeBar

(* The cards of the tiers, with the data blocks each counts.               *)
Tiers(a) == [direct |-> a.direct, single |-> a.single, double |-> a.double]

(* ------------------------------ properties ----------------------------- *)

(* The blocks of a pointer tree, counted down the tree: one at each level, *)
(* one full subtree after the other and at most one that is not.           *)
Power[n \in 0..3] == IF n = 0 THEN 1 ELSE PointersPerBlock * Power[n - 1]
TreeBlocks[level \in 0..3, n \in 0..Power[3]] ==
    IF level = 0 \/ n = 0 THEN 0
    ELSE 1 + (n \div Power[level - 1]) * TreeBlocks[level - 1, Power[level - 1]]
           + TreeBlocks[level - 1, n % Power[level - 1]]

(* Every byte has a block, no tier is used before the one below is full,   *)
(* and the index blocks are those of the pointer trees.                    *)
EveryBlockIsReached(a, bytes) ==
    /\ a.blocks = a.direct + a.single + a.double + a.triple
    /\ (a.blocks - 1) * BlockSizeBytes < bytes /\ bytes <= a.blocks * BlockSizeBytes
    /\ a.single > 0 => a.direct = DirectPointers
    /\ a.double > 0 => a.single = Power[1]
    /\ a.triple > 0 => a.double = Power[2]
    /\ a.triple <= Power[3] =>
         a.index = TreeBlocks[1, a.single] + TreeBlocks[2, a.double] + TreeBlocks[3, a.triple]

InodeEngineIsSound == EveryBlockIsReached(Allocation(page.choice.size), page.choice.size)

(* A step lights a tier the file uses.                                     *)
InodeShownIsSound == Tiers(Lesson!StepData.uses)[Lesson!StepData.tier] > 0
==============================================================================
