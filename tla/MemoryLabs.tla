----------------------------- MODULE MemoryLabs ------------------------------
(***************************************************************************)
(* Two animated pages about memory: address translation, and the heap of   *)
(* the Java virtual machine.                                               *)
(***************************************************************************)
EXTENDS Integers, Sequences, FiniteSets, SequencesExt

CONSTANTS PageFrames,   \* the frame of each page at the start, NoFrame on disk
          NoFrame, FreeFrames

CONSTANTS EdenCapacity, TenuringAge

VARIABLE page
Player == INSTANCE StepPlayer

(* -------- virtual memory ------------------------------------------------ *)

(* The virtual memory page: a four-entry TLB, replaced in turn, before a    *)
(* page table, before the swap disk.                                        *)

TlbSlots == 4
Pages == DOMAIN PageFrames

NewMmu == [tlb |-> <<[vpn |-> 1, frame |-> PageFrames[1]], [vpn |-> 3, frame |-> PageFrames[3]]>>,
           table |-> PageFrames, free |-> FreeFrames, victim |-> 1]

(* ------------------------------ the engine ----------------------------- *)

(* The next slot in turn, the first of those never used yet when there are *)
(* any; the turn starts at the first, used or not.                         *)
Cached(e, vpn, frame) ==
    LET entry == [vpn |-> vpn, frame |-> frame] IN
    [e EXCEPT !.tlb = IF e.victim <= Len(@) THEN [@ EXCEPT ![e.victim] = entry] ELSE Append(@, entry),
              !.victim = (@ % TlbSlots) + 1]

TlbMatch(e, vpn) == \E i \in DOMAIN e.tlb : e.tlb[i].vpn = vpn

Loaded(e, vpn) ==
    LET f == Head(e.free) IN Cached([e EXCEPT !.table[vpn] = f, !.free = Tail(@)], vpn, f)

Translate(e, vpn) ==
    IF TlbMatch(e, vpn) THEN <<e, e>>
    ELSE IF e.table[vpn] # NoFrame THEN <<e, e, Cached(e, vpn, e.table[vpn])>>
    ELSE IF e.free = <<>> THEN <<e, e, e, e>>
    ELSE <<e, e, e, Loaded(e, vpn)>>

(* ------------------------------- the page ------------------------------ *)

MmuInit == \E still \in BOOLEAN :
            LET steps == Translate(NewMmu, 1) IN page = Player!Opened(Last(steps), steps, still)

HandleTranslate == \E vpn \in Pages : LET steps == Translate(page.engine, vpn)
                                     IN page' = Player!Played(Last(steps), steps)

MmuTimer == Player!Tick
MmuControlBar == Player!Bar

MmuGesture == \/ page.visible /\ HandleTranslate
              \/ MmuControlBar \/ Player!Tabs

Inspected(s) == [resident |-> Cardinality({p \in Pages : s.table[p] # NoFrame}),
                 onDisk |-> Cardinality({p \in Pages : s.table[p] = NoFrame}), entries |-> Len(s.tlb)]

(* ------------------------------ properties ----------------------------- *)

(* A cached translation is that of the page table and is cached once; no   *)
(* frame holds two pages or is free and in use; none is lost.              *)
FramesAreOwnedOnce(s) ==
    LET used == {s.table[p] : p \in Pages} \ {NoFrame} IN
    /\ \A i \in DOMAIN s.tlb : s.tlb[i].frame = s.table[s.tlb[i].vpn]
    /\ \A i, k \in DOMAIN s.tlb : i # k => s.tlb[i].vpn # s.tlb[k].vpn
    /\ Inspected(s).entries <= TlbSlots
    /\ Cardinality(used) = Inspected(s).resident
    /\ used \cap ToSet(s.free) = {}
    /\ Cardinality(used) + Len(s.free) =
         Cardinality({PageFrames[p] : p \in Pages} \ {NoFrame}) + Len(FreeFrames)

MmuEngineIsSound == FramesAreOwnedOnce(page.engine)
MmuShownIsSound == FramesAreOwnedOnce(Player!Shown)

(* -------- the heap ------------------------------------------------------ *)

(* The JVM memory page: a generational heap with a copying minor collector. *)
(* An object is its number and its age; `born' remembers how many           *)
(* collections there had been when it was allocated, which the code does    *)
(* not.                                                                     *)

(* Survivor spaces are numbered: `to' is the one the next collection fills.*)
NewHeap == [eden |-> <<>>, s |-> <<<<>>, <<>>>>, old |-> <<>>, to |-> 1, gcCount |-> 0, born |-> <<>>]
Object(e) == [id |-> Len(e.born) + 1, age |-> 0]
Allocated(e) == [e EXCEPT !.born = Append(@, e.gcCount)]

(* --------------------------- minor collection -------------------------- *)

(* Every other object of eden lives on; a JavaScript index is one less.    *)
Aged(objects) == [i \in DOMAIN objects |-> [objects[i] EXCEPT !.age = @ + 1]]
Surviving(e) == Aged([i \in 1..(Len(e.eden) + 1) \div 2 |-> e.eden[2 * i - 1]])

(* Marking ages the survivors where they stand.                            *)
Marked(e) == [e EXCEPT !.eden = [i \in DOMAIN @ |-> [@[i] EXCEPT !.age = IF i % 2 = 1 THEN @ + 1 ELSE @]]]

Evacuating(e) == Surviving(e) \o Aged(e.s[3 - e.to])

Tenured(e) == SelectSeq(Evacuating(e), LAMBDA o : o.age >= TenuringAge)
Staying(e) == SelectSeq(Evacuating(e), LAMBDA o : o.age < TenuringAge)

Collected(e) == [e EXCEPT !.eden = <<>>, !.s[e.to] = Staying(e), !.s[3 - e.to] = <<>>,
                          !.old = @ \o Tenured(e), !.to = 3 - @]

(* Started, marked, one snapshot per promotion, and done.                  *)
TriggerMinorGC(heap) ==
    LET e == [heap EXCEPT !.gcCount = @ + 1]
        promoted(n) == [Marked(e) EXCEPT !.old = @ \o SubSeq(Tenured(e), 1, n)]
    IN <<e, Marked(e)>> \o [n \in 1..Len(Tenured(e)) |-> promoted(n)] \o <<Collected(e)>>

(* ------------------------------ allocation ----------------------------- *)

AllocateHumongous(e) ==
    <<Allocated(e), [Allocated(e) EXCEPT !.old = Append(@, Object(e))]>>

(* The object's number is drawn before the collection it may trigger.      *)
AllocateObject(heap) ==
    LET e == [heap EXCEPT !.born = Append(@, heap.gcCount)]
        full == Len(e.eden) >= EdenCapacity
        gc == IF full THEN <<e>> \o TriggerMinorGC(e) ELSE <<>>
        room == IF full THEN Last(gc) ELSE e
    IN <<e>> \o gc \o <<[room EXCEPT !.eden = Append(@, Object(heap)),
                                     !.born[Len(e.born)] = room.gcCount]>>

(* ------------------------------- the page ------------------------------ *)

HeapPlays(steps) == page' = Player!Played(Last(steps), steps)

HeapInit == \E still \in BOOLEAN :
            LET steps == AllocateObject(NewHeap) IN page = Player!Opened(Last(steps), steps, still)

HandleAllocate == HeapPlays(AllocateObject(page.engine))
HandleAllocateLarge == HeapPlays(AllocateHumongous(page.engine))
HandleTriggerGC == HeapPlays(TriggerMinorGC(page.engine))

HeapTimer == Player!Tick
HeapControlBar == Player!Bar

HeapGesture == \/ page.visible /\ (HandleAllocate \/ HandleAllocateLarge \/ HandleTriggerGC)
               \/ HeapControlBar \/ Player!Tabs

(* ------------------------------ properties ----------------------------- *)

Everywhere(e) == e.eden \o e.s[1] \o e.s[2] \o e.old

(* No object is in two places; the space the next collection fills is      *)
(* empty; a young object has survived every collection since it was born   *)
(* and too few to be old; what is old was promoted or too large.           *)
HeapIsSound(e) ==
    /\ Len(e.eden) <= EdenCapacity
    /\ e.s[e.to] = <<>>
    /\ Cardinality({o.id : o \in ToSet(Everywhere(e))}) = Len(Everywhere(e))
    /\ \A o \in ToSet(e.eden \o e.s[3 - e.to]) :
           o.age = e.gcCount - e.born[o.id] /\ o.age < TenuringAge
    /\ \A o \in ToSet(e.eden) : o.age = 0
    /\ \A o \in ToSet(e.old) : o.age \in {0, TenuringAge}

(* In the snapshots of a collection what is promoted is also still where   *)
(* it was, the only copies there are.                                      *)
CopiesAreOfPromoted(s) ==
    \A i, k \in DOMAIN Everywhere(s) :
        (i < k /\ Everywhere(s)[i].id = Everywhere(s)[k].id) =>
            Everywhere(s)[k].age = TenuringAge /\ k > Len(Everywhere(s)) - Len(s.old)

HeapEngineIsSound == HeapIsSound(page.engine)
HeapShownIsSound == CopiesAreOfPromoted(Player!Shown)
==============================================================================
