--------------------------- MODULE PageReplacement ---------------------------
(***************************************************************************)
(* One page replacement request: the service (or the browser, when the     *)
(* service does not answer) walks the reference stream, a reference a      *)
(* step.  The two copies differ in whom OPTIMAL evicts: the service stops  *)
(* at the first resident page never used again, the browser goes on and    *)
(* ends with the last one.                                                 *)
(***************************************************************************)
EXTENDS Integers, Sequences, FiniteSets, SequencesExt, FiniteSetsExt

CONSTANTS PageRequests,   \* the requests the form can hold
          MaxFrames,      \* MAX_FRAMES
          MaxReferences   \* MAX_PAGE_REFERENCES

VARIABLE walk

Empty == -1
Never == MaxReferences + 1

ValidPages(r) ==
    /\ Len(r.stream) \in 1..MaxReferences
    /\ \A i \in 1..Len(r.stream) : r.stream[i] >= 0
    /\ r.frames \in 1..MaxFrames
    /\ r.algo \in {"FIFO", "LRU", "OPTIMAL"}

(* The page's stream never changes; its form picks frames and algorithm.   *)
PageStream == <<7, 0, 1, 2, 0, 3, 0, 4, 2, 3, 0, 3, 2>>
OnThePage(r) == r.stream = PageStream /\ r.frames \in 3..5

Fresh(r) == [req |-> r, by |-> "nobody", at |-> 1, frames |-> [f \in 1..r.frames |-> Empty],
             usage |-> <<>>, faults |-> 0, hits |-> 0]
Starts == {Fresh(r) : r \in PageRequests}
Init == walk \in Starts

(* ----------------------------- one reference --------------------------- *)

Page(w) == w.req.stream[w.at]
FrameOf(w, p) == CHOOSE f \in 1..Len(w.frames) :
                     w.frames[f] = p /\ \A g \in 1..f - 1 : w.frames[g] # p

NextUse(w, p) ==
    LET later == {t \in w.at + 1..Len(w.req.stream) : w.req.stream[t] = p}
    IN IF later = {} THEN Never ELSE Min(later)

(* The scan of the resident pages: the first one never used again ends it, *)
(* else the first of those used last.                                      *)
OptimalFrame(w) ==
    CHOOSE f \in 1..Len(w.frames) :
        /\ \A g \in 1..Len(w.frames) : NextUse(w, w.frames[g]) <= NextUse(w, w.frames[f])
        /\ \A g \in 1..f - 1 : NextUse(w, w.frames[g]) < NextUse(w, w.frames[f])

OptimalFrameInBrowser(w) ==
    CHOOSE f \in 1..Len(w.frames) :
        /\ \A g \in 1..Len(w.frames) : NextUse(w, w.frames[g]) <= NextUse(w, w.frames[f])
        /\ \A g \in f + 1..Len(w.frames) : NextUse(w, w.frames[g]) < NextUse(w, w.frames[f])
                                            \/ NextUse(w, w.frames[g]) # Never
        /\ \A g \in 1..f - 1 : NextUse(w, w.frames[f]) = Never
                               \/ NextUse(w, w.frames[g]) < NextUse(w, w.frames[f])

(* Slip: a hit does not move the page to the end of the usage list.        *)
HitUnmoved(w) == [w EXCEPT !.hits = @ + 1, !.at = @ + 1]
Hit(w) == [w EXCEPT !.hits = @ + 1, !.at = @ + 1,
                    !.usage = IF w.req.algo = "LRU"
                              THEN Append(SelectSeq(@, LAMBDA p : p # Page(w)), Page(w)) ELSE @]

Loaded(w, f, usage) == [w EXCEPT !.faults = @ + 1, !.at = @ + 1,
                                 !.frames[f] = Page(w), !.usage = Append(usage, Page(w))]

(* FIFO and LRU evict the head of the usage list, OPTIMAL by the future;   *)
(* only the service takes OPTIMAL's victim off the list.                   *)
Evicted(w, optimal, kept) ==
    IF w.req.algo = "OPTIMAL" THEN Loaded(w, optimal, kept)
    ELSE Loaded(w, FrameOf(w, Head(w.usage)), Tail(w.usage))

(* ------------------------------ the steps ------------------------------ *)

Serve == /\ walk.by = "nobody" /\ ValidPages(walk.req)
         /\ walk' = [walk EXCEPT !.by = "service"]
FallBack == walk.by = "nobody" /\ OnThePage(walk.req) /\ walk' = [walk EXCEPT !.by = "browser"]

Walking(side) == walk.by = side /\ walk.at <= Len(walk.req.stream)
Resident(w) == \E f \in 1..Len(w.frames) : w.frames[f] = Page(w)
Room(w) == \E f \in 1..Len(w.frames) : w.frames[f] = Empty

Reference ==
    /\ Walking("service")
    /\ \/ Resident(walk) /\ walk' = Hit(walk)
       \/ ~Resident(walk) /\ Room(walk) /\ walk' = Loaded(walk, FrameOf(walk, Empty), walk.usage)
       \/ /\ ~Resident(walk) /\ ~Room(walk)
          /\ LET f == OptimalFrame(walk)
             IN walk' = Evicted(walk, f, SelectSeq(walk.usage, LAMBDA p : p # walk.frames[f]))

ReferenceInBrowser ==
    /\ Walking("browser")
    /\ \/ Resident(walk) /\ walk' = Hit(walk)
       \/ ~Resident(walk) /\ Room(walk) /\ walk' = Loaded(walk, FrameOf(walk, Empty), walk.usage)
       \/ /\ ~Resident(walk) /\ ~Room(walk)
          /\ walk' = Evicted(walk, OptimalFrameInBrowser(walk), walk.usage)

Next == Serve \/ FallBack \/ Reference \/ ReferenceInBrowser
Spec == Init /\ [][Next]_walk

(* ------------------------------ properties ----------------------------- *)

(* The fewest faults any policy can have from reference t on.              *)
FewestFaults[t \in Nat, held \in SUBSET Nat, s \in Seq(Nat), n \in Nat] ==
    IF t > Len(s) THEN 0
    ELSE IF s[t] \in held THEN FewestFaults[t + 1, held, s, n]
    ELSE IF Cardinality(held) < n THEN 1 + FewestFaults[t + 1, held \cup {s[t]}, s, n]
    ELSE 1 + Min({FewestFaults[t + 1, (held \ {v}) \cup {s[t]}, s, n] : v \in held})

LastUse(w, p, t) == Max({u \in 0..t : u = 0 \/ w.req.stream[u] = p})

(* The pages FIFO or LRU must hold after t references, from the stream     *)
(* alone: LRU holds the n most recently used.                              *)
RecentlyUsed(w) ==
    LET past == w.at - 1
        seen == {w.req.stream[u] : u \in 1..past}
    IN {p \in seen : Cardinality({q \in seen : LastUse(w, q, past) > LastUse(w, p, past)}) < w.req.frames}

FifoHeld[t \in Nat, s \in Seq(Nat), n \in Nat] ==
    IF t = 0 THEN <<>>
    ELSE LET before == FifoHeld[t - 1, s, n] IN
         IF Contains(before, s[t]) THEN before
         ELSE Append(IF Len(before) = n THEN Tail(before) ELSE before, s[t])

Held(w) == {w.frames[f] : f \in 1..Len(w.frames)} \ {Empty}

(* No page is held twice, the last one referenced is held, every reference *)
(* is a hit or a fault, and the pages held are those the policy prescribes.*)
FramesFollowThePolicy ==
    /\ \A f, g \in 1..Len(walk.frames) : (f # g /\ walk.frames[f] = walk.frames[g]) => walk.frames[f] = Empty
    /\ walk.faults + walk.hits = walk.at - 1
    /\ walk.at > 1 => walk.req.stream[walk.at - 1] \in Held(walk)
    /\ walk.req.algo = "LRU" => Held(walk) = RecentlyUsed(walk)
    /\ walk.req.algo = "FIFO" => Held(walk) = ToSet(FifoHeld[walk.at - 1, walk.req.stream, walk.req.frames])

(* Nothing beats OPTIMAL, in the service or in the browser.                *)
OptimalIsOptimal ==
    (walk.at > Len(walk.req.stream) /\ walk.req.algo = "OPTIMAL") =>
        walk.faults = FewestFaults[1, {}, walk.req.stream, walk.req.frames]

PagesAreSound == FramesFollowThePolicy /\ OptimalIsOptimal
==============================================================================
