------------------------------ MODULE BPlusTree ------------------------------
(***************************************************************************)
(* The B+ tree of the database page and the page around it.  An operation  *)
(* runs to its end when it is asked for, one Advance after another, and    *)
(* leaves the snapshots the page then plays: descend, place, split the     *)
(* leaf, insert the separator into the parent, split internal nodes        *)
(* upward.  Nodes are numbered in order of creation; a tree also remembers *)
(* which keys it was given, which the program does not.                    *)
(***************************************************************************)
EXTENDS Integers, Sequences, FiniteSets, SequencesExt, FiniteSetsExt

CONSTANTS Orders,     \* the orders the page offers
          FirstOrder,
          Prefilled,  \* keys in the tree when the page opens
          DemoInserts,
          TypedKeys,  \* keys the reader types in
          Repeats     \* how often one key may be given

VARIABLE page
Player == INSTANCE StepPlayer

Keys == TypedKeys \cup ToSet(Prefilled) \cup ToSet(DemoInserts)

None == 0
NewLeaf(ks, n) == [leaf |-> TRUE, keys |-> ks, kids |-> <<>>, next |-> n]
NewInner(ks, cs) == [leaf |-> FALSE, keys |-> ks, kids |-> cs, next |-> None]
Idle == [do |-> "idle", key |-> 0, at |-> None, path |-> <<>>]

(* The root of a new tree is an empty leaf: so the page after the order    *)
(* was chosen.                                                             *)
NewTree(m) == [order |-> m, nodes |-> <<NewLeaf(<<>>, None)>>, root |-> 1,
               given |-> <<>>, op |-> Idle]

MaxKeys(t) == t.order - 1
MinKeys(t) == (t.order + 1) \div 2 - 1

(* --------------------------- shared helpers ---------------------------- *)

(* The child a key is routed to: past every separator it is not below.     *)
ChildFor(node, key) == 1 + Cardinality({i \in 1..Len(node.keys) :
                                            \A j \in 1..i : node.keys[j] <= key})

(* Before the first greater key, else at the end.                          *)
PlaceFor(ks, key) ==
    LET above == {i \in 1..Len(ks) : ks[i] > key}
    IN IF above = {} THEN Len(ks) + 1 ELSE Min(above)

FirstOf(s, n) == SubSeq(s, 1, n)
Rest(s, n) == SubSeq(s, n + 1, Len(s))
Node(t, n) == t.nodes[n]
Doing(t, what) == t.op.do = what
Count(s, key) == Cardinality({i \in DOMAIN s : s[i] = key})
Given(t, key) == Count(t.given, key)
OneLevelDown(t) == [t EXCEPT !.op.path = Append(@, t.op.at),
                             !.op.at = Node(t, @).kids[ChildFor(Node(t, @), t.op.key)]]

(* ------------------------------- search -------------------------------- *)

Searched(t) == [t EXCEPT !.op.do = IF Contains(Node(t, t.op.at).keys, t.op.key) THEN "hit" ELSE "miss"]

(* ------------------------------- insert -------------------------------- *)

Placed(t) ==
    LET leaf == Node(t, t.op.at) IN
    [t EXCEPT !.nodes[t.op.at].keys = InsertAt(leaf.keys, PlaceFor(leaf.keys, t.op.key), t.op.key),
              !.given = Append(@, t.op.key),
              !.op = IF Len(leaf.keys) + 1 > MaxKeys(t) THEN [t.op EXCEPT !.do = "split leaf"] ELSE Idle]

(* The separator goes to the parent on the path, or to a new root.         *)
Promoted(t, key, left, right) ==
    IF t.op.path = <<>>
    THEN [t EXCEPT !.nodes = Append(@, NewInner(<<key>>, <<left, right>>)),
                   !.root = Len(t.nodes) + 1, !.op = Idle]
    ELSE [t EXCEPT !.op = [do |-> "into parent", key |-> key, at |-> right, path |-> @.path]]

LeafSplit(t) ==
    LET n == t.op.at
        leaf == Node(t, n)
        mid == Len(leaf.keys) \div 2
        right == Rest(leaf.keys, mid)
        new == Len(t.nodes) + 1
        split == [t EXCEPT !.nodes = Append([@ EXCEPT ![n].keys = FirstOf(leaf.keys, mid), ![n].next = new],
                                            NewLeaf(right, leaf.next))]
    IN Promoted(split, right[1], n, new)

ChildRightOfKey(kids, i, child) == InsertAt(kids, i + 1, child)

ParentGiven(t) ==
    LET p == Last(t.op.path)
        parent == Node(t, p)
        i == PlaceFor(parent.keys, t.op.key)
        put == [t EXCEPT !.nodes[p].keys = InsertAt(parent.keys, i, t.op.key),
                         !.nodes[p].kids = ChildRightOfKey(parent.kids, i, t.op.at)]
    IN IF Len(parent.keys) + 1 > MaxKeys(t)
       THEN [put EXCEPT !.op = [do |-> "split inner", key |-> 0, at |-> p, path |-> Front(t.op.path)]]
       ELSE [put EXCEPT !.op = Idle]

InnerSplit(t) ==
    LET n == t.op.at
        node == Node(t, n)
        mid == Len(node.keys) \div 2 + 1
        new == Len(t.nodes) + 1
        split == [t EXCEPT !.nodes = Append([@ EXCEPT ![n].keys = FirstOf(node.keys, mid - 1),
                                                      ![n].kids = FirstOf(node.kids, mid)],
                                            NewInner(Rest(node.keys, mid), Rest(node.kids, mid)))]
    IN Promoted(split, node.keys[mid], n, new)

(* ----------------------- operations and snapshots ---------------------- *)

AtLeaf(t) == Node(t, t.op.at).leaf
Over(t) == t.op.do \in {"idle", "hit", "miss"}

Advance(t) == CASE Doing(t, "search") /\ AtLeaf(t) -> Searched(t)
                [] Doing(t, "insert") /\ AtLeaf(t) -> Placed(t)
                [] Doing(t, "split leaf") -> LeafSplit(t)
                [] Doing(t, "into parent") -> ParentGiven(t)
                [] Doing(t, "split inner") -> InnerSplit(t)
                [] OTHER -> OneLevelDown(t)

RECURSIVE Course(_)
Course(t) == IF Over(t) THEN <<t>> ELSE <<t>> \o Course(Advance(t))

(* The nodes an insertion passes on its way down are not shown.            *)
Recorded(course) == SelectSeq(course, LAMBDA t : Doing(t, "insert") /\ ~AtLeaf(t) => t.op.path = <<>>)

Asked(t, what, key) == [t EXCEPT !.op = [do |-> what, key |-> key, at |-> t.root, path |-> <<>>]]
SearchSteps(t, key) == Course(Asked(t, "search", key))
InsertSteps(t, key) == Recorded(Course(Asked(t, "insert", key)))
Inserted(t, key) == Last(InsertSteps(t, key))
Filled(t, keys) == FoldLeft(Inserted, t, keys)

(* ------------------------------- the page ------------------------------ *)

Init == \E still \in BOOLEAN : page = Player!Opened(Filled(NewTree(FirstOrder), Prefilled), <<>>, still)

HandleOrderChange == \E m \in Orders :
    page' = [page EXCEPT !.engine = NewTree(m), !.steps = <<>>, !.at = 0, !.playing = FALSE]

HandleInsert == \E key \in TypedKeys :
    /\ Given(page.engine, key) < Repeats
    /\ page' = Player!Played(Inserted(page.engine, key), InsertSteps(page.engine, key))

(* A search leaves the tree as it was.                                     *)
HandleSearch == \E key \in TypedKeys : page' = Player!Played(page.engine, SearchSteps(page.engine, key))

DemoStep(run, key) == [tree |-> Inserted(run.tree, key), steps |-> run.steps \o InsertSteps(run.tree, key)]
HandleAutoDemo ==
    LET run == FoldLeft(DemoStep, [tree |-> NewTree(page.engine.order), steps |-> <<>>], DemoInserts)
    IN page' = Player!Played(run.tree, run.steps)

Timer == Player!Tick
ControlBar == Player!Bar
Gesture == \/ page.visible /\ (HandleOrderChange \/ HandleInsert \/ HandleSearch \/ HandleAutoDemo)
           \/ ControlBar \/ Player!Tabs

(* ------------------------------- layout -------------------------------- *)

(* The leaves from left to right as they are drawn.                        *)
RECURSIVE LeavesUnder(_, _)
LeavesUnder(t, n) ==
    IF Node(t, n).leaf THEN <<n>>
    ELSE FlattenSeq([i \in 1..Len(Node(t, n).kids) |-> LeavesUnder(t, Node(t, n).kids[i])])

(* The position in 1024ths of a leaf's: a parent stands halfway between    *)
(* its first and last child.                                               *)
RECURSIVE X(_, _)
X(t, n) == IF Node(t, n).leaf THEN 1024 * CHOOSE i \in 1..Len(LeavesUnder(t, t.root)) : LeavesUnder(t, t.root)[i] = n
           ELSE (X(t, Head(Node(t, n).kids)) + X(t, Last(Node(t, n).kids))) \div 2

(* ------------------------------ properties ----------------------------- *)

RECURSIVE Depths(_, _)
Depths(t, n) == IF Node(t, n).leaf THEN {0}
                ELSE {d + 1 : d \in UNION {Depths(t, c) : c \in ToSet(Node(t, n).kids)}}

RECURSIVE LeafFor(_, _, _)
LeafFor(t, n, k) == IF Node(t, n).leaf THEN n ELSE LeafFor(t, Node(t, n).kids[ChildFor(Node(t, n), k)], k)

Chain(t) == FlattenSeq([i \in 1..Len(LeavesUnder(t, t.root)) |-> Node(t, LeavesUnder(t, t.root)[i]).keys])

(* All leaves are equally deep, no node is over- or underfull, and an      *)
(* internal node has one child more than keys.                             *)
Balanced(t) ==
    /\ Cardinality(Depths(t, t.root)) = 1
    /\ \A n \in 1..Len(t.nodes) :
        LET node == Node(t, n) IN
        /\ Len(node.keys) <= MaxKeys(t) /\ (n # t.root => Len(node.keys) >= MinKeys(t))
        /\ ~node.leaf => Len(node.kids) = Len(node.keys) + 1

(* Read from left to right the leaves hold the given keys in order, and    *)
(* the pointers between leaves follow the same order.                      *)
LeavesInOrder(t) ==
    LET leaves == LeavesUnder(t, t.root) IN
    /\ \A i \in 1..Len(Chain(t)) - 1 : Chain(t)[i] <= Chain(t)[i + 1]
    /\ \A k \in Keys : Count(Chain(t), k) = Given(t, k)
    /\ \A i \in 1..Len(leaves) :
        Node(t, leaves[i]).next = IF i < Len(leaves) THEN leaves[i + 1] ELSE None

(* What was inserted is found, and nothing else.                           *)
SearchFinds(t) ==
    /\ \A k \in Keys : Contains(Node(t, LeafFor(t, t.root, k)).keys, k) <=> Given(t, k) > 0
    /\ Doing(t, "hit") => Given(t, t.op.key) > 0
    /\ Doing(t, "miss") => Given(t, t.op.key) = 0

(* Nodes of one level are drawn in the order of their keys; a node split   *)
(* off and not yet below the root is not drawn.                            *)
Drawn(t, n) == ToSet(LeavesUnder(t, n)) \subseteq ToSet(LeavesUnder(t, t.root))
DrawnInOrder(t) ==
    \A n \in 1..Len(t.nodes) : (Drawn(t, n) /\ ~Node(t, n).leaf) =>
        \A i \in 1..Len(Node(t, n).kids) - 1 : X(t, Node(t, n).kids[i]) < X(t, Node(t, n).kids[i + 1])

TreeIsSound(t) == Balanced(t) /\ LeavesInOrder(t) /\ SearchFinds(t) /\ DrawnInOrder(t)

EngineIsSound == TreeIsSound(page.engine)

(* Every snapshot played is a tree whose nodes are drawn in order, and one *)
(* of a finished operation is sound.                                       *)
ShownIsSound == DrawnInOrder(Player!Shown) /\ (Over(Player!Shown) => TreeIsSound(Player!Shown))
==============================================================================
