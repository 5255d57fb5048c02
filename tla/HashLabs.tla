------------------------------ MODULE HashLabs -------------------------------
(***************************************************************************)
(* Two animated pages about hashing: the bins of a hash map, and a ring of *)
(* servers.                                                                *)
(***************************************************************************)
EXTENDS Integers, Sequences, FiniteSets, SequencesExt

CONSTANTS MapKeys, SpreadHash, MapSeeds, DemoKeys,
          InitialCapacity, TreeifyBin, MinTreeCapacity, UntreeifyBin

CONSTANTS ServerNames,   \* all names the page may give, in alphabetic order
          HashToAngle,   \* the angles of a server's points, for each number of points
          KeyAngles, VNodeCounts

VARIABLE page
Player == INSTANCE StepPlayer

(* -------- the hash map -------------------------------------------------- *)

(* The hash map page: bins in insertion order, a resize that doubles the    *)
(* table, and bins flagged as trees.  A key is abstract; SpreadHash says    *)
(* what `hash' makes of it, after its shift and in its low bits.            *)

NewMap == [capacity |-> InitialCapacity, bins |-> [b \in 0..InitialCapacity - 1 |-> <<>>],
           size |-> 0, trees |-> {}, given |-> {}]

(* Three quarters, rounded down.                                           *)
Threshold(m) == (3 * m.capacity) \div 4
BucketIndex(m, k) == SpreadHash[k] % m.capacity

(* ------------------------------ the engine ----------------------------- *)

Nodes(m) == FlattenSeq([b \in 1..m.capacity |-> m.bins[b - 1]])

(* A split tree bin stays one, on either side, while it is long enough.    *)
StillTrees(m, cap, bins) ==
    {b \in UNION {{b, b + m.capacity} : b \in m.trees} : Len(bins[b]) > UntreeifyBin}

Resized(m) ==
    LET cap == 2 * m.capacity
        bins == [b \in 0..cap - 1 |-> SelectSeq(Nodes(m), LAMBDA k : SpreadHash[k] % cap = b)]
    IN [m EXCEPT !.capacity = cap, !.bins = bins, !.trees = StillTrees(m, cap, bins),
                 !.size = Len(Nodes(m))]

Lengthened(m, k) == [b \in DOMAIN m.bins |-> IF b = BucketIndex(m, k) THEN Append(m.bins[b], k) ELSE m.bins[b]]

Inserted(m, k) == [m EXCEPT !.bins = Lengthened(m, k), !.size = @ + 1,
                            !.given = @ \cup {k}]

Overlong(m, b) == Len(m.bins[b]) >= TreeifyBin /\ b \notin m.trees

(* A long bin of a small table is a reason to resize, of a large one to    *)
(* make the bin a tree.                                                    *)
Treeified(m, b) ==
    IF ~Overlong(m, b) THEN <<>>
    ELSE IF m.capacity < MinTreeCapacity THEN <<m, Resized(m)>>
    ELSE <<[m EXCEPT !.trees = @ \cup {b}]>>

Grown(m) == IF m.size > Threshold(m) THEN <<m, Resized(m)>> ELSE <<>>

Put(m, k) ==
    IF Contains(m.bins[BucketIndex(m, k)], k) THEN <<m, m>>
    ELSE LET put == <<m, Inserted(m, k)>>
             binned == put \o Treeified(Last(put), BucketIndex(m, k))
         IN binned \o Grown(Last(binned))

(* Several puts in a row, all their snapshots one after the other.         *)
PutAll(m, keys) == FoldLeft(LAMBDA steps, k : steps \o Put(Last(steps), k), Put(m, Head(keys)), Tail(keys))

(* ------------------------------- the page ------------------------------ *)

MapPlays(steps) == page' = Player!Played(Last(steps), steps)

MapInit == \E still \in BOOLEAN :
            LET steps == PutAll(NewMap, MapSeeds) IN page = Player!Opened(Last(steps), steps, still)

HandlePut == \E k \in MapKeys : MapPlays(Put(page.engine, k))
HandleCollisionDemo == MapPlays(PutAll(page.engine, DemoKeys))

MapTimer == Player!Tick
MapControlBar == Player!Bar

MapGesture == \/ page.visible /\ (HandlePut \/ HandleCollisionDemo)
              \/ MapControlBar \/ Player!Tabs

(* ------------------------------ properties ----------------------------- *)

(* Every key given is in the bin of its hash and nowhere else, the size    *)
(* counts them, the table is not overfull, and only a long bin of a large  *)
(* table is a tree.                                                        *)
BinsAreSound(m) ==
    /\ \A b \in 0..m.capacity - 1 : \A i \in DOMAIN m.bins[b] : BucketIndex(m, m.bins[b][i]) = b
    /\ ToSet(Nodes(m)) = m.given
    /\ Len(Nodes(m)) = m.size /\ Cardinality(m.given) = m.size
    /\ \A b \in m.trees : m.capacity >= MinTreeCapacity /\ Len(m.bins[b]) > UntreeifyBin

MapEngineIsSound == BinsAreSound(page.engine) /\ page.engine.size <= Threshold(page.engine)
MapShownIsSound == BinsAreSound(Player!Shown)

(* -------- the ring ------------------------------------------------------ *)

(* The consistent hashing page: servers at their angles, once or several    *)
(* times each, and keys that belong to the next one clockwise.              *)

RingNobody == "nobody"

(* ------------------------------ the engine ----------------------------- *)

(* The points of the ring in the order of their sort: by angle, and at one *)
(* angle as the servers stand in the list.                                 *)
RingNodes(e) == {<<HashToAngle[e.servers[i]][e.count][v], i, v>> :
                    i \in DOMAIN e.servers, v \in 1..e.count}
Precedes(p, q) == \/ p[1] < q[1]
                  \/ p[1] = q[1] /\ p[2] < q[2]
                  \/ p[1] = q[1] /\ p[2] = q[2] /\ p[3] <= q[3]
Least(S) == CHOOSE p \in S : \A q \in S : Precedes(p, q)

(* Slip: the place of a point on the ring is used as that of its server in *)
(* the list.                                                               *)
ServerByPosition(e, k) ==
    LET behind == {p \in RingNodes(e) : p[1] >= k}
        point == Least(IF behind = {} THEN RingNodes(e) ELSE behind)
        place == Cardinality({q \in RingNodes(e) : Precedes(q, point)})
    IN IF RingNodes(e) = {} THEN RingNobody ELSE e.servers[1 + ((place - 1) % Len(e.servers))]

FindServerForKey(e, k) ==
    LET behind == {p \in RingNodes(e) : p[1] >= k}
    IN IF RingNodes(e) = {} THEN RingNobody
       ELSE e.servers[Least(IF behind = {} THEN RingNodes(e) ELSE behind)[2]]

RecomputeRing(e) == [e EXCEPT !.mapped = [k \in KeyAngles |-> FindServerForKey(e, k)]]

NewRing == RecomputeRing([servers |-> SubSeq(ServerNames, 1, 3), count |-> 1,
                          mapped |-> [k \in KeyAngles |-> RingNobody]])

AddServer(e, s) == RecomputeRing([e EXCEPT !.servers = Append(@, s)])

(* All servers of that name go.                                            *)
RemoveServer(e, s) == RecomputeRing([e EXCEPT !.servers = SelectSeq(@, LAMBDA t : t # s)])
SetVirtualNodes(e, n) == RecomputeRing([e EXCEPT !.count = n])

(* ------------------------------- the page ------------------------------ *)

RingPlays(e) == page' = Player!Played(e, <<e>>)

RingInit == \E still \in BOOLEAN : page = Player!Opened(NewRing, <<NewRing>>, still)

(* The letter is the number of servers, so a name may come twice.          *)
HandleAddServer == /\ Len(page.engine.servers) < Len(ServerNames)
                   /\ RingPlays(AddServer(page.engine, ServerNames[Len(page.engine.servers) + 1]))

(* A server is removed by the name it is shown under; the last one is not. *)
RemoveOffered == IF Len(Player!Shown.servers) > 1 THEN ToSet(Player!Shown.servers) ELSE {}
HandleRemoveServer ==
    \E s \in RemoveOffered :
        IF Len(page.engine.servers) <= 1 THEN page' = Player!Played(page.engine, <<>>)
        ELSE RingPlays(RemoveServer(page.engine, s))

HandleVNodeChange == \E n \in VNodeCounts : RingPlays(SetVirtualNodes(page.engine, n))

RingTimer == Player!Tick
RingControlBar == Player!Bar

RingGesture == \/ page.visible /\ (HandleAddServer \/ HandleRemoveServer \/ HandleVNodeChange)
               \/ RingControlBar \/ Player!Tabs

(* ------------------------------ properties ----------------------------- *)

(* How far a server's nearest point is, clockwise from a key.              *)
Clockwise(e, k, s) ==
    LET away == {(p[1] - k) % 360 : p \in {p \in RingNodes(e) : e.servers[p[2]] = s}}
    IN CHOOSE d \in away : \A c \in away : d <= c

(* A key belongs to a server of the ring, to none that is farther than     *)
(* another; only an empty ring leaves it to nobody.                        *)
KeysAreNearest(e) ==
    \A k \in KeyAngles :
        IF e.servers = <<>> THEN e.mapped[k] = RingNobody
        ELSE /\ e.mapped[k] \in ToSet(e.servers)
             /\ \A s \in ToSet(e.servers) : Clockwise(e, k, e.mapped[k]) <= Clockwise(e, k, s)

RingEngineIsSound == KeysAreNearest(page.engine)
RingShownIsSound == KeysAreNearest(Player!Shown)

(* A server that joins takes keys for itself only, one that leaves gives   *)
(* up its own only; nothing else moves.                                    *)
MovesItsOwn(before, after) ==
    before.count = after.count =>
        \A k \in KeyAngles : before.mapped[k] # after.mapped[k] =>
            \/ before.mapped[k] \notin ToSet(after.servers)
            \/ /\ Len(after.servers) > Len(before.servers)
               /\ after.mapped[k] = Last(after.servers)
==============================================================================
