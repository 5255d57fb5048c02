---------------------------- MODULE LessonScripts ----------------------------
(***************************************************************************)
(* Three lessons that go through steps: functional dependencies, the       *)
(* normal forms and the concurrency control protocols.                     *)
(***************************************************************************)
EXTENDS Integers, Sequences, FiniteSets, SequencesExt

CONSTANTS A, B, C, D, E   \* the attributes

VARIABLE page
Lesson == INSTANCE StepPlayer

(* -------- functional dependencies --------------------------------------- *)

(* The functional dependency lesson: closures under a fixed set of          *)
(* dependencies, its candidate keys and its canonical cover.                *)

Attributes == {A, B, C, D, E}
Fds == <<[lhs |-> {A}, rhs |-> {B, C}], [lhs |-> {C, D}, rhs |-> {E}],
         [lhs |-> {B}, rhs |-> {D}], [lhs |-> {E}, rhs |-> {A}]>>
CandidateKeys == <<{A}, {B, C}, {C, D}, {E}>>
RawFds == {[lhs |-> {A}, rhs |-> {B}], [lhs |-> {A}, rhs |-> {C}], [lhs |-> {C, D}, rhs |-> {E}],
           [lhs |-> {B}, rhs |-> {D}], [lhs |-> {E}, rhs |-> {A}]}
Rounds == 6   \* the lesson's loop gives up after as many

(* ------------------------------- closures ------------------------------ *)

Applies(fd, closure) == fd.lhs \subseteq closure /\ ~(fd.rhs \subseteq closure)

(* One pass over the dependencies, a step for each that adds something.    *)
Pass(steps) ==
    LET try(s, i) == IF Applies(Fds[i], Last(s).closure)
                     THEN Append(s, [closure |-> Last(s).closure \cup Fds[i].rhs, fd |-> i]) ELSE s
    IN FoldLeft(try, steps, [i \in DOMAIN Fds |-> i])

(* Passes until one adds nothing; so does the engine's own closure.        *)
Passes(steps) == FoldLeft(LAMBDA s, n : Pass(s), steps, [n \in 1..Rounds |-> n])

ComputeAttributeClosure(attrs) == Last(Passes(<<[closure |-> attrs, fd |-> 0]>>)).closure

(* ---------------------------- generateSteps ---------------------------- *)

ClosureSteps(attrs) ==
    LET steps == Passes(<<[closure |-> attrs, fd |-> 0]>>)
    IN Append(steps, [closure |-> Last(steps).closure, fd |-> 0])

KeySteps == <<[closure |-> {}, fd |-> 0]>> \o
            [i \in DOMAIN CandidateKeys |-> [closure |-> ComputeAttributeClosure(CandidateKeys[i]), fd |-> 0]]

(* Decomposed, no attribute extraneous, no dependency redundant.           *)
CoverSteps == [i \in 1..3 |-> [closure |-> {}, fd |-> 0]]

GenerateSteps(c) == CASE c.mode = "closure" -> ClosureSteps(c.target)
                      [] c.mode = "candidate-keys" -> KeySteps
                      [] OTHER -> CoverSteps

Shows(c) == page' = Lesson!Chosen(c, GenerateSteps(c))

SetMode == \E mode \in {"closure", "candidate-keys", "canonical-cover"} :
               Shows([page.choice EXCEPT !.mode = mode])

(* Letters that are no attribute are dropped; nothing left means A.        *)
SetTargetAttribute ==
    /\ page.choice.mode = "closure"
    /\ \E attrs \in SUBSET Attributes :
          /\ Cardinality(attrs) <= 4
          /\ Shows([page.choice EXCEPT !.target = IF attrs = {} THEN {A} ELSE attrs])

(* ------------------------------- the page ------------------------------ *)

DependencyOpens == LET c == [mode |-> "closure", target |-> {A}]
        IN page = Lesson!LessonOpened(c, GenerateSteps(c), {"onNext", "onPrev", "onReset"})

DependencyBar == Lesson!StepBar
DependencyGesture == SetMode \/ SetTargetAttribute \/ DependencyBar

(* ------------------------------ properties ----------------------------- *)

(* What follows by any set of the dependencies: the least closed superset. *)
Closed(attrs, fds) == \A fd \in fds : fd.lhs \subseteq attrs => fd.rhs \subseteq attrs
Follows(attrs, fds) ==
    {a \in Attributes : \A S \in SUBSET Attributes : attrs \subseteq S /\ Closed(S, fds) => a \in S}
AttributesKey(attrs) == Follows(attrs, ToSet(Fds)) = Attributes
CandidateKey(attrs) == AttributesKey(attrs) /\ \A a \in attrs : ~AttributesKey(attrs \ {a})

(* The lesson's closure is the least fixed point, its keys are all the     *)
(* candidate keys, and its cover says what the dependencies say, with no   *)
(* dependency and no attribute to spare.                                   *)
DependenciesAreSound ==
    /\ page.choice.mode = "closure" =>
          /\ Last(page.steps).closure = Follows(page.choice.target, ToSet(Fds))
          /\ \A i \in 2..Len(page.steps) : page.steps[i - 1].closure \subseteq page.steps[i].closure
    /\ page.choice.mode = "candidate-keys" =>
          /\ ToSet(CandidateKeys) = {K \in SUBSET Attributes : CandidateKey(K)}
          /\ \A i \in 2..Len(page.steps) : page.steps[i].closure = Attributes
    /\ page.choice.mode = "canonical-cover" =>
          /\ \A S \in SUBSET Attributes : Follows(S, RawFds) = Follows(S, ToSet(Fds))
          /\ \A fd \in RawFds : /\ ~(fd.rhs \subseteq Follows(fd.lhs, RawFds \ {fd}))
                                /\ \A a \in fd.lhs : ~(fd.rhs \subseteq Follows(fd.lhs \ {a}, RawFds))

(* -------- written scripts ----------------------------------------------- *)

(* The two lessons whose steps are written down: the normal forms and the   *)
(* concurrency control protocols.  What a script claims of a schema or of   *)
(* a schedule is checked against the definition it teaches, but for three   *)
(* claims that are wrong and left out (see ScenarioIsRight and              *)
(* ConcurrencyIsSound).                                                     *)

Passed == {"onNext", "onPrev", "onReset"}

(* ------------------------- normalization scenarios --------------------- *)

Forms == <<"UNNORMALIZED", "1NF", "2NF", "3NF", "BCNF">>
Fd(l, r) == [lhs |-> l, rhs |-> r]

(* `atomic': no attribute holds a list.  Attributes are numbered as they   *)
(* stand in the relation.                                                  *)
Scenarios ==
    ("1nf-violation" :> [size |-> 3, atomic |-> FALSE, key |-> {}, fds |-> {}, form |-> "UNNORMALIZED",
                         into |-> {{1, 2, 3}}]) @@
    ("2nf-violation" :> [size |-> 5, atomic |-> TRUE, key |-> {1, 2},
                         fds |-> {Fd({1, 2}, {4}), Fd({1}, {3}), Fd({2}, {5})}, form |-> "1NF",
                         into |-> {{1, 3}, {2, 5}, {1, 2, 4}}]) @@
    ("3nf-violation" :> [size |-> 5, atomic |-> TRUE, key |-> {1},
                         fds |-> {Fd({1}, {2, 3}), Fd({3}, {4, 5})}, form |-> "2NF",
                         into |-> {{1, 2, 3}, {3, 4, 5}}]) @@
    ("bcnf-violation" :> [size |-> 3, atomic |-> TRUE, key |-> {1, 2},
                          fds |-> {Fd({1, 2}, {3}), Fd({3}, {2})}, form |-> "3NF",
                          into |-> {{3, 2}, {1, 3}}])

ScenarioSteps(k) == <<[stage |-> "ANALYSIS", form |-> Scenarios[k].form],
                      [stage |-> "VIOLATION_DETECTED", form |-> Scenarios[k].form],
                      [stage |-> "DECOMPOSED", form |-> "BCNF"]>>

(* What the page's badge says of the decomposition.                        *)
Claims(step) == IF step.stage = "DECOMPOSED" THEN {"lossless", "preserved"} ELSE {}

HandleScenarioChange == \E k \in DOMAIN Scenarios : page' = Lesson!Chosen(k, ScenarioSteps(k))
NormalizationBar == Lesson!StepBar

(* ------------------------- concurrency protocols ----------------------- *)

(* A step of a protocol: who asks what of which item, with what outcome,   *)
(* and what is then held, stamped or waited for.                           *)
LockStep(t, item, mode, status, heldA, heldB) ==
    [kind |-> "lock", t |-> t, item |-> item, mode |-> mode, status |-> status, held |-> [a |-> heldA, b |-> heldB]]
StampStep(t, ts, op, r, w) == [kind |-> "stamp", t |-> t, ts |-> ts, op |-> op, r |-> r, w |-> w]
WaitStep(edges, cycle) == [kind |-> "wait", edges |-> edges, cycle |-> cycle]
S1 == <<"T1", "S">>
X1 == <<"T1", "X">>
X2 == <<"T2", "X">>

StrictTwoPhase ==
    <<LockStep("T1", "a", "S", "granted", {S1}, {}), LockStep("T2", "b", "X", "granted", {S1}, {X2}),
      LockStep("T1", "b", "X", "waiting", {S1}, {X2}), LockStep("T2", "b", "none", "committed", {S1}, {X1}),
      LockStep("T1", "a", "none", "committed", {}, {})>>

TimestampOrdering == <<StampStep("none", 0, "init", 0, 0), StampStep("T1", 100, "read", 100, 0),
                       StampStep("T2", 200, "write", 100, 200)>>

WaitForGraph == <<WaitStep({}, FALSE), WaitStep({<<"T1", "T2">>}, FALSE),
                  WaitStep({<<"T1", "T2">>, <<"T2", "T1">>}, TRUE)>>

Protocols == {"strict-2pl", "timestamp-ordering", "thomas-write-rule", "wait-for-graph"}

(* Thomas' write rule has no script of its own and shows the last one.     *)
ProtocolSteps(p) == CASE p = "strict-2pl" -> StrictTwoPhase
                      [] p = "timestamp-ordering" -> TimestampOrdering
                      [] OTHER -> WaitForGraph

HandleProtocolChange == \E p \in Protocols : page' = Lesson!Chosen(p, ProtocolSteps(p))
ConcurrencyBar == Lesson!StepBar

(* ------------------------------- the pages ----------------------------- *)

NormalizationOpens == page = Lesson!LessonOpened("3nf-violation", ScenarioSteps("3nf-violation"), Passed)
ConcurrencyOpens == page = Lesson!LessonOpened("strict-2pl", ProtocolSteps("strict-2pl"), Passed)

NormalizationGesture == HandleScenarioChange \/ NormalizationBar
ConcurrencyGesture == HandleProtocolChange \/ ConcurrencyBar

(* ------------------------------ properties ----------------------------- *)

Implied(s, attrs) == {x \in 1..s.size : \A T \in SUBSET (1..s.size) :
                         (attrs \subseteq T /\ \A fd \in s.fds : fd.lhs \subseteq T => fd.rhs \subseteq T) => x \in T}
SuperKey(s, attrs) == Implied(s, attrs) = 1..s.size
Keys(s) == {K \in SUBSET (1..s.size) : SuperKey(s, K) /\ \A x \in K : ~SuperKey(s, K \ {x})}
Prime(s) == UNION Keys(s)
Proper(s) == {<<X, y>> \in (SUBSET (1..s.size)) \X (1..s.size) : y \in Implied(s, X) \ X}

Is2NF(s) == \A p \in Proper(s) : p[2] \notin Prime(s) => \A K \in Keys(s) : ~(p[1] \subseteq K /\ p[1] # K)
Is3NF(s) == \A p \in Proper(s) : SuperKey(s, p[1]) \/ p[2] \in Prime(s)
IsBCNF(s) == \A p \in Proper(s) : SuperKey(s, p[1])
HighestForm(s) == IF ~s.atomic THEN 1 ELSE IF ~Is2NF(s) THEN 2 ELSE IF ~Is3NF(s) THEN 3
                  ELSE IF ~IsBCNF(s) THEN 4 ELSE 5

(* In a part of a decomposition every determinant is a key of the part.    *)
PartIsBCNF(s, part) == \A X \in SUBSET part :
                          (Implied(s, X) \cap part) \ X # {} => part \subseteq Implied(s, X)

(* The parts can be joined one by one without a tuple too many.            *)
Lossless(s) == \E order \in SetToSeqs(s.into) : \A i \in 2..Len(order) :
    LET joined == UNION {order[j] : j \in 1..(i - 1)}
        common == Implied(s, joined \cap order[i])
    IN order[i] \subseteq common \/ joined \subseteq common

(* Whoever checks the dependencies inside the parts has checked them all.  *)
Preserving(s) ==
    LET inside == UNION {{Fd(X, Implied(s, X) \cap part) : X \in SUBSET part} : part \in s.into}
    IN \A fd \in s.fds : fd.rhs \subseteq Implied([s EXCEPT !.fds = inside], fd.lhs)

(* A scenario is in the form it is said to be in; its decomposition keeps  *)
(* every attribute, is in Boyce-Codd normal form and is what the badge     *)
(* says.  Not covered, for they are wrong: that the Boyce-Codd scenario's  *)
(* decomposition preserves its dependencies (it loses StudentID, CourseID  *)
(* -> AdvisorID; NormalizationVisualizer.jsx:70), and that what is left of *)
(* the scenario with lists is in Boyce-Codd normal form                    *)
(* (normalizationEngine.js:94), for it has no key and no dependencies.     *)
ScenarioIsRight(k, steps) == LET s == Scenarios[k] IN
    /\ s.atomic => s.key \in Keys(s)
    /\ UNION s.into = 1..s.size
    /\ \A i \in DOMAIN steps : LET step == steps[i] IN
          /\ step.stage # "DECOMPOSED" => step.form = Forms[HighestForm(s)]
          /\ step.form = "BCNF" /\ s.atomic => \A part \in s.into : PartIsBCNF(s, part)
          /\ "lossless" \in Claims(step) => Lossless(s)
          /\ "preserved" \in Claims(step) /\ k # "bcnf-violation" => Preserving(s)

(* No conflicting locks are held together, who waits waits for a lock that *)
(* is held, and a transaction that committed holds nothing.                *)
Conflict(l, m) == l[1] # m[1] /\ "X" \in {l[2], m[2]}
LocksAreRight(steps) ==
    \A i \in DOMAIN steps : LET s == steps[i] IN
        /\ \A x \in {"a", "b"} : \A l, m \in s.held[x] : ~Conflict(l, m)
        /\ s.status = "granted" => <<s.t, s.mode>> \in s.held[s.item]
        /\ s.status = "waiting" => \E l \in s.held[s.item] : Conflict(<<s.t, s.mode>>, l)
        /\ s.status = "committed" => \A k \in i..Len(steps) : \A x \in {"a", "b"} :
                                        \A l \in steps[k].held[x] : l[1] # s.t

(* The stamps of the item are those of the youngest reader and writer that *)
(* were let through in time.                                               *)
StampsAreRight(steps) ==
    \A i \in 2..Len(steps) : LET was == steps[i - 1] s == steps[i] IN
        IF s.op = "read" THEN s.ts >= was.w /\ s.r = s.ts /\ s.w = was.w
                         ELSE s.ts >= was.r /\ s.ts >= was.w /\ s.w = s.ts /\ s.r = was.r

RECURSIVE ReachableFrom(_, _)
ReachableFrom(edges, ts) == LET more == ts \cup {e[2] : e \in {e \in edges : e[1] \in ts}}
                            IN IF more = ts THEN ts ELSE ReachableFrom(edges, more)
Cyclic(edges) == \E e \in edges : e[1] \in ReachableFrom(edges, {e[2]})

NormalizationIsSound == ScenarioIsRight(page.choice, page.steps)

(* Each protocol's script is judged by its own rule.  Thomas' write rule   *)
(* is not: it has no script, and what it shows is another protocol's       *)
(* (concurrencyControlEngine.js:120).                                      *)
ConcurrencyIsSound ==
    CASE page.choice = "strict-2pl" -> LocksAreRight(page.steps)
      [] page.choice = "timestamp-ordering" -> StampsAreRight(page.steps)
      [] page.choice = "wait-for-graph" ->
            \A i \in DOMAIN page.steps : page.steps[i].cycle = Cyclic(page.steps[i].edges)
      [] page.choice = "thomas-write-rule" -> TRUE
==============================================================================
