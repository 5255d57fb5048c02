---------------------------- MODULE LearningProofs ----------------------------
(***************************************************************************)
(* Proofs about LearningSite, for any tabs, questions, pages, queries and  *)
(* bounds: what a reader sees is what is kept or what was fetched, whoever *)
(* is told to wait has something to wait for, a change loses nothing of    *)
(* what its tab has read but what it is about, nor does its write unless   *)
(* another tab's change has crossed it, and a deck's reader stays in place. *)
(*                                                                         *)
(* The argument.  A tab with no event to come either keeps a value of its  *)
(* own or shows the stored one, for a write tells every other tab of what  *)
(* it changed.  A page that fetches may be anything while the effect of    *)
(* its last render is due; once that has run, what is under way is for the *)
(* scope or the query on display, because the effect drops what it finds   *)
(* under way.  A deck grows by the server's next page at the very offset   *)
(* it has reached, which is why it holds each of the first questions once. *)
(*                                                                         *)
(* What a change may lose is a matter of the value it read, so it is the   *)
(* operators that must be right, on every value a store, a tab or a backup *)
(* can hold: an import puts an entry where there is none, completes one or *)
(* sets the text aside under a key that is new, and what was absorbed once *)
(* stays absorbed whatever is imported after it; attempts that are sorted  *)
(* out twice lose no more than once.  That every such value is one is the  *)
(* invariant; and that a value about to be written keeps what the tab could *)
(* read at that moment, or an event has yet to tell the tab otherwise.     *)
(***************************************************************************)
EXTENDS LearningSite, SumLemmas, FiniteSetTheorems, TLAPS

-----------------------------------------------------------------------------
(* The tabs and the stores.                                                *)

\* The stores; the fields of a tab, and of the page that has the tabs.
Stores == {"learning", "progress"}
TabFields == {"memory", "durable", "shown", "writing", "merging", "events"}
PageFields == {"disk", "tabs", "backup", "clock", "changes", "failures"}

\* A tab's fields, as far as what it shows depends on them.
TabOf(tab) ==
  /\ DOMAIN tab = TabFields
  /\ DOMAIN tab.memory = Stores /\ DOMAIN tab.shown = Stores
  /\ tab.events \in [Stores -> Nat]
  /\ tab.writing # None => tab.writing.store \in Stores

\* A tab shows the value it keeps to itself; or what is stored, once every event reached it.
ShowsItsValue(tab, disk) ==
  /\ \A s \in Stores : tab.memory[s] # <<>> \/ tab.events[s] = 0 => tab.shown[s] = Learning!Held(tab, disk, s)
  /\ tab.durable => tab.memory["learning"] = <<>>

\* The inductive invariant of the tabs.
TabsInv ==
  /\ DOMAIN page = PageFields
  /\ DOMAIN page.disk = Stores
  /\ \A t \in DOMAIN page.tabs : TabOf(page.tabs[t]) /\ ShowsItsValue(page.tabs[t], page.disk)

\* A tab that opens shows what is stored.
LEMMA FreshTab ==
  ASSUME NEW disk, DOMAIN disk = Stores, NEW probe \in BOOLEAN
  PROVE  TabOf(Learning!Fresh(disk, probe)) /\ ShowsItsValue(Learning!Fresh(disk, probe), disk)
<1> DEFINE tab == Learning!Fresh(disk, probe)
<1>1. /\ tab.memory = [s \in Stores |-> <<>>] /\ tab.shown = disk /\ tab.durable = probe
      /\ tab.writing = None /\ tab.events = [s \in Stores |-> 0]
      /\ DOMAIN tab = TabFields
  BY DEF Learning!Fresh, Stores, TabFields, Learning!Stores
<1> HIDE DEF tab
<1>2. TabOf(tab)
  BY <1>1 DEF TabOf, Stores
<1>3. \A s \in Stores : Learning!Held(tab, disk, s) = disk[s]
  BY <1>1 DEF Learning!Held
<1>4. ShowsItsValue(tab, disk)
  BY <1>1, <1>3 DEF ShowsItsValue, Stores
<1> QED BY <1>2, <1>4 DEF tab

\* The tabs open on what the reader left.
LEMMA TabsStart == Learning!Init => TabsInv
<1> SUFFICES ASSUME Learning!Init PROVE TabsInv
  OBVIOUS
<1> DEFINE Disk(stored) == [learning |-> stored, progress |-> Learning!NoProgress]
           Page(open, stored, failures, backup) ==
              [disk |-> Disk(stored), tabs |-> [t \in open |-> Learning!Fresh(Disk(stored), failures = 0)],
               backup |-> backup, clock |-> 0, changes |-> 0, failures |-> failures]
<1>0. PICK open \in SUBSET Tabs \ {{}} :
        \E stored \in {Learning!Empty} \cup {Learning!Answered(q, "") : q \in Questions} :
           \E failures \in 0..MaxFailures, backup \in Learning!Brought : page = Page(open, stored, failures, backup)
  BY DEF Learning!Init
<1>1. PICK stored, failures, backup : page = Page(open, stored, failures, backup)
  <2> HIDE DEF Page
  <2> QED BY <1>0
<1> DEFINE disk == Disk(stored)
           probe == failures = 0
<1>2. DOMAIN disk = Stores /\ probe \in BOOLEAN
  BY DEF Stores
<1>3. /\ page.disk = disk /\ DOMAIN page = PageFields
      /\ page.tabs = [t \in open |-> Learning!Fresh(disk, probe)]
  BY <1>1 DEF PageFields
<1> HIDE DEF disk, probe
<1>4. TabOf(Learning!Fresh(disk, probe)) /\ ShowsItsValue(Learning!Fresh(disk, probe), disk)
  BY <1>2, FreshTab
<1>5. \A t \in DOMAIN page.tabs : page.tabs[t] = Learning!Fresh(disk, probe)
  BY <1>3
<1> QED BY <1>2, <1>3, <1>4, <1>5 DEF TabsInv

\* A step that only makes a next value, or does not touch the tabs.
LEMMA TabsFrame ==
  ASSUME TabsInv,
         DOMAIN page' = DOMAIN page, page'.disk = page.disk, DOMAIN page'.tabs = DOMAIN page.tabs,
         \A u \in DOMAIN page.tabs :
            /\ DOMAIN page'.tabs[u] = DOMAIN page.tabs[u]
            /\ page'.tabs[u].memory = page.tabs[u].memory
            /\ page'.tabs[u].durable = page.tabs[u].durable
            /\ page'.tabs[u].shown = page.tabs[u].shown
            /\ page'.tabs[u].events = page.tabs[u].events
            /\ page'.tabs[u].writing # None => page'.tabs[u].writing = page.tabs[u].writing
                                               \/ page'.tabs[u].writing.store \in Stores
  PROVE  TabsInv'
<1>1. ASSUME NEW u \in DOMAIN page.tabs PROVE TabOf(page'.tabs[u])
  BY <1>1 DEF TabsInv, TabOf
<1>2. ASSUME NEW u \in DOMAIN page.tabs PROVE ShowsItsValue(page'.tabs[u], page.disk)
  BY <1>2 DEF TabsInv, ShowsItsValue, Learning!Held
<1> QED BY <1>1, <1>2 DEF TabsInv

\* Making the next value of a store changes nothing on display.
LEMMA ComputesTabs ==
  ASSUME TabsInv, NEW t \in DOMAIN page.tabs, NEW s \in Stores, NEW kind, NEW value,
         Learning!Computes(t, s, kind, value)
  PROVE  TabsInv'
<1> DEFINE w == [store |-> s, kind |-> kind, next |-> Learning!Validated(s, value)]
           m == IF kind = "import" /\ s = "progress" THEN page.backup ELSE None
           n == IF Learning!Idle(t) THEN page.changes + 1 ELSE page.changes
<1>1. page' = [page EXCEPT !.tabs[t].writing = w, !.tabs[t].merging = m, !.changes = n]
  BY DEF Learning!Computes
<1>2. w.store = s
  OBVIOUS
<1> HIDE DEF w, m, n
<1>3. DOMAIN page = PageFields /\ \A u \in DOMAIN page.tabs : DOMAIN page.tabs[u] = TabFields
  BY DEF TabsInv, TabOf
<1>4. /\ DOMAIN page' = DOMAIN page /\ page'.disk = page.disk
      /\ page'.tabs = [page.tabs EXCEPT ![t] = [page.tabs[t] EXCEPT !.writing = w, !.merging = m]]
  BY <1>1, <1>3 DEF PageFields
<1>5. DOMAIN page'.tabs = DOMAIN page.tabs
  BY <1>4
<1>6. \A u \in DOMAIN page.tabs : u # t => page'.tabs[u] = page.tabs[u]
  BY <1>4
<1>7. page'.tabs[t] = [page.tabs[t] EXCEPT !.writing = w, !.merging = m]
  BY <1>4
<1>8. /\ DOMAIN page'.tabs[t] = DOMAIN page.tabs[t]
      /\ page'.tabs[t].memory = page.tabs[t].memory
      /\ page'.tabs[t].durable = page.tabs[t].durable
      /\ page'.tabs[t].shown = page.tabs[t].shown
      /\ page'.tabs[t].events = page.tabs[t].events
      /\ page'.tabs[t].writing = w
  BY <1>3, <1>7 DEF TabFields
<1> QED BY <1>2, <1>4, <1>5, <1>6, <1>8, TabsFrame

\* The same for a change that a reader asks for,
LEMMA ChangesTabs ==
  ASSUME TabsInv, NEW t \in DOMAIN page.tabs, NEW s \in Stores, NEW kind, NEW value,
         Learning!Changes(t, s, kind, value)
  PROVE  TabsInv'
BY ComputesTabs DEF Learning!Changes

\* of the learning data,
LEMMA LearningChanges ==
  ASSUME TabsInv, NEW t \in DOMAIN page.tabs, NEW kind, NEW value, Learning!Changes(t, "learning", kind, value)
  PROVE  TabsInv'
<1>1. "learning" \in Stores
  BY DEF Stores
<1> QED BY <1>1, ChangesTabs

\* and of the topic's progress.
LEMMA ProgressChanges ==
  ASSUME TabsInv, NEW t \in DOMAIN page.tabs, NEW kind, NEW value, Learning!Changes(t, "progress", kind, value)
  PROVE  TabsInv'
<1>1. "progress" \in Stores
  BY DEF Stores
<1> QED BY <1>1, ChangesTabs

\* Typing, rating, recording and moving a review make a next value.
LEMMA PractisesTabs ==
  ASSUME TabsInv, NEW t \in DOMAIN page.tabs, NEW q, Learning!Practises(t, q)
  PROVE  TabsInv'
<1>1. CASE Learning!Type(t, q)
  BY <1>1, LearningChanges, Zenon DEF Learning!Type, Learning!SavePractice
<1>2. CASE Learning!Assess(t, q)
  BY <1>2, LearningChanges, Zenon DEF Learning!Assess, Learning!SavePractice
<1>3. CASE Learning!RecordPracticeAttempt(t, q)
  BY <1>3, LearningChanges, Zenon DEF Learning!RecordPracticeAttempt
<1>4. CASE Learning!MoveReview(t, q)
  BY <1>4, LearningChanges, Zenon DEF Learning!MoveReview
<1> QED BY <1>1, <1>2, <1>3, <1>4 DEF Learning!Practises

\* So do deleting, adopting, reading, toggling and importing; an export touches no tab.
LEMMA ManagesTabs ==
  ASSUME TabsInv, NEW t \in DOMAIN page.tabs, Learning!Manages(t)
  PROVE  TabsInv'
<1>1. CASE Learning!DeletePractice(t)
  BY <1>1, LearningChanges, Zenon DEF Learning!DeletePractice
<1>2. CASE Learning!AdoptPracticeAlternative(t)
  BY <1>2, LearningChanges, Zenon DEF Learning!AdoptPracticeAlternative
<1>3. CASE Learning!SaveReading(t)
  BY <1>3, LearningChanges, Zenon DEF Learning!SaveReading
<1>4. CASE Learning!Toggle(t)
  BY <1>4, ProgressChanges, Zenon DEF Learning!Toggle
<1>5. CASE Learning!Export(t)
  <2>1. PICK backup : page' = [page EXCEPT !.backup = backup, !.changes = @ + 1]
    BY <1>5, Zenon DEF Learning!Export
  <2> QED BY <2>1, TabsFrame DEF TabsInv, PageFields
<1>6. CASE Learning!Confirm(t)
  BY <1>6, ProgressChanges, Zenon DEF Learning!Confirm
<1> QED BY <1>1, <1>2, <1>3, <1>4, <1>5, <1>6 DEF Learning!Manages

\* A tab that is opened anew shows what is stored.
LEMMA ReopenTabs ==
  ASSUME TabsInv, NEW t \in DOMAIN page.tabs, Learning!Reopen(t)
  PROVE  TabsInv'
<1>0. PICK probe \in BOOLEAN :
        \E failures :
           page' = [page EXCEPT !.tabs[t] = Learning!Fresh(page.disk, probe), !.failures = failures]
  BY Zenon DEF Learning!Reopen
<1>1. PICK failures :
        page' = [page EXCEPT !.tabs[t] = Learning!Fresh(page.disk, probe), !.failures = failures]
  BY <1>0
<1>2. TabOf(Learning!Fresh(page.disk, probe)) /\ ShowsItsValue(Learning!Fresh(page.disk, probe), page.disk)
  BY FreshTab DEF TabsInv
<1> DEFINE new == Learning!Fresh(page.disk, probe)
<1>3. PICK tab : tab = new
  OBVIOUS
<1> HIDE DEF new
<1>4. /\ DOMAIN page' = PageFields /\ page'.disk = page.disk
      /\ page'.tabs = [page.tabs EXCEPT ![t] = tab]
  BY <1>1, <1>3 DEF TabsInv, PageFields, new
<1>5. \A u \in DOMAIN page'.tabs : u \in DOMAIN page.tabs /\ page'.tabs[u] = IF u = t THEN tab ELSE page.tabs[u]
  BY <1>4
<1> QED BY <1>2, <1>3, <1>4, <1>5 DEF TabsInv, new

\* A storage event brings the entry as it is now, whatever wrote it since.
LEMMA StorageTabs ==
  ASSUME TabsInv, NEW t \in DOMAIN page.tabs, Learning!HandleStorage(t)
  PROVE  TabsInv'
<1>1. PICK s \in Stores : /\ page.tabs[t].events[s] > 0
                          /\ page' = [page EXCEPT !.tabs[t] = Learning!Heard(@, s, page.disk)]
  BY DEF Learning!HandleStorage, Learning!Stores, Stores
<1>2. PICK old : old = page.tabs[t]
  OBVIOUS
<1>3. PICK disk : disk = page.disk
  OBVIOUS
<1>4. PICK tab : tab = Learning!Heard(old, s, disk)
  OBVIOUS
<1>5. TabOf(old) /\ ShowsItsValue(old, disk) /\ DOMAIN disk = Stores
  BY <1>2, <1>3 DEF TabsInv
<1>6. /\ DOMAIN tab = TabFields
      /\ tab.memory = [old.memory EXCEPT ![s] = <<>>]
      /\ tab.shown = [old.shown EXCEPT ![s] = disk[s]]
      /\ tab.events = [old.events EXCEPT ![s] = @ - 1]
      /\ tab.writing = old.writing /\ tab.durable = old.durable
  BY <1>4, <1>5 DEF TabOf, TabFields, Learning!Heard
<1>7. TabOf(tab)
  <2>1. tab.events \in [Stores -> Nat]
    BY <1>1, <1>2, <1>5, <1>6 DEF TabOf
  <2> QED BY <1>5, <1>6, <2>1 DEF TabOf
<1>8. ShowsItsValue(tab, disk)
  BY <1>5, <1>6 DEF TabOf, ShowsItsValue, Learning!Held, Stores
<1>9. /\ DOMAIN page' = PageFields /\ page'.disk = disk
      /\ page'.tabs = [page.tabs EXCEPT ![t] = tab]
  BY <1>1, <1>2, <1>3, <1>4 DEF TabsInv, PageFields
<1>10. \A u \in DOMAIN page'.tabs : u \in DOMAIN page.tabs /\ page'.tabs[u] = IF u = t THEN tab ELSE page.tabs[u]
  BY <1>9
<1> QED BY <1>3, <1>5, <1>7, <1>8, <1>9, <1>10 DEF TabsInv

\* The writer shows what it wrote or keeps; the others are told of what changed.
LEMMA WriteTabs ==
  ASSUME TabsInv, NEW t \in DOMAIN page.tabs, Learning!Write(t)
  PROVE  TabsInv'
<1>1. PICK old : old = page.tabs
  OBVIOUS
<1>2. PICK disk : disk = page.disk
  OBVIOUS
<1>3. PICK s : s = old[t].writing.store
  OBVIOUS
<1>4. PICK next : next = old[t].writing.next
  OBVIOUS
<1>5. /\ DOMAIN page = PageFields /\ DOMAIN disk = Stores /\ s \in Stores /\ t \in DOMAIN old
      /\ \A u \in DOMAIN old : TabOf(old[u]) /\ ShowsItsValue(old[u], disk)
  BY <1>1, <1>2, <1>3 DEF TabsInv, TabOf, Learning!Write
<1>6. PICK ok \in BOOLEAN :
        page' = [page EXCEPT
          !.disk[s] = IF ok THEN next ELSE @,
          !.failures = IF ok THEN @ ELSE @ + 1,
          !.tabs = [u \in DOMAIN old |-> IF u = t THEN Learning!Wrote(old[u], s, ok)
                                         ELSE IF ok /\ u # t /\ disk[s] # next THEN Learning!Told(old[u], s) ELSE old[u]]]
  BY <1>1, <1>2, <1>3, <1>4 DEF Learning!Write, Learning!Open
<1>7. PICK new : new = [disk EXCEPT ![s] = IF ok THEN next ELSE @]
  OBVIOUS
<1>8. /\ DOMAIN page' = PageFields /\ page'.disk = new
      /\ page'.tabs = [u \in DOMAIN old |-> IF u = t THEN Learning!Wrote(old[u], s, ok)
                                            ELSE IF ok /\ u # t /\ disk[s] # next THEN Learning!Told(old[u], s) ELSE old[u]]
  BY <1>2, <1>5, <1>6, <1>7 DEF PageFields
<1>9. ASSUME NEW tab, tab = Learning!Wrote(old[t], s, ok)
      PROVE  TabOf(tab) /\ ShowsItsValue(tab, new)
  <2>1. PICK was : was = old[t]
    OBVIOUS
  <2>2. TabOf(was) /\ ShowsItsValue(was, disk)
    BY <1>5, <2>1
  <2>3. /\ DOMAIN tab = TabFields
        /\ tab.memory = [was.memory EXCEPT ![s] = IF ok THEN <<>> ELSE <<next>>]
        /\ tab.shown = [was.shown EXCEPT ![s] = next]
        /\ tab.durable = IF s = "learning" THEN ok ELSE was.durable
        /\ tab.events = was.events
        /\ tab.writing = None
    BY <1>4, <1>9, <2>1, <2>2 DEF TabOf, TabFields, Learning!Wrote
  <2>4. TabOf(tab)
    BY <2>2, <2>3 DEF TabOf
  <2>5. ASSUME NEW r \in Stores, tab.memory[r] # <<>> \/ tab.events[r] = 0
        PROVE  tab.shown[r] = Learning!Held(tab, new, r)
    <3>1. CASE r = s /\ ok
      BY <1>5, <1>7, <2>2, <2>3, <3>1 DEF TabOf, Learning!Held
    <3>2. CASE r = s /\ ~ok
      <4>1. tab.memory[r] = <<next>> /\ tab.shown[r] = next
        BY <1>5, <2>2, <2>3, <3>2 DEF TabOf
      <4>2. <<next>> # <<>> /\ Head(<<next>>) = next
        OBVIOUS
      <4> QED BY <4>1, <4>2 DEF Learning!Held
    <3>3. CASE r # s
      BY <1>5, <1>7, <2>2, <2>3, <2>5, <3>3 DEF TabOf, ShowsItsValue, Learning!Held
    <3> QED BY <3>1, <3>2, <3>3
  <2>6. tab.durable => tab.memory["learning"] = <<>>
    BY <1>5, <2>2, <2>3 DEF TabOf, ShowsItsValue, Stores
  <2> QED BY <2>4, <2>5, <2>6 DEF ShowsItsValue
<1>10. ASSUME NEW u \in DOMAIN old, ok, disk[s] # next, NEW tab, tab = Learning!Told(old[u], s)
       PROVE  TabOf(tab) /\ ShowsItsValue(tab, new)
  <2>1. PICK was : was = old[u]
    OBVIOUS
  <2>2. TabOf(was) /\ ShowsItsValue(was, disk)
    BY <1>5, <2>1
  <2>3. /\ DOMAIN tab = TabFields /\ tab.memory = was.memory /\ tab.shown = was.shown
        /\ tab.durable = was.durable /\ tab.writing = was.writing
        /\ tab.events = [was.events EXCEPT ![s] = @ + 1]
    BY <1>10, <2>1, <2>2 DEF TabOf, TabFields, Learning!Told
  <2>4. tab.events \in [Stores -> Nat] /\ tab.events[s] # 0
    BY <1>5, <2>2, <2>3 DEF TabOf
  <2>5. TabOf(tab)
    BY <2>2, <2>3, <2>4 DEF TabOf
  <2>6. ShowsItsValue(tab, new)
    BY <1>5, <1>7, <2>2, <2>3, <2>4 DEF TabOf, ShowsItsValue, Learning!Held
  <2> QED BY <2>5, <2>6
<1>11. ASSUME NEW u \in DOMAIN old, u # t, ~(ok /\ disk[s] # next)
       PROVE  TabOf(old[u]) /\ ShowsItsValue(old[u], new)
  <2>1. \A r \in Stores : new[r] = disk[r]
    BY <1>5, <1>7, <1>11
  <2> QED BY <1>5, <2>1 DEF ShowsItsValue, Learning!Held
<1>12. DOMAIN new = Stores
  BY <1>5, <1>7
<1>13. ASSUME NEW u \in DOMAIN page'.tabs PROVE TabOf(page'.tabs[u]) /\ ShowsItsValue(page'.tabs[u], new)
  <2>1. u \in DOMAIN old /\ page'.tabs[u] = IF u = t THEN Learning!Wrote(old[u], s, ok)
                                           ELSE IF ok /\ u # t /\ disk[s] # next THEN Learning!Told(old[u], s) ELSE old[u]
    BY <1>8
  <2>2. CASE u = t
    BY <1>9, <2>1, <2>2
  <2>3. CASE u # t /\ ok /\ disk[s] # next
    BY <1>10, <2>1, <2>3
  <2>4. CASE u # t /\ ~(ok /\ disk[s] # next)
    BY <1>11, <2>1, <2>4
  <2> QED BY <2>2, <2>3, <2>4
<1> QED BY <1>8, <1>12, <1>13 DEF TabsInv

\* Every step of the tabs keeps them true.
LEMMA TabsStep ==
  ASSUME TabsInv, Learning!Reader \/ Learning!Tick \/ Learning!Browser
  PROVE  TabsInv'
<1>1. ASSUME NEW t \in Learning!Open, Learning!MergeLearning(t) PROVE TabsInv'
  <2>1. t \in DOMAIN page.tabs /\ "learning" \in Stores
    BY DEF Learning!Open, Stores
  <2> QED BY <1>1, <2>1, ComputesTabs, Zenon DEF Learning!MergeLearning
<1>2. CASE Learning!Tick
  BY <1>2, TabsFrame DEF Learning!Tick, TabsInv, PageFields
<1>3. CASE Learning!Reader
  BY <1>3, ManagesTabs, ReopenTabs, PractisesTabs, Zenon DEF Learning!Reader, Learning!Open
<1>4. CASE Learning!Browser
  BY <1>1, <1>4, WriteTabs, StorageTabs, Zenon DEF Learning!Browser, Learning!Open
<1> QED BY <1>2, <1>3, <1>4

\* What the invariant is for.
LEMMA TabsShow == TabsInv => Learning!ShowsWhatIsKept
BY DEF TabsInv, ShowsItsValue, Learning!ShowsWhatIsKept, Learning!Open, Learning!Read, Learning!Stores, Stores

-----------------------------------------------------------------------------
(* What a review keeps of its attempts.                                    *)

\* The learning state's own name for a cardinality.
LEMMA CountedAlike == ASSUME NEW S PROVE Learning!Cardinality(S) = Cardinality(S)
BY Zenon DEF Learning!Cardinality, Cardinality

\* A set of natural numbers has a least one.
LEMMA LeastNatural ==
  ASSUME NEW S \in SUBSET Nat, S # {}
  PROVE  \E m \in S : \A n \in S : m <= n
<1>1. PICK m \in S : \A n \in S : ~ (<<n, m>> \in OpToRel(<, Nat))
  <2>1. IsWellFoundedOn(OpToRel(<, Nat), S)
    BY NatLessThanWellFounded, IsWellFoundedOnSubset
  <2> HIDE DEF OpToRel
  <2> QED BY <2>1, WFMin
<1>2. \A n \in S : ~ (n < m)
  BY <1>1 DEF OpToRel
<1> QED BY <1>2

\* The attempts of a question, the first of those that are the same, and their order.
Drafts   == Texts \cup {""}
Ratings  == {"", "review", "partial", "confident"}
Attempts == [id : Nat, at : Nat, draft : Drafts, assessment : Ratings, answerViewed : BOOLEAN]
Firsts(s) == {i \in DOMAIN s : \A j \in 1..i - 1 : s[j] # s[i]}
Before(s, i, j) == s[i].at < s[j].at \/ (s[i].at = s[j].at /\ i < j)
InOrder(s, S, o) ==
  /\ o \in [1..Cardinality(S) -> S]
  /\ \A i, j \in DOMAIN o : i < j => Before(s, o[i], o[j])

\* Of some attempts one is the last.
LEMMA LastAttempt ==
  ASSUME NEW s \in Seq(Attempts), NEW S \in SUBSET DOMAIN s, S # {}
  PROVE  \E m \in S : \A i \in S \ {m} : Before(s, i, m)
<1>1. IsFiniteSet(DOMAIN s) /\ \A i \in DOMAIN s : i \in Nat /\ s[i].at \in Nat
  <2>1. DOMAIN s = 1..Len(s) /\ Len(s) \in Nat
    OBVIOUS
  <2>2. \A i \in DOMAIN s : s[i] \in Attempts
    OBVIOUS
  <2>3. \A i \in DOMAIN s : s[i].at \in Nat
    BY <2>2 DEF Attempts
  <2>4. IsFiniteSet(1..Len(s))
    BY <2>1, FS_Interval
  <2> QED BY <2>1, <2>3, <2>4
<1> DEFINE Q == {T \in SUBSET DOMAIN s : T # {} /\ ~ \E m \in T : \A i \in T \ {m} : Before(s, i, m)}
<1>2. SUFFICES ASSUME Q # {} PROVE FALSE
  OBVIOUS
<1>3. PICK T \in Q : \A U \in Q : U \subseteq T => U = T
  <2>1. Q \in SUBSET (SUBSET DOMAIN s)
    OBVIOUS
  <2> HIDE DEF Q
  <2> QED BY <1>1, <1>2, <2>1, SmallestSubset
<1>4. PICK x \in T : TRUE
  OBVIOUS
<1> DEFINE U == T \ {x}
<1>5. U # {}
  OBVIOUS
<1>6. U \notin Q
  <2> HIDE DEF Q
  <2> QED BY <1>3, <1>4
<1>7. PICK m \in U : \A i \in U \ {m} : Before(s, i, m)
  BY <1>5, <1>6
<1>8. x \in DOMAIN s /\ m \in DOMAIN s /\ x # m /\ \A i \in T : i \in DOMAIN s
  BY <1>4, <1>7
<1>9. CASE Before(s, x, m)
  BY <1>7, <1>9
<1> HIDE DEF Q, U
<1>10. CASE ~Before(s, x, m)
  <2>0. /\ s[m].at \in Nat /\ s[x].at \in Nat /\ m \in Nat /\ x \in Nat
    BY <1>1, <1>8
  <2>1. Before(s, m, x)
    BY <1>8, <1>10, <2>0 DEF Before
  <2>2. ASSUME NEW i \in T \ {x} PROVE Before(s, i, x)
    <3>1. CASE i = m
      BY <2>1, <3>1
    <3>2. CASE i # m
      <4>1. Before(s, i, m)
        BY <1>7, <3>2 DEF U
      <4>2. s[i].at \in Nat /\ i \in Nat
        BY <1>1, <1>8
      <4> QED BY <2>0, <2>1, <4>1, <4>2 DEF Before
    <3> QED BY <3>1, <3>2
  <2> QED BY <1>3, <1>4, <2>2 DEF Q
<1> QED BY <1>9, <1>10

\* Attempts can be put in order.
LEMMA AttemptsInOrder ==
  ASSUME NEW s \in Seq(Attempts), NEW S \in SUBSET DOMAIN s
  PROVE  \E o : InOrder(s, S, o)
<1>1. IsFiniteSet(DOMAIN s)
  BY FS_Interval
<1> DEFINE Q == {T \in SUBSET DOMAIN s : ~ \E o : InOrder(s, T, o)}
<1>2. SUFFICES ASSUME Q # {} PROVE FALSE
  OBVIOUS
<1>3. PICK T \in Q : \A U \in Q : U \subseteq T => U = T
  <2>1. Q \in SUBSET (SUBSET DOMAIN s)
    OBVIOUS
  <2> HIDE DEF Q
  <2> QED BY <1>1, <1>2, <2>1, SmallestSubset
<1>4. T \in SUBSET DOMAIN s /\ ~ \E o : InOrder(s, T, o)
  OBVIOUS
<1>5. CASE T = {}
  <2>1. Cardinality(T) = 0
    BY <1>5, FS_EmptySet
  <2> DEFINE o == [i \in 1..0 |-> 0]
  <2>2. InOrder(s, T, o)
    BY <2>1 DEF InOrder
  <2> QED BY <1>4, <2>2
<1>6. CASE T # {}
  <2>1. PICK m \in T : \A i \in T \ {m} : Before(s, i, m)
    BY <1>4, <1>6, LastAttempt
  <2> DEFINE U == T \ {m}
  <2>2. PICK o : InOrder(s, U, o)
    <3>1. U \notin Q
      <4> HIDE DEF Q
      <4> QED BY <1>3, <2>1
    <3> QED BY <1>4, <3>1
  <2>3. PICK n : n = Cardinality(U)
    OBVIOUS
  <2>4. n \in Nat /\ Cardinality(T) = n + 1
    <3>1. IsFiniteSet(T) /\ IsFiniteSet(U)
      BY <1>1, <1>4, FS_Subset
    <3>2. Cardinality(U) = Cardinality(T) - 1 /\ Cardinality(T) \in Nat /\ Cardinality(U) \in Nat
      BY <2>1, <3>1, FS_RemoveElement, FS_CardinalityType
    <3> QED BY <2>3, <3>2
  <2>5. /\ o \in [1..n -> U]
        /\ \A i, j \in 1..n : i < j => Before(s, o[i], o[j])
    BY <2>2, <2>3 DEF InOrder
  <2> HIDE DEF U
  <2> DEFINE p == [i \in 1..n + 1 |-> IF i = n + 1 THEN m ELSE o[i]]
  <2>6. \A i \in 1..n : p[i] = o[i] /\ o[i] \in U
    BY <2>4, <2>5
  <2>7. p[n + 1] = m
    BY <2>4
  <2>8. p \in [1..n + 1 -> T]
    <3>1. ASSUME NEW i \in 1..n + 1 PROVE p[i] \in T
      <4>1. CASE i = n + 1
        BY <2>1, <2>7, <4>1
      <4>2. CASE i # n + 1
        <5>1. i \in 1..n
          BY <2>4, <4>2
        <5> QED BY <2>6, <5>1 DEF U
      <4> QED BY <4>1, <4>2
    <3> QED BY <3>1
  <2> HIDE DEF p
  <2>9. ASSUME NEW i \in 1..n + 1, NEW j \in 1..n + 1, i < j PROVE Before(s, p[i], p[j])
    <3>1. i \in 1..n
      BY <2>4, <2>9
    <3>2. CASE j \in 1..n
      BY <2>5, <2>6, <2>9, <3>1, <3>2
    <3>3. CASE j = n + 1
      BY <2>1, <2>6, <2>7, <3>1, <3>3 DEF U
    <3> QED BY <2>4, <3>2, <3>3
  <2>10. InOrder(s, T, p)
    BY <2>4, <2>8, <2>9 DEF InOrder
  <2> QED BY <1>4, <2>10
<1> QED BY <1>5, <1>6
\* What is kept of some attempts: the last of their order, which has each of them once.
LEMMA TidiedForm ==
  ASSUME NEW s \in Seq(Attempts)
  PROVE  \E o, c, f :
           /\ c \in Nat /\ c = Cardinality(Firsts(s)) /\ InOrder(s, Firsts(s), o)
           /\ f = IF c > MaxAttempts THEN c - MaxAttempts + 1 ELSE 1
           /\ Learning!Tidied(s) = [i \in 1..c - f + 1 |-> s[o[f + i - 1]]]
           /\ \A i \in Firsts(s) : \E p \in 1..c : o[p] = i
<1>1. Firsts(s) \in SUBSET DOMAIN s /\ IsFiniteSet(DOMAIN s)
  BY FS_Interval DEF Firsts
<1>2. PICK c : c = Cardinality(Firsts(s))
  OBVIOUS
<1>3. IsFiniteSet(Firsts(s)) /\ c \in Nat
  BY <1>1, <1>2, FS_Subset, FS_CardinalityType
<1>4. \E o \in [1..c -> Firsts(s)] : \A i, j \in DOMAIN o : i < j => Before(s, o[i], o[j])
  BY <1>1, <1>2, AttemptsInOrder DEF InOrder
<1> DEFINE order == CHOOSE o \in [1..c -> Firsts(s)] : \A i, j \in DOMAIN o : i < j => Before(s, o[i], o[j])
<1>5. order \in [1..c -> Firsts(s)] /\ \A i, j \in DOMAIN order : i < j => Before(s, order[i], order[j])
  BY <1>4
<1>6. PICK o : o = order
  OBVIOUS
<1>7. InOrder(s, Firsts(s), o)
  BY <1>2, <1>5, <1>6 DEF InOrder
<1>8. PICK f : f = IF c > MaxAttempts THEN c - MaxAttempts + 1 ELSE 1
  OBVIOUS
<1>9. Len(o) = c
  BY <1>3, <1>5, <1>6
<1>10. Learning!Tidied(s) =
         LET first == IF Len(order) > MaxAttempts THEN Len(order) - MaxAttempts + 1 ELSE 1
         IN [i \in 1..Len(order) - first + 1 |-> s[order[first + i - 1]]]
  <2>1. c = Learning!Cardinality(Firsts(s))
    BY <1>2, CountedAlike
  <2> QED BY <2>1 DEF Learning!Tidied, Firsts, Before
<1> HIDE DEF order
<1>11. Learning!Tidied(s) = [i \in 1..c - f + 1 |-> s[o[f + i - 1]]]
  BY <1>6, <1>8, <1>9, <1>10
<1>12. o \in Injection(1..c, Firsts(s))
  <2>1. o \in [1..c -> Firsts(s)] /\ \A i, j \in 1..c : i < j => Before(s, o[i], o[j])
    BY <1>2, <1>7 DEF InOrder
  <2>2. \A i \in Firsts(s) : i \in Nat /\ s[i].at \in Nat
    <3>1. \A i \in DOMAIN s : i \in Nat /\ s[i] \in Attempts
      OBVIOUS
    <3> QED BY <1>1, <3>1 DEF Attempts
  <2>3. ASSUME NEW i \in 1..c, NEW j \in 1..c, i < j PROVE o[i] # o[j]
    <3>1. Before(s, o[i], o[j]) /\ o[i] \in Firsts(s)
      BY <2>1, <2>3
    <3>2. PICK x \in Firsts(s) : x = o[i]
      BY <3>1
    <3>3. x \in Nat /\ s[x].at \in Nat
      BY <2>2
    <3>4. ~Before(s, x, x)
      BY <3>3 DEF Before
    <3> QED BY <3>1, <3>2, <3>4
  <2>4. \A i, j \in 1..c : i # j => i < j \/ j < i
    BY <1>3
  <2> QED BY <2>1, <2>3, <2>4 DEF Injection, IsInjective
<1>13. \A i \in Firsts(s) : \E p \in 1..c : o[p] = i
  <2>1. Cardinality(1..c) = c
    BY <1>3, FS_Interval
  <2>2. o \in Surjection(1..c, Firsts(s))
    BY <1>2, <1>3, <1>12, <2>1, FS_Injection
  <2> QED BY <2>2 DEF Surjection
<1> QED BY <1>2, <1>3, <1>7, <1>8, <1>11, <1>13

\* The attempts that some attempts are.
Among(s) == {s[i] : i \in DOMAIN s}
Distinct(s) == \A i, j \in DOMAIN s : s[i] = s[j] => i = j

\* Each attempt has a first.
LEMMA FirstOfAttempt ==
  ASSUME NEW s \in Seq(Attempts), NEW a \in Among(s)
  PROVE  \E i \in Firsts(s) : s[i] = a
<1> DEFINE S == {i \in DOMAIN s : s[i] = a}
<1>1. S \in SUBSET Nat /\ S # {}
  BY DEF Among
<1>2. PICK m \in S : \A n \in S : m <= n
  <2> HIDE DEF S
  <2> QED BY <1>1, LeastNatural
<1>3. m \in DOMAIN s /\ s[m] = a /\ DOMAIN s = 1..Len(s) /\ Len(s) \in Nat /\ m \in Nat
  OBVIOUS
<1>4. ASSUME NEW j \in 1..m - 1 PROVE s[j] # s[m]
  <2>1. j \in DOMAIN s /\ ~ (m <= j)
    BY <1>3
  <2> QED BY <1>2, <1>3, <2>1
<1> QED BY <1>3, <1>4 DEF Firsts
\* What is lost of some attempts: only what is older than the ones that are kept, and only
\* when these are as many as are kept.
Lost(all, kept) ==
  \A a \in Among(all) \ Among(kept) : Len(kept) = MaxAttempts /\ \A b \in Among(kept) : b.at >= a.at

\* What is kept is sorted out of the attempts and loses the oldest of them at most.
LEMMA TidiedKeeps ==
  ASSUME NEW s \in Seq(Attempts)
  PROVE  LET r == Learning!Tidied(s) IN
         /\ r \in Seq(Attempts) /\ Among(r) \subseteq Among(s) /\ Distinct(r) /\ Len(r) <= MaxAttempts
         /\ Lost(s, r)
<1>1. PICK o, c, f :
         /\ c \in Nat /\ c = Cardinality(Firsts(s)) /\ InOrder(s, Firsts(s), o)
         /\ f = IF c > MaxAttempts THEN c - MaxAttempts + 1 ELSE 1
         /\ Learning!Tidied(s) = [i \in 1..c - f + 1 |-> s[o[f + i - 1]]]
         /\ \A i \in Firsts(s) : \E p \in 1..c : o[p] = i
  BY TidiedForm
<1>2. PICK r : r = Learning!Tidied(s)
  OBVIOUS
<1>3. MaxAttempts \in Nat
  BY SiteAssumption
<1>4. PICK n : n = c - f + 1
  OBVIOUS
<1>5. /\ f \in Nat /\ f >= 1 /\ n \in Nat /\ n <= MaxAttempts /\ f + n = c + 1
      /\ f > 1 => n = MaxAttempts
  BY <1>1, <1>3, <1>4
<1>6. r = [i \in 1..n |-> s[o[f + i - 1]]]
  BY <1>1, <1>2, <1>4
<1>7. \A i \in 1..n : f + i - 1 \in 1..c
  BY <1>1, <1>5
<1>8. /\ o \in [1..c -> Firsts(s)]
      /\ \A i, j \in 1..c : i < j => Before(s, o[i], o[j])
  BY <1>1 DEF InOrder
<1>9. \A i \in Firsts(s) : i \in DOMAIN s /\ i \in Nat /\ s[i] \in Attempts /\ s[i].at \in Nat
  <2>1. \A i \in DOMAIN s : i \in Nat /\ s[i] \in Attempts
    OBVIOUS
  <2> QED BY <2>1 DEF Firsts, Attempts
<1>10. \A i \in 1..n : r[i] = s[o[f + i - 1]] /\ o[f + i - 1] \in Firsts(s)
  BY <1>6, <1>7, <1>8
<1>11. r \in Seq(Attempts) /\ Len(r) = n /\ DOMAIN r = 1..n
  <2>1. r \in [1..n -> Attempts]
    BY <1>6, <1>9, <1>10
  <2> QED BY <1>5, <2>1
<1>12. Among(r) \subseteq Among(s)
  BY <1>9, <1>10, <1>11 DEF Among
<1>13. Distinct(r)
  <2>1. ASSUME NEW i \in 1..n, NEW j \in 1..n, i < j PROVE r[i] # r[j]
    <3>1. PICK x \in Firsts(s) : x = o[f + i - 1]
      BY <1>10
    <3>2. PICK y \in Firsts(s) : y = o[f + j - 1]
      BY <1>10
    <3>3. f + i - 1 < f + j - 1
      BY <1>5, <2>1
    <3>4. Before(s, x, y)
      BY <1>7, <1>8, <3>1, <3>2, <3>3
    <3>5. x \in Nat /\ y \in Nat /\ s[x].at \in Nat /\ s[y].at \in Nat
      BY <1>9
    <3>6. x # y
      BY <3>4, <3>5 DEF Before
    <3>7. s[x] # s[y]
      <4>1. CASE x < y
        <5>1. x \in 1..y - 1
          <6>1. DOMAIN s = 1..Len(s) /\ x \in DOMAIN s
            BY <1>9
          <6> QED BY <3>5, <4>1, <6>1
        <5> QED BY <5>1 DEF Firsts
      <4>2. CASE y < x
        <5>1. y \in 1..x - 1
          <6>1. DOMAIN s = 1..Len(s) /\ y \in DOMAIN s
            BY <1>9
          <6> QED BY <3>5, <4>2, <6>1
        <5> QED BY <5>1 DEF Firsts
      <4> QED BY <3>5, <3>6, <4>1, <4>2
    <3> QED BY <1>10, <3>1, <3>2, <3>7
  <2>2. \A i, j \in 1..n : i < j \/ j < i \/ i = j
    BY <1>5
  <2> QED BY <1>11, <2>1, <2>2 DEF Distinct
<1>14. ASSUME NEW a \in Among(s), a \notin Among(r)
       PROVE  Len(r) = MaxAttempts /\ \A b \in Among(r) : b.at >= a.at
  <2>1. PICK i \in Firsts(s) : s[i] = a
    BY FirstOfAttempt
  <2>2. PICK p \in 1..c : o[p] = i
    BY <1>1
  <2>3. p < f
    <3> SUFFICES ASSUME p >= f PROVE FALSE
      BY <1>5
    <3>1. (p - f + 1) \in 1..n /\ f + (p - f + 1) - 1 = p
      BY <1>1, <1>5
    <3>2. r[p - f + 1] = a
      BY <1>10, <2>1, <2>2, <3>1
    <3> QED BY <1>11, <1>14, <3>1, <3>2 DEF Among
  <2>4. Len(r) = MaxAttempts
    BY <1>5, <1>11, <2>3
  <2>5. ASSUME NEW b \in Among(r) PROVE b.at >= a.at
    <3>1. PICK j \in 1..n : b = r[j]
      BY <1>11 DEF Among
    <3>2. PICK y \in Firsts(s) : y = o[f + j - 1]
      BY <1>10
    <3>3. p < f + j - 1 /\ f + j - 1 \in 1..c
      <4>1. f + j - 1 \in 1..c
        BY <1>7, <3>1
      <4>2. j \in Int /\ j >= 1 /\ p \in Int
        BY <1>1, <1>5, <2>2, <3>1
      <4> QED BY <1>5, <2>3, <4>1, <4>2
    <3>4. Before(s, i, y)
      BY <1>8, <2>2, <3>2, <3>3
    <3>5. s[i].at \in Nat /\ s[y].at \in Nat /\ b = s[y]
      BY <1>9, <1>10, <3>1, <3>2
    <3> QED BY <2>1, <3>4, <3>5 DEF Before
  <2> QED BY <2>4, <2>5
<1>15. Lost(s, r)
  BY <1>14 DEF Lost
<1> QED BY <1>2, <1>5, <1>11, <1>12, <1>13, <1>15

\* Nothing is lost of attempts that were sorted out before.
LEMMA TidiedWhole ==
  ASSUME NEW s \in Seq(Attempts), Distinct(s), Len(s) <= MaxAttempts
  PROVE  Len(Learning!Tidied(s)) = Len(s)
<1>1. PICK o, c, f :
         /\ c \in Nat /\ c = Cardinality(Firsts(s)) /\ InOrder(s, Firsts(s), o)
         /\ f = IF c > MaxAttempts THEN c - MaxAttempts + 1 ELSE 1
         /\ Learning!Tidied(s) = [i \in 1..c - f + 1 |-> s[o[f + i - 1]]]
         /\ \A i \in Firsts(s) : \E p \in 1..c : o[p] = i
  BY TidiedForm
<1>2. DOMAIN s = 1..Len(s) /\ Len(s) \in Nat
  OBVIOUS
<1>3. Firsts(s) = 1..Len(s)
  <2>1. ASSUME NEW i \in 1..Len(s), NEW j \in 1..i - 1 PROVE s[j] # s[i]
    <3>1. j \in 1..Len(s) /\ j # i
      BY <1>2
    <3> QED BY <1>2, <3>1 DEF Distinct
  <2> QED BY <1>2, <2>1 DEF Firsts
<1>4. Cardinality(1..Len(s)) = Len(s)
  BY <1>2, FS_Interval
<1>5. c = Len(s)
  BY <1>1, <1>3, <1>4
<1>6. MaxAttempts \in Nat
  BY SiteAssumption
<1>7. f = 1 /\ c - f + 1 = c
  BY <1>1, <1>5, <1>6
<1>8. Learning!Tidied(s) = [i \in 1..c |-> s[o[f + i - 1]]]
  BY <1>1, <1>7
<1> QED BY <1>2, <1>5, <1>8

\* Sorting out twice loses no more than once.
LEMMA TidiedTwice ==
  ASSUME NEW s \in Seq(Attempts)
  PROVE  Lost(s, Learning!Tidied(Learning!Tidied(s)))
<1>1. PICK r : r = Learning!Tidied(s)
  OBVIOUS
<1>2. PICK k : k = Learning!Tidied(r)
  OBVIOUS
<1>3. r \in Seq(Attempts) /\ Distinct(r) /\ Len(r) <= MaxAttempts /\ Lost(s, r)
  BY <1>1, TidiedKeeps
<1>4. k \in Seq(Attempts) /\ Among(k) \subseteq Among(r) /\ Lost(r, k)
  BY <1>2, <1>3, TidiedKeeps
<1>5. Len(k) = Len(r)
  BY <1>2, <1>3, TidiedWhole
<1>6. Lost(s, k)
  BY <1>3, <1>4, <1>5 DEF Lost
<1> QED BY <1>1, <1>2, <1>6
-----------------------------------------------------------------------------
(* What an import makes of the practice.                                   *)

\* The answers that are kept, by question or, when they are set aside, by a longer key.
Marks   == Questions \cup (Nat \X Nat)
Keys    == Seq(Marks)
Entries == [draft : Drafts, assessment : Ratings, updatedAt : Nat]
PracticeOf(p) == DOMAIN p \subseteq Keys /\ IsFiniteSet(DOMAIN p) /\ p \in [DOMAIN p -> Entries]

\* What is put under a key.
LEMMA PutAnswer ==
  ASSUME NEW p, PracticeOf(p), NEW key \in Keys, NEW entry \in Entries
  PROVE  LET q == Learning!Put(p, key, entry) IN
         /\ PracticeOf(q) /\ DOMAIN q = DOMAIN p \cup {key}
         /\ q[key] = entry /\ \A k \in DOMAIN p : k # key => q[k] = p[k]
<1>1. PICK q : q = Learning!Put(p, key, entry)
  OBVIOUS
<1>2. q = [k \in DOMAIN p \cup {key} |-> IF k = key THEN entry ELSE p[k]]
  BY <1>1 DEF Learning!Put
<1>3. IsFiniteSet(DOMAIN p \cup {key})
  BY FS_AddElement DEF PracticeOf
<1>4. /\ DOMAIN q = DOMAIN p \cup {key} /\ q[key] = entry
      /\ \A k \in DOMAIN p : k # key => q[k] = p[k]
  BY <1>2
<1>5. q \in [DOMAIN q -> Entries]
  BY <1>2 DEF PracticeOf
<1> QED BY <1>1, <1>3, <1>4, <1>5 DEF PracticeOf

\* The key of an imported copy is a new one, longer than the key of the original.
LEMMA CopyKeyFresh ==
  ASSUME NEW p, PracticeOf(p), NEW key \in Keys, NEW at \in Nat
  PROVE  LET copy == Learning!CopyKey(p, key, at) IN
         copy \in Keys /\ copy \notin DOMAIN p /\ Learning!IsStrictPrefix(key, copy)
<1>1. PICK c : c = Cardinality(DOMAIN p)
  OBVIOUS
<1>2. c \in Nat /\ IsFiniteSet(DOMAIN p)
  BY <1>1, FS_CardinalityType DEF PracticeOf
<1> DEFINE Free == {n \in 1..c + 1 : Append(key, <<at, n>>) \notin DOMAIN p}
<1>3. ASSUME NEW n \in Nat
      PROVE  /\ Append(key, <<at, n>>) \in Keys /\ Learning!IsStrictPrefix(key, Append(key, <<at, n>>))
             /\ Append(key, <<at, n>>)[Len(key) + 1] = <<at, n>>
  <2>1. PICK mark : mark = <<at, n>>
    OBVIOUS
  <2>2. mark \in Marks
    BY <2>1 DEF Marks
  <2>3. Append(key, mark) \in Keys
    BY <2>2 DEF Keys
  <2>4. PICK long : long = Append(key, mark)
    OBVIOUS
  <2>5. /\ Len(key) \in Nat /\ long \in Seq(Marks) /\ Len(long) = Len(key) + 1 /\ long[Len(key) + 1] = mark
        /\ \A i \in 1..Len(key) : long[i] = key[i]
    BY <2>2, <2>4 DEF Keys
  <2>6. SubSeq(key, 1, Len(key)) = SubSeq(long, 1, Len(key))
    BY <2>5 DEF Keys
  <2>7. key # long
    BY <2>5
  <2> QED BY <2>1, <2>3, <2>4, <2>5, <2>6, <2>7 DEF Learning!IsStrictPrefix, Learning!IsPrefix
<1>4. Free # {}
  <2> SUFFICES ASSUME Free = {} PROVE FALSE
    OBVIOUS
  <2> DEFINE f == [n \in 1..c + 1 |-> Append(key, <<at, n>>)]
  <2>1. f \in [1..c + 1 -> DOMAIN p]
    OBVIOUS
  <2>2. IsFiniteSet(1..c + 1) /\ Cardinality(1..c + 1) = c + 1
    BY <1>2, FS_Interval
  <2>3. \A m, n \in 1..c + 1 : f[m] = f[n] => m = n
    <3>1. ASSUME NEW m \in 1..c + 1, NEW n \in 1..c + 1, f[m] = f[n] PROVE m = n
      <4>1. m \in Nat /\ n \in Nat
        BY <1>2
      <4>2. Append(key, <<at, m>>) = Append(key, <<at, n>>)
        BY <3>1
      <4>3. <<at, m>> = <<at, n>>
        BY <1>3, <4>1, <4>2
      <4> QED BY <4>3
    <3> QED BY <3>1
  <2> HIDE DEF f
  <2>4. c < c + 1
    BY <1>2
  <2>5. \E m, n \in 1..c + 1 : m # n /\ f[m] = f[n]
    BY <1>1, <1>2, <2>1, <2>2, <2>4, FS_PigeonHole
  <2> QED BY <2>3, <2>5
<1>5. \E m \in Free : \A n \in Free : m <= n
  <2>1. Free \in SUBSET Nat
    BY <1>2
  <2> HIDE DEF Free
  <2> QED BY <1>4, <2>1, LeastNatural
<1>6. Learning!CopyKey(p, key, at) = Append(key, <<at, Learning!Min(Free)>>)
  BY <1>1, CountedAlike DEF Learning!CopyKey
<1>7. Learning!Min(Free) \in Free
  <2> HIDE DEF Free
  <2> QED BY <1>5 DEF Learning!Min
<1>8. PICK n \in Free : n = Learning!Min(Free)
  BY <1>7
<1>9. n \in Nat /\ Append(key, <<at, n>>) \notin DOMAIN p
  BY <1>2
<1> HIDE DEF Free
<1> QED BY <1>3, <1>6, <1>8, <1>9

\* The later of two times.
LEMMA LaterOfTwo ==
  ASSUME NEW m \in Nat, NEW n \in Nat
  PROVE  Learning!Max({m, n}) = IF m >= n THEN m ELSE n
<1>1. \E x \in {m, n} : \A y \in {m, n} : x >= y
  OBVIOUS
<1> QED BY <1>1 DEF Learning!Max

\* An entry keeps its text when another is merged into it, and a second time adds nothing.
LEMMA MergedEntry ==
  ASSUME NEW a \in Entries, NEW b \in Entries
  PROVE  LET m == Learning!MergePracticeEntry(a, b) IN
         /\ m \in Entries
         /\ m.draft = IF a.draft # "" THEN a.draft ELSE b.draft
         /\ Learning!MergePracticeEntry(m, b) = m
<1> DEFINE Or(x, y) == IF x # "" THEN x ELSE y
           Later(x, y) == IF x >= y THEN x ELSE y
           M(x, y) == [draft |-> Or(x.draft, y.draft),
                       assessment |-> Or((IF y.updatedAt > x.updatedAt THEN y ELSE x).assessment, Or(x.assessment, y.assessment)),
                       updatedAt |-> Later(x.updatedAt, y.updatedAt)]
<1>1. ASSUME NEW x \in Entries, NEW y \in Entries PROVE Learning!MergePracticeEntry(x, y) = M(x, y)
  <2>1. x.updatedAt \in Nat /\ y.updatedAt \in Nat
    BY DEF Entries
  <2>2. Learning!Max({x.updatedAt, y.updatedAt}) = Later(x.updatedAt, y.updatedAt)
    BY <2>1, LaterOfTwo
  <2> QED BY <2>2 DEF Learning!MergePracticeEntry
<1>2. ASSUME NEW x \in Entries, NEW y \in Entries PROVE M(x, y) \in Entries
  BY DEF Entries
<1>3. PICK m : m = M(a, b)
  OBVIOUS
<1>4. m \in Entries /\ m = Learning!MergePracticeEntry(a, b)
  <2> HIDE DEF M
  <2> QED BY <1>1, <1>2, <1>3
<1>5. m.draft = Or(a.draft, b.draft)
  BY <1>3
<1>6. M(m, b) = m
  <2>1. /\ a.updatedAt \in Nat /\ b.updatedAt \in Nat
        /\ m.assessment = Or((IF b.updatedAt > a.updatedAt THEN b ELSE a).assessment, Or(a.assessment, b.assessment))
        /\ m.updatedAt = Later(a.updatedAt, b.updatedAt)
    BY <1>3 DEF Entries
  <2>2. ~ (b.updatedAt > m.updatedAt) /\ Later(m.updatedAt, b.updatedAt) = m.updatedAt
    <3>1. PICK x, y, z : x = a.updatedAt /\ y = b.updatedAt /\ z = m.updatedAt
      OBVIOUS
    <3>2. x \in Nat /\ y \in Nat /\ z = IF x >= y THEN x ELSE y
      BY <2>1, <3>1
    <3>3. z \in Nat /\ z >= y
      BY <3>2
    <3> QED BY <3>1, <3>2, <3>3
  <2>3. Or(m.draft, b.draft) = m.draft
    BY <1>5
  <2>4. Or(m.assessment, Or(m.assessment, b.assessment)) = m.assessment
    BY <2>1
  <2>5. m = [draft |-> m.draft, assessment |-> m.assessment, updatedAt |-> m.updatedAt]
    BY <1>4 DEF Entries
  <2> QED BY <2>2, <2>3, <2>4, <2>5
<1>7. Learning!MergePracticeEntry(m, b) = m
  <2> HIDE DEF M
  <2> QED BY <1>1, <1>4, <1>6
<1> HIDE DEF M
<1> QED BY <1>4, <1>5, <1>7
\* Every text stays where it was.
Keeping(p, q) ==
  /\ DOMAIN p \subseteq DOMAIN q
  /\ \A k \in DOMAIN p : p[k].draft # "" => q[k].draft = p[k].draft

\* An entry has been merged into the practice, and merging it again changes nothing.
Absorbed(p, key, entry) ==
  /\ key \in DOMAIN p
  /\ IF Learning!Differs(p, key, entry) THEN Learning!AlreadyKept(p, key, entry.draft)
                                        ELSE Learning!MergePracticeEntry(p[key], entry) = p[key]

\* What merging does to the entries: one is put under the key, or a copy under a new key.
LEMMA MergeEntryForm ==
  ASSUME NEW p, PracticeOf(p), NEW key \in Keys, NEW entry \in Entries
  PROVE  LET q == Learning!MergeEntry(p, key, entry) IN
         /\ PracticeOf(q) /\ Keeping(p, q) /\ Absorbed(q, key, entry)
         /\ \A k \in DOMAIN p : k # key => q[k] = p[k]
<1> DEFINE differs == Learning!Differs(p, key, entry)
           kept == Learning!AlreadyKept(p, key, entry.draft)
<1>1. PICK q : q = Learning!MergeEntry(p, key, entry)
  OBVIOUS
<1>2. CASE differs /\ kept
  <2>1. q = p
    BY <1>1, <1>2 DEF Learning!MergeEntry
  <2>2. key \in DOMAIN p
    BY <1>2 DEF Learning!Differs
  <2> QED BY <1>1, <1>2, <2>1, <2>2 DEF Keeping, Absorbed
<1>3. CASE differs /\ ~kept
  <2>1. q = Learning!KeptAside(p, key, entry)
    BY <1>1, <1>3 DEF Learning!MergeEntry
  <2>2. key \in DOMAIN p /\ p[key].draft # "" /\ entry.draft # "" /\ p[key].draft # entry.draft
    BY <1>3 DEF Learning!Differs
  <2>3. PICK copy : copy = Learning!CopyKey(p, key, entry.updatedAt)
    OBVIOUS
  <2>4. copy \in Keys /\ copy \notin DOMAIN p /\ Learning!IsStrictPrefix(key, copy)
    BY <2>3, CopyKeyFresh DEF Entries
  <2>5. PICK unrated : unrated = [entry EXCEPT !.assessment = ""]
    OBVIOUS
  <2>6. unrated \in Entries /\ unrated.draft = entry.draft
    BY <2>5 DEF Entries, Ratings
  <2>7. PICK r : r = Learning!Put(p, copy, unrated)
    OBVIOUS
  <2>8. /\ PracticeOf(r) /\ DOMAIN r = DOMAIN p \cup {copy} /\ r[copy] = unrated
        /\ \A k \in DOMAIN p : r[k] = p[k]
    <3>1. /\ PracticeOf(r) /\ DOMAIN r = DOMAIN p \cup {copy} /\ r[copy] = unrated
          /\ \A k \in DOMAIN p : k # copy => r[k] = p[k]
      <4>1. copy \in Keys /\ unrated \in Entries
        BY <2>4, <2>6
      <4>2. /\ PracticeOf(Learning!Put(p, copy, unrated)) /\ DOMAIN Learning!Put(p, copy, unrated) = DOMAIN p \cup {copy}
            /\ Learning!Put(p, copy, unrated)[copy] = unrated
            /\ \A k \in DOMAIN p : k # copy => Learning!Put(p, copy, unrated)[k] = p[k]
        BY <4>1, PutAnswer, Zenon
      <4> QED BY <2>7, <4>2
    <3>2. \A k \in DOMAIN p : k # copy
      BY <2>4
    <3> QED BY <3>1, <3>2
  <2>9. q = IF p[key].assessment = "" THEN [r EXCEPT ![key].assessment = entry.assessment] ELSE r
    BY <2>1, <2>3, <2>5, <2>7 DEF Learning!KeptAside
  <2>10. r[key] \in Entries /\ r[key] = p[key]
    BY <2>2, <2>8 DEF PracticeOf
  <2>11. PICK e : e = q[key]
    OBVIOUS
  <2>12. e \in Entries /\ e.draft = p[key].draft /\ DOMAIN q = DOMAIN r /\ \A k \in DOMAIN r : k # key => q[k] = r[k]
    <3>1. PICK rated : rated = [r[key] EXCEPT !.assessment = entry.assessment]
      OBVIOUS
    <3>2. rated \in Entries /\ rated.draft = p[key].draft
      BY <2>10, <3>1 DEF Entries
    <3>3. CASE p[key].assessment = ""
      <4>1. q = [r EXCEPT ![key] = rated]
        BY <2>9, <3>1, <3>3
      <4>2. q[key] = rated /\ DOMAIN q = DOMAIN r /\ \A k \in DOMAIN r : k # key => q[k] = r[k]
        BY <2>2, <2>8, <4>1
      <4> QED BY <2>11, <3>2, <4>2
    <3>4. CASE p[key].assessment # ""
      BY <2>9, <2>10, <2>11, <3>4
    <3> QED BY <3>3, <3>4
  <2>13. q \in [DOMAIN q -> Entries]
    <3>1. \A k \in DOMAIN q : q[k] \in Entries
      BY <2>8, <2>11, <2>12 DEF PracticeOf
    <3>2. q = [k \in DOMAIN q |-> q[k]]
      <4>1. CASE p[key].assessment = ""
        BY <2>9, <4>1
      <4>2. CASE p[key].assessment # ""
        BY <2>8, <2>9, <4>2 DEF PracticeOf
      <4> QED BY <4>1, <4>2
    <3> QED BY <3>1, <3>2
  <2>14. PracticeOf(q)
    BY <2>8, <2>12, <2>13 DEF PracticeOf
  <2>15. \A k \in DOMAIN p : k # key => q[k] = p[k]
    BY <2>8, <2>12
  <2>16. Keeping(p, q)
    BY <2>8, <2>11, <2>12, <2>15 DEF Keeping
  <2>17. q[copy].draft = entry.draft /\ copy \in DOMAIN q
    BY <2>2, <2>4, <2>6, <2>8, <2>12
  <2>18. Learning!AlreadyKept(q, key, entry.draft)
    BY <2>4, <2>17 DEF Learning!AlreadyKept
  <2>19. Learning!Differs(q, key, entry)
    BY <2>2, <2>8, <2>11, <2>12 DEF Learning!Differs
  <2>20. Absorbed(q, key, entry)
    BY <2>2, <2>8, <2>12, <2>18, <2>19 DEF Absorbed
  <2> QED BY <1>1, <2>14, <2>15, <2>16, <2>20
<1>4. CASE ~differs
  <2>1. PICK e : e = IF key \in DOMAIN p THEN Learning!MergePracticeEntry(p[key], entry) ELSE entry
    OBVIOUS
  <2>2. q = Learning!Put(p, key, e)
    BY <1>1, <1>4, <2>1 DEF Learning!MergeEntry
  <2>3. /\ e \in Entries /\ Learning!MergePracticeEntry(e, entry) = e
        /\ e.draft = "" \/ entry.draft = "" \/ e.draft = entry.draft
        /\ key \in DOMAIN p /\ p[key].draft # "" => e.draft = p[key].draft
    <3>1. CASE key \in DOMAIN p
      <4>1. p[key] \in Entries
        BY <3>1 DEF PracticeOf
      <4>2. /\ e \in Entries /\ e.draft = (IF p[key].draft # "" THEN p[key].draft ELSE entry.draft)
            /\ Learning!MergePracticeEntry(e, entry) = e
        BY <2>1, <3>1, <4>1, MergedEntry
      <4>3. p[key].draft = "" \/ entry.draft = "" \/ p[key].draft = entry.draft
        BY <1>4, <3>1 DEF Learning!Differs
      <4> QED BY <4>2, <4>3
    <3>2. CASE key \notin DOMAIN p
      <4>1. e = entry
        BY <2>1, <3>2
      <4>2. Learning!MergePracticeEntry(entry, entry) = entry
        <5>1. entry.updatedAt \in Nat
          BY DEF Entries
        <5>2. Learning!Max({entry.updatedAt, entry.updatedAt}) = entry.updatedAt
          BY <5>1, LaterOfTwo
        <5>3. entry = [draft |-> entry.draft, assessment |-> entry.assessment, updatedAt |-> entry.updatedAt]
          BY DEF Entries
        <5> QED BY <5>2, <5>3 DEF Learning!MergePracticeEntry
      <4> QED BY <3>2, <4>1, <4>2
    <3> QED BY <3>1, <3>2
  <2>4. /\ PracticeOf(q) /\ DOMAIN q = DOMAIN p \cup {key} /\ q[key] = e
        /\ \A k \in DOMAIN p : k # key => q[k] = p[k]
    BY <2>2, <2>3, PutAnswer
  <2>5. Keeping(p, q)
    BY <2>3, <2>4 DEF Keeping
  <2>6. ~Learning!Differs(q, key, entry)
    BY <2>3, <2>4 DEF Learning!Differs
  <2>7. Absorbed(q, key, entry)
    BY <2>3, <2>4, <2>6 DEF Absorbed
  <2> QED BY <1>1, <2>4, <2>5, <2>7
<1> QED BY <1>2, <1>3, <1>4

\* What was merged before stays merged.
LEMMA StaysAbsorbed ==
  ASSUME NEW p, NEW q, Keeping(p, q), NEW key, NEW entry, Absorbed(p, key, entry), q[key] = p[key]
  PROVE  Absorbed(q, key, entry)
<1>1. key \in DOMAIN p /\ key \in DOMAIN q
  BY DEF Absorbed, Keeping
<1>2. Learning!Differs(q, key, entry) <=> Learning!Differs(p, key, entry)
  BY <1>1 DEF Learning!Differs
<1>3. CASE Learning!Differs(p, key, entry)
  <2>1. Learning!AlreadyKept(p, key, entry.draft) /\ entry.draft # ""
    BY <1>3 DEF Absorbed, Learning!Differs
  <2>2. PICK other \in DOMAIN p : Learning!IsStrictPrefix(key, other) /\ p[other].draft = entry.draft
    BY <2>1 DEF Learning!AlreadyKept
  <2>3. other \in DOMAIN q /\ q[other].draft = entry.draft
    BY <2>1, <2>2 DEF Keeping
  <2>4. Learning!AlreadyKept(q, key, entry.draft)
    BY <2>2, <2>3 DEF Learning!AlreadyKept
  <2> QED BY <1>1, <1>2, <1>3, <2>4 DEF Absorbed
<1>4. CASE ~Learning!Differs(p, key, entry)
  BY <1>1, <1>2, <1>4 DEF Absorbed
<1> QED BY <1>3, <1>4

\* Merging again what is merged changes nothing,
LEMMA AbsorbedAgain ==
  ASSUME NEW p, PracticeOf(p), NEW key, NEW entry, Absorbed(p, key, entry)
  PROVE  Learning!MergeEntry(p, key, entry) = p
<1>1. CASE Learning!Differs(p, key, entry)
  BY <1>1 DEF Absorbed, Learning!MergeEntry
<1>2. CASE ~Learning!Differs(p, key, entry)
  <2>1. key \in DOMAIN p /\ Learning!MergePracticeEntry(p[key], entry) = p[key]
    BY <1>2 DEF Absorbed
  <2>2. Learning!MergeEntry(p, key, entry) = Learning!Put(p, key, p[key])
    BY <1>2, <2>1 DEF Learning!MergeEntry
  <2>3. Learning!Put(p, key, p[key]) = [k \in DOMAIN p |-> p[k]]
    BY <2>1 DEF Learning!Put
  <2>4. p = [k \in DOMAIN p |-> p[k]]
    BY DEF PracticeOf
  <2> QED BY <2>2, <2>3, <2>4
<1> QED BY <1>1, <1>2

\* and its text is there.
LEMMA AbsorbedText ==
  ASSUME NEW p, PracticeOf(p), NEW key, NEW entry \in Entries, Absorbed(p, key, entry), entry.draft # ""
  PROVE  \E k \in DOMAIN p : p[k].draft = entry.draft
<1>1. CASE Learning!Differs(p, key, entry)
  BY <1>1 DEF Absorbed, Learning!AlreadyKept
<1>2. CASE ~Learning!Differs(p, key, entry)
  <2>1. key \in DOMAIN p /\ Learning!MergePracticeEntry(p[key], entry) = p[key]
    BY <1>2 DEF Absorbed
  <2>2. p[key] \in Entries
    BY <2>1 DEF PracticeOf
  <2>3. p[key].draft = IF p[key].draft # "" THEN p[key].draft ELSE entry.draft
    BY <2>1, <2>2, MergedEntry
  <2>4. p[key].draft = "" \/ p[key].draft = entry.draft
    BY <1>2, <2>1 DEF Learning!Differs
  <2> QED BY <2>1, <2>3, <2>4
<1> QED BY <1>1, <1>2
\* The entries of a backup are merged one after the other.
Merging(p, inc, keys, n, m) ==
  m = [i \in 0..n |-> IF i = 0 THEN p ELSE Learning!MergeEntry(m[i - 1], keys[i], inc[keys[i]])]

\* There is what is merged after any number of them,
LEMMA MergingExists ==
  ASSUME NEW p, NEW inc, NEW keys, NEW n \in Nat
  PROVE  \E m : Merging(p, inc, keys, n, m)
<1> DEFINE Bad == {i \in Nat : ~ \E m : Merging(p, inc, keys, i, m)}
<1>1. SUFFICES ASSUME Bad # {} PROVE FALSE
  OBVIOUS
<1>2. PICK b \in Bad : \A i \in Bad : b <= i
  <2>1. Bad \in SUBSET Nat
    OBVIOUS
  <2> HIDE DEF Bad
  <2> QED BY <1>1, <2>1, LeastNatural
<1>3. b \in Nat /\ ~ \E m : Merging(p, inc, keys, b, m)
  OBVIOUS
<1>4. CASE b = 0
  <2> DEFINE m == [i \in 0..0 |-> p]
  <2>1. m = [i \in 0..0 |-> IF i = 0 THEN p ELSE Learning!MergeEntry(m[i - 1], keys[i], inc[keys[i]])]
    OBVIOUS
  <2> HIDE DEF m
  <2>2. Merging(p, inc, keys, 0, m)
    BY <2>1 DEF Merging
  <2> QED BY <1>3, <1>4, <2>2
<1>5. CASE b # 0
  <2>1. b - 1 \in Nat /\ b - 1 \notin Bad
    <3> HIDE DEF Bad
    <3>1. b - 1 \in Nat /\ ~ (b <= b - 1)
      BY <1>3, <1>5
    <3> QED BY <1>2, <3>1
  <2>2. PICK m : Merging(p, inc, keys, b - 1, m)
    BY <2>1
  <2>3. m = [i \in 0..b - 1 |-> IF i = 0 THEN p ELSE Learning!MergeEntry(m[i - 1], keys[i], inc[keys[i]])]
    BY <2>2 DEF Merging
  <2> HIDE DEF Bad
  <2>4. PICK last : last = Learning!MergeEntry(m[b - 1], keys[b], inc[keys[b]])
    OBVIOUS
  <2> DEFINE n_ == [i \in 0..b |-> IF i = b THEN last ELSE m[i]]
  <2>5. \A i \in 0..b : i # b => n_[i] = m[i] /\ i \in 0..b - 1
    BY <1>3
  <2>6. n_[b] = last
    BY <1>3
  <2>7. ASSUME NEW i \in 0..b
        PROVE  n_[i] = IF i = 0 THEN p ELSE Learning!MergeEntry(n_[i - 1], keys[i], inc[keys[i]])
    <3> HIDE DEF n_
    <3>1. CASE i = b
      <4>1. b - 1 \in 0..b /\ b - 1 # b
        BY <1>3, <1>5
      <4>2. n_[b - 1] = m[b - 1]
        BY <2>5, <4>1
      <4> QED BY <1>5, <2>4, <2>6, <3>1, <4>2
    <3>2. CASE i # b /\ i = 0
      <4>1. m[0] = p
        BY <1>3, <2>1, <2>3
      <4> QED BY <2>5, <3>2, <4>1
    <3>3. CASE i # b /\ i # 0
      <4>1. i \in 0..b - 1 /\ i - 1 \in 0..b /\ i - 1 # b
        BY <1>3, <3>3
      <4>2. n_[i] = m[i] /\ n_[i - 1] = m[i - 1]
        BY <2>5, <3>3, <4>1
      <4>3. m[i] = Learning!MergeEntry(m[i - 1], keys[i], inc[keys[i]])
        BY <2>3, <3>3, <4>1
      <4> QED BY <3>3, <4>2, <4>3
    <3> QED BY <3>1, <3>2, <3>3
  <2>8. n_ = [i \in 0..b |-> IF i = 0 THEN p ELSE Learning!MergeEntry(n_[i - 1], keys[i], inc[keys[i]])]
    <3>1. n_ = [i \in 0..b |-> n_[i]]
      OBVIOUS
    <3> HIDE DEF n_
    <3> DEFINE k_ == [i \in 0..b |-> IF i = 0 THEN p ELSE Learning!MergeEntry(n_[i - 1], keys[i], inc[keys[i]])]
    <3>2. \A i \in 0..b : n_[i] = k_[i]
      BY <2>7
    <3> QED BY <3>1, <3>2
  <2> HIDE DEF n_
  <2>9. Merging(p, inc, keys, b, n_)
    BY <2>8 DEF Merging
  <2> QED BY <1>3, <2>9
<1> QED BY <1>4, <1>5

\* and that is what is merged.
LEMMA MergePracticeForm ==
  ASSUME NEW p, NEW inc, NEW keys, Len(keys) \in Nat
  PROVE  \E m : /\ Merging(p, inc, keys, Len(keys), m)
                /\ Learning!MergePractice(p, inc, keys) = m[Len(keys)]
<1> DEFINE merged == CHOOSE m : Merging(p, inc, keys, Len(keys), m)
<1>1. Merging(p, inc, keys, Len(keys), merged)
  <2>1. \E m : Merging(p, inc, keys, Len(keys), m)
    BY MergingExists
  <2> QED BY <2>1
<1>2. Learning!MergePractice(p, inc, keys) = merged[Len(keys)]
  BY DEF Learning!MergePractice, Merging
<1> HIDE DEF merged
<1> QED BY <1>1, <1>2

\* A backup that is merged leaves every text where it was, and each of its entries is absorbed.
LEMMA MergedPractice ==
  ASSUME NEW p, PracticeOf(p), NEW inc, PracticeOf(inc), NEW keys \in Seq(DOMAIN inc)
  PROVE  LET q == Learning!MergePractice(p, inc, keys) IN
         /\ PracticeOf(q) /\ Keeping(p, q)
         /\ \A i \in 1..Len(keys) : Absorbed(q, keys[i], inc[keys[i]])
<1>1. Len(keys) \in Nat /\ \A i \in 1..Len(keys) : keys[i] \in DOMAIN inc
  OBVIOUS
<1>2. PICK m : /\ Merging(p, inc, keys, Len(keys), m)
               /\ Learning!MergePractice(p, inc, keys) = m[Len(keys)]
  BY <1>1, MergePracticeForm
<1>3. \A i \in 0..Len(keys) : m[i] = IF i = 0 THEN p ELSE Learning!MergeEntry(m[i - 1], keys[i], inc[keys[i]])
  BY <1>2 DEF Merging
<1>4. \A i \in 1..Len(keys) : keys[i] \in Keys /\ inc[keys[i]] \in Entries
  BY <1>1 DEF PracticeOf
<1> DEFINE Good(i) == /\ PracticeOf(m[i]) /\ Keeping(p, m[i])
                      /\ \A j \in 1..i : Absorbed(m[i], keys[j], inc[keys[j]])
           Bad == {i \in 0..Len(keys) : ~Good(i)}
<1>5. ASSUME Bad # {} PROVE FALSE
  <2>1. PICK b \in Bad : \A i \in Bad : b <= i
    <3>1. Bad \in SUBSET Nat
      BY <1>1
    <3> HIDE DEF Bad
    <3> QED BY <1>5, <3>1, LeastNatural
  <2>2. b \in 0..Len(keys) /\ b \in Nat /\ ~Good(b)
    BY <1>1
  <2>3. CASE b = 0
    <3>1. m[0] = p
      BY <1>1, <1>3
    <3>2. Good(0)
      <4>1. Keeping(p, p) /\ PracticeOf(p)
        BY DEF Keeping
      <4>2. \A j \in 1..0 : FALSE
        OBVIOUS
      <4> QED BY <3>1, <4>1, <4>2
    <3> HIDE DEF Good
    <3> QED BY <2>2, <2>3, <3>2
  <2>4. CASE b # 0
    <3>1. b \in 1..Len(keys) /\ b - 1 \in 0..Len(keys) /\ ~ (b <= b - 1)
      BY <1>1, <2>2, <2>4
    <3>2. Good(b - 1)
      <4>1. b - 1 \notin Bad
        <5> HIDE DEF Bad
        <5> QED BY <2>1, <3>1
      <4> HIDE DEF Good
      <4> QED BY <3>1, <4>1
    <3>3. PICK was : was = m[b - 1]
      OBVIOUS
    <3>4. PICK next : next = m[b]
      OBVIOUS
    <3>5. next = Learning!MergeEntry(was, keys[b], inc[keys[b]])
      BY <1>3, <2>2, <2>4, <3>3, <3>4
    <3>6. PracticeOf(was) /\ Keeping(p, was) /\ \A j \in 1..b - 1 : Absorbed(was, keys[j], inc[keys[j]])
      BY <3>2, <3>3
    <3> HIDE DEF Good, Bad
    <3>7. keys[b] \in Keys /\ inc[keys[b]] \in Entries
      BY <1>4, <3>1
    <3>8. /\ PracticeOf(next) /\ Keeping(was, next) /\ Absorbed(next, keys[b], inc[keys[b]])
          /\ \A k \in DOMAIN was : k # keys[b] => next[k] = was[k]
      <4>1. PICK key \in Keys, entry \in Entries : key = keys[b] /\ entry = inc[keys[b]]
        BY <3>7
      <4>2. next = Learning!MergeEntry(was, key, entry)
        BY <3>5, <4>1
      <4>3. LET q == Learning!MergeEntry(was, key, entry) IN
            /\ PracticeOf(q) /\ Keeping(was, q) /\ Absorbed(q, key, entry)
            /\ \A k \in DOMAIN was : k # key => q[k] = was[k]
        BY <3>6, MergeEntryForm, Zenon
      <4> QED BY <4>1, <4>2, <4>3
    <3>9. Keeping(p, next)
      BY <3>6, <3>8 DEF Keeping
    <3>10. ASSUME NEW j \in 1..b PROVE Absorbed(next, keys[j], inc[keys[j]])
      <4>1. CASE keys[j] = keys[b]
        BY <3>8, <4>1
      <4>2. CASE keys[j] # keys[b]
        <5>1. j \in 1..b - 1
          BY <2>2, <4>2
        <5>2. Absorbed(was, keys[j], inc[keys[j]])
          BY <3>6, <5>1
        <5>3. keys[j] \in DOMAIN was
          BY <5>2 DEF Absorbed
        <5>4. next[keys[j]] = was[keys[j]]
          BY <3>8, <4>2, <5>3
        <5> QED BY <3>8, <5>2, <5>4, StaysAbsorbed
      <4> QED BY <4>1, <4>2
    <3>11. Good(b)
      BY <3>4, <3>8, <3>9, <3>10 DEF Good
    <3> QED BY <2>2, <3>11
  <2> QED BY <2>3, <2>4
<1>6. Good(Len(keys))
  <2>1. Len(keys) \in 0..Len(keys)
    BY <1>1
  <2> HIDE DEF Good
  <2> QED BY <1>5, <2>1
<1> QED BY <1>2, <1>6

\* Importing a backup once more changes nothing in the practice.
LEMMA MergedAgain ==
  ASSUME NEW p, PracticeOf(p), NEW inc, NEW keys, Len(keys) \in Nat,
         \A i \in 1..Len(keys) : Absorbed(p, keys[i], inc[keys[i]])
  PROVE  Learning!MergePractice(p, inc, keys) = p
<1>1. PICK m : /\ Merging(p, inc, keys, Len(keys), m)
               /\ Learning!MergePractice(p, inc, keys) = m[Len(keys)]
  BY MergePracticeForm
<1>2. \A i \in 0..Len(keys) : m[i] = IF i = 0 THEN p ELSE Learning!MergeEntry(m[i - 1], keys[i], inc[keys[i]])
  BY <1>1 DEF Merging
<1> DEFINE Bad == {i \in 0..Len(keys) : m[i] # p}
<1>3. ASSUME Bad # {} PROVE FALSE
  <2>1. PICK b \in Bad : \A i \in Bad : b <= i
    <3>1. Bad \in SUBSET Nat
      OBVIOUS
    <3> HIDE DEF Bad
    <3> QED BY <1>3, <3>1, LeastNatural
  <2>2. b \in 0..Len(keys) /\ b \in Nat /\ m[b] # p
    OBVIOUS
  <2>3. b # 0
    BY <1>2, <2>2
  <2>4. b \in 1..Len(keys) /\ b - 1 \in 0..Len(keys) /\ ~ (b <= b - 1)
    BY <2>2, <2>3
  <2>5. m[b - 1] = p
    <3>1. b - 1 \notin Bad
      <4> HIDE DEF Bad
      <4> QED BY <2>1, <2>4
    <3> QED BY <2>4, <3>1
  <2>6. m[b] = Learning!MergeEntry(p, keys[b], inc[keys[b]])
    BY <1>2, <2>2, <2>3, <2>5
  <2>7. Absorbed(p, keys[b], inc[keys[b]])
    BY <2>4
  <2>8. Learning!MergeEntry(p, keys[b], inc[keys[b]]) = p
    BY <2>7, AbsorbedAgain
  <2> QED BY <2>2, <2>6, <2>8
<1>4. Len(keys) \in 0..Len(keys)
  OBVIOUS
<1> QED BY <1>1, <1>3, <1>4
-----------------------------------------------------------------------------
(* The values that are stored.                                             *)

\* The reviews of the answers; what the learning store has of a reader; a value of a store.
Reviews == [attempts : Seq(Attempts), intervalDays : Learning!Intervals, dueAt : Nat, updatedAt : Nat]
ReviewsOf(r) == r \in [DOMAIN r -> Reviews]
LearningOf(v) ==
  /\ v = [practice |-> v.practice, reviews |-> v.reviews, reading |-> v.reading]
  /\ PracticeOf(v.practice) /\ ReviewsOf(v.reviews)
ProgressOf(v) == v \in [Flags -> BOOLEAN]
ValueOf(s, v) == IF s = "learning" THEN LearningOf(v) ELSE ProgressOf(v)

\* A normalized review has its attempts sorted out, and its interval.
LEMMA NormalizedReview ==
  ASSUME NEW r \in Reviews
  PROVE  LET n == Learning!NormalizeReview(r) IN
         n \in Reviews /\ n.attempts = Learning!Tidied(r.attempts) /\ n.intervalDays = r.intervalDays
<1>1. PICK attempts : attempts = Learning!Tidied(r.attempts)
  OBVIOUS
<1>2. r.attempts \in Seq(Attempts) /\ r.intervalDays \in Learning!Intervals
  BY DEF Reviews
<1>3. attempts \in Seq(Attempts)
  BY <1>1, <1>2, TidiedKeeps
<1>4. PICK days : days = r.intervalDays
  OBVIOUS
<1>5. Learning!NormalizeReview(r) = [r EXCEPT !.attempts = attempts, !.intervalDays = days]
  BY <1>1, <1>2, <1>4 DEF Learning!NormalizeReview
<1> QED BY <1>1, <1>2, <1>3, <1>4, <1>5 DEF Reviews

\* So have normalized reviews, each.
LEMMA NormalizedReviews ==
  ASSUME NEW f, ReviewsOf(f)
  PROVE  LET g == Learning!NormalizeReviews(f) IN
         /\ ReviewsOf(g) /\ DOMAIN g = DOMAIN f
         /\ \A k \in DOMAIN f : /\ g[k].attempts = Learning!Tidied(f[k].attempts)
                                /\ g[k].intervalDays = f[k].intervalDays
<1>1. PICK g : g = Learning!NormalizeReviews(f)
  OBVIOUS
<1>2. g = [k \in DOMAIN f |-> Learning!NormalizeReview(f[k])]
  BY <1>1 DEF Learning!NormalizeReviews
<1>3. ASSUME NEW k \in DOMAIN f
      PROVE  /\ g[k] \in Reviews /\ g[k].attempts = Learning!Tidied(f[k].attempts)
             /\ g[k].intervalDays = f[k].intervalDays
  <2>1. f[k] \in Reviews
    BY DEF ReviewsOf
  <2>2. g[k] = Learning!NormalizeReview(f[k])
    BY <1>2
  <2> QED BY <2>1, <2>2, NormalizedReview
<1>4. DOMAIN g = DOMAIN f /\ g \in [DOMAIN g -> Reviews]
  BY <1>2, <1>3
<1> QED BY <1>1, <1>3, <1>4 DEF ReviewsOf

\* What is written to the learning store.
LEMMA ValidatedLearning ==
  ASSUME NEW v, LearningOf(v)
  PROVE  LET w == Learning!Validated("learning", v) IN
         LearningOf(w) /\ w.practice = v.practice /\ w.reviews = Learning!NormalizeReviews(v.reviews)
<1>1. PICK reviews : reviews = Learning!NormalizeReviews(v.reviews)
  OBVIOUS
<1>2. ReviewsOf(reviews)
  BY <1>1, NormalizedReviews DEF LearningOf
<1>3. PICK w : w = Learning!Validated("learning", v)
  OBVIOUS
<1>4. w = [v EXCEPT !.reviews = reviews]
  BY <1>1, <1>3 DEF Learning!Validated
<1>5. v = [practice |-> v.practice, reviews |-> v.reviews, reading |-> v.reading]
  BY DEF LearningOf
<1>6. w = [practice |-> v.practice, reviews |-> reviews, reading |-> v.reading]
  BY <1>4, <1>5
<1> QED BY <1>1, <1>2, <1>3, <1>6 DEF LearningOf

\* More attempts lose no less.
LEMMA LostOfFewer ==
  ASSUME NEW few, NEW all, NEW kept, Among(few) \subseteq Among(all), Lost(all, kept)
  PROVE  Lost(few, kept)
BY DEF Lost

\* A change keeps the attempts when what it sorts out loses no more than it may.
LEMMA AttemptsKept ==
  ASSUME NEW was, NEW v, LearningOf(v), NEW kind,
         \A k \in DOMAIN was.reviews :
            /\ k \in DOMAIN v.reviews
            /\ Lost(was.reviews[k].attempts, Learning!Tidied(v.reviews[k].attempts))
            /\ kind = "record" /\ was.practice[k].assessment = "confident" =>
                  v.reviews[k].intervalDays >= was.reviews[k].intervalDays
  PROVE  Learning!KeepsAttempts(was, kind, Learning!Validated("learning", v))
<1>1. PICK next : next = Learning!Validated("learning", v)
  OBVIOUS
<1>2. next.reviews = Learning!NormalizeReviews(v.reviews)
  BY <1>1, ValidatedLearning
<1>3. ReviewsOf(v.reviews)
  BY DEF LearningOf
<1>4. \A k \in DOMAIN v.reviews : /\ next.reviews[k].attempts = Learning!Tidied(v.reviews[k].attempts)
                                  /\ next.reviews[k].intervalDays = v.reviews[k].intervalDays
  BY <1>2, <1>3, NormalizedReviews
<1>5. ASSUME NEW s PROVE Learning!ToSet(s) = Among(s)
  BY DEF Learning!ToSet, Among
<1>6. ASSUME NEW k \in DOMAIN was.reviews
      PROVE  /\ \A a \in Learning!ToSet(was.reviews[k].attempts) \ Learning!ToSet(next.reviews[k].attempts) :
                   /\ Len(next.reviews[k].attempts) = MaxAttempts
                   /\ \A b \in Learning!ToSet(next.reviews[k].attempts) : b.at >= a.at
             /\ kind = "record" /\ was.practice[k].assessment = "confident" =>
                   next.reviews[k].intervalDays >= was.reviews[k].intervalDays
  <2>1. PICK old, new : old = was.reviews[k].attempts /\ new = next.reviews[k].attempts
    OBVIOUS
  <2>2. k \in DOMAIN v.reviews
    OBVIOUS
  <2>3. Lost(old, new)
    BY <1>4, <2>1, <2>2
  <2>4. \A a \in Among(old) \ Among(new) : Len(new) = MaxAttempts /\ \A b \in Among(new) : b.at >= a.at
    BY <2>3 DEF Lost
  <2>5. Learning!ToSet(old) = Among(old) /\ Learning!ToSet(new) = Among(new)
    BY <1>5
  <2>6. kind = "record" /\ was.practice[k].assessment = "confident" =>
           next.reviews[k].intervalDays >= was.reviews[k].intervalDays
    BY <1>4, <2>2
  <2> QED BY <2>1, <2>4, <2>5, <2>6
<1>7. Learning!KeepsAttempts(was, kind, next)
  BY <1>6 DEF Learning!KeepsAttempts
<1> QED BY <1>1, <1>7

\* Where texts stay, all that was written is still there.
LEMMA TextsStay ==
  ASSUME NEW v, NEW w, Keeping(v.practice, w.practice)
  PROVE  Learning!Written(v) \subseteq Learning!Written(w)
BY DEF Keeping, Learning!Written

\* The learning data with other answers.
LEMMA OtherPractice ==
  ASSUME NEW was, LearningOf(was), NEW p, PracticeOf(p), NEW v, v = [was EXCEPT !.practice = p]
  PROVE  LearningOf(v) /\ v.practice = p /\ v.reviews = was.reviews
<1>1. was = [practice |-> was.practice, reviews |-> was.reviews, reading |-> was.reading]
  BY DEF LearningOf
<1>2. v = [practice |-> p, reviews |-> was.reviews, reading |-> was.reading]
  BY <1>1
<1> QED BY <1>2 DEF LearningOf

\* A change that leaves the reviews alone keeps the attempts.
LEMMA SameReviews ==
  ASSUME NEW was, LearningOf(was), NEW v, LearningOf(v), v.reviews = was.reviews, NEW kind
  PROVE  Learning!KeepsAttempts(was, kind, Learning!Validated("learning", v))
<1>1. ASSUME NEW k \in DOMAIN was.reviews
      PROVE  /\ k \in DOMAIN v.reviews
             /\ Lost(was.reviews[k].attempts, Learning!Tidied(v.reviews[k].attempts))
             /\ v.reviews[k].intervalDays >= was.reviews[k].intervalDays
  <2>1. was.reviews[k] \in Reviews /\ v.reviews[k] = was.reviews[k]
    BY DEF LearningOf, ReviewsOf
  <2>2. was.reviews[k].attempts \in Seq(Attempts) /\ was.reviews[k].intervalDays \in Int
    BY <2>1 DEF Reviews, Learning!Intervals
  <2>3. Lost(was.reviews[k].attempts, Learning!Tidied(was.reviews[k].attempts))
    BY <2>2, TidiedKeeps
  <2> QED BY <2>1, <2>2, <2>3
<1> QED BY <1>1, AttemptsKept

\* A change of one review leaves its attempts, and no shorter interval to a confident answer.
LeavesReview(was, kind, key, r) ==
  /\ key \in DOMAIN was.reviews => Among(was.reviews[key].attempts) \subseteq Among(r.attempts)
  /\ kind = "record" /\ key \in DOMAIN was.reviews /\ was.practice[key].assessment = "confident" =>
        r.intervalDays >= was.reviews[key].intervalDays
OneChanged(was, key, r) == [was EXCEPT !.reviews = Learning!Put(@, key, r)]

\* Such a change keeps all attempts.
LEMMA OneReview ==
  ASSUME NEW was, LearningOf(was), NEW key, NEW r \in Reviews, NEW kind, LeavesReview(was, kind, key, r)
  PROVE  LET v == OneChanged(was, key, r) IN
         /\ LearningOf(v) /\ v.practice = was.practice
         /\ Learning!KeepsAttempts(was, kind, Learning!Validated("learning", v))
<1>0. PICK v : v = OneChanged(was, key, r)
  OBVIOUS
<1>1. PICK f : f = Learning!Put(was.reviews, key, r)
  OBVIOUS
<1>2. f = [k \in DOMAIN was.reviews \cup {key} |-> IF k = key THEN r ELSE was.reviews[k]]
  BY <1>1 DEF Learning!Put
<1>3. ReviewsOf(f)
  <2>1. ASSUME NEW k \in DOMAIN f PROVE f[k] \in Reviews
    BY <1>2 DEF LearningOf, ReviewsOf
  <2> QED BY <1>2, <2>1 DEF ReviewsOf
<1>5. LearningOf(v) /\ v.practice = was.practice /\ v.reviews = f
  <2>1. was = [practice |-> was.practice, reviews |-> was.reviews, reading |-> was.reading]
    BY DEF LearningOf
  <2>2. v = [practice |-> was.practice, reviews |-> f, reading |-> was.reading]
    BY <1>0, <1>1, <2>1 DEF OneChanged
  <2> QED BY <1>3, <2>2 DEF LearningOf
<1>6. ASSUME NEW k \in DOMAIN was.reviews
      PROVE  /\ k \in DOMAIN v.reviews
             /\ Lost(was.reviews[k].attempts, Learning!Tidied(v.reviews[k].attempts))
             /\ kind = "record" /\ was.practice[k].assessment = "confident" =>
                   v.reviews[k].intervalDays >= was.reviews[k].intervalDays
  <2>1. was.reviews[k] \in Reviews
    BY DEF LearningOf, ReviewsOf
  <2>2. was.reviews[k].attempts \in Seq(Attempts) /\ was.reviews[k].intervalDays \in Int
    BY <2>1 DEF Reviews, Learning!Intervals
  <2>3. k \in DOMAIN v.reviews /\ v.reviews[k] = IF k = key THEN r ELSE was.reviews[k]
    BY <1>2, <1>5
  <2>4. CASE k = key
    <3>1. r.attempts \in Seq(Attempts)
      BY DEF Reviews
    <3>2. Lost(r.attempts, Learning!Tidied(r.attempts))
      BY <3>1, TidiedKeeps
    <3>3. Lost(was.reviews[k].attempts, Learning!Tidied(r.attempts))
      BY <2>4, <3>2, LostOfFewer DEF LeavesReview
    <3> QED BY <2>3, <2>4, <3>3 DEF LeavesReview
  <2>5. CASE k # key
    <3>1. Lost(was.reviews[k].attempts, Learning!Tidied(was.reviews[k].attempts))
      BY <2>2, TidiedKeeps
    <3> QED BY <2>2, <2>3, <2>5, <3>1
  <2> QED BY <2>4, <2>5
<1>7. Learning!KeepsAttempts(was, kind, Learning!Validated("learning", v))
  BY <1>5, <1>6, AttemptsKept
<1> QED BY <1>0, <1>5, <1>7

\* Merged reviews lose no more attempts than they may, sorted out once more.
LEMMA MergedReviews ==
  ASSUME NEW f, ReviewsOf(f), NEW g, ReviewsOf(g)
  PROVE  LET m == Learning!MergeReviews(f, g) IN
         /\ ReviewsOf(m) /\ DOMAIN f \subseteq DOMAIN m
         /\ \A k \in DOMAIN f : Lost(f[k].attempts, Learning!Tidied(m[k].attempts))
<1> DEFINE raw == [k \in DOMAIN f \cup DOMAIN g |->
                     IF k \notin DOMAIN f THEN g[k]
                     ELSE IF k \notin DOMAIN g THEN f[k] ELSE Learning!MergeReview(f[k], g[k])]
<1>1. PICK all : all = raw
  OBVIOUS
<1>2. Learning!MergeReviews(f, g) = Learning!NormalizeReviews(all)
  BY <1>1 DEF Learning!MergeReviews
<1>3. \A k \in DOMAIN f : f[k] \in Reviews
  BY DEF ReviewsOf
<1>4. \A k \in DOMAIN g : g[k] \in Reviews
  BY DEF ReviewsOf
<1>5. ASSUME NEW a \in Reviews, NEW b \in Reviews
      PROVE  /\ Learning!MergeReview(a, b) \in Reviews
             /\ Learning!MergeReview(a, b).attempts = a.attempts \o b.attempts
             /\ Among(a.attempts) \subseteq Among(a.attempts \o b.attempts)
  <2>1. PICK s, u : s = a.attempts /\ u = b.attempts
    OBVIOUS
  <2>2. s \in Seq(Attempts) /\ u \in Seq(Attempts)
    BY <2>1 DEF Reviews
  <2>3. PICK su : su = s \o u
    OBVIOUS
  <2>4. /\ su \in Seq(Attempts) /\ Len(su) = Len(s) + Len(u) /\ Len(s) \in Nat /\ Len(u) \in Nat
        /\ \A i \in 1..Len(s) : su[i] = s[i]
    BY <2>2, <2>3
  <2>5. Among(s) \subseteq Among(su)
    <3>1. \A i \in 1..Len(s) : i \in 1..Len(su)
      BY <2>4
    <3>2. DOMAIN s = 1..Len(s) /\ DOMAIN su = 1..Len(su)
      BY <2>2, <2>4
    <3> QED BY <2>4, <3>1, <3>2 DEF Among
  <2>6. PICK newer \in Reviews : newer = IF b.updatedAt > a.updatedAt THEN b ELSE a
    OBVIOUS
  <2>7. Learning!MergeReview(a, b) = [newer EXCEPT !.attempts = su]
    BY <2>1, <2>3, <2>6 DEF Learning!MergeReview
  <2> QED BY <2>1, <2>3, <2>4, <2>5, <2>7 DEF Reviews
<1>6. ASSUME NEW k \in DOMAIN f \cup DOMAIN g
      PROVE  all[k] \in Reviews /\ (k \in DOMAIN f => Among(f[k].attempts) \subseteq Among(all[k].attempts))
  <2>1. all[k] = IF k \notin DOMAIN f THEN g[k]
                 ELSE IF k \notin DOMAIN g THEN f[k] ELSE Learning!MergeReview(f[k], g[k])
    BY <1>1
  <2>2. CASE k \in DOMAIN f /\ k \in DOMAIN g
    <3>1. f[k] \in Reviews /\ g[k] \in Reviews
      BY <1>3, <1>4, <2>2
    <3>2. all[k] = Learning!MergeReview(f[k], g[k])
      BY <2>1, <2>2
    <3> QED BY <1>5, <3>1, <3>2
  <2>3. CASE k \notin DOMAIN f \/ k \notin DOMAIN g
    BY <1>3, <1>4, <2>1, <2>3
  <2> QED BY <2>2, <2>3
<1>7. DOMAIN all = DOMAIN f \cup DOMAIN g
  BY <1>1
<1>8. ReviewsOf(all)
  <2>1. all = [k \in DOMAIN all |-> all[k]]
    BY <1>1
  <2> HIDE DEF raw
  <2> QED BY <1>6, <1>7, <2>1 DEF ReviewsOf
<1>9. PICK m : m = Learning!MergeReviews(f, g)
  OBVIOUS
<1>10. /\ ReviewsOf(m) /\ DOMAIN m = DOMAIN all
       /\ \A k \in DOMAIN all : m[k].attempts = Learning!Tidied(all[k].attempts)
  BY <1>2, <1>8, <1>9, NormalizedReviews
<1>11. ASSUME NEW k \in DOMAIN f PROVE Lost(f[k].attempts, Learning!Tidied(m[k].attempts))
  <2>1. all[k] \in Reviews /\ Among(f[k].attempts) \subseteq Among(all[k].attempts)
    BY <1>6
  <2>2. all[k].attempts \in Seq(Attempts)
    BY <2>1 DEF Reviews
  <2>3. Lost(all[k].attempts, Learning!Tidied(Learning!Tidied(all[k].attempts)))
    BY <2>2, TidiedTwice
  <2>4. m[k].attempts = Learning!Tidied(all[k].attempts)
    BY <1>7, <1>10
  <2> QED BY <2>1, <2>3, <2>4, LostOfFewer
<1> QED BY <1>7, <1>9, <1>10, <1>11

\* A backup is what a reader had, with every key of the practice.
BackedUp(b) ==
  /\ LearningOf(b.learning) /\ ProgressOf(b.progress)
  /\ b.keys \in Seq(DOMAIN b.learning.practice)
  /\ \A k \in DOMAIN b.learning.practice : \E i \in 1..Len(b.keys) : b.keys[i] = k

\* An import loses nothing of either side, and a second one adds nothing.
LEMMA ImportKeeps ==
  ASSUME NEW was, LearningOf(was), NEW b, BackedUp(b)
  PROVE  LET v == Learning!MergeLearningImport(was, b)
             w == Learning!Validated("learning", v)
         IN /\ LearningOf(w) /\ Learning!Keeps("learning", was, "import", w)
            /\ Learning!HoldsBackup(b, w)
<1>1. PICK inc, keys : inc = b.learning.practice /\ keys = b.keys
  OBVIOUS
<1>2. /\ PracticeOf(inc) /\ keys \in Seq(DOMAIN inc) /\ PracticeOf(was.practice)
      /\ \A k \in DOMAIN inc : \E i \in 1..Len(keys) : keys[i] = k
  BY <1>1 DEF BackedUp, LearningOf
<1>3. PICK p : p = Learning!MergePractice(was.practice, inc, keys)
  OBVIOUS
<1>4. PICK r : r = Learning!MergeReviews(was.reviews, b.learning.reviews)
  OBVIOUS
<1>5. PICK v : v = Learning!MergeLearningImport(was, b)
  OBVIOUS
<1>6. PICK w : w = Learning!Validated("learning", v)
  OBVIOUS
<1>7. /\ PracticeOf(p) /\ Keeping(was.practice, p)
      /\ \A i \in 1..Len(keys) : Absorbed(p, keys[i], inc[keys[i]])
  BY <1>2, <1>3, MergedPractice
<1>8. /\ ReviewsOf(r) /\ DOMAIN was.reviews \subseteq DOMAIN r
      /\ \A k \in DOMAIN was.reviews : Lost(was.reviews[k].attempts, Learning!Tidied(r[k].attempts))
  <2>1. ReviewsOf(was.reviews) /\ ReviewsOf(b.learning.reviews)
    BY DEF BackedUp, LearningOf
  <2> QED BY <1>4, <2>1, MergedReviews
<1>9. v = [practice |-> p, reviews |-> r, reading |-> Learning!MergeReading(was.reading, b.learning.reading)]
  BY <1>1, <1>3, <1>4, <1>5 DEF Learning!MergeLearningImport
<1>10. LearningOf(v) /\ v.practice = p /\ v.reviews = r
  BY <1>7, <1>8, <1>9 DEF LearningOf
<1>11. LearningOf(w) /\ w.practice = p
  BY <1>6, <1>10, ValidatedLearning
<1>12. Learning!KeepsAttempts(was, "import", w)
  <2>1. \A k \in DOMAIN was.reviews :
           k \in DOMAIN v.reviews /\ Lost(was.reviews[k].attempts, Learning!Tidied(v.reviews[k].attempts))
    BY <1>8, <1>10
  <2>2. "import" # "record"
    OBVIOUS
  <2>3. Learning!KeepsAttempts(was, "import", Learning!Validated("learning", v))
    BY <1>10, <2>1, <2>2, AttemptsKept
  <2> QED BY <1>6, <2>3
<1>13. Learning!Written(was) \subseteq Learning!Written(w)
  BY <1>7, <1>11, TextsStay
<1>14. Learning!Written(b.learning) \subseteq Learning!Written(w)
  <2>1. SUFFICES ASSUME NEW k \in DOMAIN inc, inc[k].draft # ""
                 PROVE  \E o \in DOMAIN p : p[o].draft = inc[k].draft
    <3>1. Learning!Written(b.learning) = {inc[k].draft : k \in DOMAIN inc} \ {""}
      BY <1>1 DEF Learning!Written
    <3>2. Learning!Written(w) = {p[k].draft : k \in DOMAIN p} \ {""}
      BY <1>11 DEF Learning!Written
    <3> QED BY <3>1, <3>2
  <2>2. PICK i \in 1..Len(keys) : keys[i] = k
    BY <1>2
  <2>3. inc[k] \in Entries
    BY <1>2 DEF PracticeOf
  <2>4. Absorbed(p, k, inc[k])
    BY <1>7, <2>2
  <2> QED BY <1>7, <2>1, <2>3, <2>4, AbsorbedText
<1>15. \A k \in DOMAIN was.practice :
          was.practice[k].draft # "" => k \in DOMAIN w.practice /\ w.practice[k].draft = was.practice[k].draft
  BY <1>7, <1>11 DEF Keeping
<1>16. Learning!MergeLearningImport(w, b).practice = w.practice
  <2>1. Len(keys) \in Nat
    BY <1>2
  <2>2. Learning!MergePractice(p, inc, keys) = p
    BY <1>7, <2>1, MergedAgain
  <2> QED BY <1>1, <1>11, <2>2 DEF Learning!MergeLearningImport
<1>17. Learning!KeepsDrafts(was, "import", w) /\ Learning!HoldsBackup(b, w)
  BY <1>13, <1>14, <1>15, <1>16 DEF Learning!KeepsDrafts, Learning!HoldsBackup
<1> QED BY <1>5, <1>6, <1>11, <1>12, <1>17 DEF Learning!Keeps

-----------------------------------------------------------------------------
(* The tabs' work.                                                         *)

\* Whatever a tab has to itself, is about to write or to import is a value of its store.
HoldsValues(tab) ==
  /\ \A s \in Stores : tab.memory[s] # <<>> => ValueOf(s, Head(tab.memory[s]))
  /\ tab.writing # None => ValueOf(tab.writing.store, tab.writing.next)
  /\ tab.merging # None => BackedUp(tab.merging)

\* The inductive invariant of the tabs: what is kept, anywhere, is a value of its store.
WorkInv ==
  /\ TabsInv
  /\ page.clock \in Nat /\ page.changes \in Nat
  /\ \A s \in Stores : ValueOf(s, page.disk[s])
  /\ page.backup # None => BackedUp(page.backup)
  /\ \A t \in DOMAIN page.tabs : HoldsValues(page.tabs[t])

\* A tab reads a value of the store.
LEMMA ReadsValue ==
  ASSUME WorkInv, NEW t \in DOMAIN page.tabs, NEW s \in Stores
  PROVE  ValueOf(s, Learning!Read(t, s))
<1>1. HoldsValues(page.tabs[t]) /\ ValueOf(s, page.disk[s])
  BY DEF WorkInv
<1>2. Learning!Read(t, s) = IF page.tabs[t].memory[s] # <<>> THEN Head(page.tabs[t].memory[s]) ELSE page.disk[s]
  BY DEF Learning!Read, Learning!Held
<1> QED BY <1>1, <1>2 DEF HoldsValues

\* A step that makes no next value keeps all work.
LEMMA NothingMade ==
  ASSUME \A t \in DOMAIN page.tabs : \/ page'.tabs[t].writing = page.tabs[t].writing
                                     \/ page'.tabs[t].writing = None
  PROVE  Learning!ChangesKeep
BY DEF Learning!ChangesKeep, Learning!Open

\* What a change must keep of what the tab reads.
Kept(t, s, kind, next) ==
  /\ Learning!Keeps(s, Learning!Read(t, s), kind, next)
  /\ s = "learning" /\ kind = "import" => Learning!HoldsBackup(page.tabs[t].merging, next)

\* The next value of a store is made.
LEMMA ComputesWork ==
  ASSUME WorkInv, NEW t \in DOMAIN page.tabs, NEW s \in Stores, NEW kind, NEW value,
         Learning!Computes(t, s, kind, value),
         ValueOf(s, Learning!Validated(s, value)), Kept(t, s, kind, Learning!Validated(s, value)),
         kind = "import" /\ s = "progress" => page.backup # None
  PROVE  WorkInv' /\ Learning!ChangesKeep
<1>0. PICK next : next = Learning!Validated(s, value)
  OBVIOUS
<1>1. PICK w : w = [store |-> s, kind |-> kind, next |-> next]
  OBVIOUS
<1>2. PICK m : m = IF kind = "import" /\ s = "progress" THEN page.backup ELSE None
  OBVIOUS
<1>3. PICK n : n = IF Learning!Idle(t) THEN page.changes + 1 ELSE page.changes
  OBVIOUS
<1>4. page' = [page EXCEPT !.tabs[t].writing = w, !.tabs[t].merging = m, !.changes = n]
  BY <1>0, <1>1, <1>2, <1>3 DEF Learning!Computes
<1>5. TabsInv /\ TabsInv'
  BY ComputesTabs DEF WorkInv
<1>6. DOMAIN page = PageFields /\ \A u \in DOMAIN page.tabs : DOMAIN page.tabs[u] = TabFields
  BY <1>5 DEF TabsInv, TabOf
<1>7. /\ page'.disk = page.disk /\ page'.backup = page.backup /\ page'.clock = page.clock /\ page'.changes = n
      /\ page'.tabs = [page.tabs EXCEPT ![t] = [page.tabs[t] EXCEPT !.writing = w, !.merging = m]]
  BY <1>4, <1>6 DEF PageFields
<1>8. DOMAIN page'.tabs = DOMAIN page.tabs /\ \A u \in DOMAIN page.tabs : u # t => page'.tabs[u] = page.tabs[u]
  BY <1>7
<1>9. page'.tabs[t] = [page.tabs[t] EXCEPT !.writing = w, !.merging = m]
  BY <1>7
<1>10. page'.tabs[t].memory = page.tabs[t].memory /\ page'.tabs[t].writing = w /\ page'.tabs[t].merging = m
  BY <1>6, <1>9 DEF TabFields
<1>11. n \in Nat
  BY <1>3 DEF WorkInv
<1>12. HoldsValues(page'.tabs[t])
  <2>1. HoldsValues(page.tabs[t]) /\ (page.backup # None => BackedUp(page.backup))
    BY DEF WorkInv
  <2>2. w.store = s /\ w.next = next /\ ValueOf(s, next)
    BY <1>0, <1>1
  <2>3. m # None => BackedUp(m)
    BY <1>2, <2>1
  <2> QED BY <1>10, <2>1, <2>2, <2>3 DEF HoldsValues
<1>13. \A u \in DOMAIN page'.tabs : HoldsValues(page'.tabs[u])
  BY <1>8, <1>12 DEF WorkInv
<1>14. WorkInv'
  BY <1>5, <1>7, <1>11, <1>13 DEF WorkInv
<1>15. ASSUME NEW u \in DOMAIN page.tabs, page'.tabs[u].writing # page.tabs[u].writing
       PROVE  /\ u = t /\ page'.tabs[u].writing = w
              /\ w.store = s /\ w.kind = kind /\ w.next = next /\ Kept(t, s, kind, next)
  BY <1>0, <1>1, <1>8, <1>10, <1>15
<1>16. Learning!ChangesKeep
  BY <1>15, Zenon DEF Learning!ChangesKeep, Learning!Open, Kept
<1> QED BY <1>14, <1>16

\* An answer has the text it had; all answers have but one.
SameText(was, v, k) == k \in DOMAIN v.practice /\ v.practice[k].draft = was.practice[k].draft
OthersSame(was, v) == \A k, l \in DOMAIN was.practice : k # l => SameText(was, v, k) \/ SameText(was, v, l)

\* A reader's change of the learning data.
LEMMA LearningWork ==
  ASSUME WorkInv, NEW t \in DOMAIN page.tabs, NEW kind, kind # "import", NEW v, LearningOf(v),
         Learning!Changes(t, "learning", kind, v),
         kind \notin {"type", "delete"} => Learning!Written(Learning!Learning(t)) \subseteq Learning!Written(v),
         kind \in {"type", "delete"} => OthersSame(Learning!Learning(t), v),
         Learning!KeepsAttempts(Learning!Learning(t), kind, Learning!Validated("learning", v))
  PROVE  WorkInv' /\ Learning!ChangesKeep
<1>1. PICK w : w = Learning!Validated("learning", v)
  OBVIOUS
<1>2. LearningOf(w) /\ w.practice = v.practice
  BY <1>1, ValidatedLearning
<1>3. Learning!Written(w) = Learning!Written(v)
  BY <1>2 DEF Learning!Written
<1>4. Learning!KeepsDrafts(Learning!Learning(t), kind, w)
  BY <1>2, <1>3 DEF Learning!KeepsDrafts, OthersSame, SameText
<1>5. Kept(t, "learning", kind, w) /\ ValueOf("learning", w) /\ "learning" \in Stores
  BY <1>1, <1>2, <1>4 DEF Kept, Learning!Keeps, Learning!Learning, ValueOf, Stores
<1>6. Learning!Computes(t, "learning", kind, v)
  BY DEF Learning!Changes
<1> QED BY <1>1, <1>5, <1>6, ComputesWork

\* What a tab reads of the learning data.
LEMMA ReadsLearning ==
  ASSUME WorkInv, NEW t \in DOMAIN page.tabs
  PROVE  LearningOf(Learning!Learning(t))
<1>1. "learning" \in Stores
  BY DEF Stores
<1>2. ValueOf("learning", Learning!Read(t, "learning"))
  BY <1>1, ReadsValue
<1> QED BY <1>2 DEF ValueOf, Learning!Learning

\* The answer to a question.
LEMMA EntryOfQuestion ==
  ASSUME NEW q \in Questions, NEW v, LearningOf(v)
  PROVE  /\ Learning!QuestionKey(q) \in Keys
         /\ Learning!Entry(v, Learning!QuestionKey(q)) \in Entries
<1>1. PICK key : key = Learning!QuestionKey(q)
  OBVIOUS
<1>2. key \in Keys
  BY <1>1 DEF Learning!QuestionKey, Keys, Marks
<1>3. Learning!NewEntry \in Entries
  BY DEF Learning!NewEntry, Entries, Drafts, Ratings
<1>4. key \in DOMAIN v.practice => v.practice[key] \in Entries
  BY DEF LearningOf, PracticeOf
<1> QED BY <1>1, <1>2, <1>3, <1>4 DEF Learning!Entry

\* An answer is saved: typed anew, or with its text.
LEMMA SavedWork ==
  ASSUME WorkInv, NEW t \in DOMAIN page.tabs, NEW q \in Questions, NEW kind \in {"type", "assess"},
         NEW entry \in Entries, Learning!SavePractice(t, q, kind, entry),
         kind = "assess" => entry.draft = Learning!Entry(Learning!Learning(t), Learning!QuestionKey(q)).draft
  PROVE  WorkInv' /\ Learning!ChangesKeep
<1>1. PICK was : was = Learning!Learning(t)
  OBVIOUS
<1>2. PICK key : key = Learning!QuestionKey(q)
  OBVIOUS
<1>3. LearningOf(was) /\ key \in Keys
  BY <1>1, <1>2, ReadsLearning, EntryOfQuestion
<1>4. PICK saved : saved = [entry EXCEPT !.updatedAt = page.clock]
  OBVIOUS
<1>5. saved \in Entries /\ saved.draft = entry.draft
  BY <1>4 DEF Entries, WorkInv
<1>6. PICK p : p = Learning!Put(was.practice, key, saved)
  OBVIOUS
<1>7. /\ PracticeOf(p) /\ DOMAIN p = DOMAIN was.practice \cup {key}
      /\ p[key] = saved /\ \A k \in DOMAIN was.practice : k # key => p[k] = was.practice[k]
  <2>1. PracticeOf(was.practice)
    BY <1>3 DEF LearningOf
  <2> QED BY <1>3, <1>5, <1>6, <2>1, PutAnswer
<1>8. PICK v : v = [was EXCEPT !.practice = p]
  OBVIOUS
<1>9. LearningOf(v) /\ v.practice = p /\ v.reviews = was.reviews
  BY <1>3, <1>7, <1>8, OtherPractice
<1>10. Learning!Changes(t, "learning", kind, v)
  <2>1. Learning!Changes(t, "learning", kind,
            [Learning!Learning(t) EXCEPT !.practice =
                Learning!Put(@, Learning!QuestionKey(q), [entry EXCEPT !.updatedAt = Learning!Now])])
    BY Zenon DEF Learning!SavePractice
  <2>2. v = [was EXCEPT !.practice = Learning!Put(@, key, saved)]
    BY <1>6, <1>8
  <2> QED BY <1>1, <1>2, <1>4, <2>1, <2>2 DEF Learning!Now
<1>11. kind \notin {"type", "delete"} => Learning!Written(was) \subseteq Learning!Written(v)
  <2>1. SUFFICES ASSUME kind = "assess" PROVE Learning!Written(was) \subseteq Learning!Written(v)
    OBVIOUS
  <2>2. key \in DOMAIN was.practice => saved.draft = was.practice[key].draft
    BY <1>1, <1>2, <1>5, <2>1 DEF Learning!Entry
  <2>3. Keeping(was.practice, v.practice)
    BY <1>7, <1>9, <2>2 DEF Keeping
  <2> QED BY <2>3, TextsStay
<1>12. Learning!KeepsAttempts(was, kind, Learning!Validated("learning", v))
  BY <1>3, <1>9, SameReviews
<1>13. OthersSame(was, v)
  BY <1>7, <1>9 DEF OthersSame, SameText
<1>14. kind # "import"
  OBVIOUS
<1> QED BY <1>1, <1>9, <1>10, <1>11, <1>12, <1>13, <1>14, LearningWork

\* The reader types an answer,
LEMMA TypeWork ==
  ASSUME WorkInv, NEW t \in DOMAIN page.tabs, NEW q \in Questions, Learning!Type(t, q)
  PROVE  WorkInv' /\ Learning!ChangesKeep
<1>1. PICK entry : entry = Learning!Entry(Learning!Learning(t), Learning!QuestionKey(q))
  OBVIOUS
<1>2. entry \in Entries
  BY <1>1, ReadsLearning, EntryOfQuestion
<1>3. PICK text \in Texts \cup {""} : Learning!SavePractice(t, q, "type", [entry EXCEPT !.draft = text])
  BY <1>1, Zenon DEF Learning!Type
<1>4. PICK typed : typed = [entry EXCEPT !.draft = text]
  OBVIOUS
<1>5. typed \in Entries
  BY <1>2, <1>3, <1>4 DEF Entries, Drafts
<1>6. Learning!SavePractice(t, q, "type", typed) /\ "type" \in {"type", "assess"} /\ "type" # "assess"
  BY <1>3, <1>4
<1> QED BY <1>5, <1>6, SavedWork

\* and rates it.
LEMMA AssessWork ==
  ASSUME WorkInv, NEW t \in DOMAIN page.tabs, NEW q \in Questions, Learning!Assess(t, q)
  PROVE  WorkInv' /\ Learning!ChangesKeep
<1>1. PICK entry : entry = Learning!Entry(Learning!Learning(t), Learning!QuestionKey(q))
  OBVIOUS
<1>2. entry \in Entries
  BY <1>1, ReadsLearning, EntryOfQuestion
<1>3. PICK a \in Learning!Assessments : Learning!SavePractice(t, q, "assess", [entry EXCEPT !.assessment = a])
  BY <1>1, Zenon DEF Learning!Assess
<1>4. PICK rated : rated = [entry EXCEPT !.assessment = a]
  OBVIOUS
<1>5. rated \in Entries /\ rated.draft = entry.draft
  BY <1>2, <1>3, <1>4 DEF Entries, Ratings, Learning!Assessments
<1>6. Learning!SavePractice(t, q, "assess", rated) /\ "assess" \in {"type", "assess"}
  BY <1>3, <1>4
<1> QED BY <1>1, <1>5, <1>6, SavedWork

\* Deleting an answer deletes its review.
LEMMA DeleteWork ==
  ASSUME WorkInv, NEW t \in DOMAIN page.tabs, Learning!DeletePractice(t)
  PROVE  WorkInv' /\ Learning!ChangesKeep
<1>1. PICK was : was = Learning!Learning(t)
  OBVIOUS
<1>2. PICK key : Learning!Changes(t, "learning", "delete",
         [was EXCEPT !.practice = Learning!Restrict(@, DOMAIN @ \ {key}),
                     !.reviews = Learning!Restrict(@, DOMAIN @ \ {key})])
  BY <1>1, Zenon DEF Learning!DeletePractice
<1>3. LearningOf(was)
  BY <1>1, ReadsLearning
<1>4. PICK p : p = Learning!Restrict(was.practice, DOMAIN was.practice \ {key})
  OBVIOUS
<1>5. PICK r : r = Learning!Restrict(was.reviews, DOMAIN was.reviews \ {key})
  OBVIOUS
<1>6. PracticeOf(p) /\ DOMAIN p = DOMAIN was.practice \ {key} /\ \A k \in DOMAIN p : p[k] = was.practice[k]
  <2>1. p = [k \in DOMAIN was.practice \ {key} |-> was.practice[k]]
    BY <1>4 DEF Learning!Restrict
  <2>2. PracticeOf(was.practice)
    BY <1>3 DEF LearningOf
  <2>3. DOMAIN p = DOMAIN was.practice \ {key} /\ \A k \in DOMAIN p : p[k] = was.practice[k]
    BY <2>1
  <2>4. IsFiniteSet(DOMAIN was.practice \ {key})
    BY <2>2, FS_RemoveElement DEF PracticeOf
  <2>5. p \in [DOMAIN p -> Entries]
    BY <2>1, <2>2, <2>3 DEF PracticeOf
  <2> QED BY <2>2, <2>3, <2>4, <2>5 DEF PracticeOf
<1>7. ReviewsOf(r)
  <2>1. r = [k \in DOMAIN was.reviews \ {key} |-> was.reviews[k]]
    BY <1>5 DEF Learning!Restrict
  <2>2. \A k \in DOMAIN was.reviews : was.reviews[k] \in Reviews
    BY <1>3 DEF LearningOf, ReviewsOf
  <2> QED BY <2>1, <2>2 DEF ReviewsOf
<1>8. PICK v : v = [was EXCEPT !.practice = p, !.reviews = r]
  OBVIOUS
<1>9. LearningOf(v) /\ v.practice = p
  <2>1. was = [practice |-> was.practice, reviews |-> was.reviews, reading |-> was.reading]
    BY <1>3 DEF LearningOf
  <2>2. v = [practice |-> p, reviews |-> r, reading |-> was.reading]
    BY <1>8, <2>1
  <2> QED BY <1>6, <1>7, <2>2 DEF LearningOf
<1>10. Learning!Changes(t, "learning", "delete", v)
  <2>1. v = [was EXCEPT !.practice = Learning!Restrict(@, DOMAIN @ \ {key}),
                        !.reviews = Learning!Restrict(@, DOMAIN @ \ {key})]
    BY <1>4, <1>5, <1>8
  <2> QED BY <1>2, <2>1
<1>11. Learning!KeepsAttempts(was, "delete", Learning!Validated("learning", v))
  BY DEF Learning!KeepsAttempts
<1>12. OthersSame(was, v)
  BY <1>6, <1>9 DEF OthersSame, SameText
<1> QED BY <1>1, <1>9, <1>10, <1>11, <1>12, LearningWork

\* A copy and its original change places, and both texts stay.
LEMMA AdoptWork ==
  ASSUME WorkInv, NEW t \in DOMAIN page.tabs, Learning!AdoptPracticeAlternative(t)
  PROVE  WorkInv' /\ Learning!ChangesKeep
<1>1. PICK was : was = Learning!Learning(t)
  OBVIOUS
<1>2. PICK key, base :
        /\ {base, key} \subseteq DOMAIN was.practice
        /\ Learning!Changes(t, "learning", "adopt",
             [was EXCEPT !.practice =
                Learning!Put(Learning!Put(@, base, [was.practice[key] EXCEPT !.updatedAt = page.clock]),
                             key, [was.practice[base] EXCEPT !.updatedAt = page.clock])])
  BY <1>1, Zenon DEF Learning!AdoptPracticeAlternative, Learning!Now
<1>3. LearningOf(was) /\ PracticeOf(was.practice)
  BY <1>1, ReadsLearning DEF LearningOf
<1>4. PICK copied, moved : /\ copied = [was.practice[key] EXCEPT !.updatedAt = page.clock]
                           /\ moved = [was.practice[base] EXCEPT !.updatedAt = page.clock]
  OBVIOUS
<1>5. /\ copied \in Entries /\ copied.draft = was.practice[key].draft /\ key \in Keys /\ base \in Keys
      /\ moved \in Entries /\ moved.draft = was.practice[base].draft
  <2>1. /\ was.practice[key] \in Entries /\ was.practice[base] \in Entries /\ page.clock \in Nat
        /\ key \in Keys /\ base \in Keys
    BY <1>2, <1>3 DEF PracticeOf, WorkInv
  <2> QED BY <1>4, <2>1 DEF Entries
<1>6. PICK half : half = Learning!Put(was.practice, base, copied)
  OBVIOUS
<1>7. /\ PracticeOf(half) /\ DOMAIN half = DOMAIN was.practice \cup {base}
      /\ half[base] = copied /\ \A k \in DOMAIN was.practice : k # base => half[k] = was.practice[k]
  <2>1. PICK old : old = was.practice
    OBVIOUS
  <2>2. PracticeOf(old) /\ half = Learning!Put(old, base, copied)
    BY <1>3, <1>6, <2>1
  <2>3. /\ PracticeOf(half) /\ DOMAIN half = DOMAIN old \cup {base}
        /\ half[base] = copied /\ \A k \in DOMAIN old : k # base => half[k] = old[k]
    <3>0. PracticeOf(old) /\ base \in Keys /\ copied \in Entries
      BY <1>5, <2>2
    <3>1. /\ PracticeOf(Learning!Put(old, base, copied))
          /\ DOMAIN Learning!Put(old, base, copied) = DOMAIN old \cup {base}
          /\ Learning!Put(old, base, copied)[base] = copied
          /\ \A k \in DOMAIN old : k # base => Learning!Put(old, base, copied)[k] = old[k]
      BY <3>0, PutAnswer, Zenon
    <3> QED BY <2>2, <3>1
  <2> QED BY <2>1, <2>3
<1>8. PICK p : p = Learning!Put(half, key, moved)
  OBVIOUS
<1>9. /\ PracticeOf(p) /\ DOMAIN p = DOMAIN half \cup {key}
      /\ p[key] = moved /\ \A k \in DOMAIN half : k # key => p[k] = half[k]
  <2>0. PracticeOf(half) /\ key \in Keys /\ moved \in Entries
    BY <1>5, <1>7
  <2>1. /\ PracticeOf(Learning!Put(half, key, moved))
        /\ DOMAIN Learning!Put(half, key, moved) = DOMAIN half \cup {key}
        /\ Learning!Put(half, key, moved)[key] = moved
        /\ \A k \in DOMAIN half : k # key => Learning!Put(half, key, moved)[k] = half[k]
    BY <2>0, PutAnswer, Zenon
  <2> QED BY <1>8, <2>1
<1>10. PICK v : v = [was EXCEPT !.practice = p]
  OBVIOUS
<1>11. LearningOf(v) /\ v.practice = p /\ v.reviews = was.reviews
  BY <1>3, <1>9, <1>10, OtherPractice
<1>12. Learning!Changes(t, "learning", "adopt", v)
  <2>1. v = [was EXCEPT !.practice = Learning!Put(Learning!Put(@, base, copied), key, moved)]
    BY <1>6, <1>8, <1>10
  <2> QED BY <1>2, <1>4, <2>1
<1>13. Learning!Written(was) \subseteq Learning!Written(v)
  <2>1. ASSUME NEW k \in DOMAIN was.practice PROVE \E o \in DOMAIN p : p[o].draft = was.practice[k].draft
    <3>1. key \in DOMAIN p /\ base \in DOMAIN p /\ k \in DOMAIN p
      BY <1>7, <1>9
    <3>2. CASE k = base
      BY <1>5, <1>9, <3>1, <3>2
    <3>3. CASE k = key /\ k # base
      <4>1. p[base] = copied
        BY <1>7, <1>9, <3>3
      <4> QED BY <1>5, <3>1, <3>3, <4>1
    <3>4. CASE k # key /\ k # base
      <4>1. p[k] = was.practice[k]
        BY <1>7, <1>9, <3>4
      <4> QED BY <3>1, <4>1
    <3> QED BY <3>2, <3>3, <3>4
  <2> QED BY <1>11, <2>1 DEF Learning!Written
<1>14. Learning!KeepsAttempts(was, "adopt", Learning!Validated("learning", v))
  BY <1>3, <1>11, SameReviews
<1> QED BY <1>1, <1>11, <1>12, <1>13, <1>14, LearningWork

\* The next interval is one of the intervals, and none shorter for a confident answer.
LEMMA IntervalsGrow ==
  ASSUME NEW n \in Learning!Intervals, NEW assessment
  PROVE  /\ Learning!NextInterval(assessment, n) \in Learning!Intervals
         /\ assessment = "confident" => Learning!NextInterval(assessment, n) >= n
<1>1. n \in {0, 1, 3, 7, 14, 28, 30}
  BY DEF Learning!Intervals
<1>2. PICK d : d = Learning!Min({30, n * 2})
  OBVIOUS
<1>3. d \in {30, n * 2} /\ d <= 30 /\ d <= n * 2
  <2>1. \E x \in {30, n * 2} : \A y \in {30, n * 2} : x <= y
    <3>1. n * 2 \in Nat
      BY <1>1
    <3>2. 30 <= n * 2 \/ n * 2 <= 30
      BY <3>1
    <3>3. 30 <= 30 /\ n * 2 <= n * 2
      BY <3>1
    <3> QED BY <3>2, <3>3
  <2> QED BY <1>2, <2>1 DEF Learning!Min
<1>4. n >= 7 => d \in {14, 28, 30} /\ d >= n
  BY <1>1, <1>3
<1>5. PICK next : next = Learning!NextInterval(assessment, n)
  OBVIOUS
<1>6. next = CASE assessment = "review" -> 1
               [] assessment = "partial" -> 3
               [] OTHER -> IF n < 7 THEN 7 ELSE d
  BY <1>2, <1>5 DEF Learning!NextInterval
<1>7. next \in {1, 3, 7, 14, 28, 30}
  BY <1>1, <1>4, <1>6
<1>8. assessment = "confident" => next >= n
  BY <1>1, <1>4, <1>6
<1> QED BY <1>5, <1>7, <1>8 DEF Learning!Intervals

\* A change of one review, of an answer that is rated or not.
LEMMA ReviewWork ==
  ASSUME WorkInv, NEW t \in DOMAIN page.tabs, NEW kind \in {"record", "move"}, NEW key, NEW r \in Reviews,
         NEW was, was = Learning!Learning(t), LeavesReview(was, kind, key, r),
         Learning!Changes(t, "learning", kind, OneChanged(was, key, r))
  PROVE  WorkInv' /\ Learning!ChangesKeep
<1>1. LearningOf(was)
  BY ReadsLearning
<1>2. PICK v : v = OneChanged(was, key, r)
  OBVIOUS
<1>3. /\ LearningOf(OneChanged(was, key, r)) /\ OneChanged(was, key, r).practice = was.practice
      /\ Learning!KeepsAttempts(was, kind, Learning!Validated("learning", OneChanged(was, key, r)))
  BY <1>1, OneReview, Zenon
<1>4. /\ LearningOf(v) /\ v.practice = was.practice
      /\ Learning!KeepsAttempts(was, kind, Learning!Validated("learning", v))
  BY <1>2, <1>3
<1>5. Learning!Written(was) \subseteq Learning!Written(v)
  BY <1>4 DEF Learning!Written
<1>6. kind # "import" /\ Learning!Changes(t, "learning", kind, v)
  BY <1>2
<1> QED BY <1>4, <1>5, <1>6, LearningWork

\* An attempt is added to the earlier ones.
LEMMA RecordWork ==
  ASSUME WorkInv, NEW t \in DOMAIN page.tabs, NEW q \in Questions, Learning!RecordPracticeAttempt(t, q)
  PROVE  WorkInv' /\ Learning!ChangesKeep
<1>1. PICK was : was = Learning!Learning(t)
  OBVIOUS
<1>2. PICK key : key = Learning!QuestionKey(q)
  OBVIOUS
<1>3. PICK saved : saved = Learning!Entry(was, key)
  OBVIOUS
<1>4. LearningOf(was) /\ saved \in Entries /\ page.clock \in Nat /\ page.changes \in Nat
  BY <1>1, <1>2, <1>3, ReadsLearning, EntryOfQuestion DEF WorkInv
<1>5. PICK previous : previous = IF key \in DOMAIN was.reviews THEN was.reviews[key]
                                 ELSE [attempts |-> <<>>, intervalDays |-> 0]
  OBVIOUS
<1>6. /\ previous.attempts \in Seq(Attempts) /\ previous.intervalDays \in Learning!Intervals
      /\ key \in DOMAIN was.reviews => previous = was.reviews[key]
  <2>1. CASE key \in DOMAIN was.reviews
    <3>1. was.reviews[key] \in Reviews
      BY <1>4, <2>1 DEF LearningOf, ReviewsOf
    <3> QED BY <1>5, <2>1, <3>1 DEF Reviews
  <2>2. CASE key \notin DOMAIN was.reviews
    BY <1>5, <2>2 DEF Learning!Intervals
  <2> QED BY <2>1, <2>2
<1>7. PICK answerViewed \in BOOLEAN :
        LET days == Learning!NextInterval(saved.assessment, previous.intervalDays)
            attempt == [id |-> page.changes, at |-> page.clock, draft |-> saved.draft,
                        assessment |-> saved.assessment, answerViewed |-> answerViewed]
        IN /\ saved.assessment # ""
           /\ Learning!Changes(t, "learning", "record",
                [was EXCEPT !.reviews =
                    Learning!Put(@, key, [attempts |-> Append(previous.attempts, attempt), intervalDays |-> days,
                                          dueAt |-> page.clock + days, updatedAt |-> page.clock])])
  BY <1>1, <1>2, <1>3, <1>5, Zenon DEF Learning!RecordPracticeAttempt, Learning!Now
<1>8. PICK days : days = Learning!NextInterval(saved.assessment, previous.intervalDays)
  OBVIOUS
<1>9. PICK attempt : attempt = [id |-> page.changes, at |-> page.clock, draft |-> saved.draft,
                                assessment |-> saved.assessment, answerViewed |-> answerViewed]
  OBVIOUS
<1>10. PICK attempts : attempts = Append(previous.attempts, attempt)
  OBVIOUS
<1>11. PICK r : r = [attempts |-> attempts, intervalDays |-> days,
                     dueAt |-> page.clock + days, updatedAt |-> page.clock]
  OBVIOUS
<1>12. /\ saved.assessment # ""
       /\ Learning!Changes(t, "learning", "record", [was EXCEPT !.reviews = Learning!Put(@, key, r)])
  BY <1>7, <1>8, <1>9, <1>10, <1>11
<1>13. attempt \in Attempts
  BY <1>4, <1>9 DEF Attempts, Entries
<1>14. attempts \in Seq(Attempts) /\ Among(previous.attempts) \subseteq Among(attempts)
  <2>1. PICK s : s = previous.attempts
    OBVIOUS
  <2>2. s \in Seq(Attempts) /\ attempts = Append(s, attempt)
    BY <1>6, <1>10, <2>1
  <2>3. /\ attempts \in Seq(Attempts) /\ Len(attempts) = Len(s) + 1 /\ Len(s) \in Nat
        /\ \A i \in 1..Len(s) : attempts[i] = s[i]
    BY <1>13, <2>2
  <2>4. \A i \in 1..Len(s) : i \in 1..Len(attempts)
    BY <2>3
  <2>5. DOMAIN s = 1..Len(s) /\ DOMAIN attempts = 1..Len(attempts)
    BY <2>2, <2>3
  <2>6. Among(s) \subseteq Among(attempts)
    BY <2>3, <2>4, <2>5 DEF Among
  <2> QED BY <2>1, <2>3, <2>6
<1>15. days \in Learning!Intervals /\ (saved.assessment = "confident" => days >= previous.intervalDays)
  BY <1>6, <1>8, IntervalsGrow
<1>16. r \in Reviews /\ r.attempts = attempts /\ r.intervalDays = days
  <2>1. page.clock + days \in Nat
    <3>1. days \in Nat
      BY <1>15 DEF Learning!Intervals
    <3> QED BY <1>4, <3>1
  <2> QED BY <1>4, <1>11, <1>14, <1>15, <2>1 DEF Reviews
<1>17. key \in DOMAIN was.reviews => Among(was.reviews[key].attempts) \subseteq Among(r.attempts)
  BY <1>6, <1>14, <1>16
<1>18. ASSUME key \in DOMAIN was.reviews, was.practice[key].assessment = "confident"
       PROVE  r.intervalDays >= was.reviews[key].intervalDays
  <2>1. key \in DOMAIN was.practice
    BY <1>3, <1>12 DEF Learning!Entry, Learning!NewEntry
  <2>2. saved.assessment = "confident"
    BY <1>3, <1>18, <2>1 DEF Learning!Entry
  <2> QED BY <1>6, <1>15, <1>16, <1>18, <2>2
<1>19. LeavesReview(was, "record", key, r)
  BY <1>17, <1>18 DEF LeavesReview
<1>20. "record" \in {"record", "move"} /\ Learning!Changes(t, "learning", "record", OneChanged(was, key, r))
  BY <1>12 DEF OneChanged
<1> QED BY <1>1, <1>16, <1>19, <1>20, ReviewWork

\* A review is postponed or due at once.
LEMMA MoveReviewWork ==
  ASSUME WorkInv, NEW t \in DOMAIN page.tabs, NEW q \in Questions, Learning!MoveReview(t, q)
  PROVE  WorkInv' /\ Learning!ChangesKeep
<1>1. PICK was : was = Learning!Learning(t)
  OBVIOUS
<1>2. PICK key : key = Learning!QuestionKey(q)
  OBVIOUS
<1>4. LearningOf(was) /\ page.clock \in Nat
  BY <1>1, ReadsLearning DEF WorkInv
<1>5. PICK previous : previous = IF key \in DOMAIN was.reviews THEN was.reviews[key]
                                 ELSE [attempts |-> <<>>, intervalDays |-> 0, dueAt |-> page.clock]
  OBVIOUS
<1>6. /\ previous.attempts \in Seq(Attempts) /\ previous.intervalDays \in Learning!Intervals
      /\ previous.dueAt \in Nat /\ (key \in DOMAIN was.reviews => previous = was.reviews[key])
  <2>1. CASE key \in DOMAIN was.reviews
    <3>1. was.reviews[key] \in Reviews
      BY <1>4, <2>1 DEF LearningOf, ReviewsOf
    <3> QED BY <1>5, <2>1, <3>1 DEF Reviews
  <2>2. CASE key \notin DOMAIN was.reviews
    BY <1>4, <1>5, <2>2 DEF Learning!Intervals
  <2> QED BY <2>1, <2>2
<1>7. PICK action \in {"postpone", "reset"} :
        Learning!Changes(t, "learning", "move",
          [was EXCEPT !.reviews =
             Learning!Put(@, key, [attempts |-> previous.attempts, updatedAt |-> page.clock,
                  dueAt |-> IF action = "postpone" THEN Learning!Max({page.clock, previous.dueAt}) + 1 ELSE page.clock,
                  intervalDays |-> IF action = "postpone" THEN previous.intervalDays ELSE 0])])
  BY <1>1, <1>2, <1>5, Zenon DEF Learning!MoveReview, Learning!Now
<1>8. PICK due, days :
        /\ due = IF action = "postpone" THEN Learning!Max({page.clock, previous.dueAt}) + 1 ELSE page.clock
        /\ days = IF action = "postpone" THEN previous.intervalDays ELSE 0
  OBVIOUS
<1>9. due \in Nat /\ days \in Learning!Intervals
  <2>1. Learning!Max({page.clock, previous.dueAt}) \in Nat
    <3>1. Learning!Max({page.clock, previous.dueAt}) = IF page.clock >= previous.dueAt THEN page.clock ELSE previous.dueAt
      BY <1>4, <1>6, LaterOfTwo
    <3> QED BY <1>4, <1>6, <3>1
  <2>2. 0 \in Learning!Intervals
    BY DEF Learning!Intervals
  <2> QED BY <1>4, <1>6, <1>8, <2>1, <2>2
<1>10. PICK r : r = [attempts |-> previous.attempts, updatedAt |-> page.clock, dueAt |-> due, intervalDays |-> days]
  OBVIOUS
<1>11. r \in Reviews /\ r.attempts = previous.attempts
  BY <1>4, <1>6, <1>9, <1>10 DEF Reviews
<1>12. Learning!Changes(t, "learning", "move", [was EXCEPT !.reviews = Learning!Put(@, key, r)])
  BY <1>7, <1>8, <1>10
<1>13. key \in DOMAIN was.reviews => Among(was.reviews[key].attempts) \subseteq Among(r.attempts)
  BY <1>6, <1>11
<1>14. LeavesReview(was, "move", key, r)
  BY <1>13 DEF LeavesReview
<1>15. "move" \in {"record", "move"} /\ Learning!Changes(t, "learning", "move", OneChanged(was, key, r))
  BY <1>12 DEF OneChanged
<1> QED BY <1>1, <1>11, <1>14, <1>15, ReviewWork

\* The place in the lesson is no one's work.
LEMMA ReadingWork ==
  ASSUME WorkInv, NEW t \in DOMAIN page.tabs, Learning!SaveReading(t)
  PROVE  WorkInv' /\ Learning!ChangesKeep
<1>1. PICK was : was = Learning!Learning(t)
  OBVIOUS
<1>2. PICK reading : Learning!Changes(t, "learning", "read", [was EXCEPT !.reading = reading])
  BY <1>1, Zenon DEF Learning!SaveReading
<1>3. PICK v : v = [was EXCEPT !.reading = reading]
  OBVIOUS
<1>4. LearningOf(was)
  BY <1>1, ReadsLearning
<1>5. LearningOf(v) /\ v.practice = was.practice /\ v.reviews = was.reviews
  <2>1. was = [practice |-> was.practice, reviews |-> was.reviews, reading |-> was.reading]
    BY <1>4 DEF LearningOf
  <2>2. v = [practice |-> was.practice, reviews |-> was.reviews, reading |-> reading]
    BY <1>3, <2>1
  <2> QED BY <1>4, <2>2 DEF LearningOf
<1>6. Learning!Written(was) \subseteq Learning!Written(v)
  BY <1>5 DEF Learning!Written
<1>7. Learning!KeepsAttempts(was, "read", Learning!Validated("learning", v))
  BY <1>4, <1>5, SameReviews
<1> QED BY <1>1, <1>2, <1>3, <1>5, <1>6, <1>7, LearningWork

\* What a tab reads of the progress.
LEMMA ReadsProgress ==
  ASSUME WorkInv, NEW t \in DOMAIN page.tabs
  PROVE  ProgressOf(Learning!Read(t, "progress"))
<1>1. "progress" \in Stores
  BY DEF Stores
<1>2. ValueOf("progress", Learning!Read(t, "progress"))
  BY <1>1, ReadsValue
<1> QED BY <1>2 DEF ValueOf

\* A flag is turned,
LEMMA ToggleWork ==
  ASSUME WorkInv, NEW t \in DOMAIN page.tabs, Learning!Toggle(t)
  PROVE  WorkInv' /\ Learning!ChangesKeep
<1>1. PICK flag \in Flags :
        Learning!Changes(t, "progress", "toggle", [Learning!Read(t, "progress") EXCEPT ![flag] = ~@])
  BY Zenon DEF Learning!Toggle
<1>2. PICK v : v = [Learning!Read(t, "progress") EXCEPT ![flag] = ~@]
  OBVIOUS
<1>3. ProgressOf(v) /\ \A f \in Flags : f # flag => v[f] = Learning!Read(t, "progress")[f]
  BY <1>2, ReadsProgress DEF ProgressOf
<1>4. Learning!Computes(t, "progress", "toggle", v) /\ Learning!Validated("progress", v) = v
  BY <1>1, <1>2 DEF Learning!Changes, Learning!Validated
<1>5. ValueOf("progress", v) /\ Kept(t, "progress", "toggle", v) /\ "progress" \in Stores
  BY <1>3 DEF ValueOf, Kept, Learning!Keeps, Learning!KeepsFlags, Stores
<1> QED BY <1>4, <1>5, ComputesWork

\* and those of a backup are added to the reader's.
LEMMA ConfirmWork ==
  ASSUME WorkInv, NEW t \in DOMAIN page.tabs, Learning!Confirm(t)
  PROVE  WorkInv' /\ Learning!ChangesKeep
<1>1. PICK was, b : was = Learning!Read(t, "progress") /\ b = page.backup.progress
  OBVIOUS
<1>2. PICK v : v = Learning!ImportProgress(was, b)
  OBVIOUS
<1>3. page.backup # None /\ Learning!Computes(t, "progress", "import", v)
  BY <1>1, <1>2 DEF Learning!Confirm, Learning!Changes
<1>4. was \in [Flags -> BOOLEAN] /\ b \in [Flags -> BOOLEAN]
  BY <1>1, <1>3, ReadsProgress DEF WorkInv, BackedUp, ProgressOf
<1>5. v = [flag \in Flags |-> was[flag] \/ b[flag]]
  BY <1>2 DEF Learning!ImportProgress
<1>6. ProgressOf(v) /\ \A flag \in Flags : was[flag] => v[flag]
  BY <1>4, <1>5 DEF ProgressOf
<1>7. Learning!Validated("progress", v) = v
  BY DEF Learning!Validated
<1>8. ValueOf("progress", v) /\ Kept(t, "progress", "import", v) /\ "progress" \in Stores
  BY <1>1, <1>6 DEF ValueOf, Kept, Learning!Keeps, Learning!KeepsFlags, Stores
<1> QED BY <1>3, <1>7, <1>8, ComputesWork

\* Its answers are merged into those of the reader.
LEMMA MergeWork ==
  ASSUME WorkInv, NEW t \in DOMAIN page.tabs, Learning!MergeLearning(t)
  PROVE  WorkInv' /\ Learning!ChangesKeep
<1>1. PICK was, b : was = Learning!Learning(t) /\ b = page.tabs[t].merging
  OBVIOUS
<1>2. PICK v : v = Learning!MergeLearningImport(was, b)
  OBVIOUS
<1>3. PICK w : w = Learning!Validated("learning", v)
  OBVIOUS
<1>4. b # None /\ Learning!Computes(t, "learning", "import", v)
  BY <1>1, <1>2 DEF Learning!MergeLearning
<1>5. LearningOf(was) /\ BackedUp(b)
  BY <1>1, <1>4, ReadsLearning DEF WorkInv, HoldsValues
<1>6. LearningOf(w) /\ Learning!Keeps("learning", was, "import", w) /\ Learning!HoldsBackup(b, w)
  BY <1>2, <1>3, <1>5, ImportKeeps
<1>7. ValueOf("learning", w) /\ Kept(t, "learning", "import", w) /\ "learning" \in Stores
  BY <1>1, <1>6 DEF ValueOf, Kept, Learning!Learning, Stores
<1> QED BY <1>3, <1>4, <1>7, ComputesWork

\* The keys of the answers, in any order.
LEMMA KeysInOrder ==
  ASSUME NEW S, IsFiniteSet(S), NEW keys \in Learning!SetToSeqs(S)
  PROVE  keys \in Seq(S) /\ \A k \in S : \E i \in 1..Len(keys) : keys[i] = k
<1>1. PICK n : n = Cardinality(S)
  OBVIOUS
<1>2. n \in Nat /\ Learning!Cardinality(S) = n
  BY <1>1, FS_CardinalityType, CountedAlike
<1>3. keys \in [1..n -> S] /\ (\A i, j \in 1..n : i # j => keys[i] # keys[j])
  BY <1>2 DEF Learning!SetToSeqs
<1>4. keys \in Injection(1..n, S)
  BY <1>3 DEF Injection, IsInjective
<1>5. Cardinality(1..n) = n
  BY <1>2, FS_Interval
<1>6. keys \in Surjection(1..n, S)
  BY <1>1, <1>2, <1>4, <1>5, FS_Injection
<1>7. keys \in Seq(S) /\ Len(keys) = n
  BY <1>2, <1>3
<1> QED BY <1>6, <1>7 DEF Surjection

\* A backup has what the tab reads.
LEMMA ExportWork ==
  ASSUME WorkInv, NEW t \in DOMAIN page.tabs, Learning!Export(t)
  PROVE  WorkInv' /\ Learning!ChangesKeep
<1>1. PICK learning, progress : learning = Learning!Learning(t) /\ progress = Learning!Read(t, "progress")
  OBVIOUS
<1>2. PICK keys \in Learning!SetToSeqs(DOMAIN learning.practice) :
        page' = [page EXCEPT !.backup = Learning!BackupOf(learning, keys, progress), !.changes = @ + 1]
  BY <1>1, Zenon DEF Learning!Export
<1>3. LearningOf(learning) /\ ProgressOf(progress)
  BY <1>1, ReadsLearning, ReadsProgress
<1>4. PICK b : b = Learning!BackupOf(learning, keys, progress)
  OBVIOUS
<1>5. BackedUp(b)
  <2>1. IsFiniteSet(DOMAIN learning.practice)
    BY <1>3 DEF LearningOf, PracticeOf
  <2>2. /\ keys \in Seq(DOMAIN learning.practice)
        /\ \A k \in DOMAIN learning.practice : \E i \in 1..Len(keys) : keys[i] = k
    BY <2>1, KeysInOrder
  <2>3. b.learning = learning /\ b.keys = keys /\ b.progress = progress
    BY <1>4 DEF Learning!BackupOf
  <2> QED BY <1>3, <2>2, <2>3 DEF BackedUp
<1>6. TabsInv'
  <2>1. Learning!Manages(t)
    BY DEF Learning!Manages
  <2> QED BY <2>1, ManagesTabs DEF WorkInv
<1>7. /\ page'.disk = page.disk /\ page'.backup = b /\ page'.clock = page.clock
      /\ page'.changes = page.changes + 1 /\ page'.tabs = page.tabs
  BY <1>2, <1>4 DEF WorkInv, TabsInv, PageFields
<1>8. page.changes + 1 \in Nat
  BY DEF WorkInv
<1>9. WorkInv'
  BY <1>5, <1>6, <1>7, <1>8 DEF WorkInv
<1> QED BY <1>7, <1>9, NothingMade

\* The work of a tab that opens is what is stored.
LEMMA FreshValues ==
  ASSUME NEW disk, DOMAIN disk = Stores, NEW probe
  PROVE  HoldsValues(Learning!Fresh(disk, probe)) /\ Learning!Fresh(disk, probe).writing = None
<1>1. PICK tab : tab = Learning!Fresh(disk, probe)
  OBVIOUS
<1>2. /\ tab.memory = [s \in Stores |-> <<>>] /\ tab.writing = None /\ tab.merging = None
  BY <1>1 DEF Learning!Fresh, Stores, Learning!Stores
<1>3. HoldsValues(tab)
  BY <1>2 DEF HoldsValues
<1> QED BY <1>1, <1>2, <1>3

\* A tab is closed and opened anew.
LEMMA ReopenWork ==
  ASSUME WorkInv, NEW t \in DOMAIN page.tabs, Learning!Reopen(t)
  PROVE  WorkInv' /\ Learning!ChangesKeep
<1>0. PICK probe \in BOOLEAN :
        \E failures :
           page' = [page EXCEPT !.tabs[t] = Learning!Fresh(page.disk, probe), !.failures = failures]
  BY Zenon DEF Learning!Reopen
<1>1. PICK failures :
        page' = [page EXCEPT !.tabs[t] = Learning!Fresh(page.disk, probe), !.failures = failures]
  BY <1>0
<1>2. PICK tab : tab = Learning!Fresh(page.disk, probe)
  OBVIOUS
<1>3. HoldsValues(tab) /\ tab.writing = None
  BY <1>2, FreshValues DEF WorkInv, TabsInv
<1>4. /\ page'.disk = page.disk /\ page'.backup = page.backup /\ page'.clock = page.clock
      /\ page'.changes = page.changes /\ page'.tabs = [page.tabs EXCEPT ![t] = tab]
  BY <1>1, <1>2 DEF WorkInv, TabsInv, PageFields
<1>5. DOMAIN page'.tabs = DOMAIN page.tabs /\ \A u \in DOMAIN page.tabs : page'.tabs[u] = IF u = t THEN tab ELSE page.tabs[u]
  BY <1>4
<1>6. TabsInv'
  BY ReopenTabs DEF WorkInv
<1>7. \A u \in DOMAIN page'.tabs : HoldsValues(page'.tabs[u])
  BY <1>3, <1>5 DEF WorkInv
<1>8. WorkInv'
  BY <1>4, <1>6, <1>7 DEF WorkInv
<1>9. Learning!ChangesKeep
  BY <1>3, <1>5, NothingMade
<1> QED BY <1>8, <1>9

\* A storage event drops what a tab has to itself.
LEMMA StorageWork ==
  ASSUME WorkInv, NEW t \in DOMAIN page.tabs, Learning!HandleStorage(t)
  PROVE  WorkInv' /\ Learning!ChangesKeep
<1>1. PICK s \in Stores : page' = [page EXCEPT !.tabs[t] = Learning!Heard(@, s, page.disk)]
  BY DEF Learning!HandleStorage, Learning!Stores, Stores
<1>2. PICK old, tab : old = page.tabs[t] /\ tab = Learning!Heard(old, s, page.disk)
  OBVIOUS
<1>3. TabOf(old) /\ HoldsValues(old)
  BY <1>2 DEF WorkInv, TabsInv
<1>4. /\ tab.memory = [old.memory EXCEPT ![s] = <<>>]
      /\ tab.writing = old.writing /\ tab.merging = old.merging
  BY <1>2, <1>3 DEF TabOf, TabFields, Learning!Heard
<1>5. HoldsValues(tab)
  <2>1. ASSUME NEW r \in Stores, tab.memory[r] # <<>> PROVE ValueOf(r, Head(tab.memory[r]))
    <3>1. r # s /\ tab.memory[r] = old.memory[r]
      BY <1>3, <1>4, <2>1 DEF TabOf
    <3> QED BY <1>3, <2>1, <3>1 DEF HoldsValues
  <2> QED BY <1>3, <1>4, <2>1 DEF HoldsValues
<1>6. /\ page'.disk = page.disk /\ page'.backup = page.backup /\ page'.clock = page.clock
      /\ page'.changes = page.changes /\ page'.tabs = [page.tabs EXCEPT ![t] = tab]
  BY <1>1, <1>2 DEF WorkInv, TabsInv, PageFields
<1>7. DOMAIN page'.tabs = DOMAIN page.tabs /\ \A u \in DOMAIN page.tabs : page'.tabs[u] = IF u = t THEN tab ELSE page.tabs[u]
  BY <1>6
<1>8. TabsInv'
  BY StorageTabs DEF WorkInv
<1>9. \A u \in DOMAIN page'.tabs : HoldsValues(page'.tabs[u])
  BY <1>5, <1>7 DEF WorkInv
<1>10. WorkInv'
  BY <1>6, <1>8, <1>9 DEF WorkInv
<1>11. Learning!ChangesKeep
  BY <1>2, <1>4, <1>7, NothingMade
<1> QED BY <1>10, <1>11

\* The next value is stored, or the tab has it to itself.
LEMMA WriteWork ==
  ASSUME WorkInv, NEW t \in DOMAIN page.tabs, Learning!Write(t)
  PROVE  WorkInv' /\ Learning!ChangesKeep
<1>1. PICK old, disk : old = page.tabs /\ disk = page.disk
  OBVIOUS
<1>2. PICK s, next : s = old[t].writing.store /\ next = old[t].writing.next
  OBVIOUS
<1>3. /\ DOMAIN disk = Stores /\ s \in Stores /\ ValueOf(s, next)
      /\ \A u \in DOMAIN old : TabOf(old[u]) /\ HoldsValues(old[u])
  BY <1>1, <1>2 DEF WorkInv, TabsInv, TabOf, HoldsValues, Learning!Write
<1>4. PICK ok \in BOOLEAN :
        page' = [page EXCEPT
          !.disk[s] = IF ok THEN next ELSE @,
          !.failures = IF ok THEN @ ELSE @ + 1,
          !.tabs = [u \in DOMAIN old |-> IF u = t THEN Learning!Wrote(old[u], s, ok)
                                         ELSE IF ok /\ u # t /\ disk[s] # next THEN Learning!Told(old[u], s) ELSE old[u]]]
  BY <1>1, <1>2 DEF Learning!Write, Learning!Open
<1>5. /\ page'.disk = [disk EXCEPT ![s] = IF ok THEN next ELSE @]
      /\ page'.backup = page.backup /\ page'.clock = page.clock /\ page'.changes = page.changes
      /\ page'.tabs = [u \in DOMAIN old |-> IF u = t THEN Learning!Wrote(old[u], s, ok)
                                            ELSE IF ok /\ u # t /\ disk[s] # next THEN Learning!Told(old[u], s) ELSE old[u]]
  BY <1>1, <1>4 DEF WorkInv, TabsInv, PageFields
<1>6. ASSUME NEW tab, tab = Learning!Wrote(old[t], s, ok)
      PROVE  HoldsValues(tab) /\ tab.writing = None
  <2>1. PICK was : was = old[t]
    OBVIOUS
  <2>2. TabOf(was) /\ HoldsValues(was) /\ was.writing.next = next
    BY <1>1, <1>2, <1>3, <2>1
  <2>3. /\ tab.memory = [was.memory EXCEPT ![s] = IF ok THEN <<>> ELSE <<next>>]
        /\ tab.writing = None /\ tab.merging = was.merging
    BY <1>6, <2>1, <2>2 DEF TabOf, TabFields, Learning!Wrote
  <2>4. ASSUME NEW r \in Stores, tab.memory[r] # <<>> PROVE ValueOf(r, Head(tab.memory[r]))
    <3>1. CASE r = s
      <4>1. tab.memory[r] = IF ok THEN <<>> ELSE <<next>>
        BY <1>3, <2>2, <2>3, <3>1 DEF TabOf
      <4>2. tab.memory[r] = <<next>>
        BY <2>4, <4>1
      <4>3. Head(<<next>>) = next
        OBVIOUS
      <4> QED BY <1>3, <3>1, <4>2, <4>3
    <3>2. CASE r # s
      <4>1. tab.memory[r] = was.memory[r]
        BY <2>2, <2>3, <3>2 DEF TabOf
      <4> QED BY <2>2, <2>4, <4>1 DEF HoldsValues
    <3> QED BY <3>1, <3>2
  <2> QED BY <2>2, <2>3, <2>4 DEF HoldsValues
<1>7. ASSUME NEW u \in DOMAIN old, NEW tab, tab = Learning!Told(old[u], s)
      PROVE  HoldsValues(tab) /\ tab.writing = old[u].writing
  <2>1. PICK was : was = old[u]
    OBVIOUS
  <2>2. TabOf(was) /\ HoldsValues(was)
    BY <1>3, <2>1
  <2>3. tab.memory = was.memory /\ tab.writing = was.writing /\ tab.merging = was.merging
    BY <1>7, <2>1, <2>2 DEF TabOf, TabFields, Learning!Told
  <2> QED BY <2>1, <2>2, <2>3 DEF HoldsValues
<1>8. ASSUME NEW u \in DOMAIN old
      PROVE  /\ HoldsValues(page'.tabs[u])
             /\ \/ page'.tabs[u].writing = old[u].writing
                \/ page'.tabs[u].writing = None
  <2>1. page'.tabs[u] = IF u = t THEN Learning!Wrote(old[u], s, ok)
                        ELSE IF ok /\ u # t /\ disk[s] # next THEN Learning!Told(old[u], s) ELSE old[u]
    BY <1>5
  <2>2. CASE u = t
    BY <1>6, <2>1, <2>2
  <2>3. CASE u # t /\ ok /\ disk[s] # next
    BY <1>7, <2>1, <2>3
  <2>4. CASE u # t /\ ~ (ok /\ disk[s] # next)
    BY <1>3, <2>1, <2>4
  <2> QED BY <2>2, <2>3, <2>4
<1>9. DOMAIN page'.tabs = DOMAIN old
  BY <1>5
<1>10. \A r \in Stores : ValueOf(r, page'.disk[r])
  <2>1. ASSUME NEW r \in Stores PROVE ValueOf(r, page'.disk[r])
    <3>1. (page'.disk[r] = next /\ r = s) \/ page'.disk[r] = disk[r]
      BY <1>3, <1>5
    <3> QED BY <1>1, <1>3, <3>1 DEF WorkInv
  <2> QED BY <2>1
<1>11. TabsInv'
  BY WriteTabs DEF WorkInv
<1>12. WorkInv'
  BY <1>5, <1>8, <1>9, <1>10, <1>11 DEF WorkInv
<1>13. Learning!ChangesKeep
  BY <1>1, <1>8, NothingMade
<1> QED BY <1>12, <1>13

\* Time passes.
LEMMA TickWork ==
  ASSUME WorkInv, Learning!Tick
  PROVE  WorkInv' /\ Learning!ChangesKeep
<1>1. page' = [page EXCEPT !.clock = @ + 1]
  BY DEF Learning!Tick
<1>2. /\ DOMAIN page' = DOMAIN page /\ page'.disk = page.disk /\ page'.tabs = page.tabs
      /\ page'.backup = page.backup /\ page'.changes = page.changes /\ page'.clock = page.clock + 1
  BY <1>1 DEF WorkInv, TabsInv, PageFields
<1>3. TabsInv'
  BY <1>2 DEF WorkInv, TabsInv
<1>4. page.clock + 1 \in Nat
  BY DEF WorkInv
<1>5. WorkInv'
  BY <1>2, <1>3, <1>4 DEF WorkInv
<1> QED BY <1>2, <1>5, NothingMade

\* A store in which there is nothing yet.
LEMMA NothingYet ==
  ASSUME NEW empty, empty = <<>>
  PROVE  /\ DOMAIN empty = {} /\ PracticeOf(empty) /\ ReviewsOf(empty) /\ empty \in Seq(Attempts)
         /\ Learning!Empty = [practice |-> empty, reviews |-> empty, reading |-> None]
         /\ LearningOf(Learning!Empty)
<1>1. DOMAIN empty = {} /\ empty \in Seq(Attempts)
  OBVIOUS
<1>2. \A S : empty \in [{} -> S]
  OBVIOUS
<1>3. PracticeOf(empty) /\ ReviewsOf(empty)
  BY <1>1, <1>2, FS_EmptySet DEF PracticeOf, ReviewsOf
<1>4. Learning!Empty = [practice |-> empty, reviews |-> empty, reading |-> None]
  BY DEF Learning!Empty
<1> QED BY <1>1, <1>3, <1>4 DEF LearningOf

\* Or an answer is there, or was brought.
LEMMA AnsweredValue ==
  ASSUME NEW q \in Questions, NEW text \in Drafts
  PROVE  /\ LearningOf(Learning!Answered(q, text))
         /\ BackedUp(Learning!BackupOf(Learning!Answered(q, text), <<Learning!QuestionKey(q)>>, Learning!NoProgress))
<1>1. PICK empty : empty = <<>>
  OBVIOUS
<1>2. PICK key : key = Learning!QuestionKey(q)
  OBVIOUS
<1>3. key \in Keys
  BY <1>2 DEF Learning!QuestionKey, Keys, Marks
<1>4. /\ DOMAIN empty = {} /\ PracticeOf(empty) /\ ReviewsOf(empty) /\ empty \in Seq(Attempts)
      /\ Learning!Empty = [practice |-> empty, reviews |-> empty, reading |-> None]
  BY <1>1, NothingYet
<1>5. PICK entry : entry = [Learning!NewEntry EXCEPT !.draft = text, !.assessment = "confident"]
  OBVIOUS
<1>6. entry \in Entries
  BY <1>5 DEF Learning!NewEntry, Entries, Ratings
<1>7. PICK p : p = Learning!Put(empty, key, entry)
  OBVIOUS
<1>8. PracticeOf(p) /\ DOMAIN p = DOMAIN empty \cup {key}
  BY <1>3, <1>4, <1>6, <1>7, PutAnswer
<1>9. PICK review : review = [attempts |-> empty, dueAt |-> 0, intervalDays |-> 28, updatedAt |-> 0]
  OBVIOUS
<1>10. review \in Reviews
  BY <1>4, <1>9 DEF Reviews, Learning!Intervals
<1>11. PICK r : r = Learning!Put(empty, key, review)
  OBVIOUS
<1>12. ReviewsOf(r)
  <2>1. r = [k \in {key} |-> review]
    BY <1>4, <1>11 DEF Learning!Put
  <2> QED BY <1>10, <2>1 DEF ReviewsOf
<1>13. PICK v : v = Learning!Answered(q, text)
  OBVIOUS
<1>14. v = [practice |-> p, reviews |-> r, reading |-> None]
  BY <1>1, <1>2, <1>4, <1>5, <1>7, <1>9, <1>11, <1>13 DEF Learning!Answered
<1>15. LearningOf(v)
  BY <1>8, <1>12, <1>14 DEF LearningOf
<1>16. PICK b : b = Learning!BackupOf(v, <<key>>, Learning!NoProgress)
  OBVIOUS
<1>17. b.learning = v /\ b.keys = <<key>> /\ b.progress = Learning!NoProgress
  BY <1>16 DEF Learning!BackupOf
<1>18. b.keys \in Seq(DOMAIN p) /\ \A k \in DOMAIN p : \E i \in 1..Len(b.keys) : b.keys[i] = k
  BY <1>4, <1>8, <1>17
<1>19. ProgressOf(b.progress)
  BY <1>17 DEF ProgressOf, Learning!NoProgress
<1>20. BackedUp(b)
  BY <1>14, <1>15, <1>17, <1>18, <1>19 DEF BackedUp
<1> QED BY <1>2, <1>13, <1>15, <1>16, <1>20

\* So what was brought can be imported.
LEMMA BroughtValue ==
  ASSUME NEW b \in Learning!Brought, b # None
  PROVE  BackedUp(b)
<1> DEFINE Of(q, text) ==
             Learning!BackupOf(Learning!Answered(q, text), <<Learning!QuestionKey(q)>>, Learning!NoProgress)
<1>0. b \in {Of(q, text) : q \in Questions, text \in Texts}
  BY DEF Learning!Brought
<1> HIDE DEF Of
<1>1. PICK q \in Questions, text \in Texts : b = Of(q, text)
  BY <1>0
<1>2. text \in Drafts
  BY DEF Drafts
<1> QED BY <1>1, <1>2, AnsweredValue DEF Of

\* A visit begins with what the reader left, and perhaps a backup.
LEMMA WorkStart == Learning!Init => WorkInv
<1> SUFFICES ASSUME Learning!Init PROVE WorkInv
  OBVIOUS
<1>1. PICK open \in SUBSET Tabs \ {{}} :
        \E stored \in {Learning!Empty} \cup {Learning!Answered(q, "") : q \in Questions} :
           \E failures \in 0..MaxFailures, backup \in Learning!Brought :
              LET disk == [learning |-> stored, progress |-> Learning!NoProgress]
              IN page = [disk |-> disk, tabs |-> [t \in open |-> Learning!Fresh(disk, failures = 0)],
                         backup |-> backup, clock |-> 0, changes |-> 0, failures |-> failures]
  BY DEF Learning!Init
<1>2. PICK stored \in {Learning!Empty} \cup {Learning!Answered(q, "") : q \in Questions} :
        \E failures \in 0..MaxFailures, backup \in Learning!Brought :
              LET disk == [learning |-> stored, progress |-> Learning!NoProgress]
              IN page = [disk |-> disk, tabs |-> [t \in open |-> Learning!Fresh(disk, failures = 0)],
                         backup |-> backup, clock |-> 0, changes |-> 0, failures |-> failures]
  BY <1>1
<1>3. PICK disk : disk = [learning |-> stored, progress |-> Learning!NoProgress]
  OBVIOUS
<1>4. PICK failures \in 0..MaxFailures, backup \in Learning!Brought :
        page = [disk |-> disk, tabs |-> [t \in open |-> Learning!Fresh(disk, failures = 0)],
                backup |-> backup, clock |-> 0, changes |-> 0, failures |-> failures]
  BY <1>2, <1>3
<1>5. LearningOf(stored)
  <2>1. "" \in Drafts
    BY DEF Drafts
  <2>2. CASE stored = Learning!Empty
    BY <2>2, NothingYet
  <2>3. CASE stored \in {Learning!Answered(q, "") : q \in Questions}
    BY <2>1, <2>3, AnsweredValue
  <2> QED BY <2>2, <2>3
<1>6. backup # None => BackedUp(backup)
  BY BroughtValue
<1>7. DOMAIN disk = Stores /\ disk["learning"] = stored /\ disk["progress"] = Learning!NoProgress
  BY <1>3 DEF Stores
<1>8. \A s \in Stores : ValueOf(s, disk[s])
  <2>1. ProgressOf(Learning!NoProgress)
    BY DEF ProgressOf, Learning!NoProgress
  <2> QED BY <1>5, <1>7, <2>1 DEF ValueOf, Stores
<1>9. \A t \in DOMAIN page.tabs : HoldsValues(page.tabs[t])
  <2>1. PICK probe : probe = (failures = 0)
    OBVIOUS
  <2>2. HoldsValues(Learning!Fresh(disk, probe))
    BY <1>7, FreshValues
  <2>3. page.tabs = [t \in open |-> Learning!Fresh(disk, probe)]
    BY <1>4, <2>1
  <2> QED BY <2>2, <2>3
<1>10. page.disk = disk /\ page.backup = backup /\ page.clock = 0 /\ page.changes = 0
  BY <1>4
<1>11. TabsInv
  BY TabsStart
<1>12. page.clock \in Nat /\ page.changes \in Nat /\ (page.backup # None => BackedUp(page.backup))
  <2>1. 0 \in Nat
    OBVIOUS
  <2> QED BY <1>6, <1>10, <2>1, Zenon
<1>13. \A s \in Stores : ValueOf(s, page.disk[s])
  BY <1>8, <1>10
<1> QED BY <1>9, <1>11, <1>12, <1>13 DEF WorkInv

\* Every step keeps the tabs sound, and a value made keeps what was read.
LEMMA WorkStep ==
  ASSUME WorkInv, Learning!Reader \/ Learning!Tick \/ Learning!Browser
  PROVE  WorkInv' /\ Learning!ChangesKeep
<1>1. CASE Learning!Tick
  BY <1>1, TickWork
<1>2. ASSUME NEW t \in DOMAIN page.tabs, Learning!Manages(t) PROVE WorkInv' /\ Learning!ChangesKeep
  BY <1>2, DeleteWork, AdoptWork, ReadingWork, ToggleWork, ExportWork, ConfirmWork DEF Learning!Manages
<1>3. ASSUME NEW t \in DOMAIN page.tabs, NEW q \in Questions, Learning!Practises(t, q)
      PROVE  WorkInv' /\ Learning!ChangesKeep
  BY <1>3, TypeWork, AssessWork, RecordWork, MoveReviewWork DEF Learning!Practises
<1>4. CASE Learning!Reader
  BY <1>2, <1>3, <1>4, ReopenWork DEF Learning!Reader, Learning!Open
<1>5. CASE Learning!Browser
  BY <1>5, MergeWork, WriteWork, StorageWork DEF Learning!Browser, Learning!Open
<1> QED BY <1>1, <1>4, <1>5

\* A value about to be written, which no other tab's change has crossed, keeps what the tab reads.
Uncrossed(tab, disk) ==
  LET w == tab.writing IN
  w # None /\ tab.events[w.store] = 0 =>
     Learning!Keeps(w.store, Learning!Held(tab, disk, w.store), w.kind, w.next)

\* No tab is about to write over what it has not read, unless an event is on its way to it.
UncrossedInv == \A t \in DOMAIN page.tabs : Uncrossed(page.tabs[t], page.disk)

\* A tab that writes nothing, or reads what it read unless an event is on its way to it.
Untouched(tab, disk, next, stored) ==
  \/ next.writing = None
  \/ \A s \in Stores :
        next.events[s] = 0 => tab.events[s] = 0 /\ Learning!Held(next, stored, s) = Learning!Held(tab, disk, s)

\* A step that leaves each tab so makes no value stale.
LEMMA UntouchedStep ==
  ASSUME UncrossedInv, TabsInv', Learning!ChangesKeep, DOMAIN page'.tabs = DOMAIN page.tabs,
         \A t \in DOMAIN page.tabs : Untouched(page.tabs[t], page.disk, page'.tabs[t], page'.disk)
  PROVE  UncrossedInv'
<1>1. ASSUME NEW t \in DOMAIN page.tabs, page'.tabs[t].writing # None,
             page'.tabs[t].events[page'.tabs[t].writing.store] = 0
      PROVE  Learning!Keeps(page'.tabs[t].writing.store,
                            Learning!Held(page'.tabs[t], page'.disk, page'.tabs[t].writing.store),
                            page'.tabs[t].writing.kind, page'.tabs[t].writing.next)
  <2>1. PICK w : w = page'.tabs[t].writing
    OBVIOUS
  <2>2. w # None /\ w.store \in Stores /\ page'.tabs[t].events[w.store] = 0
    BY <1>1, <2>1 DEF TabsInv, TabOf
  <2>3. /\ page.tabs[t].events[w.store] = 0
        /\ Learning!Held(page'.tabs[t], page'.disk, w.store) = Learning!Held(page.tabs[t], page.disk, w.store)
    BY <2>1, <2>2 DEF Untouched
  <2>4. CASE w = page.tabs[t].writing
    <3>1. Uncrossed(page.tabs[t], page.disk)
      BY DEF UncrossedInv
    <3> QED BY <2>1, <2>2, <2>3, <2>4, <3>1 DEF Uncrossed
  <2>5. CASE w # page.tabs[t].writing
    <3>1. Learning!Keeps(w.store, Learning!Read(t, w.store), w.kind, w.next)
      BY <2>1, <2>2, <2>5, Zenon DEF Learning!ChangesKeep, Learning!Open
    <3> QED BY <2>1, <2>3, <3>1 DEF Learning!Read
  <2> QED BY <2>4, <2>5
<1> QED BY <1>1, Zenon DEF UncrossedInv, Uncrossed

\* A step that changes no store, and no tab but for the value it writes, imports or has exported.
Quiet ==
  /\ page'.disk = page.disk /\ DOMAIN page'.tabs = DOMAIN page.tabs
  /\ \A t \in DOMAIN page.tabs :
        page'.tabs[t].memory = page.tabs[t].memory /\ page'.tabs[t].events = page.tabs[t].events

\* It leaves each tab as it must.
LEMMA QuietStep ==
  ASSUME UncrossedInv, TabsInv', Learning!ChangesKeep, Quiet
  PROVE  UncrossedInv'
<1>1. \A t \in DOMAIN page.tabs : Untouched(page.tabs[t], page.disk, page'.tabs[t], page'.disk)
  BY DEF Quiet, Untouched, Learning!Held
<1> QED BY <1>1, UntouchedStep DEF Quiet

\* Making a value is such a step,
LEMMA ComputesQuiet ==
  ASSUME TabsInv, NEW t \in DOMAIN page.tabs, NEW s, NEW kind, NEW value, Learning!Computes(t, s, kind, value)
  PROVE  Quiet
<1>1. PICK w, m, n : page' = [page EXCEPT !.tabs[t].writing = w, !.tabs[t].merging = m, !.changes = n]
  BY DEF Learning!Computes
<1>2. DOMAIN page = PageFields /\ \A u \in DOMAIN page.tabs : DOMAIN page.tabs[u] = TabFields
  BY DEF TabsInv, TabOf
<1>3. /\ page'.disk = page.disk
      /\ page'.tabs = [page.tabs EXCEPT ![t] = [page.tabs[t] EXCEPT !.writing = w, !.merging = m]]
  BY <1>1, <1>2 DEF PageFields
<1>4. page'.tabs[t] = [page.tabs[t] EXCEPT !.writing = w, !.merging = m]
  BY <1>3
<1>5. page'.tabs[t].memory = page.tabs[t].memory /\ page'.tabs[t].events = page.tabs[t].events
  BY <1>2, <1>4 DEF TabFields
<1>6. DOMAIN page'.tabs = DOMAIN page.tabs /\ \A u \in DOMAIN page.tabs : u # t => page'.tabs[u] = page.tabs[u]
  BY <1>3
<1> QED BY <1>3, <1>5, <1>6 DEF Quiet

\* so that whatever a reader asks of an open tab is one,
LEMMA ReaderQuiet ==
  ASSUME TabsInv, NEW t \in DOMAIN page.tabs, NEW q, Learning!Practises(t, q) \/ Learning!Manages(t)
  PROVE  Quiet
<1>1. ASSUME NEW s, NEW kind, NEW value, Learning!Changes(t, s, kind, value) PROVE Quiet
  BY <1>1, ComputesQuiet DEF Learning!Changes
<1>2. CASE Learning!Type(t, q)
  BY <1>1, <1>2, Zenon DEF Learning!Type, Learning!SavePractice
<1>3. CASE Learning!Assess(t, q)
  BY <1>1, <1>3, Zenon DEF Learning!Assess, Learning!SavePractice
<1>4. CASE Learning!RecordPracticeAttempt(t, q)
  BY <1>1, <1>4, Zenon DEF Learning!RecordPracticeAttempt
<1>5. CASE Learning!MoveReview(t, q)
  BY <1>1, <1>5, Zenon DEF Learning!MoveReview
<1>6. CASE Learning!DeletePractice(t)
  BY <1>1, <1>6, Zenon DEF Learning!DeletePractice
<1>7. CASE Learning!AdoptPracticeAlternative(t)
  BY <1>1, <1>7, Zenon DEF Learning!AdoptPracticeAlternative
<1>8. CASE Learning!SaveReading(t)
  BY <1>1, <1>8, Zenon DEF Learning!SaveReading
<1>9. CASE Learning!Toggle(t)
  BY <1>1, <1>9, Zenon DEF Learning!Toggle
<1>10. CASE Learning!Confirm(t)
  BY <1>1, <1>10, Zenon DEF Learning!Confirm
<1>11. CASE Learning!Export(t)
  <2>1. PICK backup : page' = [page EXCEPT !.backup = backup, !.changes = @ + 1]
    BY <1>11, Zenon DEF Learning!Export
  <2> QED BY <2>1 DEF Quiet, TabsInv, PageFields
<1> QED BY <1>2, <1>3, <1>4, <1>5, <1>6, <1>7, <1>8, <1>9, <1>10, <1>11 DEF Learning!Practises, Learning!Manages

\* and a tab that is opened anew, or is told of a change, is not writing.
LEMMA IdleUncrossed ==
  ASSUME TabsInv, UncrossedInv, TabsInv', Learning!ChangesKeep, NEW t \in DOMAIN page.tabs,
         Learning!Reopen(t) \/ Learning!HandleStorage(t)
  PROVE  UncrossedInv'
<1>1. PICK tab : /\ tab.writing = None
                 /\ \/ \E failures : page' = [page EXCEPT !.tabs[t] = tab, !.failures = failures]
                    \/ page' = [page EXCEPT !.tabs[t] = tab]
  <2>1. CASE Learning!Reopen(t)
    <3>1. PICK probe, failures :
             page' = [page EXCEPT !.tabs[t] = Learning!Fresh(page.disk, probe), !.failures = failures]
      BY <2>1, Zenon DEF Learning!Reopen
    <3>2. Learning!Fresh(page.disk, probe).writing = None
      BY DEF Learning!Fresh
    <3> QED BY <3>1, <3>2
  <2>2. CASE Learning!HandleStorage(t)
    <3>1. PICK s : page' = [page EXCEPT !.tabs[t] = Learning!Heard(@, s, page.disk)]
      BY <2>2 DEF Learning!HandleStorage
    <3>2. page.tabs[t].writing = None /\ DOMAIN page.tabs[t] = TabFields
      BY <2>2 DEF Learning!HandleStorage, Learning!Idle, TabsInv, TabOf
    <3>3. Learning!Heard(page.tabs[t], s, page.disk).writing = None
      BY <3>2 DEF Learning!Heard, TabFields
    <3> QED BY <3>1, <3>3
  <2> QED BY <2>1, <2>2
<1>2. page'.disk = page.disk /\ page'.tabs = [page.tabs EXCEPT ![t] = tab]
  BY <1>1 DEF TabsInv, PageFields
<1>3. /\ DOMAIN page'.tabs = DOMAIN page.tabs
      /\ \A u \in DOMAIN page.tabs : page'.tabs[u] = IF u = t THEN tab ELSE page.tabs[u]
  BY <1>2
<1>4. \A u \in DOMAIN page.tabs : Untouched(page.tabs[u], page.disk, page'.tabs[u], page'.disk)
  BY <1>1, <1>2, <1>3 DEF Untouched
<1> QED BY <1>3, <1>4, UntouchedStep

\* A write ends one tab's change and crosses those of the others, which are told; and the writer
\* then reads what it wrote, stored or not.
LEMMA WriteUncrossed ==
  ASSUME TabsInv, UncrossedInv, TabsInv', Learning!ChangesKeep, NEW t \in DOMAIN page.tabs, Learning!Write(t)
  PROVE  /\ UncrossedInv'
         /\ LET w == page.tabs[t].writing IN Learning!Held(page'.tabs[t], page'.disk, w.store) = w.next
<1>1. PICK old, disk, s, next :
        /\ old = page.tabs /\ disk = page.disk /\ s = old[t].writing.store /\ next = old[t].writing.next
  OBVIOUS
<1>2. /\ DOMAIN page = PageFields /\ DOMAIN disk = Stores /\ s \in Stores /\ t \in DOMAIN old
      /\ \A u \in DOMAIN old : TabOf(old[u])
  BY <1>1 DEF TabsInv, TabOf, Learning!Write
<1>3. PICK ok \in BOOLEAN :
        page' = [page EXCEPT
          !.disk[s] = IF ok THEN next ELSE @,
          !.failures = IF ok THEN @ ELSE @ + 1,
          !.tabs = [u \in DOMAIN old |-> IF u = t THEN Learning!Wrote(old[u], s, ok)
                                         ELSE IF ok /\ u # t /\ disk[s] # next THEN Learning!Told(old[u], s) ELSE old[u]]]
  BY <1>1 DEF Learning!Write, Learning!Open
<1>4. PICK new : new = [disk EXCEPT ![s] = IF ok THEN next ELSE @]
  OBVIOUS
<1>5. /\ page'.disk = new
      /\ page'.tabs = [u \in DOMAIN old |-> IF u = t THEN Learning!Wrote(old[u], s, ok)
                                            ELSE IF ok /\ u # t /\ disk[s] # next THEN Learning!Told(old[u], s) ELSE old[u]]
  BY <1>1, <1>2, <1>3, <1>4 DEF PageFields
<1>6. ASSUME NEW tab, tab = Learning!Wrote(old[t], s, ok)
      PROVE  tab.writing = None /\ Learning!Held(tab, new, s) = next
  <2>1. DOMAIN old[t] = TabFields /\ DOMAIN old[t].memory = Stores
    BY <1>2 DEF TabOf
  <2>2. /\ tab.memory = [old[t].memory EXCEPT ![s] = IF ok THEN <<>> ELSE <<next>>]
        /\ tab.writing = None
    BY <1>1, <1>6, <2>1 DEF TabFields, Learning!Wrote
  <2>3. tab.memory[s] = IF ok THEN <<>> ELSE <<next>>
    BY <1>2, <2>1, <2>2
  <2>4. ASSUME ok PROVE Learning!Held(tab, new, s) = next
    <3>1. new[s] = next /\ tab.memory[s] = <<>>
      BY <1>2, <1>4, <2>3, <2>4
    <3> QED BY <3>1 DEF Learning!Held
  <2>5. ASSUME ~ok PROVE Learning!Held(tab, new, s) = next
    <3>1. <<next>> # <<>> /\ Head(<<next>>) = next
      OBVIOUS
    <3>2. tab.memory[s] = <<next>>
      BY <2>3, <2>5
    <3> QED BY <3>1, <3>2 DEF Learning!Held
  <2> QED BY <2>2, <2>4, <2>5
<1>7. ASSUME NEW u \in DOMAIN old, NEW tab, tab = Learning!Told(old[u], s)
      PROVE  Untouched(old[u], disk, tab, new)
  <2>1. TabOf(old[u])
    BY <1>2
  <2>2. tab.memory = old[u].memory /\ tab.events = [old[u].events EXCEPT ![s] = @ + 1]
    BY <1>7, <2>1 DEF TabOf, TabFields, Learning!Told
  <2>3. tab.events[s] # 0
    BY <1>2, <2>1, <2>2 DEF TabOf
  <2>4. ASSUME NEW r \in Stores, r # s
        PROVE  tab.events[r] = old[u].events[r] /\ Learning!Held(tab, new, r) = Learning!Held(old[u], disk, r)
    BY <1>2, <1>4, <2>1, <2>2, <2>4 DEF TabOf, Learning!Held
  <2> QED BY <2>3, <2>4 DEF Untouched
<1>8. ASSUME NEW u \in DOMAIN old, ~(ok /\ disk[s] # next)
      PROVE  Untouched(old[u], disk, old[u], new)
  <2>1. \A r \in Stores : new[r] = disk[r]
    BY <1>2, <1>4, <1>8
  <2> QED BY <2>1 DEF Untouched, Learning!Held
<1>9. ASSUME NEW u \in DOMAIN old PROVE Untouched(old[u], disk, page'.tabs[u], new)
  <2>1. page'.tabs[u] = IF u = t THEN Learning!Wrote(old[u], s, ok)
                        ELSE IF ok /\ u # t /\ disk[s] # next THEN Learning!Told(old[u], s) ELSE old[u]
    BY <1>5
  <2>2. CASE u = t
    BY <1>6, <2>1, <2>2 DEF Untouched
  <2>3. CASE u # t /\ ok /\ disk[s] # next
    BY <1>7, <2>1, <2>3
  <2>4. CASE u # t /\ ~(ok /\ disk[s] # next)
    BY <1>8, <2>1, <2>4
  <2> QED BY <2>2, <2>3, <2>4
<1>10. page'.tabs[t] = Learning!Wrote(old[t], s, ok) /\ DOMAIN page'.tabs = DOMAIN old
  BY <1>2, <1>5
<1>11. UncrossedInv'
  BY <1>1, <1>5, <1>9, <1>10, UntouchedStep
<1> QED BY <1>1, <1>5, <1>6, <1>10, <1>11

\* Every step keeps a value that nothing crossed whole, and so does its write.
LEMMA UncrossedStep ==
  ASSUME TabsInv, UncrossedInv, TabsInv', Learning!ChangesKeep, Learning!Reader \/ Learning!Tick \/ Learning!Browser
  PROVE  UncrossedInv' /\ Learning!WritesKeep
<1>1. ASSUME Learning!Tick PROVE UncrossedInv'
  <2>1. Quiet
    BY <1>1 DEF Learning!Tick, Quiet, TabsInv, PageFields
  <2> QED BY <2>1, QuietStep
<1>2. ASSUME Learning!Reader PROVE UncrossedInv'
  BY <1>2, ReaderQuiet, QuietStep, IdleUncrossed DEF Learning!Reader, Learning!Open
<1>3. ASSUME Learning!Browser PROVE UncrossedInv'
  <2>1. ASSUME NEW t \in DOMAIN page.tabs, Learning!MergeLearning(t) PROVE UncrossedInv'
    BY <2>1, ComputesQuiet, QuietStep, Zenon DEF Learning!MergeLearning
  <2> QED BY <1>3, <2>1, WriteUncrossed, IdleUncrossed DEF Learning!Browser, Learning!Open
<1>4. Learning!WritesKeep
  <2>1. ASSUME NEW t \in DOMAIN page.tabs, NEW w, w = page.tabs[t].writing, Learning!Write(t)
        PROVE  /\ Learning!Held(page'.tabs[t], page'.disk, w.store) = w.next
               /\ page.tabs[t].events[w.store] = 0 =>
                     Learning!Keeps(w.store, Learning!Read(t, w.store), w.kind, w.next)
    <3>1. w # None
      BY <2>1 DEF Learning!Write
    <3>2. Learning!Held(page'.tabs[t], page'.disk, w.store) = w.next
      BY <2>1, WriteUncrossed
    <3>3. Uncrossed(page.tabs[t], page.disk)
      BY DEF UncrossedInv
    <3> QED BY <2>1, <3>1, <3>2, <3>3 DEF Uncrossed, Learning!Read
  <2> QED BY <2>1, Zenon DEF Learning!WritesKeep, Learning!Open
<1> QED BY <1>1, <1>2, <1>3, <1>4

\* A visit begins with nothing to write.
LEMMA UncrossedStart == Learning!Init => UncrossedInv
<1> SUFFICES ASSUME Learning!Init PROVE UncrossedInv
  OBVIOUS
<1>1. PICK open \in SUBSET Tabs \ {{}} :
        \E stored \in {Learning!Empty} \cup {Learning!Answered(q, "") : q \in Questions} :
           \E failures \in 0..MaxFailures, backup \in Learning!Brought :
              LET disk == [learning |-> stored, progress |-> Learning!NoProgress]
              IN page = [disk |-> disk, tabs |-> [t \in open |-> Learning!Fresh(disk, failures = 0)],
                         backup |-> backup, clock |-> 0, changes |-> 0, failures |-> failures]
  BY DEF Learning!Init
<1>2. PICK stored \in {Learning!Empty} \cup {Learning!Answered(q, "") : q \in Questions} :
        \E failures \in 0..MaxFailures, backup \in Learning!Brought :
              LET disk == [learning |-> stored, progress |-> Learning!NoProgress]
              IN page = [disk |-> disk, tabs |-> [t \in open |-> Learning!Fresh(disk, failures = 0)],
                         backup |-> backup, clock |-> 0, changes |-> 0, failures |-> failures]
  BY <1>1
<1>3. PICK disk : disk = [learning |-> stored, progress |-> Learning!NoProgress]
  OBVIOUS
<1>4. PICK failures \in 0..MaxFailures, backup \in Learning!Brought :
        page = [disk |-> disk, tabs |-> [t \in open |-> Learning!Fresh(disk, failures = 0)],
                backup |-> backup, clock |-> 0, changes |-> 0, failures |-> failures]
  BY <1>2, <1>3
<1>5. PICK probe : probe = (failures = 0)
  OBVIOUS
<1>6. page.tabs = [t \in open |-> Learning!Fresh(disk, probe)]
  BY <1>4, <1>5
<1>7. Learning!Fresh(disk, probe).writing = None
  BY DEF Learning!Fresh
<1> QED BY <1>6, <1>7 DEF UncrossedInv, Uncrossed

-----------------------------------------------------------------------------
(* The search page.                                                        *)

\* The categories a search can have.
Categorized == Categories \cup {All}

\* The states of the search page.
SearchPages ==
  [url : Fetched!Params, heading : Fetched!Params \cup {None}, due : BOOLEAN, query : Queries, category : Categorized,
   written : Fetched!Params, results : Fetched!Params \cup {None}, loading : BOOLEAN, error : BOOLEAN,
   waiting : Fetched!Params \cup {None}, request : Fetched!Params \cup {None}]

\* What is under way is what the page wants.
Sought(p, params) == params = Fetched!Wanted(p) /\ params.q # ""

\* A page that follows its address: its results, or what is under way, are those of its query.
Answering(p) ==
  /\ p.waiting # None => Sought(p, p.waiting)
  /\ p.request # None => Sought(p, p.request)
  /\ p.loading => p.waiting # None \/ p.request # None
  /\ ~p.loading /\ ~p.error => p.results = IF Fetched!Wanted(p).q = "" THEN None ELSE Fetched!Wanted(p)

\* The inductive invariant of the search page: it lags behind its address only while another
\* one is on its way or its effect is due.
SearchOf(p) ==
  /\ p \in SearchPages
  /\ p.waiting = None \/ p.request = None
  /\ ~p.due /\ p.url # p.written => p.heading # None /\ p.heading # p.url
  /\ ~p.due /\ p.url = p.written => Answering(p)

\* What the page asks for is an address, and not None.
LEMMA WantedParams ==
  ASSUME NEW p, p.query \in Queries, p.category \in Categorized
  PROVE  /\ Fetched!Wanted(p) \in Fetched!Params
         /\ Fetched!Wanted(p) = [q |-> Trimmed[p.query], category |-> p.category]
         /\ Fetched!Wanted(p) # None
BY SiteAssumption DEF Fetched!Wanted, Fetched!Params, Categorized, Queries

\* An address has a query and a category the page can show.
LEMMA CategoryOfParams ==
  ASSUME NEW params \in Fetched!Params
  PROVE  params.q \in Queries /\ Fetched!CategoryFromParams(params) \in Categorized
BY DEF Fetched!Params, Fetched!CategoryFromParams, Categorized

\* The page opens on the query of its address, with its effect due.
LEMMA SearchStart == Fetched!SearchInit => SearchOf(page)
<1> SUFFICES ASSUME NEW url \in Fetched!Params,
                    page = [url |-> url, heading |-> None, due |-> TRUE, query |-> url.q,
                            category |-> Fetched!CategoryFromParams(url), written |-> url, results |-> None,
                            loading |-> FALSE, error |-> FALSE, waiting |-> None, request |-> None]
             PROVE  SearchOf(page)
  BY DEF Fetched!SearchInit
<1>1. url.q \in Queries /\ Fetched!CategoryFromParams(url) \in Categorized
  BY CategoryOfParams
<1> QED BY <1>1 DEF SearchOf, SearchPages

\* The second effect of a page that does not lag behind its address.
LEMMA SearchedSound ==
  ASSUME NEW p \in SearchPages, ~p.due, Fetched!Lags(p) => p.heading # None /\ p.heading # p.url
  PROVE  SearchOf(Fetched!Searched(p))
<1> DEFINE w == Fetched!Wanted(p)
<1>1. w \in Fetched!Params /\ w # None /\ w = [q |-> Trimmed[p.query], category |-> p.category]
  BY WantedParams DEF SearchPages
<1>2. PICK new : new = Fetched!Searched(p)
  OBVIOUS
<1>3. CASE Fetched!Lags(p)
  <2>1. new = [p EXCEPT !.waiting = None, !.request = None]
    BY <1>2, <1>3 DEF Fetched!Searched
  <2>2. p.heading # None /\ p.heading # p.url /\ p.url # p.written
    BY <1>3 DEF Fetched!Lags
  <2>3. /\ new \in SearchPages /\ new.waiting = None /\ new.due = FALSE /\ new.url = p.url /\ new.written = p.written
        /\ new.heading = p.heading
    BY <2>1 DEF SearchPages
  <2> QED BY <1>2, <2>2, <2>3 DEF SearchOf
<1>4. CASE ~Fetched!Lags(p)
  <2>1. /\ new.url = p.url /\ new.due = FALSE /\ new.query = p.query /\ new.category = p.category
        /\ new.written = w /\ new.heading = (IF w # p.url THEN w ELSE p.heading)
        /\ new.request = None
        /\ new.waiting = (IF w.q = "" THEN None ELSE w)
        /\ new.loading = (w.q # "")
        /\ new.error = FALSE
        /\ new.results = (IF w.q = "" THEN None ELSE p.results)
        /\ new \in SearchPages
    <3> HIDE DEF w
    <3>1. w = Fetched!Wanted(p)
      BY DEF w
    <3>2. CASE w.q = ""
      <4>1. new = [p EXCEPT !.waiting = None, !.request = None, !.written = w,
                           !.heading = IF w # p.url THEN w ELSE @,
                           !.results = None, !.loading = FALSE, !.error = FALSE]
        BY <1>2, <1>4, <3>1, <3>2 DEF Fetched!Searched, SearchPages
      <4> QED BY <1>1, <3>2, <4>1 DEF SearchPages
    <3>3. CASE w.q # ""
      <4>1. new = [p EXCEPT !.waiting = w, !.request = None, !.written = w,
                           !.heading = IF w # p.url THEN w ELSE @,
                           !.loading = TRUE, !.error = FALSE]
        BY <1>2, <1>4, <3>1, <3>3 DEF Fetched!Searched, SearchPages
      <4>2. PICK heading : heading = IF w # p.url THEN w ELSE p.heading
        OBVIOUS
      <4>3. heading \in Fetched!Params \cup {None}
        BY <1>1, <4>2 DEF SearchPages
      <4>4. new = [p EXCEPT !.waiting = w, !.request = None, !.written = w, !.heading = heading,
                           !.loading = TRUE, !.error = FALSE]
        BY <4>1, <4>2
      <4>5. new \in SearchPages
        BY <1>1, <4>3, <4>4 DEF SearchPages
      <4> QED BY <1>1, <3>3, <4>2, <4>4, <4>5 DEF SearchPages
    <3> QED BY <3>2, <3>3
  <2>2. Fetched!Wanted(new) = w
    BY <2>1 DEF Fetched!Wanted
  <2> HIDE DEF w
  <2>3. Answering(new)
    BY <1>1, <2>1, <2>2 DEF Answering, Sought
  <2> QED BY <1>1, <1>2, <2>1, <2>3 DEF SearchOf
<1> QED BY <1>3, <1>4

\* A gesture runs the second effect on a page whose address it leaves alone.
LEMMA GesturedSearch ==
  ASSUME SearchOf(page), ~page.due, NEW p \in SearchPages,
         p.due = page.due, p.url = page.url, p.written = page.written, p.heading = page.heading,
         page' = Fetched!Searched(p)
  PROVE  SearchOf(page')
BY SearchedSound DEF SearchOf, Fetched!Lags

\* Typing, choosing a category, trying again and following a link.
LEMMA SearchReaderStep ==
  ASSUME SearchOf(page), Fetched!SearchReader
  PROVE  SearchOf(page')
<1> USE DEF SearchOf
<1>1. CASE Fetched!Type
  <2>1. PICK query \in Queries : ~page.due /\ page' = Fetched!Searched([page EXCEPT !.query = query])
    BY <1>1 DEF Fetched!Type
  <2> DEFINE p == [page EXCEPT !.query = query]
  <2>2. /\ p \in SearchPages /\ p.due = page.due /\ p.url = page.url /\ p.written = page.written
        /\ p.heading = page.heading
    BY DEF SearchPages
  <2> HIDE DEF p
  <2> QED BY <2>1, <2>2, GesturedSearch DEF p
<1>2. CASE Fetched!SelectCategory
  <2>1. PICK category \in Categorized : ~page.due /\ page' = Fetched!Searched([page EXCEPT !.category = category])
    BY <1>2 DEF Fetched!SelectCategory, Categorized
  <2> DEFINE p == [page EXCEPT !.category = category]
  <2>2. /\ p \in SearchPages /\ p.due = page.due /\ p.url = page.url /\ p.written = page.written
        /\ p.heading = page.heading
    BY DEF SearchPages
  <2> HIDE DEF p
  <2> QED BY <2>1, <2>2, GesturedSearch DEF p
<1>3. CASE Fetched!TryAgain
  BY <1>3, GesturedSearch DEF Fetched!TryAgain
<1>4. CASE Fetched!Follow
  <2>1. PICK url \in Fetched!Params : /\ page.heading = None \/ url # page.url
                                      /\ page' = [page EXCEPT !.heading = url]
    BY <1>4 DEF Fetched!Follow
  <2>2. /\ page' \in SearchPages /\ page'.heading = url /\ url # None
        /\ page'.url = page.url /\ page'.written = page.written /\ page'.due = page.due
        /\ page'.waiting = page.waiting /\ page'.request = page.request
        /\ page'.loading = page.loading /\ page'.error = page.error /\ page'.results = page.results
        /\ page'.query = page.query /\ page'.category = page.category
    BY <2>1, SiteAssumption DEF SearchPages
  <2>3. Answering(page) => Answering(page')
    BY <2>2 DEF Answering, Sought, Fetched!Wanted
  <2> QED BY <2>1, <2>2, <2>3
<1> QED BY <1>1, <1>2, <1>3, <1>4 DEF Fetched!SearchReader

\* An address arrives, effects run, a delay ends, a request is answered or fails.
LEMMA SearchBrowserStep ==
  ASSUME SearchOf(page), Fetched!SearchBrowser
  PROVE  SearchOf(page')
<1> USE DEF SearchOf
<1>1. CASE Fetched!Arrive
  <2>1. /\ page.heading \in Fetched!Params /\ ~page.due
        /\ page' = [page EXCEPT !.url = page.heading, !.heading = None, !.due = page.heading # page.url]
    BY <1>1 DEF Fetched!Arrive, SearchPages
  <2>2. /\ page' \in SearchPages /\ page'.heading = None
        /\ page'.url = page.heading /\ page'.written = page.written /\ page'.due = (page.heading # page.url)
        /\ page'.waiting = page.waiting /\ page'.request = page.request
        /\ page'.loading = page.loading /\ page'.error = page.error /\ page'.results = page.results
        /\ page'.query = page.query /\ page'.category = page.category
    BY <2>1 DEF SearchPages
  <2>3. Answering(page) => Answering(page')
    BY <2>2 DEF Answering, Sought, Fetched!Wanted
  <2> QED BY <2>1, <2>2, <2>3
<1>2. CASE Fetched!RunEffects
  <2> DEFINE p == [page EXCEPT !.due = FALSE]
             inner == Fetched!Searched(p)
             q == [inner EXCEPT !.query = p.url.q, !.category = Fetched!CategoryFromParams(p.url)]
  <2>1. p \in SearchPages /\ p.due = FALSE /\ page' = Fetched!Followed(p)
    BY <1>2 DEF Fetched!RunEffects, SearchPages
  <2>2. CASE Fetched!Lags(p)
    <3>1. inner = [p EXCEPT !.waiting = None, !.request = None]
      BY <2>2 DEF Fetched!Searched
    <3> HIDE DEF inner
    <3>2. inner \in SearchPages /\ inner.due = FALSE /\ inner.url = p.url
      BY <2>1, <3>1 DEF SearchPages
    <3> HIDE DEF p
    <3>3. p.url.q \in Queries /\ Fetched!CategoryFromParams(p.url) \in Categorized
      BY <2>1, CategoryOfParams DEF SearchPages
    <3>4. /\ q \in SearchPages /\ q.due = FALSE /\ q.url = p.url
          /\ q.query = p.url.q /\ q.category = Fetched!CategoryFromParams(p.url)
      BY <3>2, <3>3 DEF SearchPages
    <3>5. page' = Fetched!Searched(q)
      BY <2>1, <2>2 DEF Fetched!Followed, Fetched!Lags, inner
    <3> HIDE DEF q
    <3>6. ~Fetched!Lags(q)
      BY <3>4 DEF Fetched!Lags, Fetched!AtUrl
    <3> QED BY <3>4, <3>5, <3>6, SearchedSound
  <2>3. CASE ~Fetched!Lags(p)
    <3> HIDE DEF p
    <3>1. page' = Fetched!Searched(p)
      BY <2>1, <2>3 DEF Fetched!Followed, Fetched!Lags
    <3> QED BY <2>1, <2>3, <3>1, SearchedSound
  <2> QED BY <2>2, <2>3
<1>3. CASE Fetched!DelayEnds
  <2>1. /\ page.waiting # None /\ page.request = None
        /\ page' = [page EXCEPT !.waiting = None, !.request = page.waiting]
    BY <1>3 DEF Fetched!DelayEnds
  <2>2. /\ page' \in SearchPages /\ page'.heading = page.heading
        /\ page'.url = page.url /\ page'.written = page.written /\ page'.due = page.due
        /\ page'.waiting = None /\ page'.request = page.waiting
        /\ page'.loading = page.loading /\ page'.error = page.error /\ page'.results = page.results
        /\ page'.query = page.query /\ page'.category = page.category
    BY <2>1 DEF SearchPages
  <2>3. Answering(page) => Answering(page')
    BY <2>1, <2>2 DEF Answering, Sought, Fetched!Wanted
  <2> QED BY <2>1, <2>2, <2>3
<1>4. CASE Fetched!Found
  <2>1. /\ page.request # None /\ page.waiting = None
        /\ page' = [page EXCEPT !.results = page.request, !.request = None, !.loading = FALSE, !.error = FALSE]
    BY <1>4 DEF Fetched!Found
  <2>2. /\ page' \in SearchPages /\ page'.heading = page.heading
        /\ page'.url = page.url /\ page'.written = page.written /\ page'.due = page.due
        /\ page'.waiting = page.waiting /\ page'.request = None
        /\ page'.loading = FALSE /\ page'.error = FALSE /\ page'.results = page.request
        /\ page'.query = page.query /\ page'.category = page.category
    BY <2>1 DEF SearchPages
  <2>3. Fetched!Wanted(page') = Fetched!Wanted(page)
    BY <2>2 DEF Fetched!Wanted
  <2>4. ASSUME Answering(page) PROVE Answering(page')
    <3>1. page.request = Fetched!Wanted(page) /\ Fetched!Wanted(page).q # ""
      BY <2>1, <2>4 DEF Answering, Sought
    <3> QED BY <2>1, <2>2, <2>3, <3>1 DEF Answering
  <2> QED BY <2>1, <2>2, <2>4
<1>5. CASE Fetched!SearchFails
  <2>1. /\ page.request # None /\ page.waiting = None
        /\ page' = [page EXCEPT !.request = None, !.loading = FALSE, !.error = TRUE]
    BY <1>5 DEF Fetched!SearchFails
  <2>2. /\ page' \in SearchPages /\ page'.heading = page.heading
        /\ page'.url = page.url /\ page'.written = page.written /\ page'.due = page.due
        /\ page'.waiting = page.waiting /\ page'.request = None
        /\ page'.loading = FALSE /\ page'.error = TRUE
    BY <2>1 DEF SearchPages
  <2>3. Answering(page')
    BY <2>1, <2>2 DEF Answering
  <2> QED BY <2>1, <2>2, <2>3
<1> QED BY <1>1, <1>2, <1>3, <1>4, <1>5 DEF Fetched!SearchBrowser

\* What is on display are the results of the query on display, once no address is on its way.
LEMMA SearchShows ==
  ASSUME SearchOf(page)
  PROVE  Fetched!ResultsMatch
BY DEF SearchOf, Answering, Sought, Fetched!ResultsMatch
-----------------------------------------------------------------------------
(* Questions, pages of them and decks.                                     *)

\* Shorter names, the first n questions of a scope, and the values of a sequence.
Scopes == Fetched!Scopes
Items == Fetched!Items
Taken(scope, n) == {Bank[scope][i] : i \in 1..n}
Members(s) == {s[i] : i \in DOMAIN s}

\* The instance has its own name for a cardinality,
LEMMA SameCardinality == ASSUME NEW S PROVE Fetched!Cardinality(S) = Cardinality(S)
BY Zenon DEF Fetched!Cardinality, Cardinality

\* and its own Min.
LEMMA SmallerOfTwo ==
  ASSUME NEW m \in Nat, NEW n \in Nat
  PROVE  Fetched!Min({m, n}) = IF m <= n THEN m ELSE n
<1>1. \E x \in {m, n} : \A y \in {m, n} : x =< y
  OBVIOUS
<1> QED BY <1>1 DEF Fetched!Min

\* What is assumed of the questions of a scope.
LEMMA BankFacts ==
  ASSUME NEW scope \in Scopes
  PROVE  /\ Bank[scope] \in Seq(Items) /\ Len(Bank[scope]) \in Nat
         /\ DOMAIN Bank[scope] = 1..Len(Bank[scope])
         /\ \A i, j \in DOMAIN Bank[scope] : Bank[scope][i] = Bank[scope][j] => i = j
<1>1. /\ Bank[scope] \in Seq(Items)
      /\ \A i, j \in DOMAIN Bank[scope] : Bank[scope][i] = Bank[scope][j] => i = j
  BY SiteAssumption DEF Scopes, Fetched!Scopes, Items
<1> QED BY <1>1

\* A page of the server's questions: the next ones of the scope, until there are no more.
LEMMA PageFacts ==
  ASSUME NEW scope \in Scopes, NEW offset \in Nat
  PROVE  LET page_ == Fetched!InterviewQuestions(scope, offset) IN
         /\ page_ \in Seq(Items)
         /\ offset <= Len(Bank[scope]) =>
               /\ offset + Len(page_) <= Len(Bank[scope])
               /\ Members(page_) = {Bank[scope][i] : i \in offset + 1..offset + Len(page_)}
<1> DEFINE b == Bank[scope]
           last == IF offset + PageSize <= Len(b) THEN offset + PageSize ELSE Len(b)
           asked == Fetched!InterviewQuestions(scope, offset)
<1>1. b \in Seq(Items) /\ Len(b) \in Nat /\ DOMAIN b = 1..Len(b)
  BY BankFacts
<1>2. PageSize \in Nat /\ PageSize > 0
  BY SiteAssumption
<1>3. offset + PageSize \in Nat
  BY <1>2
<1>4. Fetched!Min({offset + PageSize, Len(b)}) = last
  BY <1>1, <1>3, SmallerOfTwo
<1>5. asked = SubSeq(b, offset + 1, last)
  BY <1>4 DEF Fetched!InterviewQuestions
<1> HIDE DEF b, asked
<1>6. last \in Nat /\ last <= Len(b) /\ (offset <= Len(b) => offset <= last)
  BY <1>1, <1>2
<1> HIDE DEF last
<1>7. CASE last <= offset
  <2>1. asked = <<>>
    BY <1>1, <1>5, <1>6, <1>7
  <2> QED BY <1>1, <1>6, <1>7, <2>1 DEF Members, asked, b
<1>8. CASE offset < last
  <2>1. /\ asked \in Seq(Items) /\ Len(asked) = last - offset
        /\ \A i \in 1..last - offset : asked[i] = b[i + offset]
    BY <1>1, <1>5, <1>6, <1>8
  <2>2. DOMAIN asked = 1..last - offset /\ offset + Len(asked) = last
    BY <1>6, <2>1
  <2>3. Members(asked) \subseteq {b[i] : i \in offset + 1..last}
    BY <1>6, <2>1, <2>2 DEF Members
  <2>4. ASSUME NEW i \in offset + 1..last PROVE b[i] \in Members(asked)
    <3>1. i - offset \in 1..last - offset /\ (i - offset) + offset = i
      BY <1>6
    <3> QED BY <2>1, <2>2, <3>1 DEF Members
  <2> QED BY <1>6, <2>1, <2>2, <2>3, <2>4 DEF asked, b
<1> QED BY <1>6, <1>7, <1>8

\* What two sequences have together.
LEMMA JoinedMembers ==
  ASSUME NEW a \in Seq(Items), NEW b \in Seq(Items)
  PROVE  Members(a \o b) = Members(a) \cup Members(b)
<1>1. /\ DOMAIN a = 1..Len(a) /\ DOMAIN b = 1..Len(b) /\ Len(a) \in Nat /\ Len(b) \in Nat
      /\ DOMAIN (a \o b) = 1..Len(a) + Len(b)
      /\ \A i \in 1..Len(a) + Len(b) : (a \o b)[i] = IF i <= Len(a) THEN a[i] ELSE b[i - Len(a)]
  OBVIOUS
<1>2. Members(a \o b) \subseteq Members(a) \cup Members(b)
  BY <1>1 DEF Members
<1>3. Members(a) \subseteq Members(a \o b)
  BY <1>1 DEF Members
<1>4. ASSUME NEW i \in 1..Len(b) PROVE b[i] \in Members(a \o b)
  <2>1. i + Len(a) \in 1..Len(a) + Len(b) /\ (a \o b)[i + Len(a)] = b[i]
    BY <1>1
  <2> QED BY <1>1, <2>1 DEF Members
<1> QED BY <1>1, <1>2, <1>3, <1>4 DEF Members

\* The first questions of a scope are as many as their number.
LEMMA TakenSize ==
  ASSUME NEW scope \in Scopes, NEW n \in Nat, n <= Len(Bank[scope])
  PROVE  IsFiniteSet(Taken(scope, n)) /\ Cardinality(Taken(scope, n)) = n
<1> DEFINE f == [i \in 1..n |-> Bank[scope][i]]
<1>1. f \in Bijection(1..n, Taken(scope, n))
  BY BankFacts DEF Taken, Bijection, Injection, Surjection, IsInjective
<1>2. IsFiniteSet(1..n) /\ Cardinality(1..n) = n
  BY FS_Interval
<1>3. ExistsBijection(1..n, Taken(scope, n))
  BY <1>1 DEF ExistsBijection
<1> QED BY <1>2, <1>3, FS_Bijection

\* A shuffle of distinct questions has all of them, each once.
LEMMA ShuffledMembers ==
  ASSUME NEW scope \in Scopes, NEW n \in Nat, n <= Len(Bank[scope]),
         NEW s \in Fetched!SetToSeqs(Taken(scope, n))
  PROVE  Len(s) = n /\ Members(s) = Taken(scope, n)
<1>1. IsFiniteSet(Taken(scope, n)) /\ Cardinality(Taken(scope, n)) = n
  BY TakenSize
<1>2. s \in [1..n -> Taken(scope, n)] /\ (\A i, j \in 1..n : i # j => s[i] # s[j])
  BY <1>1, SameCardinality DEF Fetched!SetToSeqs
<1>3. s \in Injection(1..n, Taken(scope, n))
  BY <1>2 DEF Injection, IsInjective
<1>4. Cardinality(1..n) = n
  BY FS_Interval
<1>5. s \in Surjection(1..n, Taken(scope, n))
  BY <1>1, <1>3, <1>4, FS_Injection
<1>6. Len(s) = n /\ DOMAIN s = 1..n
  BY <1>2
<1> QED BY <1>2, <1>5, <1>6 DEF Surjection, Members
-----------------------------------------------------------------------------
(* The interview page.                                                     *)

\* The states of the interview page.
InterviewPages ==
  [scope : Scopes, due : BOOLEAN, questions : Seq(Items), total : Nat, offset : Nat, loading : BOOLEAN,
   error : BOOLEAN, loadingMore : BOOLEAN, loadMoreError : BOOLEAN, first : Scopes \cup {None},
   more : Fetched!Requests \cup {None}, deck : Fetched!Decks \cup {None},
   sessions : [Scopes -> Items \cup {None}]]

\* A deck of the first questions of its scope, as many as the next offset, each once.
Whole(p) ==
  /\ p.offset <= Len(Bank[p.scope]) /\ Len(p.questions) = p.offset /\ p.total = Len(Bank[p.scope])
  /\ Members(p.questions) = Taken(p.scope, p.offset)

\* Once the effect of the last render has run, what is under way is for the scope on display.
Fetching(p) ==
  /\ p.first # None => p.loading /\ ~p.error /\ p.first = p.scope /\ p.more = None
  /\ p.more # None =>
        /\ Fetched!Displayed(p) /\ p.loadingMore
        /\ p.more.scope = p.scope /\ p.more.offset = p.offset /\ p.more.total = p.total
  /\ Fetched!Displayed(p) => Whole(p)

\* Who waits has something to wait for.
Awaited(p) ==
  /\ p.loading => p.due \/ p.first # None
  /\ p.loadingMore => p.due \/ p.more # None
  /\ Fetched!Displayed(p) /\ p.deck # None /\ p.deck.finding => p.due \/ (p.more # None /\ p.more.key # None)

\* What an action leaves of the page, before it is rendered.
Ready(p) == Awaited(p) /\ (~p.due => Fetching(p))

\* What a render makes of the deck.
Decked(p) == p.deck # None => Fetched!Displayed(p) /\ p.deck.scope = p.scope

\* The inductive invariant of the interview page.
InterviewOf(p) == p \in InterviewPages /\ Ready(p) /\ Decked(p)

\* What an action leaves of the reader's place, before the page is rendered.
Stays(p, q) ==
  /\ p.deck # None /\ q.scope = p.scope
  => /\ q.deck # None /\ q.deck.scope = p.deck.scope
     /\ \/ q.deck.selected = p.deck.selected /\ (p.deck.answerViewed => q.deck.answerViewed)
        \/ q.sessions[p.scope] = q.deck.selected /\ ~q.deck.revealed /\ ~q.deck.answerViewed

\* A deck that is mounted anew is on a question of its scope and looks for none.
LEMMA DeckOf ==
  ASSUME NEW q \in InterviewPages, Fetched!Displayed(q)
  PROVE  /\ Fetched!Deck(q) \in Fetched!Decks /\ Fetched!Deck(q) # None
         /\ Fetched!Deck(q).scope = q.scope /\ Fetched!Deck(q).finding = FALSE
<1>1. q.questions \in Seq(Items) /\ q.questions # <<>> /\ q.scope \in Scopes
  BY DEF InterviewPages, Fetched!Displayed
<1>2. Head(q.questions) \in Items
  BY <1>1
<1>3. q.sessions[q.scope] \in Items \cup {None}
  BY <1>1 DEF InterviewPages
<1>4. Fetched!Deck(q) \in Fetched!Decks
  BY <1>1, <1>2, <1>3 DEF Fetched!Deck, Fetched!Decks, Scopes, Items
<1> QED BY <1>4, SiteAssumption DEF Fetched!Deck

\* A render changes the deck only.
LEMMA RenderedFields ==
  ASSUME NEW q \in InterviewPages
  PROVE  /\ Fetched!Rendered(q) \in InterviewPages
         /\ Fetched!Rendered(q).scope = q.scope /\ Fetched!Rendered(q).due = q.due
         /\ Fetched!Rendered(q).questions = q.questions /\ Fetched!Rendered(q).total = q.total
         /\ Fetched!Rendered(q).offset = q.offset /\ Fetched!Rendered(q).loading = q.loading
         /\ Fetched!Rendered(q).error = q.error /\ Fetched!Rendered(q).loadingMore = q.loadingMore
         /\ Fetched!Rendered(q).first = q.first /\ Fetched!Rendered(q).more = q.more
         /\ Fetched!Rendered(q).sessions = q.sessions
         /\ Fetched!Rendered(q).deck =
              IF ~Fetched!Displayed(q) THEN None
              ELSE IF q.deck # None /\ q.deck.scope = q.scope THEN q.deck ELSE Fetched!Deck(q)
<1> DEFINE deck == IF ~Fetched!Displayed(q) THEN None
                   ELSE IF q.deck # None /\ q.deck.scope = q.scope THEN q.deck ELSE Fetched!Deck(q)
<1>1. deck \in Fetched!Decks \cup {None}
  BY DeckOf DEF InterviewPages
<1>2. Fetched!Rendered(q) = [q EXCEPT !.deck = deck]
  BY DEF Fetched!Rendered
<1> HIDE DEF deck
<1>3. /\ [q EXCEPT !.deck = deck] \in InterviewPages
      /\ [q EXCEPT !.deck = deck].deck = deck
  BY <1>1 DEF InterviewPages
<1> QED BY <1>2, <1>3 DEF InterviewPages, deck

\* An action that leaves the page ready and its reader in place renders a sound page.
LEMMA RenderedStep ==
  ASSUME InterviewOf(page), NEW q \in InterviewPages, Ready(q), Stays(page, q),
         page' = Fetched!Rendered(q)
  PROVE  InterviewOf(page') /\ Fetched!KeepsPlace
<1>1. PICK r : r = Fetched!Rendered(q)
  OBVIOUS
<1>2. /\ r \in InterviewPages
      /\ r.scope = q.scope /\ r.due = q.due /\ r.questions = q.questions /\ r.total = q.total
      /\ r.offset = q.offset /\ r.loading = q.loading /\ r.error = q.error /\ r.loadingMore = q.loadingMore
      /\ r.first = q.first /\ r.more = q.more /\ r.sessions = q.sessions
      /\ r.deck = IF ~Fetched!Displayed(q) THEN None
                  ELSE IF q.deck # None /\ q.deck.scope = q.scope THEN q.deck ELSE Fetched!Deck(q)
  BY <1>1, RenderedFields
<1>3. Fetched!Displayed(r) <=> Fetched!Displayed(q)
  BY <1>2 DEF Fetched!Displayed
<1>4. Fetched!Displayed(q) => Fetched!Deck(q).scope = q.scope /\ ~Fetched!Deck(q).finding
  BY DeckOf
<1>5. Decked(r)
  BY <1>2, <1>3, <1>4 DEF Decked
<1>6. Awaited(r)
  BY <1>2, <1>3, <1>4 DEF Ready, Awaited
<1>7. Fetching(q) => Fetching(r)
  BY <1>2, <1>3 DEF Fetching, Whole
<1>8. InterviewOf(r)
  BY <1>2, <1>5, <1>6, <1>7 DEF InterviewOf, Ready
<1>9. Fetched!KeepsPlace
  <2>1. page' = r
    BY <1>1
  <2>2. page.deck # None => page.deck.scope = page.scope
    BY DEF InterviewOf, Decked
  <2> SUFFICES ASSUME page.deck # None, r.deck # None, r.deck.scope = page.deck.scope
               PROVE  \/ r.deck.selected = page.deck.selected /\ (page.deck.answerViewed => r.deck.answerViewed)
                      \/ r.sessions[page.scope] = r.deck.selected /\ ~r.deck.revealed /\ ~r.deck.answerViewed
    BY <2>1 DEF Fetched!KeepsPlace
  <2>3. q.scope = page.scope
    BY <1>5, <1>2, <2>2 DEF Decked
  <2>4. r.deck = q.deck
    BY <1>2, <2>2, <2>3 DEF Stays
  <2> QED BY <1>2, <2>3, <2>4 DEF Stays
<1> QED BY <1>1, <1>8, <1>9

\* The page opens with its effect due.
LEMMA InterviewStart == Fetched!InterviewInit => InterviewOf(page)
<1> SUFFICES ASSUME NEW scope \in Scopes,
                    page = [scope |-> scope, due |-> TRUE, questions |-> <<>>, total |-> 0, offset |-> 0,
                            loading |-> TRUE, error |-> FALSE, loadingMore |-> FALSE, loadMoreError |-> FALSE,
                            first |-> None, more |-> None, deck |-> None, sessions |-> [s \in Scopes |-> None]]
             PROVE  InterviewOf(page)
  BY DEF Fetched!InterviewInit, Scopes
<1>1. <<>> \in Seq(Items)
  OBVIOUS
<1> QED BY <1>1 DEF InterviewOf, InterviewPages, Ready, Awaited, Decked

\* Another scope: a new deck, and an effect that is due.
LEMMA ChooseStep ==
  ASSUME InterviewOf(page), Fetched!ChooseScope
  PROVE  InterviewOf(page') /\ Fetched!KeepsPlace
<1>1. PICK scope \in Scopes \ {page.scope} :
         Fetched!Renders([page EXCEPT !.scope = scope, !.due = TRUE])
  BY DEF Fetched!ChooseScope, Scopes
<1>2. PICK q : q = [page EXCEPT !.scope = scope, !.due = TRUE]
  OBVIOUS
<1>3. page \in InterviewPages
  BY DEF InterviewOf
<1>4. q \in InterviewPages /\ q.scope # page.scope /\ q.due
  BY <1>2, <1>3 DEF InterviewPages
<1>5. Ready(q)
  BY <1>4 DEF Ready, Awaited
<1>6. Stays(page, q)
  BY <1>4 DEF Stays
<1> QED BY <1>1, <1>2, <1>4, <1>5, <1>6, RenderedStep DEF Fetched!Renders

\* The effect, or a retry: what was under way is dropped, the first page is asked for.
LEMMA RestartedStep ==
  ASSUME InterviewOf(page), Fetched!RunEffect \/ Fetched!Retry
  PROVE  InterviewOf(page') /\ Fetched!KeepsPlace
<1>1. /\ Fetched!Renders(Fetched!Restarted(page)) /\ page \in InterviewPages
  BY DEF Fetched!RunEffect, Fetched!Retry, InterviewOf
<1>2. PICK q : q = Fetched!Restarted(page)
  OBVIOUS
<1>3. /\ q \in InterviewPages /\ q.scope = page.scope /\ ~q.due /\ q.first = page.scope /\ q.more = None
      /\ q.loading /\ ~q.error /\ ~q.loadingMore /\ q.deck = page.deck
  BY <1>1, <1>2 DEF Fetched!Restarted, InterviewPages
<1>4. page.scope # None /\ ~Fetched!Displayed(q)
  BY <1>1, <1>3, SiteAssumption DEF InterviewPages, Fetched!Displayed, Scopes, Fetched!Scopes
<1>5. Ready(q)
  BY <1>3, <1>4 DEF Ready, Awaited, Fetching
<1>6. Stays(page, q)
  BY <1>3 DEF Stays, InterviewOf, Decked
<1> QED BY <1>1, <1>2, <1>3, <1>5, <1>6, RenderedStep DEF Fetched!Renders

\* The first page arrives, perhaps of a scope that was left.
LEMMA FirstAnsweredStep ==
  ASSUME InterviewOf(page), Fetched!FirstAnswered
  PROVE  InterviewOf(page') /\ Fetched!KeepsPlace
<1>1. /\ Fetched!Renders(Fetched!FirstPage(page)) /\ page \in InterviewPages
      /\ page.first \in Scopes /\ page.first # None
  BY DEF Fetched!FirstAnswered, InterviewOf, InterviewPages
<1>2. PICK q : q = Fetched!FirstPage(page)
  OBVIOUS
<1>3. PICK asked : asked = Fetched!InterviewQuestions(page.first, 0)
  OBVIOUS
<1>4. /\ asked \in Seq(Items) /\ Len(asked) \in Nat /\ Len(asked) <= Len(Bank[page.first])
      /\ Members(asked) = {Bank[page.first][i] : i \in 0 + 1..0 + Len(asked)}
      /\ Len(Bank[page.first]) \in Nat
  <2>1. 0 \in Nat /\ 0 <= Len(Bank[page.first]) /\ Len(Bank[page.first]) \in Nat
    BY <1>1, BankFacts
  <2>2. /\ asked \in Seq(Items)
        /\ 0 + Len(asked) <= Len(Bank[page.first])
        /\ Members(asked) = {Bank[page.first][i] : i \in 0 + 1..0 + Len(asked)}
    BY <1>1, <1>3, <2>1, PageFacts
  <2> QED BY <2>1, <2>2
<1>5. q = [page EXCEPT !.questions = asked, !.total = Len(Bank[page.first]), !.offset = Len(asked),
                       !.loading = FALSE, !.first = None]
  BY <1>2, <1>3 DEF Fetched!FirstPage
<1>6. /\ q \in InterviewPages /\ q.scope = page.scope /\ q.due = page.due /\ q.first = None /\ q.more = page.more
      /\ ~q.loading /\ q.error = page.error /\ q.loadingMore = page.loadingMore /\ q.deck = page.deck
      /\ q.questions = asked /\ q.offset = Len(asked) /\ q.total = Len(Bank[page.first])
  BY <1>1, <1>4, <1>5 DEF InterviewPages
<1>7. CASE page.due
  <2>1. Ready(q)
    BY <1>6, <1>7 DEF Ready, Awaited
  <2>2. Stays(page, q)
    BY <1>6 DEF Stays, InterviewOf, Decked
  <2> QED BY <1>1, <1>2, <1>6, <2>1, <2>2, RenderedStep DEF Fetched!Renders
<1>8. CASE ~page.due
  <2>1. page.loading /\ page.first = page.scope /\ page.more = None /\ page.deck = None /\ ~page.loadingMore
    BY <1>1, <1>8 DEF InterviewOf, Ready, Awaited, Fetching, Decked, Fetched!Displayed
  <2>2. Members(asked) = Taken(page.scope, Len(asked))
    BY <1>4, <2>1 DEF Taken
  <2>3. Whole(q)
    BY <1>4, <1>6, <2>1, <2>2 DEF Whole
  <2>4. Ready(q)
    BY <1>6, <2>1, <2>3 DEF Ready, Awaited, Fetching
  <2>5. Stays(page, q)
    BY <2>1 DEF Stays
  <2> QED BY <1>1, <1>2, <1>6, <2>4, <2>5, RenderedStep DEF Fetched!Renders
<1> QED BY <1>7, <1>8

\* The first page fails.
LEMMA FirstFailsStep ==
  ASSUME InterviewOf(page), Fetched!FirstFails
  PROVE  InterviewOf(page') /\ Fetched!KeepsPlace
<1>1. PICK q : /\ q = [page EXCEPT !.error = TRUE, !.loading = FALSE, !.first = None]
               /\ page' = Fetched!Rendered(q)
  BY DEF Fetched!FirstFails, Fetched!Renders
<1>2. /\ page \in InterviewPages /\ page.first # None
  BY DEF Fetched!FirstFails, InterviewOf
<1>3. /\ q \in InterviewPages /\ q.scope = page.scope /\ q.due = page.due /\ q.first = None /\ q.more = page.more
      /\ ~q.loading /\ q.error /\ q.loadingMore = page.loadingMore /\ q.deck = page.deck
  BY <1>1, <1>2 DEF InterviewPages
<1>4. ~Fetched!Displayed(q)
  BY <1>3 DEF Fetched!Displayed
<1>5. Ready(q)
  BY <1>2, <1>3, <1>4 DEF InterviewOf, Ready, Awaited, Fetching
<1>6. Stays(page, q)
  BY <1>3 DEF Stays, InterviewOf, Decked
<1> QED BY <1>1, <1>3, <1>5, <1>6, RenderedStep

\* A request for more of the scope on display.
LEMMA MoreFields ==
  ASSUME NEW p \in InterviewPages, NEW key \in Items \cup {None}
  PROVE  /\ Fetched!More(p, key) \in InterviewPages
         /\ Fetched!More(p, key).more = [scope |-> p.scope, offset |-> p.offset, total |-> p.total, key |-> key]
         /\ Fetched!More(p, key).more \in Fetched!Requests /\ Fetched!More(p, key).more # None
         /\ Fetched!More(p, key).loadingMore
         /\ Fetched!More(p, key).scope = p.scope /\ Fetched!More(p, key).due = p.due
         /\ Fetched!More(p, key).first = p.first /\ Fetched!More(p, key).loading = p.loading
         /\ Fetched!More(p, key).error = p.error /\ Fetched!More(p, key).deck = p.deck
         /\ Fetched!More(p, key).questions = p.questions /\ Fetched!More(p, key).offset = p.offset
         /\ Fetched!More(p, key).total = p.total /\ Fetched!More(p, key).sessions = p.sessions
<1> DEFINE request == [scope |-> p.scope, offset |-> p.offset, total |-> p.total, key |-> key]
<1>1. request \in Fetched!Requests
  BY DEF InterviewPages, Fetched!Requests, Scopes, Items
<1>2. request # None
  BY <1>1, SiteAssumption
<1>3. Fetched!More(p, key) = [p EXCEPT !.more = request, !.loadingMore = TRUE, !.loadMoreError = FALSE]
  BY DEF Fetched!More
<1> HIDE DEF request
<1> QED BY <1>1, <1>2, <1>3 DEF InterviewPages, request

\* What a displayed deck is told of a search for its question.
LEMMA FindingFields ==
  ASSUME NEW p \in InterviewPages, NEW finding \in BOOLEAN, NEW missing \in BOOLEAN
  PROVE  /\ Fetched!Finding(p, finding, missing) \in InterviewPages
         /\ Fetched!Finding(p, finding, missing).more = p.more
         /\ Fetched!Finding(p, finding, missing).loadingMore = p.loadingMore
         /\ Fetched!Finding(p, finding, missing).scope = p.scope
         /\ Fetched!Finding(p, finding, missing).due = p.due
         /\ Fetched!Finding(p, finding, missing).first = p.first
         /\ Fetched!Finding(p, finding, missing).loading = p.loading
         /\ Fetched!Finding(p, finding, missing).error = p.error
         /\ Fetched!Finding(p, finding, missing).questions = p.questions
         /\ Fetched!Finding(p, finding, missing).offset = p.offset
         /\ Fetched!Finding(p, finding, missing).total = p.total
         /\ Fetched!Finding(p, finding, missing).sessions = p.sessions
         /\ p.deck = None => Fetched!Finding(p, finding, missing).deck = None
         /\ p.deck # None =>
              /\ Fetched!Finding(p, finding, missing).deck # None
              /\ Fetched!Finding(p, finding, missing).deck.finding = finding
              /\ Fetched!Finding(p, finding, missing).deck.scope = p.deck.scope
              /\ Fetched!Finding(p, finding, missing).deck.selected = p.deck.selected
              /\ Fetched!Finding(p, finding, missing).deck.answerViewed = p.deck.answerViewed
<1>1. CASE p.deck = None
  BY <1>1 DEF Fetched!Finding
<1>2. CASE p.deck # None
  <2>1. PICK d : d = [p.deck EXCEPT !.finding = finding, !.missing = missing]
    OBVIOUS
  <2>2. p.deck \in Fetched!Decks
    BY <1>2 DEF InterviewPages
  <2>3. /\ d \in Fetched!Decks /\ d.finding = finding /\ d.scope = p.deck.scope /\ d.selected = p.deck.selected
        /\ d.answerViewed = p.deck.answerViewed
    BY <2>1, <2>2 DEF Fetched!Decks
  <2>4. d # None
    BY <2>3, SiteAssumption
  <2>5. Fetched!Finding(p, finding, missing) = [p EXCEPT !.deck = d]
    BY <1>2, <2>1 DEF Fetched!Finding, InterviewPages
  <2> QED BY <1>2, <2>3, <2>4, <2>5 DEF InterviewPages
<1> QED BY <1>1, <1>2

\* The reader asks for more.
LEMMA LoadMoreStep ==
  ASSUME InterviewOf(page), Fetched!LoadMore
  PROVE  InterviewOf(page') /\ Fetched!KeepsPlace
<1>1. /\ page \in InterviewPages /\ Fetched!Displayed(page) /\ ~page.loadingMore
      /\ Fetched!Renders(Fetched!More(page, None))
  BY DEF Fetched!LoadMore, InterviewOf
<1>2. PICK q : q = Fetched!More(page, None)
  OBVIOUS
<1>3. /\ q \in InterviewPages
      /\ q.more = [scope |-> page.scope, offset |-> page.offset, total |-> page.total, key |-> None]
      /\ q.more # None /\ q.loadingMore
      /\ q.scope = page.scope /\ q.due = page.due /\ q.first = page.first /\ q.loading = page.loading
      /\ q.error = page.error /\ q.deck = page.deck /\ q.questions = page.questions
      /\ q.offset = page.offset /\ q.total = page.total /\ q.sessions = page.sessions
  BY <1>1, <1>2, MoreFields
<1>4. Fetched!Displayed(q)
  BY <1>1, <1>3 DEF Fetched!Displayed
<1>5. Awaited(q)
  BY <1>1, <1>3 DEF Awaited, InterviewOf, Ready, Fetching
<1>6. ~page.due => page.first = None /\ Whole(page)
  BY <1>1 DEF InterviewOf, Ready, Fetching, Fetched!Displayed
<1>7. ~q.due => Fetching(q)
  BY <1>3, <1>4, <1>6 DEF Fetching, Whole
<1>8. Stays(page, q)
  BY <1>3 DEF Stays, InterviewOf, Decked
<1> QED BY <1>1, <1>2, <1>3, <1>5, <1>7, <1>8, RenderedStep DEF Ready, Fetched!Renders

\* The deck looks for the question the session was left at, or gives it up.
LEMMA FindStep ==
  ASSUME InterviewOf(page), Fetched!FindSavedQuestion
  PROVE  InterviewOf(page') /\ Fetched!KeepsPlace
<1>1. /\ page \in InterviewPages /\ page.deck # None /\ page.deck \in Fetched!Decks
      /\ Fetched!Displayed(page) /\ page.deck.scope = page.scope
      /\ page.deck.selected \in Items
  BY DEF Fetched!FindSavedQuestion, Fetched!Missing, InterviewOf, InterviewPages, Decked, Fetched!Decks, Items
<1>2. ~page.due => page.first = None /\ Whole(page)
  BY <1>1 DEF InterviewOf, Ready, Fetching, Fetched!Displayed
<1>3. CASE page.offset < page.total
  <2>1. PICK m : m = Fetched!More(page, page.deck.selected)
    OBVIOUS
  <2>2. PICK q : q = Fetched!Finding(m, TRUE, FALSE)
    OBVIOUS
  <2>3. page' = Fetched!Rendered(q)
    BY <1>3, <2>1, <2>2 DEF Fetched!FindSavedQuestion, Fetched!Renders
  <2>4. /\ m \in InterviewPages
        /\ m.more = [scope |-> page.scope, offset |-> page.offset, total |-> page.total,
                     key |-> page.deck.selected]
        /\ m.more # None /\ m.loadingMore
        /\ m.scope = page.scope /\ m.due = page.due /\ m.first = page.first /\ m.loading = page.loading
        /\ m.error = page.error /\ m.deck = page.deck /\ m.questions = page.questions
        /\ m.offset = page.offset /\ m.total = page.total
    BY <1>1, <2>1, MoreFields
  <2>5. /\ q \in InterviewPages
        /\ q.more = m.more /\ q.loadingMore = m.loadingMore /\ q.scope = m.scope /\ q.due = m.due
        /\ q.first = m.first /\ q.loading = m.loading /\ q.error = m.error /\ q.questions = m.questions
        /\ q.offset = m.offset /\ q.total = m.total
        /\ m.deck # None => /\ q.deck # None /\ q.deck.finding = TRUE /\ q.deck.scope = m.deck.scope
                            /\ q.deck.selected = m.deck.selected /\ q.deck.answerViewed = m.deck.answerViewed
    BY <2>2, <2>4, FindingFields
  <2>6. Fetched!Displayed(q)
    BY <1>1, <2>4, <2>5 DEF Fetched!Displayed
  <2>7. page.deck.selected # None
    BY <1>1, SiteAssumption DEF Items
  <2>8. Awaited(q)
    BY <2>4, <2>5, <2>6, <2>7, <1>1 DEF Awaited, Fetched!Displayed
  <2>9. ~q.due => Fetching(q)
    BY <1>2, <2>4, <2>5, <2>6 DEF Fetching, Whole
  <2>10. Stays(page, q)
    BY <1>1, <2>4, <2>5 DEF Stays
  <2> QED BY <2>3, <2>5, <2>8, <2>9, <2>10, RenderedStep DEF Ready
<1>4. CASE ~(page.offset < page.total)
  <2>1. PICK m : m = [page EXCEPT !.more = None, !.loadingMore = FALSE, !.loadMoreError = FALSE]
    OBVIOUS
  <2>2. PICK q : q = Fetched!Finding(m, FALSE, TRUE)
    OBVIOUS
  <2>3. page' = Fetched!Rendered(q)
    BY <1>4, <2>1, <2>2 DEF Fetched!FindSavedQuestion, Fetched!Renders
  <2>4. /\ m \in InterviewPages /\ m.more = None /\ ~m.loadingMore
        /\ m.scope = page.scope /\ m.due = page.due /\ m.first = page.first /\ m.loading = page.loading
        /\ m.error = page.error /\ m.deck = page.deck /\ m.questions = page.questions
        /\ m.offset = page.offset /\ m.total = page.total
    BY <1>1, <2>1 DEF InterviewPages
  <2>5. /\ q \in InterviewPages
        /\ q.more = m.more /\ q.loadingMore = m.loadingMore /\ q.scope = m.scope /\ q.due = m.due
        /\ q.first = m.first /\ q.loading = m.loading /\ q.error = m.error /\ q.questions = m.questions
        /\ q.offset = m.offset /\ q.total = m.total
        /\ m.deck # None => /\ q.deck # None /\ q.deck.finding = FALSE /\ q.deck.scope = m.deck.scope
                            /\ q.deck.selected = m.deck.selected /\ q.deck.answerViewed = m.deck.answerViewed
    BY <2>2, <2>4, FindingFields
  <2>6. Fetched!Displayed(q)
    BY <1>1, <2>4, <2>5 DEF Fetched!Displayed
  <2>7. Awaited(q)
    BY <2>4, <2>5, <2>6, <1>1 DEF Awaited, Fetched!Displayed
  <2>8. ~q.due => Fetching(q)
    BY <1>2, <2>4, <2>5, <2>6 DEF Fetching, Whole
  <2>9. Stays(page, q)
    BY <1>1, <2>4, <2>5 DEF Stays
  <2> QED BY <2>3, <2>5, <2>7, <2>8, <2>9, RenderedStep DEF Ready
<1> QED BY <1>3, <1>4

\* A request that ends, answered or not.
LEMMA EndedFields ==
  ASSUME NEW p \in InterviewPages
  PROVE  /\ Fetched!Ended(p) \in InterviewPages /\ Fetched!Ended(p).more = None /\ ~Fetched!Ended(p).loadingMore
         /\ Fetched!Ended(p).scope = p.scope /\ Fetched!Ended(p).due = p.due
         /\ Fetched!Ended(p).first = p.first /\ Fetched!Ended(p).loading = p.loading
         /\ Fetched!Ended(p).error = p.error /\ Fetched!Ended(p).deck = p.deck
         /\ Fetched!Ended(p).questions = p.questions /\ Fetched!Ended(p).offset = p.offset
         /\ Fetched!Ended(p).total = p.total
BY DEF Fetched!Ended, InterviewPages

\* What the reader has, with one more page of its scope.
LEMMA AppendedFields ==
  ASSUME NEW p \in InterviewPages, p.more # None, NEW asked \in Seq(Items)
  PROVE  /\ Fetched!Appended(p, asked) \in InterviewPages
         /\ Fetched!Appended(p, asked).more = p.more
         /\ Fetched!Appended(p, asked).loadingMore = p.loadingMore
         /\ Fetched!Appended(p, asked).scope = p.scope /\ Fetched!Appended(p, asked).due = p.due
         /\ Fetched!Appended(p, asked).first = p.first /\ Fetched!Appended(p, asked).loading = p.loading
         /\ Fetched!Appended(p, asked).error = p.error /\ Fetched!Appended(p, asked).deck = p.deck
         /\ Fetched!Appended(p, asked).questions = p.questions \o asked
         /\ Fetched!Appended(p, asked).offset =
              IF p.more.key = None THEN p.offset + Len(asked) ELSE p.more.offset + Len(asked)
         /\ Fetched!Appended(p, asked).total = p.total
<1> DEFINE offset == IF p.more.key = None THEN p.offset + Len(asked) ELSE p.more.offset + Len(asked)
           questions == p.questions \o asked
<1>1. p.more \in Fetched!Requests /\ p.questions \in Seq(Items) /\ p.offset \in Nat
  BY DEF InterviewPages
<1>2. p.more.offset \in Nat /\ Len(asked) \in Nat
  BY <1>1 DEF Fetched!Requests
<1>3. offset \in Nat /\ questions \in Seq(Items)
  BY <1>1, <1>2
<1>4. Fetched!Appended(p, asked) = [p EXCEPT !.questions = questions, !.offset = offset]
  BY DEF Fetched!Appended, InterviewPages
<1> HIDE DEF offset, questions
<1>5. /\ Fetched!Appended(p, asked) \in InterviewPages
      /\ Fetched!Appended(p, asked).questions = questions
      /\ Fetched!Appended(p, asked).offset = offset
      /\ Fetched!Appended(p, asked).more = p.more
      /\ Fetched!Appended(p, asked).loadingMore = p.loadingMore
      /\ Fetched!Appended(p, asked).scope = p.scope /\ Fetched!Appended(p, asked).due = p.due
      /\ Fetched!Appended(p, asked).first = p.first /\ Fetched!Appended(p, asked).loading = p.loading
      /\ Fetched!Appended(p, asked).error = p.error /\ Fetched!Appended(p, asked).deck = p.deck
      /\ Fetched!Appended(p, asked).total = p.total
  BY <1>3, <1>4 DEF InterviewPages
<1> QED BY <1>5 DEF offset, questions

\* A page of the scope on display keeps the deck whole.
LEMMA AppendedWhole ==
  ASSUME NEW p \in InterviewPages, Whole(p), p.more # None, p.more.scope = p.scope, p.more.offset = p.offset,
         NEW asked, asked = Fetched!InterviewQuestions(p.scope, p.offset)
  PROVE  Whole(Fetched!Appended(p, asked))
<1>1. /\ p.scope \in Scopes /\ p.offset \in Nat /\ p.offset <= Len(Bank[p.scope]) /\ p.questions \in Seq(Items)
      /\ Len(p.questions) = p.offset /\ p.total = Len(Bank[p.scope])
      /\ Members(p.questions) = Taken(p.scope, p.offset)
  BY DEF InterviewPages, Whole
<1>2. /\ asked \in Seq(Items) /\ p.offset + Len(asked) <= Len(Bank[p.scope])
      /\ Members(asked) = {Bank[p.scope][i] : i \in p.offset + 1..p.offset + Len(asked)}
  BY <1>1, PageFacts
<1>3. Len(asked) \in Nat
  BY <1>2
<1>4. Members(p.questions \o asked) = Members(p.questions) \cup Members(asked)
  BY <1>1, <1>2, JoinedMembers
<1>5. Taken(p.scope, p.offset + Len(asked)) =
        Taken(p.scope, p.offset) \cup {Bank[p.scope][i] : i \in p.offset + 1..p.offset + Len(asked)}
  <2>1. 1..p.offset + Len(asked) = (1..p.offset) \cup (p.offset + 1..p.offset + Len(asked))
    BY <1>1, <1>3
  <2> QED BY <2>1 DEF Taken
<1>6. Len(p.questions \o asked) = p.offset + Len(asked)
  <2>1. p.questions \in Seq(Items) /\ asked \in Seq(Items)
    BY <1>1, <1>2
  <2>2. Len(p.questions \o asked) = Len(p.questions) + Len(asked)
    BY <2>1
  <2> QED BY <1>1, <2>2
<1>7. PICK q : q = Fetched!Appended(p, asked)
  OBVIOUS
<1>8. /\ q.scope = p.scope /\ q.questions = p.questions \o asked /\ q.offset = p.offset + Len(asked)
      /\ q.total = p.total
  <2>1. asked \in Seq(Items)
    BY <1>2
  <2>2. /\ q.scope = p.scope /\ q.questions = p.questions \o asked /\ q.total = p.total
        /\ q.offset = IF p.more.key = None THEN p.offset + Len(asked) ELSE p.more.offset + Len(asked)
    BY <1>7, <2>1, AppendedFields
  <2> QED BY <2>2
<1>9. Whole(q)
  BY <1>1, <1>2, <1>4, <1>5, <1>6, <1>8 DEF Whole
<1> QED BY <1>7, <1>9

\* A late page of another scope is dropped; its effect is due.
LEMMA StaleStep ==
  ASSUME InterviewOf(page), page.more # None, Fetched!Stale(page),
         Fetched!Renders([page EXCEPT !.more = None])
  PROVE  InterviewOf(page') /\ Fetched!KeepsPlace
<1>1. PICK q : q = [page EXCEPT !.more = None]
  OBVIOUS
<1>2. page \in InterviewPages /\ page.due
  BY DEF InterviewOf, Ready, Fetching, Fetched!Stale
<1>3. q \in InterviewPages /\ q.due /\ q.scope = page.scope /\ q.deck = page.deck
  BY <1>1, <1>2 DEF InterviewPages
<1>4. Ready(q)
  BY <1>3 DEF Ready, Awaited
<1>5. Stays(page, q)
  BY <1>3 DEF Stays, InterviewOf, Decked
<1> QED BY <1>1, <1>3, <1>4, <1>5, RenderedStep DEF Fetched!Renders

\* What arrives for the deck on display: the end of it, or a search that goes on.
LEMMA ArrivedFields ==
  ASSUME NEW p \in InterviewPages, p.more # None,
         ~p.due => Fetched!Displayed(p) /\ p.loadingMore /\ p.first = None /\ Whole(p)
                   /\ p.more.offset = p.offset /\ p.more.total = p.total,
         p.more.scope = p.scope
  PROVE  /\ Fetched!MoreArrived(p) \in InterviewPages
         /\ Fetched!MoreArrived(p).scope = p.scope /\ Fetched!MoreArrived(p).due = p.due
         /\ Fetched!MoreArrived(p).loading = p.loading
         /\ p.deck # None =>
              /\ Fetched!MoreArrived(p).deck # None /\ Fetched!MoreArrived(p).deck.scope = p.deck.scope
              /\ Fetched!MoreArrived(p).deck.selected = p.deck.selected
              /\ Fetched!MoreArrived(p).deck.answerViewed = p.deck.answerViewed
         /\ p.deck = None => Fetched!MoreArrived(p).deck = None
         /\ ~p.due => Fetching(Fetched!MoreArrived(p))
         /\ \/ /\ Fetched!MoreArrived(p).more = None /\ ~Fetched!MoreArrived(p).loadingMore
               /\ p.deck # None => \/ Fetched!MoreArrived(p).deck = p.deck /\ p.more.key = None
                                   \/ ~Fetched!MoreArrived(p).deck.finding
            \/ /\ Fetched!MoreArrived(p).more # None /\ Fetched!MoreArrived(p).more.key # None
<1>1. PICK asked : asked = Fetched!InterviewQuestions(p.more.scope, p.more.offset)
  OBVIOUS
<1>2. PICK a : a = Fetched!Appended(p, asked)
  OBVIOUS
<1>3. PICK q : q = Fetched!MoreArrived(p)
  OBVIOUS
<1>4. p.more \in Fetched!Requests /\ p.more.offset \in Nat /\ p.more.scope \in Scopes
  BY DEF InterviewPages, Fetched!Requests, Scopes
<1>5. asked \in Seq(Items) /\ Len(asked) \in Nat
  BY <1>1, <1>4, PageFacts
<1>6. /\ a \in InterviewPages /\ a.more = p.more /\ a.loadingMore = p.loadingMore /\ a.scope = p.scope
      /\ a.due = p.due /\ a.first = p.first /\ a.loading = p.loading /\ a.error = p.error /\ a.deck = p.deck
      /\ a.questions = p.questions \o asked /\ a.total = p.total
  BY <1>2, <1>5, AppendedFields
<1>7. a.offset = IF p.more.key = None THEN p.offset + Len(asked) ELSE p.more.offset + Len(asked)
  BY <1>2, <1>5, AppendedFields
<1>8. ~p.due => /\ Whole(a) /\ Fetched!Displayed(a) /\ a.first = None
                /\ a.offset = p.more.offset + Len(asked)
  <2> SUFFICES ASSUME ~p.due PROVE Whole(a) /\ Fetched!Displayed(a) /\ a.offset = p.more.offset + Len(asked)
    BY <1>6
  <2>1. Whole(a)
    BY <1>1, <1>2, AppendedWhole
  <2>2. p.questions \in Seq(Items) /\ p.questions # <<>>
    BY DEF InterviewPages, Fetched!Displayed
  <2>3. p.questions \o asked # <<>>
    BY <1>5, <2>2
  <2>4. Fetched!Displayed(a)
    BY <1>6, <2>3 DEF Fetched!Displayed
  <2> QED BY <1>7, <2>1, <2>4
<1> DEFINE next == p.more.offset + Len(asked)
           found == p.more.key \in Fetched!ToSet(asked)
           goesOn == p.more.key # None /\ asked # <<>> /\ ~found /\ next < p.more.total
<1>9. CASE goesOn
  <2>1. PICK m : m = [p.more EXCEPT !.offset = next]
    OBVIOUS
  <2>2. next \in Nat
    BY <1>4, <1>5
  <2> HIDE DEF next
  <2>3. m \in Fetched!Requests /\ m.offset = next /\ m.scope = p.more.scope /\ m.total = p.more.total
        /\ m.key = p.more.key
    BY <1>4, <2>1, <2>2 DEF Fetched!Requests
  <2>4. m # None
    BY <2>3, SiteAssumption
  <2>5. q = [a EXCEPT !.more.offset = next]
    BY <1>1, <1>2, <1>3, <1>9 DEF Fetched!MoreArrived, next
  <2>6. q = [a EXCEPT !.more = m]
    BY <1>6, <2>1, <2>5 DEF InterviewPages
  <2>7. /\ q \in InterviewPages /\ q.more = m /\ q.loadingMore = a.loadingMore /\ q.scope = a.scope
        /\ q.due = a.due /\ q.first = a.first /\ q.loading = a.loading /\ q.error = a.error /\ q.deck = a.deck
        /\ q.questions = a.questions /\ q.offset = a.offset /\ q.total = a.total
    BY <1>6, <2>3, <2>6 DEF InterviewPages
  <2>8. ~p.due => Fetching(q)
    <3> SUFFICES ASSUME ~p.due PROVE Fetching(q)
      OBVIOUS
    <3>1. Fetched!Displayed(q)
      BY <1>8, <2>7 DEF Fetched!Displayed
    <3>2. Whole(q)
      BY <1>8, <2>7 DEF Whole
    <3>3. q.more.offset = q.offset
      BY <1>8, <2>3, <2>7 DEF next
    <3> QED BY <1>6, <1>8, <2>3, <2>7, <3>1, <3>2, <3>3 DEF Fetching
  <2> QED BY <1>3, <1>6, <1>9, <2>3, <2>4, <2>7, <2>8
<1>10. CASE ~goesOn
  <2>1. PICK e : e = Fetched!Ended(a)
    OBVIOUS
  <2>2. /\ e \in InterviewPages /\ e.more = None /\ ~e.loadingMore /\ e.scope = a.scope
        /\ e.due = a.due /\ e.first = a.first /\ e.loading = a.loading /\ e.error = a.error /\ e.deck = a.deck
        /\ e.questions = a.questions /\ e.offset = a.offset /\ e.total = a.total
    BY <1>6, <2>1, EndedFields
  <2>3. CASE p.more.key = None
    <3>1. q = e
      BY <1>1, <1>2, <1>3, <2>1, <2>3 DEF Fetched!MoreArrived
    <3>2. ~p.due => Fetching(q)
      BY <1>6, <1>8, <2>2, <3>1 DEF Fetching, Whole, Fetched!Displayed
    <3> QED BY <1>3, <1>6, <2>2, <2>3, <3>1, <3>2
  <2>4. CASE p.more.key # None
    <3>1. q = Fetched!Finding(e, FALSE, ~found)
      BY <1>1, <1>2, <1>3, <1>10, <2>1, <2>4 DEF Fetched!MoreArrived
    <3>2. (~found) \in BOOLEAN
      OBVIOUS
    <3>3. PICK missing \in BOOLEAN : q = Fetched!Finding(e, FALSE, missing)
      BY <3>1, <3>2, Zenon
    <3>4. /\ q \in InterviewPages
          /\ q.more = e.more /\ q.loadingMore = e.loadingMore /\ q.scope = e.scope /\ q.due = e.due
          /\ q.first = e.first /\ q.loading = e.loading /\ q.error = e.error /\ q.questions = e.questions
          /\ q.offset = e.offset /\ q.total = e.total
          /\ e.deck = None => q.deck = None
          /\ e.deck # None => /\ q.deck # None /\ q.deck.finding = FALSE /\ q.deck.scope = e.deck.scope
                              /\ q.deck.selected = e.deck.selected /\ q.deck.answerViewed = e.deck.answerViewed
      <4>1. e \in InterviewPages
        BY <2>2
      <4> QED BY <3>3, <4>1, FindingFields
    <3>5. ~p.due => Fetching(q)
      <4> SUFFICES ASSUME ~p.due PROVE Fetching(q)
        OBVIOUS
      <4>1. Fetched!Displayed(q) /\ q.more = None
        BY <1>8, <2>2, <3>4 DEF Fetched!Displayed
      <4>2. Whole(q)
        BY <1>8, <2>2, <3>4 DEF Whole
      <4> QED BY <1>6, <1>8, <2>2, <3>4, <4>1, <4>2 DEF Fetching
    <3> QED BY <1>3, <1>6, <2>2, <3>4, <3>5
  <2> QED BY <2>3, <2>4
<1> QED BY <1>9, <1>10

\* More arrives.
LEMMA MoreAnsweredStep ==
  ASSUME InterviewOf(page), Fetched!MoreAnswered
  PROVE  InterviewOf(page') /\ Fetched!KeepsPlace
<1>1. page \in InterviewPages /\ page.more # None
  BY DEF InterviewOf, Fetched!MoreAnswered
<1>2. CASE Fetched!Stale(page)
  BY <1>1, <1>2, StaleStep DEF Fetched!MoreAnswered
<1>3. CASE ~Fetched!Stale(page)
  <2>1. PICK q : q = Fetched!MoreArrived(page)
    OBVIOUS
  <2>2. page' = Fetched!Rendered(q)
    BY <1>3, <2>1 DEF Fetched!MoreAnswered, Fetched!Renders
  <2>3. ~page.due => /\ Fetched!Displayed(page) /\ page.loadingMore /\ page.first = None /\ Whole(page)
                     /\ page.more.offset = page.offset /\ page.more.total = page.total
    BY <1>1 DEF InterviewOf, Ready, Fetching
  <2>4. page.more.scope = page.scope
    BY <1>3 DEF Fetched!Stale
  <2>5. /\ q \in InterviewPages
        /\ q.scope = page.scope /\ q.due = page.due /\ q.loading = page.loading
        /\ page.deck # None =>
             /\ q.deck # None /\ q.deck.scope = page.deck.scope /\ q.deck.selected = page.deck.selected
             /\ q.deck.answerViewed = page.deck.answerViewed
        /\ page.deck = None => q.deck = None
        /\ ~page.due => Fetching(q)
        /\ \/ /\ q.more = None /\ ~q.loadingMore
              /\ page.deck # None => (q.deck = page.deck /\ page.more.key = None) \/ ~q.deck.finding
           \/ q.more # None /\ q.more.key # None
    BY <1>1, <2>1, <2>3, <2>4, ArrivedFields
  <2>6. q.loading => q.due \/ q.first # None
    BY <2>3, <2>5 DEF Fetched!Displayed
  <2>7. page.deck # None /\ page.deck.finding => page.due \/ page.more.key # None
    BY DEF InterviewOf, Decked, Ready, Awaited
  <2>8. Awaited(q)
    BY <2>5, <2>6, <2>7 DEF Awaited
  <2>9. Stays(page, q)
    BY <2>5 DEF Stays
  <2> QED BY <2>2, <2>5, <2>8, <2>9, RenderedStep DEF Ready
<1> QED BY <1>2, <1>3

\* More does not arrive.
LEMMA MoreFailsStep ==
  ASSUME InterviewOf(page), Fetched!MoreFails
  PROVE  InterviewOf(page') /\ Fetched!KeepsPlace
<1>1. page \in InterviewPages /\ page.more # None
  BY DEF InterviewOf, Fetched!MoreFails
<1>2. CASE Fetched!Stale(page)
  BY <1>1, <1>2, StaleStep DEF Fetched!MoreFails
<1>3. CASE ~Fetched!Stale(page)
  <2>1. PICK e : e = Fetched!Ended(page)
    OBVIOUS
  <2>2. /\ e \in InterviewPages /\ e.more = None /\ ~e.loadingMore /\ e.scope = page.scope
        /\ e.due = page.due /\ e.first = page.first /\ e.loading = page.loading /\ e.error = page.error
        /\ e.deck = page.deck /\ e.questions = page.questions /\ e.offset = page.offset /\ e.total = page.total
    BY <1>1, <2>1, EndedFields
  <2>3. ~page.due => Fetched!Displayed(page) /\ page.first = None /\ Whole(page)
    BY <1>1 DEF InterviewOf, Ready, Fetching
  <2>4. page.deck # None /\ page.deck.finding => page.due \/ page.more.key # None
    BY DEF InterviewOf, Decked, Ready, Awaited
  <2>5. PICK q : IF page.more.key = None THEN q = [e EXCEPT !.loadMoreError = TRUE]
                 ELSE q = Fetched!Finding(e, FALSE, TRUE)
    OBVIOUS
  <2>6. page' = Fetched!Rendered(q)
    BY <1>3, <2>1, <2>5 DEF Fetched!MoreFails, Fetched!Renders
  <2>7. /\ q \in InterviewPages /\ q.more = None /\ ~q.loadingMore /\ q.scope = page.scope
        /\ q.due = page.due /\ q.first = page.first /\ q.loading = page.loading /\ q.error = page.error
        /\ q.questions = page.questions /\ q.offset = page.offset /\ q.total = page.total
        /\ page.deck # None => /\ q.deck # None /\ q.deck.scope = page.deck.scope
                               /\ q.deck.selected = page.deck.selected
                               /\ q.deck.answerViewed = page.deck.answerViewed
                               /\ q.deck.finding => page.due
        /\ page.deck = None => q.deck = None
    <3>1. CASE page.more.key = None
      <4>1. q = [e EXCEPT !.loadMoreError = TRUE]
        BY <2>5, <3>1
      <4>2. /\ q \in InterviewPages /\ q.more = e.more /\ q.loadingMore = e.loadingMore /\ q.scope = e.scope
            /\ q.due = e.due /\ q.first = e.first /\ q.loading = e.loading /\ q.error = e.error
            /\ q.questions = e.questions /\ q.offset = e.offset /\ q.total = e.total /\ q.deck = e.deck
        BY <2>2, <4>1 DEF InterviewPages
      <4> QED BY <2>2, <2>4, <3>1, <4>2
    <3>2. CASE page.more.key # None
      <4>1. q = Fetched!Finding(e, FALSE, TRUE)
        BY <2>5, <3>2
      <4>2. /\ q \in InterviewPages
            /\ q.more = e.more /\ q.loadingMore = e.loadingMore /\ q.scope = e.scope /\ q.due = e.due
            /\ q.first = e.first /\ q.loading = e.loading /\ q.error = e.error /\ q.questions = e.questions
            /\ q.offset = e.offset /\ q.total = e.total
            /\ e.deck = None => q.deck = None
            /\ e.deck # None => /\ q.deck # None /\ q.deck.finding = FALSE /\ q.deck.scope = e.deck.scope
                                /\ q.deck.selected = e.deck.selected
                                /\ q.deck.answerViewed = e.deck.answerViewed
        BY <2>2, <4>1, FindingFields
      <4> QED BY <2>2, <4>2
    <3> QED BY <3>1, <3>2
  <2>8. Awaited(q)
    BY <2>3, <2>7 DEF Awaited, Fetched!Displayed, InterviewOf, Decked, Ready
  <2>9. ~q.due => Fetching(q)
    BY <2>3, <2>7 DEF Fetching, Whole, Fetched!Displayed
  <2>10. Stays(page, q)
    BY <2>7 DEF Stays
  <2> QED BY <2>6, <2>7, <2>8, <2>9, <2>10, RenderedStep DEF Ready
<1> QED BY <1>2, <1>3

\* A deck of distinct questions has finitely many.
LEMMA MembersFinite ==
  ASSUME NEW s \in Seq(Items)
  PROVE  IsFiniteSet(Members(s)) /\ Cardinality(Members(s)) \in Nat /\ Members(s) \subseteq Items
<1>1. s \in [1..Len(s) -> Items] /\ Len(s) \in Nat /\ DOMAIN s = 1..Len(s)
  OBVIOUS
<1>2. s \in Surjection(1..Len(s), Members(s))
  BY <1>1 DEF Surjection, Members
<1>3. IsFiniteSet(1..Len(s))
  BY <1>1, FS_Interval
<1>4. IsFiniteSet(Members(s))
  BY <1>2, <1>3, FS_Surjection
<1> QED BY <1>1, <1>4, FS_CardinalityType DEF Members

\* A shuffle keeps every question, once.
LEMMA ShuffleStep ==
  ASSUME InterviewOf(page), Fetched!Shuffle
  PROVE  InterviewOf(page') /\ Fetched!KeepsPlace
<1>1. page \in InterviewPages /\ Fetched!Displayed(page)
  BY DEF Fetched!Shuffle, InterviewOf
<1>2. PICK s \in Fetched!SetToSeqs(Fetched!ToSet(page.questions)) :
         Fetched!Renders([page EXCEPT !.questions = s])
  BY DEF Fetched!Shuffle
<1>3. Fetched!ToSet(page.questions) = Members(page.questions)
  BY DEF Fetched!ToSet, Members
<1>4. page.questions \in Seq(Items) /\ page.questions # <<>>
  BY <1>1 DEF InterviewPages, Fetched!Displayed
<1>5. s \in Seq(Items) /\ (s = <<>> => Members(page.questions) = {})
  <2> DEFINE n == Cardinality(Members(page.questions))
  <2>1. IsFiniteSet(Members(page.questions)) /\ n \in Nat /\ Members(page.questions) \subseteq Items
    BY <1>4, MembersFinite
  <2>2. s \in [1..n -> Members(page.questions)]
    BY <1>3, SameCardinality DEF Fetched!SetToSeqs
  <2>3. s = <<>> => n = 0
    BY <2>1, <2>2
  <2>4. n = 0 => Members(page.questions) = {}
    BY <2>1, FS_EmptySet
  <2>5. s \in Seq(Items)
    BY <2>1, <2>2
  <2> QED BY <2>3, <2>4, <2>5
<1>6. Members(page.questions) # {}
  <2>1. 1 \in DOMAIN page.questions
    BY <1>4
  <2> QED BY <2>1 DEF Members
<1>7. PICK q : q = [page EXCEPT !.questions = s]
  OBVIOUS
<1>8. /\ q \in InterviewPages /\ q.questions = s /\ q.more = page.more /\ q.loadingMore = page.loadingMore
      /\ q.scope = page.scope /\ q.due = page.due /\ q.first = page.first /\ q.loading = page.loading
      /\ q.error = page.error /\ q.deck = page.deck /\ q.offset = page.offset /\ q.total = page.total
  BY <1>1, <1>5, <1>7 DEF InterviewPages
<1>9. Fetched!Displayed(q)
  BY <1>1, <1>5, <1>6, <1>8 DEF Fetched!Displayed
<1>10. Awaited(q)
  BY <1>1, <1>8, <1>9 DEF InterviewOf, Ready, Awaited
<1>11. ~q.due => Fetching(q)
  <2> SUFFICES ASSUME ~page.due PROVE Fetching(q)
    BY <1>8
  <2>1. Whole(page) /\ Fetching(page)
    BY <1>1 DEF InterviewOf, Ready, Fetching
  <2>2. page.scope \in Scopes /\ page.offset \in Nat
    BY <1>1 DEF InterviewPages
  <2>3. Len(s) = page.offset /\ Members(s) = Taken(page.scope, page.offset)
    BY <1>2, <1>3, <2>1, <2>2, ShuffledMembers DEF Whole
  <2>4. Whole(q)
    BY <1>8, <2>1, <2>3 DEF Whole
  <2> QED BY <1>8, <1>9, <2>1, <2>4 DEF Fetching
<1>12. Stays(page, q)
  BY <1>8 DEF Stays, InterviewOf, Decked
<1> QED BY <1>2, <1>7, <1>8, <1>10, <1>11, <1>12, RenderedStep DEF Ready, Fetched!Renders

\* The reader goes to a question of the deck.
LEMMA MovedStep ==
  ASSUME InterviewOf(page), page.deck # None, NEW i \in DOMAIN page.questions,
         Fetched!Renders(Fetched!MovedTo(page, i))
  PROVE  InterviewOf(page') /\ Fetched!KeepsPlace
<1>1. /\ page \in InterviewPages /\ page.deck \in Fetched!Decks /\ page.scope \in Scopes
      /\ page.questions \in Seq(Items) /\ Fetched!Displayed(page) /\ page.deck.scope = page.scope
  BY DEF InterviewOf, InterviewPages, Decked
<1>2. PICK item \in Items : item = page.questions[i]
  BY <1>1
<1>3. PICK d : d = [page.deck EXCEPT !.selected = item, !.revealed = FALSE, !.answerViewed = FALSE,
                                     !.missing = FALSE]
  OBVIOUS
<1>4. PICK kept : kept = [page.sessions EXCEPT ![page.scope] = item]
  OBVIOUS
<1>5. /\ d \in Fetched!Decks /\ d.selected = item /\ ~d.revealed /\ ~d.answerViewed
      /\ d.finding = page.deck.finding /\ d.scope = page.deck.scope
  BY <1>1, <1>2, <1>3 DEF Fetched!Decks, Items
<1>6. d # None
  BY <1>5, SiteAssumption
<1>7. kept \in [Scopes -> Items \cup {None}] /\ kept[page.scope] = item
  BY <1>1, <1>2, <1>4 DEF InterviewPages
<1>8. PICK q : q = [page EXCEPT !.deck = d, !.sessions = kept]
  OBVIOUS
<1>9. q = Fetched!MovedTo(page, i)
  BY <1>1, <1>2, <1>3, <1>4, <1>8 DEF Fetched!MovedTo, InterviewPages, Fetched!Decks
<1>10. /\ q \in InterviewPages /\ q.deck = d /\ q.sessions = kept
       /\ q.scope = page.scope /\ q.due = page.due /\ q.questions = page.questions /\ q.total = page.total
       /\ q.offset = page.offset /\ q.loading = page.loading /\ q.error = page.error
       /\ q.loadingMore = page.loadingMore /\ q.first = page.first /\ q.more = page.more
  BY <1>1, <1>5, <1>7, <1>8 DEF InterviewPages
<1>11. Awaited(q)
  BY <1>1, <1>5, <1>10 DEF InterviewOf, Ready, Awaited, Fetched!Displayed
<1>12. Fetching(page) => Fetching(q)
  BY <1>10 DEF Fetching, Whole, Fetched!Displayed
<1>13. Ready(q)
  BY <1>10, <1>11, <1>12 DEF Ready, InterviewOf
<1>14. Stays(page, q)
  BY <1>5, <1>6, <1>7, <1>10 DEF Stays
<1> QED BY <1>9, <1>10, <1>13, <1>14, RenderedStep DEF Fetched!Renders

\* On to a neighbour, or to the first question when the own one is missing.
LEMMA MoveStep ==
  ASSUME InterviewOf(page), Fetched!Move
  PROVE  InterviewOf(page') /\ Fetched!KeepsPlace
<1>1. page.deck # None
  BY DEF Fetched!Move
<1>2. CASE Fetched!Missing(page)
  <2>1. page.questions \in Seq(Items) /\ page.questions # <<>>
    BY <1>1 DEF InterviewOf, InterviewPages, Decked, Fetched!Displayed
  <2>2. 1 \in DOMAIN page.questions
    BY <2>1
  <2> QED BY <1>1, <1>2, <2>2, MovedStep DEF Fetched!Move
<1>3. CASE ~Fetched!Missing(page)
  <2>1. PICK i \in DOMAIN page.questions : Fetched!Renders(Fetched!MovedTo(page, i))
    BY <1>3 DEF Fetched!Move
  <2> QED BY <1>1, <2>1, MovedStep
<1> QED BY <1>2, <1>3

\* The reader sees an answer, or hides it.
LEMMA RevealStep ==
  ASSUME InterviewOf(page), Fetched!Reveal
  PROVE  InterviewOf(page') /\ Fetched!KeepsPlace
<1>1. /\ page \in InterviewPages /\ page.deck # None /\ page.deck \in Fetched!Decks
      /\ Fetched!Displayed(page) /\ page.deck.scope = page.scope
      /\ Fetched!Renders([page EXCEPT !.deck.revealed = ~@, !.deck.answerViewed = TRUE])
  BY DEF Fetched!Reveal, InterviewOf, InterviewPages, Decked
<1>2. PICK d : d = [page.deck EXCEPT !.revealed = ~page.deck.revealed, !.answerViewed = TRUE]
  OBVIOUS
<1>3. /\ d \in Fetched!Decks /\ d.selected = page.deck.selected /\ d.answerViewed
      /\ d.finding = page.deck.finding /\ d.scope = page.deck.scope
  BY <1>1, <1>2 DEF Fetched!Decks
<1>4. d # None
  BY <1>3, SiteAssumption
<1>5. PICK q : q = [page EXCEPT !.deck = d]
  OBVIOUS
<1>6. q = [page EXCEPT !.deck.revealed = ~@, !.deck.answerViewed = TRUE]
  BY <1>1, <1>2, <1>5 DEF InterviewPages, Fetched!Decks
<1>7. /\ q \in InterviewPages /\ q.deck = d
      /\ q.scope = page.scope /\ q.due = page.due /\ q.questions = page.questions /\ q.total = page.total
      /\ q.offset = page.offset /\ q.loading = page.loading /\ q.error = page.error
      /\ q.loadingMore = page.loadingMore /\ q.first = page.first /\ q.more = page.more
  BY <1>1, <1>3, <1>5 DEF InterviewPages
<1>8. Awaited(q)
  BY <1>1, <1>3, <1>7 DEF InterviewOf, Ready, Awaited, Fetched!Displayed
<1>9. Fetching(page) => Fetching(q)
  BY <1>7 DEF Fetching, Whole, Fetched!Displayed
<1>10. Ready(q)
  BY <1>7, <1>8, <1>9 DEF Ready, InterviewOf
<1>11. Stays(page, q)
  BY <1>3, <1>4, <1>7 DEF Stays
<1> QED BY <1>1, <1>6, <1>7, <1>10, <1>11, RenderedStep DEF Fetched!Renders

\* Every step keeps the interview page sound and its reader in place.
LEMMA InterviewStep ==
  ASSUME InterviewOf(page), Fetched!InterviewReader \/ Fetched!InterviewBrowser
  PROVE  InterviewOf(page') /\ Fetched!KeepsPlace
BY ChooseStep, RestartedStep, FirstAnsweredStep, FirstFailsStep, LoadMoreStep, FindStep, MoreAnsweredStep,
   MoreFailsStep, ShuffleStep, MoveStep, RevealStep DEF Fetched!InterviewReader, Fetched!InterviewBrowser

\* What is on display is the whole of what was fetched, and who waits has a request under way.
LEMMA InterviewShows ==
  ASSUME InterviewOf(page)
  PROVE  Fetched!DeckIsWhole
<1>1. page \in InterviewPages
  BY DEF InterviewOf
<1>2. ASSUME ~page.due, Fetched!Displayed(page)
      PROVE  /\ Len(page.questions) = page.offset /\ page.total = Len(Bank[page.scope])
             /\ Fetched!ToSet(page.questions) = Fetched!ToSet(SubSeq(Bank[page.scope], 1, page.offset))
  <2>1. Whole(page) /\ page.scope \in Scopes /\ page.offset \in Nat
    BY <1>1, <1>2 DEF InterviewOf, Ready, Fetching, InterviewPages
  <2>2. PICK b : b = Bank[page.scope]
    OBVIOUS
  <2>3. b \in Seq(Items) /\ Len(b) \in Nat /\ page.offset <= Len(b)
    BY <2>1, <2>2, BankFacts DEF Whole
  <2>4. PICK s : s = SubSeq(b, 1, page.offset)
    OBVIOUS
  <2>5. s \in Seq(Items) /\ Len(s) = page.offset /\ (\A i \in 1..page.offset : s[i] = b[i])
    BY <2>1, <2>3, <2>4
  <2>6. DOMAIN s = 1..page.offset
    BY <2>5
  <2>7. Fetched!ToSet(s) = Taken(page.scope, page.offset)
    BY <2>2, <2>5, <2>6 DEF Fetched!ToSet, Taken
  <2>8. Fetched!ToSet(page.questions) = Members(page.questions)
    BY DEF Fetched!ToSet, Members
  <2> QED BY <2>1, <2>2, <2>4, <2>7, <2>8 DEF Whole
<1>3. page.loading => page.due \/ page.first = page.scope
  BY DEF InterviewOf, Ready, Awaited, Fetching
<1>4. page.loadingMore => page.due \/ page.more # None
  BY DEF InterviewOf, Ready, Awaited
<1>5. page.deck # None /\ page.deck.finding => page.due \/ page.more # None
  BY DEF InterviewOf, Ready, Awaited, Decked
<1> QED BY <1>2, <1>3, <1>4, <1>5 DEF Fetched!DeckIsWhole
-----------------------------------------------------------------------------
(* The site: a visit of one of its parts.                                  *)

\* The inductive invariant: that of the part that is visited.
SiteInv ==
  /\ part \in {"learning", "interview", "search"}
  /\ part = "learning" => WorkInv /\ UncrossedInv
  /\ part = "interview" => InterviewOf(page)
  /\ part = "search" => SearchOf(page)

\* A visit begins on a sound page.
LEMMA SiteStart == Init => SiteInv
BY WorkStart, UncrossedStart, InterviewStart, SearchStart DEF Init, SiteInv

\* Whichever part is visited keeps its own invariant, and the reader's work.
LEMMA SiteStep ==
  ASSUME SiteInv, [Next]_vars
  PROVE  /\ SiteInv'
         /\ \/ CASE part = "learning" -> Learning!KeepsWork
                 [] part = "interview" -> Fetched!KeepsPlace
                 [] OTHER -> TRUE
            \/ UNCHANGED vars
<1>1. CASE Next /\ part = "learning"
  <2>1. Learning!Reader \/ Learning!Tick \/ Learning!Browser
    BY <1>1 DEF Next, Reads, Answers
  <2>2. WorkInv' /\ Learning!ChangesKeep
    BY <1>1, <2>1, WorkStep DEF SiteInv
  <2>3. TabsInv /\ TabsInv' /\ UncrossedInv
    BY <1>1, <2>2 DEF SiteInv, WorkInv
  <2>4. UncrossedInv' /\ Learning!KeepsWork
    BY <2>1, <2>2, <2>3, UncrossedStep DEF Learning!KeepsWork
  <2>5. part' = part
    BY <1>1 DEF Next, Reads, Answers
  <2> QED BY <1>1, <2>2, <2>4, <2>5 DEF SiteInv
<1>2. CASE Next /\ part = "interview"
  <2>1. Fetched!InterviewReader \/ Fetched!InterviewBrowser
    BY <1>2 DEF Next, Reads, Answers
  <2>2. InterviewOf(page') /\ Fetched!KeepsPlace
    BY <1>2, <2>1, InterviewStep DEF SiteInv
  <2>3. part' = part
    BY <1>2 DEF Next, Reads, Answers
  <2> QED BY <1>2, <2>2, <2>3 DEF SiteInv
<1>3. CASE Next /\ part = "search"
  <2>1. Fetched!SearchReader \/ Fetched!SearchBrowser
    BY <1>3 DEF Next, Reads, Answers
  <2>2. SearchOf(page')
    BY <1>3, <2>1, SearchReaderStep, SearchBrowserStep DEF SiteInv
  <2>3. part' = part
    BY <1>3 DEF Next, Reads, Answers
  <2> QED BY <1>3, <2>2, <2>3 DEF SiteInv
<1>4. CASE UNCHANGED vars
  <2>1. part' = part /\ page' = page
    BY <1>4 DEF vars
  <2>2. (WorkInv => WorkInv') /\ (UncrossedInv => UncrossedInv')
    BY <2>1 DEF WorkInv, TabsInv, UncrossedInv
  <2> QED BY <1>4, <2>1, <2>2 DEF SiteInv
<1> QED BY <1>1, <1>2, <1>3, <1>4 DEF SiteInv

\* The inductive invariant of the site, for any number of tabs, any questions, scopes and page
\* size, any queries and any bounds on what the reader does.
THEOREM SiteSafe == Spec => []SiteInv
BY SiteStart, SiteStep, PTL DEF Spec

\* What is on display is what is kept or what was fetched: a tab shows the store, a deck holds
\* each of the first questions of its scope once, results are those of their query; and who is
\* told to wait has something to wait for.
THEOREM DisplayTrue == Spec => []DisplayIsTrue
<1>1. SiteInv => DisplayIsTrue
  BY TabsShow, InterviewShows, SearchShows DEF SiteInv, WorkInv, DisplayIsTrue
<1> QED BY <1>1, SiteSafe, PTL

\* What a tab computes has every draft, attempt and flag that it read, but for the one being
\* changed and the oldest of enough attempts, and all of an imported backup, and a second import
\* adds nothing.  Once it is written the tab reads it, and that loses nothing of what the tab
\* read the moment before unless another tab's change is on its way; for what such a change has
\* crossed nothing is claimed.  Whatever arrives, is shuffled or fails, the reader of a deck stays
\* at a question until moving on, and an answer counts as viewed only once it was revealed.
THEOREM WorkKept == Spec => WorkIsKept
<1> DEFINE Kept_ == CASE part = "learning" -> Learning!KeepsWork
                      [] part = "interview" -> Fetched!KeepsPlace
                      [] OTHER -> TRUE
<1>1. SiteInv /\ [Next]_vars => [Kept_]_vars
  BY SiteStep
<1> HIDE DEF Kept_
<1>2. Spec => [][Kept_]_vars
  BY <1>1, SiteSafe, PTL DEF Spec
<1> QED BY <1>2 DEF Kept_, WorkIsKept
=============================================================================
