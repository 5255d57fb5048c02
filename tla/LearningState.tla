---------------------------- MODULE LearningState ----------------------------
(* What the site keeps of a reader in the browser: utils/learningState.js,  *)
(* reviewSchedule.js and topicProgress.js, used by the interview deck, the  *)
(* saved answers and the backup panel, in several tabs of one browser.      *)
(*                                                                          *)
(* There are two stores, each one entry of localStorage.  A tab reads a     *)
(* store, computes the next value and writes it: in one task, but nothing   *)
(* locks the entry against another tab.  A write may fail; the tab then     *)
(* keeps the value to itself.  The other tabs are told of a changed entry   *)
(* by storage events.  Preferences, sessions and the checks that a value    *)
(* written by this code passes are left out; one topic has reading and      *)
(* progress.  A review's dates are in days.                                 *)
EXTENDS Integers, Sequences, FiniteSets, SequencesExt, FiniteSetsExt

CONSTANTS
  Tabs, Questions,
  Texts,           \* a draft is one of them or empty
  Headings,        \* of the topic's lesson
  Flags,           \* of the topic's progress: bookmarked, completed
  MaxAttempts,     \* kept of a question
  None,
  MaxClock,        \* bound
  MaxFailures,     \* bound: writes and probes that fail
  ChangesAlone, ChangesShared   \* bounds: changes asked of one tab, of several

VARIABLE page

Stores == {"learning", "progress"}
Assessments == {"review", "partial", "confident"}
Put(f, k, v) == [key \in DOMAIN f \cup {k} |-> IF key = k THEN v ELSE f[key]]

(* -------------------------- the stored values -------------------------- *)

Empty == [practice |-> <<>>, reviews |-> <<>>, reading |-> None]
NewEntry == [draft |-> "", assessment |-> "", updatedAt |-> 0]
NoProgress == [flag \in Flags |-> FALSE]

(* A key is the question, then a time and a number for every time it was   *)
(* set aside as the imported copy of something else.                       *)
QuestionKey(q) == <<q>>
IsImportedCopyKey(key) == Len(key) > 1
BasePracticeKey(key) == Front(key)
CopyKey(practice, key, at) ==
    Append(key, <<at, Min({n \in 1..Cardinality(DOMAIN practice) + 1 :
                              Append(key, <<at, n>>) \notin DOMAIN practice})>>)

(* ---------------------------- review schedule -------------------------- *)

Intervals == {0, 1, 3, 7, 14, 28, 30}

NextInterval(assessment, previous) ==
    CASE assessment = "review" -> 1
      [] assessment = "partial" -> 3
      [] OTHER -> IF previous < 7 THEN 7 ELSE Min({30, previous * 2})

(* Without repetitions, in the order of time, and only the last ones.      *)
Tidied(attempts) ==
    LET unique == {i \in DOMAIN attempts : \A j \in 1..i - 1 : attempts[j] # attempts[i]}
        earlier(i, j) == attempts[i].at < attempts[j].at \/ (attempts[i].at = attempts[j].at /\ i < j)
        order == CHOOSE o \in [1..Cardinality(unique) -> unique] :
                    \A i, j \in DOMAIN o : i < j => earlier(o[i], o[j])
        first == IF Len(order) > MaxAttempts THEN Len(order) - MaxAttempts + 1 ELSE 1
    IN [i \in 1..Len(order) - first + 1 |-> attempts[order[first + i - 1]]]

NormalizeReview(r) == [r EXCEPT !.attempts = Tidied(r.attempts),
                                !.intervalDays = IF r.intervalDays \in Intervals THEN r.intervalDays ELSE 0]
NormalizeReviews(reviews) == [k \in DOMAIN reviews |-> NormalizeReview(reviews[k])]

MergeReview(existing, entry) ==
    [(IF entry.updatedAt > existing.updatedAt THEN entry ELSE existing)
        EXCEPT !.attempts = existing.attempts \o entry.attempts]
MergeReviews(current, incoming) ==
    NormalizeReviews([k \in DOMAIN current \cup DOMAIN incoming |->
        IF k \notin DOMAIN current THEN incoming[k]
        ELSE IF k \notin DOMAIN incoming THEN current[k] ELSE MergeReview(current[k], incoming[k])])

(* -------------------------------- imports ------------------------------ *)

MergedByTime(current, incoming) ==
    IF incoming.updatedAt >= current.updatedAt THEN incoming ELSE current
MergePracticeEntry(current, incoming) ==
    LET newer == IF incoming.updatedAt > current.updatedAt THEN incoming ELSE current
        or(a, b) == IF a # "" THEN a ELSE b
    IN [draft |-> or(current.draft, incoming.draft),
        assessment |-> or(newer.assessment, or(current.assessment, incoming.assessment)),
        updatedAt |-> Max({current.updatedAt, incoming.updatedAt})]

Differs(practice, key, entry) ==
    key \in DOMAIN practice /\ practice[key].draft # "" /\ entry.draft # "" /\ practice[key].draft # entry.draft
AlreadyKept(practice, key, text) ==
    \E other \in DOMAIN practice : IsStrictPrefix(key, other) /\ practice[other].draft = text

(* The imported text is set aside under a key of its own.                  *)
KeptAside(practice, key, entry) ==
    LET kept == Put(practice, CopyKey(practice, key, entry.updatedAt), [entry EXCEPT !.assessment = ""])
    IN IF practice[key].assessment = "" THEN [kept EXCEPT ![key].assessment = entry.assessment] ELSE kept

MergeEntry(practice, key, entry) ==
    IF Differs(practice, key, entry)
    THEN IF AlreadyKept(practice, key, entry.draft) THEN practice ELSE KeptAside(practice, key, entry)
    ELSE Put(practice, key, IF key \in DOMAIN practice THEN MergePracticeEntry(practice[key], entry) ELSE entry)

MergeReading(current, incoming) ==
    IF incoming # None /\ (current = None \/ current.updatedAt < incoming.updatedAt) THEN incoming ELSE current

(* The entries of a backup come in the order they were first written.      *)
MergePractice(current, incoming, keys) ==
    LET merged[n \in 0..Len(keys)] == IF n = 0 THEN current
                                      ELSE MergeEntry(merged[n - 1], keys[n], incoming[keys[n]])
    IN merged[Len(keys)]
MergeLearningImport(current, backup) ==
    [practice |-> MergePractice(current.practice, backup.learning.practice, backup.keys),
     reviews |-> MergeReviews(current.reviews, backup.learning.reviews),
     reading |-> MergeReading(current.reading, backup.learning.reading)]

ImportProgress(current, incoming) == [flag \in Flags |-> current[flag] \/ incoming[flag]]

(* ------------------------------- the tabs ------------------------------ *)

Open == DOMAIN page.tabs
(* What a tab keeps of a store to itself is a sequence of one value.       *)
Held(tab, disk, s) == IF tab.memory[s] # <<>> THEN Head(tab.memory[s]) ELSE disk[s]
Read(t, s) == Held(page.tabs[t], page.disk, s)

(* A tab probes the storage once, when it opens.                           *)
Fresh(disk, probe) == [memory |-> [s \in Stores |-> <<>>], durable |-> probe, shown |-> disk,
                       writing |-> None, merging |-> None, events |-> [s \in Stores |-> 0]]

(* What a reader may find: nothing, or an answer rated often before; and a *)
(* backup of such a one, from another browser.                             *)
Answered(q, text) == [Empty EXCEPT
    !.practice = Put(@, QuestionKey(q), [NewEntry EXCEPT !.draft = text, !.assessment = "confident"]),
    !.reviews = Put(@, QuestionKey(q), [attempts |-> <<>>, dueAt |-> 0, intervalDays |-> 28, updatedAt |-> 0])]
BackupOf(learning, keys, progress) == [learning |-> learning, keys |-> keys, progress |-> progress]
Brought == {None} \cup {BackupOf(Answered(q, text), <<QuestionKey(q)>>, NoProgress) : q \in Questions, text \in Texts}

Init == \E open \in SUBSET Tabs \ {{}} : \E stored \in {Empty} \cup {Answered(q, "") : q \in Questions} :
        \E failures \in 0..MaxFailures, backup \in Brought :
            LET disk == [learning |-> stored, progress |-> NoProgress]
            IN page = [disk |-> disk, tabs |-> [t \in open |-> Fresh(disk, failures = 0)],
                       backup |-> backup, clock |-> 0, changes |-> 0, failures |-> failures]

Idle(t) == page.tabs[t].writing = None /\ page.tabs[t].merging = None
MayChange == page.changes < IF Cardinality(Open) = 1 THEN ChangesAlone ELSE ChangesShared

(* The first half of a change: the store is read and the next value made.  *)
Validated(s, value) == IF s = "learning" THEN [value EXCEPT !.reviews = NormalizeReviews(@)] ELSE value
Computes(t, s, kind, value) ==
    page' = [page EXCEPT !.tabs[t].writing = [store |-> s, kind |-> kind, next |-> Validated(s, value)],
                         !.tabs[t].merging = IF kind = "import" /\ s = "progress" THEN page.backup ELSE None,
                         !.changes = IF Idle(t) THEN @ + 1 ELSE @]
Changes(t, s, kind, value) == MayChange /\ Idle(t) /\ Computes(t, s, kind, value)

Entry(value, key) == IF key \in DOMAIN value.practice THEN value.practice[key] ELSE NewEntry
ShownEntry(t, q) == Entry(page.tabs[t].shown.learning, QuestionKey(q))
Now == page.clock
Learning(t) == Read(t, "learning")

SavePractice(t, q, kind, entry) ==
    Changes(t, "learning", kind,
            [Learning(t) EXCEPT !.practice = Put(@, QuestionKey(q), [entry EXCEPT !.updatedAt = Now])])

Type(t, q) == \E text \in Texts \cup {""} :
    /\ text # ShownEntry(t, q).draft
    /\ SavePractice(t, q, "type", [Entry(Learning(t), QuestionKey(q)) EXCEPT !.draft = text])

Assess(t, q) == \E a \in Assessments :
    SavePractice(t, q, "assess", [Entry(Learning(t), QuestionKey(q)) EXCEPT !.assessment = a])

DeletePractice(t) == \E key \in DOMAIN page.tabs[t].shown.learning.practice :
    Changes(t, "learning", "delete",
            [Learning(t) EXCEPT !.practice = Restrict(@, DOMAIN @ \ {key}), !.reviews = Restrict(@, DOMAIN @ \ {key})])

AdoptPracticeAlternative(t) == \E key \in DOMAIN page.tabs[t].shown.learning.practice :
    LET practice == Learning(t).practice
        base == BasePracticeKey(key)
        entry(k) == [practice[k] EXCEPT !.updatedAt = Now]
    IN /\ IsImportedCopyKey(key)
       /\ base \in DOMAIN page.tabs[t].shown.learning.practice
       /\ {base, key} \subseteq DOMAIN practice
       /\ Changes(t, "learning", "adopt",
                  [Learning(t) EXCEPT !.practice = Put(Put(@, base, entry(key)), key, entry(base))])

RecordPracticeAttempt(t, q) == \E answerViewed \in BOOLEAN :
    LET key == QuestionKey(q)
        saved == Entry(Learning(t), key)
        reviews == Learning(t).reviews
        previous == IF key \in DOMAIN reviews THEN reviews[key] ELSE [attempts |-> <<>>, intervalDays |-> 0]
        intervalDays == NextInterval(saved.assessment, previous.intervalDays)
        attempt == [id |-> page.changes, at |-> Now, draft |-> saved.draft, assessment |-> saved.assessment,
                    answerViewed |-> answerViewed]
    IN /\ ShownEntry(t, q).assessment # "" /\ saved.assessment # ""
       /\ Changes(t, "learning", "record",
                  [Learning(t) EXCEPT !.reviews =
                      Put(@, key, [attempts |-> Append(previous.attempts, attempt), intervalDays |-> intervalDays,
                                   dueAt |-> Now + intervalDays, updatedAt |-> Now])])

MoveReview(t, q) == \E action \in {"postpone", "reset"} :
    LET key == QuestionKey(q)
        previous == IF key \in DOMAIN Learning(t).reviews THEN Learning(t).reviews[key]
                    ELSE [attempts |-> <<>>, intervalDays |-> 0, dueAt |-> Now]
        moved == [attempts |-> previous.attempts, updatedAt |-> Now,
                  dueAt |-> IF action = "postpone" THEN Max({Now, previous.dueAt}) + 1 ELSE Now,
                  intervalDays |-> IF action = "postpone" THEN previous.intervalDays ELSE 0]
    IN /\ key \in DOMAIN page.tabs[t].shown.learning.reviews
       /\ key \in DOMAIN Learning(t).practice
       /\ Changes(t, "learning", "move", [Learning(t) EXCEPT !.reviews = Put(@, key, moved)])

SaveReading(t) == \E heading \in Headings :
    Changes(t, "learning", "read", [Learning(t) EXCEPT !.reading = [headingId |-> heading, updatedAt |-> Now]])

Toggle(t) == \E flag \in Flags :
    Changes(t, "progress", "toggle", [Read(t, "progress") EXCEPT ![flag] = ~@])

(* --------------------------------- backups ----------------------------- *)

Export(t) == /\ MayChange /\ Idle(t)
             /\ \E keys \in SetToSeqs(DOMAIN Learning(t).practice) :
                   page' = [page EXCEPT !.backup = BackupOf(Learning(t), keys, Read(t, "progress")),
                                        !.changes = @ + 1]

(* Confirmed after its preview: the progress first, then the learning data, *)
(* which is read once the progress is written.                              *)
Confirm(t) == /\ page.backup # None
              /\ Changes(t, "progress", "import", ImportProgress(Read(t, "progress"), page.backup.progress))

MergeLearning(t) ==
    /\ page.tabs[t].writing = None /\ page.tabs[t].merging # None
    /\ Computes(t, "learning", "import", MergeLearningImport(Learning(t), page.tabs[t].merging))

(* --------------------------- writes and events ------------------------- *)

Told(tab, s) == [tab EXCEPT !.events[s] = @ + 1]
Wrote(tab, s, ok) ==
    [tab EXCEPT !.memory[s] = IF ok THEN <<>> ELSE <<tab.writing.next>>,
                !.shown[s] = tab.writing.next,
                !.durable = IF s = "learning" THEN ok ELSE @,
                !.writing = None]

(* The second half: the entry is written, or the tab keeps the value.      *)
Write(t) ==
    /\ page.tabs[t].writing # None
    /\ \E ok \in BOOLEAN :
          /\ ok \/ page.failures < MaxFailures
          /\ LET s == page.tabs[t].writing.store
                 next == page.tabs[t].writing.next
                 heard(u) == ok /\ u # t /\ page.disk[s] # next
             IN page' = [page EXCEPT
                    !.disk[s] = IF ok THEN next ELSE @,
                    !.failures = IF ok THEN @ ELSE @ + 1,
                    !.tabs = [u \in Open |-> IF u = t THEN Wrote(page.tabs[u], s, ok)
                                             ELSE IF heard(u) THEN Told(page.tabs[u], s) ELSE page.tabs[u]]]

(* A storage event: whatever the tab kept to itself is dropped.            *)
Heard(tab, s, disk) == [tab EXCEPT !.events[s] = @ - 1, !.memory[s] = <<>>, !.shown[s] = disk[s]]
HandleStorage(t) == /\ Idle(t)
                    /\ \E s \in Stores : /\ page.tabs[t].events[s] > 0
                                         /\ page' = [page EXCEPT !.tabs[t] = Heard(@, s, page.disk)]

(* The tab is closed, or the browser dies, at any moment.                  *)
Reopen(t) == /\ page.tabs[t].shown # page.disk \/ ~Idle(t)
             /\ \E probe \in BOOLEAN :
                   /\ probe \/ page.failures < MaxFailures
                   /\ page' = [page EXCEPT !.tabs[t] = Fresh(page.disk, probe),
                                           !.failures = IF probe THEN @ ELSE @ + 1]

Tick == page.clock < MaxClock /\ page' = [page EXCEPT !.clock = @ + 1]

Practises(t, q) == Type(t, q) \/ Assess(t, q) \/ RecordPracticeAttempt(t, q) \/ MoveReview(t, q)
Manages(t) == DeletePractice(t) \/ AdoptPracticeAlternative(t) \/ SaveReading(t) \/ Toggle(t) \/ Export(t) \/ Confirm(t)
Reader == \E t \in Open : Manages(t) \/ Reopen(t) \/ \E q \in Questions : Practises(t, q)
Browser == \E t \in Open : MergeLearning(t) \/ Write(t) \/ HandleStorage(t)

(* ------------------------------ properties ----------------------------- *)

(* A tab shows what it kept to itself or, once every event reached it, what *)
(* is stored; and it says that drafts are saved only while they are.        *)
ShowsWhatIsKept ==
    \A t \in Open : LET tab == page.tabs[t] IN
        /\ \A s \in Stores : tab.memory[s] # <<>> \/ tab.events[s] = 0 => tab.shown[s] = Read(t, s)
        /\ tab.durable => tab.memory["learning"] = <<>>

Written(value) == {value.practice[k].draft : k \in DOMAIN value.practice} \ {""}

(* Every draft that was read is still there, but for the one that is typed  *)
(* anew or deleted; an import leaves the reader's own where they were.      *)
KeepsDrafts(was, kind, next) ==
    LET stays(k) == k \in DOMAIN next.practice /\ next.practice[k].draft = was.practice[k].draft
    IN /\ kind \notin {"type", "delete"} => Written(was) \subseteq Written(next)
       /\ kind \in {"type", "delete"} => \A k, l \in DOMAIN was.practice : k # l => stays(k) \/ stays(l)
       /\ kind = "import" => \A k \in DOMAIN was.practice : was.practice[k].draft # "" => stays(k)

(* An attempt goes only when there are enough, none of them older; being   *)
(* confident once more never brings a review closer together.              *)
KeepsAttempts(was, kind, next) ==
    kind # "delete" => \A k \in DOMAIN was.reviews : LET old == was.reviews[k] new == next.reviews[k] IN
        /\ \A a \in ToSet(old.attempts) \ ToSet(new.attempts) :
              Len(new.attempts) = MaxAttempts /\ \A b \in ToSet(new.attempts) : b.at >= a.at
        /\ kind = "record" /\ old # new /\ was.practice[k].assessment = "confident" =>
              new.intervalDays >= old.intervalDays

KeepsFlags(was, kind, next) ==
    /\ kind = "import" => \A flag \in Flags : was[flag] => next[flag]
    /\ kind = "toggle" => \A f, g \in Flags : f # g => next[f] = was[f] \/ next[g] = was[g]

(* What a change of a store may lose of what the tab read of it.           *)
Keeps(s, was, kind, next) ==
    IF s = "learning" THEN KeepsDrafts(was, kind, next) /\ KeepsAttempts(was, kind, next)
                      ELSE KeepsFlags(was, kind, next)

(* The texts of a backup are there, and merging it again adds nothing.     *)
HoldsBackup(backup, next) ==
    /\ Written(backup.learning) \subseteq Written(next)
    /\ MergeLearningImport(next, backup).practice = next.practice

ChangesKeep ==
    \A t \in Open : LET w == page'.tabs[t].writing IN
        w # page.tabs[t].writing /\ w # None =>
            /\ Keeps(w.store, Read(t, w.store), w.kind, w.next)
            /\ w.store = "learning" /\ w.kind = "import" => HoldsBackup(page.tabs[t].merging, w.next)

(* After a write, stored or not, the tab reads what it computed; and unless *)
(* an event of another tab's change is on its way, that has what the tab    *)
(* read the moment before.                                                  *)
WritesKeep ==
    \A t \in Open : LET w == page.tabs[t].writing IN
        Write(t) =>
            /\ Held(page'.tabs[t], page'.disk, w.store) = w.next
            /\ page.tabs[t].events[w.store] = 0 => Keeps(w.store, Read(t, w.store), w.kind, w.next)

KeepsWork == ChangesKeep /\ WritesKeep

==============================================================================
