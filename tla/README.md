# A verification project for cs-fundamentals-with-ui

TLA+ models of the stateful parts of this repository, checked with TLC on small
instances and, where marked, proved with TLAPS for every value of the constants.
All paths below are relative to the repository's root.

## 1. The system

The repository is a learning platform: a Spring Boot back end, a React front end, a
library of content, and under `examples/` a set of self-contained *labs*: small Java
services whose very subject is concurrency, retries, partial failure and recovery.
The labs carry the hardest behaviour. The front end carries the most code: some twenty
visualizers, each an engine or a script with a page that plays it, pages that fetch
while the reader goes on asking, and the reader's work kept in the browser's storage.

### Inventory

| Part | State | Operations | What is hard | What makes it correct |
|---|---|---|---|---|
| **Order saga** `backend-messaging/DurableSaga` | one row per saga: request, state, resume state, failures, version | `start`, `tick`, `resumeAfterReview` | several drivers tick one saga; a row is read, three or four remote transactions follow, then a compare-and-set; the process may stop anywhere | effects once, verdicts backed by receipts, stale drivers lose, every saga settles |
| **Saga participants** `DurableSagaParticipant` | receipts, stock, captured money, injected faults | `lookup`, `execute` (reserve, charge, release) | commit whose reply is lost; two executions of one action; shared stock | stock and money agree with the receipts; never both paid and released |
| **Outbox and inbox** `DurableStore` | outbox rows, activity, inbox rows, projection | `enqueue`, `relay`, `consume` | at-least-once delivery, two relays, two consumers, a reused id | exactly-once projection; nothing acknowledged unhandled; nothing lost |
| **Broker loop** (messaging tests' workers) | log, committed offset, assignment, position | poll, commit, assign, lose | an assignment is lost while a record is handled | as above |
| **Circuit breaker** `backend-reliability/CircuitGate` | state, failures, generation, opening time | `enter`, `complete` | calls complete in any order, long after the state they were admitted in | one probe; late completions have no vote; a half-open gate is decided |
| **Reliable reads** `ReliableReads`, `RetryPolicy` | semaphore, pool and its queue, futures, `closed`, per-call flags | `execute`, task, cancel, `close` | four threads meet over one call; slot and permit must come back on every path | slots conserved, futures answered, only real attempts count |
| **Coalesced loads** `backend-data-services/CoalescedLoads` | flights, caller permits, pool | `load`, `execute`, `close` | callers join, give up on and outlive a load; work may be stuck | one load per key, limits kept, callers return, capacity returns |
| **Cache-aside tickets** `CacheAsideTickets` over `MongoTickets`, `RedisCache` | the source's version, cache entries | `find`, `fill`, `rename` | the source is read twice around the cache, and changes meanwhile; entries are stale, wrong or unavailable | no ticket older than the reader's own version read |
| **Echo registry** `backend-websocket` | reservations, sessions, queues, acknowledgements | reserve, bind, receive, expire, invalidate, close | limits and revocation race handshakes and timers | limits hold, no orphan connection, in-order replies |
| **Webhook intake** `backend-webhooks` | receipts, effects, totals, exchanges | `accept`, body events, timeout | duplicate deliveries at once; a timeout racing the commit | one effect per event; one reply per exchange |
| **Refund workflow** `ai-backend` | orders, proposals | `propose`, `approve` | repeated and competing approvals, expiry | one refund per order, only on what was approved |
| **Streaming client** `ai-backend` | handles, admission, call budget | `start`, frames, cancel, deadline, close | many threads race for one terminal result | one terminal result; admission returned |
| **Knowledge index** `ai-backend` | generations of chunks | reindex, search | readers during a switch | a search sees one generation |
| **Transaction retry, expand/contract** `backend-persistence` | attempts; schema phases | `run` | unknown commit outcome | no retry of an unknown outcome |
| **Task tracker** `java-spring/task-tracker` | projects with versions, cached keys, readiness | REST operations | optimistic locking, refresh limits | no lost update |
| **Simulation service** `backend/`, and the pages' own copies | none (a request at a time) | scheduling, page replacement, banker, subnets | boundary cases, two copies of every algorithm | agrees with reference definitions |
| **Learning state** `frontend/src/utils`, with deck, saved answers and backup | two entries of local storage, a copy in memory after a failed write, what is on display | practise, assess, record, move a review, adopt, delete, export, import, toggle | tabs write one entry without a lock and hear of it late; imports conflict and repeat | shown is what is kept; a change that no other crosses loses no text |
| **Interview and search pages** | questions, offsets, requests, deck; query, address, delay, request | choose, load more, find, shuffle, move, reveal; type, select, follow, retry | answers to what is no longer asked; address and query correct each other across renders | what is on display is what was asked for; waiting ends |
| **Timed visualizers** (8 engines) | engine, snapshots of the last operation, position, timer | the engine's operations; play, step, seek, reset | page and engine are two states; playback at its end, hidden pages | data-structure invariants, consistent displays, playback ends |
| **Lesson visualizers** (6 engines or scripts) | the steps of a choice, position | choose, step | edge inputs; callbacks matched by name | what is taught follows from the definitions |
| **Networking, operating-system and hub pages** | walks, tables, buckets, locks, tabs, forms | buttons, sliders, timers | tabs that keep or lose state | tables, locks and displays agree |
| Gateway, identity, operations, replication, SSRF, debugging, testing labs | external systems | scripts, configuration | | not modelled |
| Content, scripts, pages | text, validation, presentation | | | not modelled |

In the browser, a visualizer is mounted by topic, inside a shell whose tabs unmount it; the
control bar and the timer belong to no engine. Interview deck, saved answers, backup
panel and lesson pages all read and write the learning state; the two fetching pages ask
the catalogue and discovery services, and the four calculators the simulation service,
whose refusal or absence makes the page compute by itself.

Interactions: `DurableSaga` calls two participants, each with its own database, and no
transaction spans two of them. `DurableStore`'s relay hands rows to a publisher (the
broker), whose consumers call `consume`. `ReliableReads` owns its pool, semaphore and
calls, and shares one `CircuitGate` among its workers. `CacheAsideTickets` loads
through `CoalescedLoads`. The servlet of the webhook lab calls `EventStore`. The other
labs do not call one another.

## 2. Plan

In the order of writing; the most important behaviour first.

1. *(done)* `OrderLedger` (abstract), `DurableSaga` (implements it), `DurableSagaProofs`.
2. *(done)* `ActivityFeed` (abstract), `Outbox` (implements it).
3. *(done)* `BreakerEpisodes` (abstract), `CircuitGate` (implements it), and `ReliableReads`,
   which composes with `CircuitGate` by `INSTANCE`.
4. *(done)* `CoalescedLoads`; `FreshReads` (abstract: a register whose reads are never older
   than the question), `CacheAsideTickets` (implements it, composed with `CoalescedLoads`).
5. *(done)* `CpuScheduling`, `PageReplacement`, `BankersSafety`, `Ipv4Subnet`, which
   `VisualizerPages` has among its topics.
6. *(done)* `StepPlayer` (what timed pages and lessons share), one module per engine or
   group of pages, composed in `VisualizerPages`.
7. *(done)* `LearningState` and `FetchedPages`, composed in `LearningSite`.
8. *(done)* `EchoRegistry` (handshakes, limits, revocation, acknowledgements, close).
9. *(done)* `StreamingOllama`, `WebhookIntake`, `RefundWorkflow`, composed with
   `EchoRegistry` in `RequestLabs`.
10. *(done)* `OutboxProofs`, `LoadsProofs`, `TicketsProofs`, `ReadsProofs` (with the gate's own
    theorems), `RequestProofs`, `LearningProofs` and the rest of `DurableSagaProofs`, on `SumLemmas`.

Every safety and action property that a run checks is proved, except those of `visualizer_pages`.
Beyond the plan: the transaction retry lab, and, of the engines that need no recursion, the page tables and locks of
`MemoryLabs` and `SystemLabs`, each from a module of its own.

## 3. Modules

### `DurableSaga` and `OrderLedger`

`saga` is the coordinator's table, `receipt` the participants' `saga_actions`, `stock` and
`captured` their resources, `drv` the locals of each driver inside `tick`. Every database
transaction is one action: `Tick` (read the row), `CheckEvidence` (the lookup that
justifies a charge or a release), `Lookup` (`action`'s first lookup), `CheckReceipt`
and `Execute` (the participant's transaction: the receipt check, then the decision, the
effect and the insert, which the primary key may refuse), `Transition` (the
compare-and-set). `TransitionFails` and `Crash` are the coordinator's own failures, and
`Execute` ranges over the participant's faults, among them the timeout after commit.
Lookups may fail at any time, as `LOOKUP_UNAVAILABLE` makes them.

`OrderLedger` knows no receipts, versions, retries or crashes: an order is held, paid,
refused or given back once, and its verdict says what happened. The mapping reads an
order's status from the receipts, and its verdict from the row.

A release that the participant declines has no outcome that completes the saga: it is
parked for review each time it is resumed. The model keeps this (`stranded` in the
ledger); `EverySagaSettles` counts a review as settled, as the code does.

Left out: other skus than one, overflow of the captured amount, the review note.

### `Outbox` and `ActivityFeed`

`enqueue` and the effect part of `consume` are one transaction each; a relay's query,
publication and mark are three actions; a consumer's lookup and effect are two, since
two members of a group may be between them at once. The broker has one partition and
one group. It and the poll loop are translated from the messaging tests that drive
`DurableStore` (`KafkaRebalanceBrokerTest`, `KafkaBrokerTest`). `ForeignPublish` is the
other producer of that test, here with an id the source may also use.

`ActivityFeed` is a set of posted events and totals that take in each id once.

### `CircuitGate`, `BreakerEpisodes`, `ReliableReads`

`enter` and `complete` are synchronized, hence one action each. They are written as pure
operators of the gate's fields (`PermitFor`, `Entered`, `Completed`), which both
`CircuitGate` and `ReliableReads` use. In `BreakerEpisodes` there are no generation
numbers: a set of voters belongs to each episode.

`ReliableReads` follows a call through its threads: the executor (`Execute`, `Submit`,
`Reject`), the worker or the closing thread (`Begin` or `BeginDrained`, `Start`, `Enter`,
`Attempt`, `Answer`, `Resume`, `Decide`, `Complete`, `Release`, `Publish`), the canceller
(`Cancel`, `CancelWork`, `CancelRelease`) and the closer (`SetClosed`, `Shutdown`). A stage is a
point between two accesses to state that other threads share: so the task looks whether it was
cancelled (`Decide`, `ReliableReads.java:102`) before it tells the gate (`Complete`, `:103`), and a
cancellation in between comes too late. `OnlyAttemptsCount` speaks of that look, not of how the
attempts ended: a call whose future was cancelled by then does not count although its task may
have concluded a failure, and as a probe it opens the gate again. A budget that runs out after
an attempt does count, as a failure. Responses are good, bad or
worth a retry; delays are any number of ticks up to `MaxDelay`. Metrics, events and the
text of a result are left out, and so is the pure arithmetic of `RetryPolicy`.
The thread of a refused call has no state. `Answer` may time out at any tick because the
HTTP client has a connect timeout of its own.

### `CoalescedLoads`, `CacheAsideTickets`, `FreshReads`

A flight is named by the call that started it. A caller takes a permit (`Acquire`), is
turned away, joins or starts a flight under the lock (`TurnedAway`, `Join`, `Start`), waits
(`Take`, `Deadline`, `Interrupted`) and gives the permit back (`Return`). A worker runs
`Begin`, the work, `Publish`, `Remove` and `Exit`; between the last two it has left the table
and is not yet ready for the next flight, which is then refused, as the lab's README says.
In `CoalescedLoads` work is opaque: it answers, fails, or is stuck for ever. Time is
only whether a flight's budget is spent, which may happen at any moment.

`CacheAsideTickets` instantiates `CoalescedLoads` over its own variables and conjoins its
steps: `Work` is the coordinator's `Begin` with the start of the lambda, `JobEnds` hands
the lambda's result to the flight or, for a caller without a coordinator, to the caller.
Each call may be made to either of two services that share source and cache. One
ticket is modelled; its version stands for its contents, and for the cache key, since
tenant and id do not change. Tickets are never deleted: `MongoTickets` has no such
operation (versions would start again, and cached ones of the former life would fit). The
cache may be unavailable at each access, lose entries, and hold entries that do not fit
their keys (`CacheContractTests` plants them).

`FreshReads` knows no cache and no flights: a reader asks, and is answered with a version
that the ticket had between the question and the answer.

### `EchoRegistry`

`owner` and `reservations` are the reservations given out and those in the registry's map,
`authenticated` its sessions, `conn` a reservation's connection. A synchronized block is an
action, on the registry's monitor or on a connection's; a thread that goes on after it
is in `rejecting` (who was collected by a login, logout or failed upgrade), `pass` (the
timer's snapshot) or `closing` and `releasing` (the shutdown's), and a connection that is
"stopped" has yet to release its place. The timer and the shutdown read
`reservation.connection` outside of the registry's monitor (`Look`, `CloseNext`), so a
socket may open between that and what they do next; `expirePending` looks again, and after
`closed` nothing can be bound. A deadline is a member of `late` from when it has passed,
and `pass.late` is what was late at the `now` that a pass computes first. An idle socket
and an unacknowledged echo share one deadline, "speak", since `Becomes` lets a command that
leaves an echo unacknowledged keep it.

The container is external: it decides when a socket opens, a send completes or fails, and
a session ends. Credits are modelled for echoes awaiting acknowledgement and for queued
sends. Ids, bytes, close codes and evidence are left out, and `close`'s snapshot is taken
with `closed`; what is released in between is then met by steps that change nothing.
Reservations are numbered as they are given out, which tells them apart and no more.

### `StreamingOllama`

A handle of `StreamingOllamaClient` is met by the thread that starts it, the transport's, the
timer's, a caller who cancels and the thread that closes the client. `stream[h].caller` is how
far `start` is, `result` is `terminal`, `ending` is how far `finish` is for the one who set it,
`reader` how far the subscriber is, `wire` and `sub` the exchange and its subscription.
Accesses to volatile, atomic and concurrent fields are actions of their own, since `finish` reads
`deadline`, `subscription` and `transport` while `start` and `onSubscribe` still assign them;
what `finish` misses there, the assigner cancels when it looks for a result. A frame is what
becomes of the stream by it; content is its length up to the limit, usage whether metadata
has come. `finish` is a course beside the thread that runs it, which may go on meanwhile: more
interleavings than the code has.

### `WebhookIntake`

An exchange is `new`, `open` (its body is on its way), inside the transaction of `accept`
(`insert`, `update`, `commit`, `leaving`), `answering`, `over`, or `gone` with a process that was
killed. The monitor of an exchange is held throughout `onAllDataRead`, so a container's timeout
waits until then and finds it finished. The statements of a transaction are actions: an
insert waits for another's insert of the same key, an update for another's update of the
tenant's total, and either may fail instead (`LOCK_TIMEOUT`, query timeout, a failed commit).
The rollback with the look at the stored hash is one action with the insert that was refused, as
receipts are never changed or removed. One tenant is modelled.

### `RefundWorkflow`

`desk[c]` is what a client's call has read. `propose` makes its three statements on two
connections, each committed by itself; `approve` is one transaction that holds the order's row from
`LockOrder` to `Commit`, reads the proposal before and after taking it, and decides on the
second. `Leave` is a client that has its answer, or that is lost with its connection: what was
not committed never happened. A proposal goes by its request key, and a token by the proposal it
signs, so a client may come with the token of another. One tenant and one principal.

### `RequestLabs`

The four labs above do not call one another. `RequestLabs` chooses one and leaves the others as
they begin, where none of their fair actions is enabled; it asks of all of them that what was
admitted ends.

### The four computations of the simulation service

A request is chosen, validated, computed and answered; `work` is the computation under way.
Each of `CpuScheduling`, `PageReplacement`, `BankersSafety` and `Ipv4Subnet` has the loop of
the service and that of the page's copy (`computeSchedule`, `runPageReplacement`,
`calculateSafety`, `calculateIpv4Subnet`), an iteration of the outer loop a step, and says what
the answer has to be without them: the least key runs, every unit is accounted for and
nobody waits through two rounds of another; frames follow the policy, and OPTIMAL is as
good as any other choice; a verdict is safe exactly if some order of completion exists;
a subnet is the block of addresses that share the prefix. Where the copies differ in the
code (whom OPTIMAL evicts, 64-bit masks and 32-bit shifts, Java's `int` in the banker's sums,
refused requests) they differ in the model. The four pages are topics of `VisualizerPages`,
where a request is what a visitor submits; `AnswersAreSound` is what is asked of all four.

### The visualizers

`StepPlayer` is what the timed pages share: snapshots, position, timer, control bar,
hiding and reduced motion. Its last part (`StepData`, `PressStep`, ...) is what the lessons
share; there the bar is called with callbacks by name, and `passed` holds the names a page passes. Each of
the engines of `ThreadLabs` (connection pool, virtual threads), `MemoryLabs` (virtual memory, heap),
`HashLabs` (hash map, hash ring), `CongestionWindow` and `BPlusTree` has all its operations,
written as operators on a record, and its page, whose handlers are the actions. An engine acts at
once and leaves a list of snapshots; the page shows one of them, and its buttons are
those of what it shows while its handlers act on the engine. `StorageLessons` (disk arms,
inodes), `RelationalAlgebra` and `LessonScripts` (functional dependencies, normal forms,
concurrency control) compute the steps of a lesson from a choice. `NetworkingSuite` (DHCP,
ARP, distance vectors, waveforms, routing, ARQ, handshake, DNS), `SystemLabs` (NAT, traffic
shaping, synchronization, life cycle, context switch) and `ConceptPages` (AI, Java and database pages; the shell with its
quiz cards) are the rest. `VisualizerPages` opens one of them by its topic.

Some hold more than the program to state what it promises: a heap object remembers when it
was born, a tree which keys it was given. Explanations, colours and geometry are left out,
except where positions are what a display says (the order of a drawn tree, the chart's
points).

### `LearningState`, `FetchedPages`, `LearningSite`

`disk` is the browser's storage, `tabs[t].memory` what a tab kept to itself after a failed
write, `shown` what its components display, `events` the storage events on their way. A
change is two actions: `Computes` (the store is read, the next value made) and `Write`
(`setItem`, which may fail, and the events to the other tabs). Another tab may write in
between, since nothing locks the entry. `Confirm` is an import: first the progress, then,
with a read of its own, the learning data. A key is a sequence: the question, then what
an imported copy was filed under.

`FetchedPages` has two machines. On the interview page `due` is an effect that a render has
left to run, `first` and `more` the requests under way; an aborted request is simply gone.
On the search page `heading` is an address that has been set and is rendered in a
transition later, `written` is `lastWrittenParams`, and `waiting` a request in its 300 ms
of delay. `Followed` is both effects of one render, in their order. Left out in `Follow`:
going back to the address on display before another one on its way has been shown.

`LearningSite` gives them a small site and makes one of the three a behaviour.

## 4. Runs

| Run | Shows | Instance |
|---|---|---|
| `saga_race` | all safety, action and liveness properties of one saga with racing drivers | 1 saga, 2 drivers, 2 requests, stock 1, 1 outage |
| `saga_shared` | two sagas with too little stock for both implement `OrderLedger` | 2 sagas, 1 driver, stock 2, 1 outage, symmetric sagas |
| `outbox_store` | exactly-once effects from at-least-once delivery; nothing lost | 2 relays, 2 consumers, 3 events of which two share an id, 1 outage |
| `gate_episodes` | one probe, always decided; implements `BreakerEpisodes` | 3 callers, threshold 2, cooldown 2 |
| `reads_calls` | slots, permits and answers through retry, cancel and close | 2 calls, capacity 1, clock to 4 |
| `loads_flights` | one load per key, limits, nobody left waiting, capacity returned | 3 calls, 2 keys, 2 flights, 2 callers |
| `tickets_fresh` | nothing stale reaches a reader; implements `FreshReads` | 2 calls, 2 versions, 2 flights, symmetric calls |
| `request_labs` | sockets have their place and identity; streams end once and run no further; events take effect once and replies are true; orders are refunded once; what was admitted ends | 2 upgrades, 2 principals, 2 sessions, every limit 1, 3 messages; 2 streams, 1 place, 1 call; 4 deliveries of 2 events, 3 bodies, 2 slots, 1 kill; 2 clients, 2 keys, 2 orders, 1 tick |
| `visualizer_pages` | engines, lessons and displays stay sound under all short sequences of gestures; schedules, frames, verdicts and blocks are what their policies prescribe, in both copies; playback ends | instances in `MCVisualizerPages` and the cfg; every request of up to 3 processes, streams up to 13 references, octets of 2 bits, integers of 5 |
| `learning_site` | what is on display is true, a change that no other tab's crosses loses no text, waiting ends | 2 tabs, 1 question, 2 texts, 3 changes alone or 2 shared, 1 failure; 3 questions in pages of 1; 5 gestures |
| `algebra_step` | *violation*: pressing Step never shows a tuple | the relational algebra page |
| `reads_crowd` | stale calls beside a probe; gate used as specified | 3 calls, capacity 2, clock to 2, symmetric calls |

Bounds, and why they are enough. `MaxVersion` lets a saga be parked and resumed
with every stage still to come; failures count to the code's own three. `MaxOutages = 1`
is one crash, lost assignment or coordinator error at any point; participant faults are
not bounded. Two drivers suffice for a stale one and a current one. `BatchLimit = 2`
makes a batch of which another relay has already sent a part. `MaxGeneration` and
`MaxClock` let the gate open, probe, close and open again with permits of three
generations out. In `reads_calls` budgets of two ticks fit a retry with or without delay
and also run out during one; in `reads_crowd` two workers are what it takes for a call
admitted before the gate opened to run while it probes (with one worker that state is
unreachable), and three calls fill the queue so that it rejects.

In `loads_flights` three calls are a leader, a follower and one who comes when the
flight is over or abandoned; two permits make the third wait its turn or be refused. In
`tickets_fresh` two versions are one rename, before or after any read; a flight of the old
and one of the new version run at once, beside late fills of either.

In `request_labs` the second upgrade waits for the place of the first, whose socket may
still be ending, opening too late, or being expired, rejected and closed at once; one of
the sessions may be logged in again as another principal. With one credit and three
messages an echo, its acknowledgement, and a second echo queue a send behind one that has
not completed, and every connection ends by its deadline, its lease or its last message.
Of two streams one is refused for want of a place or a call while the other starts, ends or is
closed. The four deliveries are an event, the same once more, the same with another body, and
another event; three bodies and two slots refuse some of them, and two transactions wait for
each other's key or total. Two keys for one order are competing proposals, one key from two
clients is a repeated one, a lifetime of one tick expires; of amounts only whether they are
equal is asked, which orders distinguish as well.

In `visualizer_pages` the requests to the simulation service are all small ones, among them
those that leave the processor idle, preempt with more left than the newcomer has, repeat
ids, refill a freed frame, and prefixes from 0 to the width; for the engines the bounds reach the full
pool and its queue, more virtual threads than carriers, an evicted TLB entry and a page
without a frame, the first old object, a doubled table and a treeified bin, a wrapped
key and an empty ring, both halves of a loss, a split root of either order, the last
direct block and the first doubly indirect one. In `learning_site` three changes in one tab
are an answer, an export and its import, or two imports of one backup, or three
attempts where two are kept; two in two tabs are a write between another's read and
write. Five gestures reach a third page, a find across two pages, a change of scope with
both requests out, and a query typed on after its address has been set.

Deadlock checking is off where the bounds, or the completion of all work, stop the system.

Fairness. `DurableSaga`: a driver that is inside a tick goes on, and somebody ticks a
pending saga (the lab's loop); nobody need resume a review. `Outbox`: a relay is called
again while rows are pending, a consumer keeps polling, and an assigned group member is
found for an unassigned partition; another producer and the source owe nothing.
`CircuitGate`: who entered completes, which `ReliableReads` ensures by its finally block,
and which `CallsEnd` checks there. `ReliableReads`: threads run on and time
passes; nobody has to call, cancel or close, but a close that has begun goes on.
`EchoRegistry`: time passes, so the deadlines to open a socket and to come back do; the
timer runs, and a thread that has set out to reject, release or close goes on; clients
and the container owe nothing. `StreamingOllama`: who has called `start` runs on, so do `finish`
and `close`, and the timer fires; the provider owes nothing. `WebhookIntake`: the container's
timeout comes, a transaction goes on or gives up, a thread that has its verdict replies; the
sender owes nothing. `RefundWorkflow` promises no end: a client may leave at any point.
`VisualizerPages`: an interval that is not cleared fires. `LearningSite`: a write ends,
events are delivered, a rendered page has its effects, a delay ends, and a request is
answered or fails; the reader owes nothing. `RelationalAlgebra` (`Reader`): somebody keeps
pressing Step.
`CoalescedLoads`: callers and workers run on and budgets run out, but work owes nothing, so
`LoadsEnd` has callers of a stuck origin return, and excepts its flight from leaving the table.

The finding. `RelationalAlgebraVisualizer.jsx:200-208` passes `onPlayPause`, `onNext` and `onPrev`
to the control bar, which calls `onTogglePlay`, `onStepForward` and `onStepBackward`
(`SimulationControlBar.jsx:3-20`). Step, Back and Play have no effect, so the page stays at
its first step and at "No result tuples emitted yet in this step. Step through the
simulation to observe evaluation." (`:161`). The pages of normalization, concurrency control
and functional dependencies pass the same names.

Each property has a mutant, a slip named in the module next to the definition it
replaces (`KeyNotChecked`, `MarkedAnyway`, `NeverCooled`, ...): TLC finds the property violated
when the slip takes the definition's place.

## 5. Proofs

Each theorem holds for every value of the constants under the named assumptions below. For each
component there is one inductive invariant, one lemma per action, and
theorems that are read off the invariant; TLC checked every inductive invariant on the
run's instance before it was proved.

**`DurableSagaProofs`**: `IInv` (`SpecSafe`), hence `TypeCorrect`, `NeverBoth`, `VerdictsBacked`,
`OneRequestPerSaga`, `StaleDriversLose`. The properties by themselves are not inductive: a
driver acts on a row it read long ago, so `IInv` says what such a snapshot is still worth.
Receipts are never taken back, so whatever evidence its stage stood on still stands; its
version is not ahead of the row, and equals it only if the row is the same; and what it is
about to write is backed. `EffectsOnce` adds that stock, reserved, sold and captured amounts
are sums over the receipts, each changed by one saga's term in the transaction that inserts the
receipt. `StagesAdvance` follows from the compare-and-set and what a driver may be about to
write; `LedgerImplemented` is the simulation of `OrderLedger`, step by step.

**`OutboxProofs`**: `OutboxInv` and `AmountsInv` (`OutboxSafe`), hence `AmountsAreSums`,
`MarksFollowRecords`, `NothingSkipped` and `FeedImplemented`. What a relay is about to mark it
has appended, and the log only grows; a consumer that lost the partition in the middle of a
record has a position that nobody acknowledges for it.

**`ReadsProofs`** is about two specifications, the gate by itself and the client that uses it: it
extends both `ReliableReads` and `CircuitGate`, whose own constants and variables have
names of their own (`circuit`, `permits`, `ticker`, `GateSpec`).

Of the gate: `CircuitInv` (`GateSafe`), hence `ProbesAreUnique` and `EpisodesImplemented`. The
strengthening is that no permit is ahead of the gate's generation: so whoever is admitted by
a new generation is alone in it.

Of the client: `ReadsInv` (`ReadsSafe`), hence `SlotsFollow`, `OneProbeIsSent`, `AttemptsCount` and
`GateIsUsed`. Whether a call still has its slot is a function of its stage, its result and its
canceller, which the count of admissions follows; the gate's invariant is carried along, and
the number of its generations is bounded by the calls that have entered and settled, which
is what makes the client a user of `CircuitGate` *within* the bound that module has.

**`LoadsProofs`**: `LoadsInv` (`LoadsSafe`), hence `FlightsSound`. Permits and places in the pool are
counted by the callers between `Acquire` and `Return` and the flights between `Start` and
`Exit`; a flight off the table has its result, so nobody waits for one that never comes.

**`TicketsProofs`**: `TicketsInv` (`TicketsSafe`), hence `NothingStale` and `FreshReadsImplemented`. A
flight on the table is keyed by a version its source has reached, and all who wait for it
asked under that version; once off the table its result, bounded by each of its callers,
stays. Nothing is assumed of the cache's contents: the comparison of versions on a hit is
what carries the proof.

**`RequestProofs`**: the four labs share no variable, so each has an invariant of its own.
`RefundsLawful`: a client in `approve` read the version that its order still has, one desk at
most has it locked, and nobody was told of an expiry whose proposal is about to be
completed. `SocketsLawful`: places that are out stay within both limits, and a reservation that
close has set out to release without a connection is not served any more, since `closed` is
set and nothing opens. `DeliveriesLawful`: the key of an event is written by one open
transaction at most, so what a transaction found stays true of the tables until its sender is
told. `StreamsLawful`: `start`, `finish` and the subscriber race for fields that the others
assign; the invariant says who comes last to each and has yet to cancel it, that a handle is in
`active` from its adding to its end, and that once `close` has iterated only what it has left to
visit, or will look at `closed` again, has not ended.

**`LearningProofs`**: `SiteInv` (`SiteSafe`), hence `DisplayTrue` and `WorkKept`. A tab with no
event to come shows the value it keeps to itself, or else the stored one, since a write tells every
other tab of what it changed. A page that fetches may show anything while the effect of its last
render is due; once that has run, what is under way is for the scope or the query on display,
since the effect drops what it finds under way. A deck grows at the offset it has reached, so no
question is there twice. `WorkInv` says that whatever is stored, kept after a failed write, computed and not
yet written, or imported is a value of its store: so whatever the next write replaces, it
replaces a state in which the same things hold. `UncrossedInv` says that what a tab is about to
write keeps what it could read at this moment, or an event of another tab's change is on its way
to it: a tab that is writing takes no event, and every write that changes the entry sends one.
The rest of `WorkIsKept` is a matter of the operators. An import completes an attempt that is there, or sets a
different text aside under a key that is free (a pigeonhole argument over the keys tried); what
is absorbed stays absorbed, so a second import of one backup adds nothing; and attempts trimmed
to `MaxAttempts` twice lose no more than trimmed once. Merging goes entry by entry, a recursive
function over the length of the backup: what it yields is shown by the least length at which
it would fail, not by an induction theorem. `SiteAssumption` says what the code's other parts
grant: the server's pages list distinct questions, trimming is closed, `None` is no value, and
`MaxAttempts` is a natural number.

**`SumLemmas`** says what `SumFunctionOnSet` becomes when an index enters, leaves or changes its
value. The fold of the community module is a recursive function over subsets; the inductions
are arguments by a smallest counterexample, which need well-foundedness of strict inclusion
and no theorem that takes an operator as a parameter. So stock, amounts and balances are
part of what is proved for *any* sets of sagas, events and deliveries.

A theorem of a module that is only instantiated cannot be cited: `ReadsProofs` proves the lemmas
the client needs of its gate under `Gate!` and `TicketsProofs` those about the coordinator, and
`SameCount` and `SameSum` identify an instance's `Cardinality` and `SumFunctionOnSet` with the
module's own. Refinement mappings are definitions of the module they map from, so that
TLC and the proofs use the same ones.

Assumptions are only those named in the modules (`ASSUME ...Assumption`), which TLC
evaluates in the runs. Most give constants the range that a constructor checks (limits and
durations are positive, `FlightLimit` is at most 8, `MaxAttempts` at most 3) or keep a value that
stands for absence apart from the data (`None`, `Nobody`, `NoPermit`, `NoProposal`, `NoBody`, and the
name "nobody" of a partition without a consumer), as null is in the code. Calls and handles
are finitely many wherever a count of them is stated; how many is left open. The bounds
(`MaxClock`, `MaxVersion`, `MaxOutages`, ...) are any numbers, so the theorems hold of behaviours of any
length, but integers do not wrap, and the gate's generations are those of its bound.

Proved and of no run by themselves: `TypeCorrect`, and the inductive invariants, of which the
runs check the properties that follow. Where a component's type invariant is of no run, it is a
conjunct of one that is.

Only model-checked:
- liveness (`EverySagaSettles`, `EveryEventArrives`, `ProbesAreDecided`, `CallsEnd`, `LoadsEnd`,
  `EveryRequestEnds`, `PlaybackEnds`, `PagesSettle`) and whatever rests on ENABLED: the prover does
  not deal with fairness;
- `VisualizerPages` (`EnginesAreSound`, `LessonsAreRight`, `ShownIsSound`, `AnswersAreSound`,
  `OnlyItsOwnKeysMove`), which has RECURSIVE operators in reach, among them those of `BPlusTree` and
  `LessonScripts`: the prover has no SMT backend there, and what a recursive definition
  yields for every input would need an induction theorem with an operator as parameter;
- absence of deadlock.

## 6. What was seen on the way

Behaviour the models keep and no document contradicts outright; a reader of the code
should know of it.

- `learningState.js:46-50`: a tab's write, computed before another's, replaces it, and the other's
  draft is gone. What a tab keeps in memory after a failed write is dropped when another tab
  writes (`:91`), although the deck says the draft "is kept for this session only"
  (`InterviewDeck.jsx:102`; `PracticeReview.jsx:45` promises as much). The model does both;
  `WorkIsKept` claims nothing of a write that an event is on its way to contradict, nor of what
  an event drops. Reviews of equal age keep this device's date.
- `InterviewPage.jsx`: after a change of scope the deck is mounted with the old scope's
  questions until the effect has run.
- `SearchPage.jsx`: clearing the box before the address it set is rendered fills it again.
- `bplusTreeEngine.js:221`: the copies of a key inserted twice may end on both sides of a
  separator, where a search does not find them; a drawing made between a split and the
  parent's update lacks the right half.
- `consistentHashingEngine.js`: a ring may hold one name twice, and removing it empties the
  ring past the guard of `:87`.
- Lessons that say what is not so: the Thomas write rule shows a wait-for graph
  (`concurrencyControlEngine.js:120`); the BCNF scenario says "Lossless & Preserved"
  (`NormalizationVisualizer.jsx:70`) of a decomposition that no longer implies StudentID, CourseID ->
  AdvisorID; what is left of the unnormalized scenario is labelled BCNF
  (`normalizationEngine.js:94`). `LessonsAreRight` checks the claims of the other lessons and leaves
  out these three, at the definitions that would state them.
- The TLB described as LRU is filled in turn; the heap enforces no capacity of old or survivor
  spaces; the congestion chart lags a round trip.
- `ConceptModuleShell.jsx` does not stop the playback of a visualizer whose tab is left.
- `RefundWorkflow.java:78`: of two identical proposals under one key at once, one is told of a
  conflict; had it come later, it would have been given the other's.
- `WebhookServlet.java:96`: an event may be applied and its sender told 503, when the connection
  fails to close, the signal's file cannot be written or the delay is interrupted.
- NAT replies always use the first entry of the table; a bucket's capacity may be set below
  its content; a process can be admitted in any state but READY.

## 7. Not modelled

Plain I/O (connection handling, schemas, JSON, HTTP itself), presentation, content and the
scripts that validate it at build time, the catalogue and search over files, and the labs
that only configure external systems. Of the stateful labs, the transaction retry (a loop around
one transaction) and the knowledge index (SQL and vector arithmetic) are left. Of the learning state,
sessions, font size, the checks of foreign files and the choice of review candidates are
left out.
