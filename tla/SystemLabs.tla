----------------------------- MODULE SystemLabs ------------------------------
(***************************************************************************)
(* Four small simulators with a state of their own: address translation    *)
(* and traffic shaping of the networking page, synchronization and the life*)
(* cycle of a process of the operating systems pages.                      *)
(***************************************************************************)
EXTENDS Integers, Sequences, FiniteSets, SequencesExt, FiniteSetsExt

CONSTANTS Capacities, Rates, Bursts,     \* positions of the shaping sliders
          FirstCapacity, FirstRate, FirstBurst

CONSTANTS BufferSize, Threads, NoThread

VARIABLE page

(* -------- networks ------------------------------------------------------ *)

(* Two small simulators of the networking page with a state of their own:  *)
(* address translation and traffic shaping.                                *)

(* ---- address translation ---- *)

(* The NAT page: two private hosts behind one public address, a table of   *)
(* port mappings in the order in which they were made, and the last packet *)
(* that crossed the router.  Rows are told apart by the host inside.       *)
Hosts == {"A", "B"}
NoPacket == [direction |-> "none"]

(* The public port each host is given.                                     *)
PortOf(host) == IF host = "A" THEN 61001 ELSE 61002
Entry(host) == [internal |-> host, translated |-> PortOf(host)]
Outbound(host) == [direction |-> "outbound", inside |-> host, outside |-> PortOf(host)]
Inbound(entry) == [direction |-> "inbound", inside |-> entry.internal, outside |-> entry.translated]

Mapped(table) == {table[i].internal : i \in DOMAIN table}

NatInit == page = [table |-> <<Entry("A")>>, packet |-> NoPacket]

Sent(p, host) == [p EXCEPT !.table = IF host \in Mapped(@) THEN @ ELSE Append(@, Entry(host)),
                           !.packet = Outbound(host)]

HandleSendFromHostA == page' = Sent(page, "A")
HandleSendFromHostB == page' = Sent(page, "B")

(* The reply is for whichever host has the oldest row.                     *)
HandleServerReply == page' = [page EXCEPT !.packet = IF page.table = <<>> THEN NoPacket ELSE Inbound(page.table[1])]

NatHandleReset == page' = [page EXCEPT !.table = <<>>, !.packet = NoPacket]

NatGesture == HandleSendFromHostA \/ HandleSendFromHostB \/ HandleServerReply \/ NatHandleReset

(* ------------------------------ properties ----------------------------- *)

(* One row for each host that has one, one public port for each row.       *)
NatEngineIsSound == /\ Cardinality(Mapped(page.table)) = Len(page.table)
                 /\ Cardinality({r.translated : r \in ToSet(page.table)}) = Len(page.table)

(* A packet on display crossed by a row of the table on display.           *)
NatShownIsSound == page.packet # NoPacket =>
                    [internal |-> page.packet.inside, translated |-> page.packet.outside] \in ToSet(page.table)

(* ---- traffic shaping ---- *)

(* The traffic shaping page: the same packets offered, tick by tick, to a  *)
(* token bucket and to a leaky bucket whose sliders move between ticks.    *)
(* `tokens' and `buffer' are carried from tick to tick, the other fields   *)
(* are the figures of the last tick.                                       *)
TokenState(tokens, sent, dropped) == [tokens |-> tokens, transmitted |-> sent, dropped |-> dropped]
LeakyState(buffer, sent, dropped, accepted) ==
    [buffer |-> buffer, transmitted |-> sent, dropped |-> dropped, accepted |-> accepted]

ShapingInit == page = [capacity |-> FirstCapacity, tokenRate |-> FirstRate, leakRate |-> FirstRate,
                       burst |-> FirstBurst, tick |-> 0,
                       token |-> TokenState(FirstCapacity, 0, 0), leaky |-> LeakyState(0, 0, 0, 0)]

(* A bucket holds one packet and a tick passes one, whatever the sliders.  *)
AtLeastOne(n) == Max({1, n})

SimulateTokenBucket(tokens, capacity, rate, incoming) ==
    LET available == Min({AtLeastOne(capacity), tokens + AtLeastOne(rate)})
        sent == Min({available, incoming})
    IN TokenState(available - sent, sent, incoming - sent)

SimulateLeakyBucket(buffer, capacity, leak, incoming) ==
    LET accepted == Min({incoming, Max({0, AtLeastOne(capacity) - buffer})})
        sent == Min({AtLeastOne(leak), buffer + accepted})
    IN LeakyState(buffer + accepted - sent, sent, incoming - accepted, accepted)

HandleStepTick(incoming) ==
    page' = [page EXCEPT !.tick = @ + 1,
                         !.token = SimulateTokenBucket(@.tokens, page.capacity, page.tokenRate, incoming),
                         !.leaky = SimulateLeakyBucket(@.buffer, page.capacity, page.leakRate, incoming)]
HandleInjectBurst == HandleStepTick(page.burst)
ShapingHandleReset == page' = [page EXCEPT !.tick = 0, !.token = TokenState(page.capacity, 0, 0),
                                           !.leaky = LeakyState(0, 0, 0, 0)]
MoveSliders == \/ \E n \in Capacities : page' = [page EXCEPT !.capacity = n]
               \/ \E n \in Rates : page' = [page EXCEPT !.tokenRate = n]
               \/ \E n \in Rates : page' = [page EXCEPT !.leakRate = n]
               \/ \E n \in Bursts : page' = [page EXCEPT !.burst = n]

ShapingGesture == HandleStepTick(0) \/ HandleInjectBurst \/ ShapingHandleReset \/ MoveSliders

(* ------------------------------ properties ----------------------------- *)

(* Nothing is dropped while a token is left; buckets are never in debt and *)
(* never above the largest capacity; both were offered the same packets.   *)
ShapingEngineIsSound ==
    /\ page.token.dropped > 0 => page.token.tokens = 0
    /\ page.token.tokens \in 0..Max(Capacities) /\ page.leaky.buffer \in 0..Max(Capacities)
    /\ page.token.transmitted + page.token.dropped = page.leaky.accepted + page.leaky.dropped

(* The leaky bucket keeps packets back only when it sends at its rate, so  *)
(* what it sends in a tick is bounded by the slider, a burst or not.       *)
ShapingShownIsSound == /\ page.leaky.transmitted <= Max(Rates)
                       /\ page.leaky.buffer > 0 => page.leaky.transmitted \in Rates

(* -------- operating systems --------------------------------------------- *)

(* Two pages of the operating systems module: synchronization, and the     *)
(* life cycle of a process with its context switch.                        *)

(* ---- synchronization ---- *)

(* The synchronization page: a mutex handed on to the first of those that  *)
(* wait, and a bounded buffer counted by two semaphores.  Items are        *)
(* numbered in the order in which they were produced.                      *)
SyncInit == page = [locked |-> FALSE, holder |-> NoThread, waiting |-> <<>>,
                    buffer |-> <<>>, empty |-> BufferSize, full |-> 0, made |-> 0]

(* A thread that holds the lock and asks again waits for itself.           *)
HandleThreadRequest(t) ==
    page' = IF ~page.locked THEN [page EXCEPT !.locked = TRUE, !.holder = t]
            ELSE IF Contains(page.waiting, t) THEN page ELSE [page EXCEPT !.waiting = Append(@, t)]

Released(p) ==
    IF p.waiting # <<>> THEN [p EXCEPT !.holder = Head(p.waiting), !.waiting = Tail(@)]
                        ELSE [p EXCEPT !.locked = FALSE, !.holder = NoThread]

HandleReleaseMutex == page.locked /\ page' = Released(page)

HandleProduce == /\ Len(page.buffer) < BufferSize
                 /\ page' = [page EXCEPT !.buffer = Append(@, page.made + 1), !.made = @ + 1,
                                         !.empty = @ - 1, !.full = @ + 1]

HandleConsume == /\ page.buffer # <<>>
                 /\ page' = [page EXCEPT !.buffer = Tail(@), !.empty = @ + 1, !.full = @ - 1]

SyncGesture == \/ \E t \in Threads : HandleThreadRequest(t)
               \/ HandleReleaseMutex \/ HandleProduce \/ HandleConsume

Slots == [i \in 1..BufferSize |-> IF i <= Len(page.buffer) THEN page.buffer[i] ELSE 0]

(* ------------------------------ properties ----------------------------- *)

(* The lock is held exactly when it is locked, nobody waits for a free     *)
(* lock or twice for one, and items leave in the order they came.          *)
SyncEngineIsSound ==
    /\ page.locked = (page.holder # NoThread)
    /\ page.waiting # <<>> => page.locked
    /\ Cardinality(ToSet(page.waiting)) = Len(page.waiting)
    /\ \A i \in 2..Len(page.buffer) : page.buffer[i] = page.buffer[i - 1] + 1

(* The counters on display are those of the slots on display.              *)
SyncShownIsSound ==
    /\ page.full = Cardinality({i \in DOMAIN Slots : Slots[i] # 0})
    /\ page.empty = Cardinality({i \in DOMAIN Slots : Slots[i] = 0})

(* ---- process life cycle ---- *)

(* The process lifecycle page: the five states with their buttons and the  *)
(* manual override, and a context switch that a timer completes.           *)
States == {"NEW", "READY", "RUNNING", "WAITING", "TERMINATED"}
Button(from, to) == [from |-> from, to |-> to]

(* What a button is enabled in and where it leads; Admit is offered in     *)
(* every state but READY.                                                  *)
Buttons == {Button(States \ {"READY"}, "READY"), Button({"READY"}, "RUNNING"),
            Button({"RUNNING"}, "WAITING"), Button({"WAITING"}, "READY"),
            Button({"RUNNING"}, "READY"), Button({"RUNNING"}, "TERMINATED")}

(* `armed': the timer of a context switch is running.                      *)
LifecycleInit == page = [active |-> "READY", pcb |-> "READY", mode |-> "lifecycle",
                         switching |-> FALSE, armed |-> FALSE, on |-> "P1", visible |-> TRUE]

TriggerStateChange(to) == page' = [page EXCEPT !.active = to, !.pcb = to]

PressButton == \E b \in Buttons : page.active \in b.from /\ TriggerStateChange(b.to)
ManualOverride == \E to \in States : TriggerStateChange(to)
SelectMode == \E mode \in {"lifecycle", "context-switch"} : page' = [page EXCEPT !.mode = mode]

HandleContextSwitch == ~page.switching /\ page' = [page EXCEPT !.switching = TRUE, !.armed = TRUE]

Timer == page.armed /\ page' = [page EXCEPT !.on = IF @ = "P1" THEN "P2" ELSE "P1",
                                            !.switching = FALSE, !.armed = FALSE]

(* The hook stops what the page calls playing, the effect its timer.       *)
Hidden(p) == [p EXCEPT !.visible = FALSE, !.switching = FALSE, !.armed = FALSE]

Hide == page.visible /\ page' = Hidden(page)
Show == ~page.visible /\ page' = [page EXCEPT !.visible = TRUE]

LifecycleGesture == \/ page.visible /\ page.mode = "lifecycle" /\ (PressButton \/ ManualOverride)
                    \/ page.visible /\ SelectMode
                    \/ page.visible /\ page.mode = "context-switch" /\ HandleContextSwitch
                    \/ Hide \/ Show

(* ------------------------------ properties ----------------------------- *)

(* The page says it switches exactly while a timer will end the switch:    *)
(* the only button is disabled meanwhile.                                  *)
LifecycleEngineIsSound == page.switching = page.armed

(* The diagram and the control block name one state, and nothing runs out  *)
(* of sight.                                                               *)
LifecycleShownIsSound == page.active = page.pcb /\ (page.armed => page.visible)

SwitchEnds == []<>(~page.switching)
==============================================================================
