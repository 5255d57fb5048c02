--------------------------- MODULE NetworkingSuite ---------------------------
(***************************************************************************)
(* The networking page: a row of tabs over small simulators.  What the     *)
(* page keeps itself survives a visit to another tab; a simulator with a   *)
(* component of its own is mounted afresh each time its tab is opened, and *)
(* `child' is the step of the one that is mounted.  The subnet calculator  *)
(* is in Ipv4Subnet, the larger simulators are pages of their own here.    *)
(***************************************************************************)
EXTENDS Integers, Sequences, FiniteSets

CONSTANT BitInputs  \* bit strings the reader types

VARIABLE page

(* -------- the protocol walks -------------------------------------------- *)

(* The scripted protocol walks of the networking page: what each step      *)
(* shows, as data, and the buttons that move through it.                   *)

(* Steps count from 0, as the pages' own do.                               *)
ResetWalk == 0
PrevStep(step) == IF step > 0 THEN step - 1 ELSE 0
NextStep(step, last) == IF step < last THEN step + 1 ELSE last

(* --------------------------------- DHCP -------------------------------- *)

NoAddress == "0.0.0.0"
Broadcast == "broadcast"
LeasedAddress == "192.168.1.105"
ServerAddress == "192.168.1.1"

Dora(sender, src, dst, toMac) == [sender |-> sender, src |-> src, dst |-> dst, toMac |-> toMac]
DhcpSteps == <<Dora("client", NoAddress, Broadcast, Broadcast),
               Dora("server", ServerAddress, LeasedAddress, "client"),
               Dora("client", NoAddress, Broadcast, Broadcast),
               Dora("server", ServerAddress, LeasedAddress, "client")>>

(* --------------------------------- ARP --------------------------------- *)

Frame(kind, broadcast, cache) == [kind |-> kind, broadcast |-> broadcast, cache |-> cache]
ArpSteps == <<Frame("lookup", FALSE, {}), Frame("request", TRUE, {}), Frame("matched", FALSE, {}),
              Frame("reply", FALSE, {}), Frame("payload", FALSE, {"B"})>>

(* Hosts lit at a step: the sender and its target.                         *)
ArpLit(step) == (IF step \in {0, 4} THEN {"A"} ELSE {}) \cup (IF step \in {2, 3} THEN {"B"} ELSE {})

(* ---------------------------- distance vector -------------------------- *)

Routers == {"A", "B", "C", "D"}
Infinity == 99
LinkCost(x, y) == CASE x = y -> 0
                    [] {x, y} = {"A", "B"} -> 2
                    [] {x, y} = {"A", "C"} -> 7
                    [] {x, y} = {"B", "C"} -> 1
                    [] {x, y} = {"B", "D"} -> 4
                    [] {x, y} = {"C", "D"} -> 1
                    [] OTHER -> Infinity

Route(cost, hop) == [cost |-> cost, hop |-> hop]
Table(a, b, c, d) == [A |-> a, B |-> b, C |-> c, D |-> d]
Here(r) == Route(0, r)

Round0 == [A |-> Table(Here("A"), Route(2, "B"), Route(7, "C"), Route(Infinity, "-")),
           B |-> Table(Route(2, "A"), Here("B"), Route(1, "C"), Route(4, "D")),
           C |-> Table(Route(7, "A"), Route(1, "B"), Here("C"), Route(1, "D")),
           D |-> Table(Route(Infinity, "-"), Route(4, "B"), Route(1, "C"), Here("D"))]

Round1 == [A |-> Table(Here("A"), Route(2, "B"), Route(3, "B"), Route(6, "B")),
           B |-> Table(Route(2, "A"), Here("B"), Route(1, "C"), Route(2, "C")),
           C |-> Table(Route(3, "B"), Route(1, "B"), Here("C"), Route(1, "D")),
           D |-> Table(Route(6, "B"), Route(2, "C"), Route(1, "C"), Here("D"))]

Round2 == [Round1 EXCEPT !.A.D = Route(4, "B"), !.D.A = Route(4, "C")]

RoundsData == <<Round0, Round1, Round2>>
Converged(round) == round = 2

(* --------------------------- line encoding ----------------------------- *)

Flip(level) == IF level = "H" THEN "L" ELSE "H"

(* The level a bit leaves the line at, for the codes that remember it.     *)
LevelAfter(encoding, level, bit) ==
    CASE encoding = "nrz-i" -> IF bit = 1 THEN Flip(level) ELSE level
      [] encoding = "diff-manchester" -> IF bit = 0 THEN level ELSE Flip(level)
      [] OTHER -> level

HalvesOf(encoding, level, bit) ==
    CASE encoding = "nrz-l" -> IF bit = 1 THEN <<"H", "H">> ELSE <<"L", "L">>
      [] encoding = "manchester" -> IF bit = 1 THEN <<"H", "L">> ELSE <<"L", "H">>
      [] encoding = "nrz-i" -> LET now == LevelAfter(encoding, level, bit) IN <<now, now>>
      [] OTHER -> LET first == IF bit = 0 THEN Flip(level) ELSE level IN <<first, Flip(first)>>

ComputeWaveform(bits, encoding) ==
    LET level[i \in 1..Len(bits) + 1] ==
            IF i = 1 THEN "L" ELSE LevelAfter(encoding, level[i - 1], bits[i - 1])
    IN [i \in DOMAIN bits |-> HalvesOf(encoding, level[i], bits[i])]

(* ------------------------- routes and handshake ------------------------ *)

(* Paths from router A as a sequence of routers.                           *)
LeastCost(path, cost, hops) == [path |-> path, cost |-> cost, hops |-> hops]
Routes == [B |-> LeastCost(<<"A", "B">>, 2, 1), C |-> LeastCost(<<"A", "B", "C">>, 5, 2),
           D |-> LeastCost(<<"A", "D">>, 4, 1), E |-> LeastCost(<<"A", "D", "E">>, 6, 2)]

ClientState(step) == CASE step = 0 -> "CLOSED" [] step = 1 -> "SYN_SENT" [] OTHER -> "ESTABLISHED"
ServerState(step) == IF step < 2 THEN "LISTEN / SYN_RCVD" ELSE "ESTABLISHED"
MessagesShown(step) == 1..(step + 1)

(* ------------------------------ properties ----------------------------- *)

(* Until the lease is acknowledged the client speaks from no address and   *)
(* to everybody, and the address offered is the one acknowledged.          *)
DoraIsSound ==
    /\ \A i \in DOMAIN DhcpSteps : DhcpSteps[i].sender = (IF i % 2 = 1 THEN "client" ELSE "server")
    /\ \A s \in {DhcpSteps[i] : i \in {1, 3}} : s.src = NoAddress /\ s.dst = Broadcast
    /\ DhcpSteps[2].dst = DhcpSteps[4].dst

(* Each round is one Bellman-Ford exchange of the round before it, a next  *)
(* hop is a neighbour the cost is reached by, and the round called         *)
(* converged is the one a further exchange does not change.                *)
Vias(t, x, y) == {LinkCost(x, v) + t[v][y].cost : v \in Routers \ {x}} \cup {t[x][y].cost}
Exchanged(t, x, y) == LET least == CHOOSE c \in Vias(t, x, y) : \A d \in Vias(t, x, y) : c <= d
                      IN IF least > Infinity THEN Infinity ELSE least
RoundsAreExchanges ==
    /\ \A x, y \in Routers : Round0[x][y].cost = LinkCost(x, y)
    /\ \A n \in 1..2, x, y \in Routers : RoundsData[n + 1][x][y].cost = Exchanged(RoundsData[n], x, y)
    /\ \A n \in 1..2, x, y \in Routers :
           LET r == RoundsData[n + 1][x][y]
           IN x # y => r.cost = LinkCost(x, r.hop) + RoundsData[n][r.hop][y].cost
    /\ \A n \in 1..3 : Converged(n - 1) = (\A x, y \in Routers : RoundsData[n][x][y].cost = Exchanged(RoundsData[n], x, y))

(* The bits can be read back from the levels of the line alone.            *)
BitRead(encoding, before, halves) ==
    CASE encoding = "nrz-l" -> halves = <<"H", "H">>
      [] encoding = "manchester" -> halves = <<"H", "L">>
      [] encoding = "nrz-i" -> halves[1] # before
      [] OTHER -> halves[1] = before
WaveIsReadable(bits, encoding) ==
    LET wave == ComputeWaveform(bits, encoding)
    IN \A i \in DOMAIN bits :
           BitRead(encoding, IF i = 1 THEN "L" ELSE wave[i - 1][2], wave[i]) = (bits[i] = 1)

(* The way to a router is the way to the one before it, and dearer.        *)
RoutesAreNested ==
    \A r \in DOMAIN Routes :
        LET way == Routes[r]
            before == way.path[Len(way.path) - 1]
        IN /\ way.hops = Len(way.path) - 1 /\ way.path[Len(way.path)] = r
           /\ before # "A" => /\ SubSeq(way.path, 1, Len(way.path) - 1) = Routes[before].path
                              /\ way.cost > Routes[before].cost

(* -------- the page ------------------------------------------------------ *)

Topologies == {"star", "bus", "ring", "mesh", "hybrid"}
Encodings == {"manchester", "nrz-l", "nrz-i", "diff-manchester"}
Walks == [dhcp |-> Len(DhcpSteps) - 1, arp |-> Len(ArpSteps) - 1, distance |-> Len(RoundsData) - 1]
TabNames == {"topology", "physical", "encapsulation", "arq", "subnet", "dhcp", "arp", "nat", "routing",
             "distance", "handshake", "tcp-segment", "dns", "traffic-shaping", "consistent-hashing"}

(* Which tab a lesson opens the page on.                                   *)
GetInitialTab(topic) ==
    CASE topic = "network-fundamentals" -> "topology"
      [] topic = "physical-layer-media" -> "physical"
      [] topic = "data-link-layer" -> "arq"
      [] topic = "ip-subnetting" -> "subnet"
      [] topic = "routing-algorithms" -> "routing"
      [] topic \in {"tcp-ip", "tcp-congestion"} -> "handshake"
      [] topic = "transport-layer-protocols" -> "tcp-segment"
      [] topic \in {"application-layer", "network-security"} -> "dns"
      [] topic = "network-performance-qos" -> "traffic-shaping"
      [] topic = "distributed-databases-cap" -> "consistent-hashing"
      [] OTHER -> "encapsulation"
Lessons == {"network-fundamentals", "physical-layer-media", "data-link-layer", "ip-subnetting",
            "routing-algorithms", "tcp-ip", "transport-layer-protocols", "application-layer",
            "network-performance-qos", "distributed-databases-cap",
            "network-security", "osi-model"}

Init == \E topic \in Lessons :
    page = [tab |-> GetInitialTab(topic), child |-> 0, topology |-> "star",
            bits |-> <<1, 0, 1, 1, 0, 0, 1, 0>>, encoding |-> "manchester", encap |-> 0,
            arq |-> "gbn", resent |-> <<>>, target |-> "E",
            handshake |-> 0, dns |-> 0]

On(tab) == page.tab = tab

(* ------------------------------- handlers ------------------------------ *)

SelectTab == \E tab \in TabNames :
    page' = [page EXCEPT !.tab = tab, !.child = IF tab = page.tab THEN page.child ELSE 0]

SelectTopology == On("topology") /\ \E key \in Topologies : page' = [page EXCEPT !.topology = key]

TypeBits == On("physical") /\ \E bits \in BitInputs : page' = [page EXCEPT !.bits = bits]
SelectEncoding == On("physical") /\ \E code \in Encodings : page' = [page EXCEPT !.encoding = code]

EncapButtons == /\ On("encapsulation")
                /\ \/ page' = [page EXCEPT !.encap = ResetWalk]
                   \/ page.encap > 0 /\ page' = [page EXCEPT !.encap = PrevStep(@)]
                   \/ page.encap < 5 /\ page' = [page EXCEPT !.encap = NextStep(@, 5)]

SelectArqMode == On("arq") /\ \E mode \in {"gbn", "sr"} : page' = [page EXCEPT !.arq = mode]

(* The newest line of the log: the frames sent again.                      *)
Resent(mode) == IF mode = "gbn" THEN <<1, 2, 3>> ELSE <<1>>
HandleSimulateLoss == On("arq") /\ page' = [page EXCEPT !.resent = Resent(page.arq)]

SelectTarget == On("routing") /\ \E router \in DOMAIN Routes : page' = [page EXCEPT !.target = router]

HandshakeButtons == /\ On("handshake")
                    /\ \/ page' = [page EXCEPT !.handshake = ResetWalk]
                       \/ page.handshake < 2 /\ page' = [page EXCEPT !.handshake = NextStep(@, 2)]

DnsButtons == /\ On("dns")
              /\ \/ page' = [page EXCEPT !.dns = ResetWalk]
                 \/ page.dns < 3 /\ page' = [page EXCEPT !.dns = NextStep(@, 3)]

(* DHCP, ARP and distance vector; DHCP also lets one jump to a step.       *)
DhcpButtons == /\ On("dhcp")
               /\ \/ page' = [page EXCEPT !.child = ResetWalk]
                  \/ page.child > 0 /\ page' = [page EXCEPT !.child = PrevStep(@)]
                  \/ page.child < Walks.dhcp /\ page' = [page EXCEPT !.child = NextStep(@, Walks.dhcp)]
                  \/ \E step \in 0..Walks.dhcp : page' = [page EXCEPT !.child = step]
ArpButtons == /\ On("arp")
              /\ \/ page' = [page EXCEPT !.child = ResetWalk]
                 \/ page.child > 0 /\ page' = [page EXCEPT !.child = PrevStep(@)]
                 \/ page.child < Walks.arp /\ page' = [page EXCEPT !.child = NextStep(@, Walks.arp)]
DistanceButtons == /\ On("distance")
                   /\ \/ page' = [page EXCEPT !.child = ResetWalk]
                      \/ page.child > 0 /\ page' = [page EXCEPT !.child = PrevStep(@)]
                      \/ page.child < Walks.distance /\ page' = [page EXCEPT !.child = NextStep(@, Walks.distance)]

Gesture == \/ SelectTab \/ SelectTopology \/ TypeBits \/ SelectEncoding \/ EncapButtons
           \/ SelectArqMode \/ HandleSimulateLoss \/ SelectTarget
           \/ HandshakeButtons \/ DnsButtons \/ DhcpButtons \/ ArpButtons \/ DistanceButtons

(* ------------------------------ properties ----------------------------- *)

(* What the simulators compute or carry as data is right: waveforms can be *)
(* read back, rounds are Bellman-Ford exchanges, DORA and routes hold up.  *)
EngineIsSound == /\ WaveIsReadable(page.bits, page.encoding)
                 /\ RoundsAreExchanges /\ DoraIsSound /\ RoutesAreNested

(* What is on display agrees across its panels: a walk stands at a step it *)
(* has; neither end is established alone, and never before the third       *)
(* message shows; the cache is filled only once a reply was shown; the     *)
(* frames last resent are those of a mode the page offers.                 *)
ShownIsSound ==
    /\ On("dhcp") => page.child <= Walks.dhcp
    /\ On("arp") => /\ page.child <= Walks.arp
                    /\ (ArpSteps[page.child + 1].cache # {} =>
                            \E i \in 1..page.child : ArpSteps[i].kind = "reply")
    /\ On("distance") => page.child <= Walks.distance
    /\ (ClientState(page.handshake) = "ESTABLISHED") = (ServerState(page.handshake) = "ESTABLISHED")
    /\ ClientState(page.handshake) = "ESTABLISHED" => MessagesShown(page.handshake) = 1..3
==============================================================================
