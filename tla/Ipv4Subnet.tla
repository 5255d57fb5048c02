----------------------------- MODULE Ipv4Subnet ------------------------------
(***************************************************************************)
(* The subnet calculator, once in the service (Java, 64-bit arithmetic)    *)
(* and once in the page (JavaScript, 32-bit shifts whose count is taken    *)
(* modulo the width).  An octet has OctetBits bits; the programs' is 8.    *)
(* The text of an address is the sequence of its dot-separated parts.      *)
(***************************************************************************)
EXTENDS Integers, Sequences, Bitwise

CONSTANTS OctetBits, SubnetRequests

VARIABLE sub

Width == 4 * OctetBits
OctetMax == 2^OctetBits - 1
All == 2^Width - 1

Fresh(r) == [req |-> r, service |-> [valid |-> FALSE], page |-> [valid |-> FALSE], asked |-> {}]
Starts == {Fresh(r) : r \in SubnetRequests}
Init == sub \in Starts

(* ------------------------------- parsing ------------------------------- *)

(* String.split drops empty parts at the end; parseInt takes a sign.       *)
RECURSIVE Split(_)
Split(parts) == IF parts # <<>> /\ parts[Len(parts)].form = "empty"
                THEN Split(SubSeq(parts, 1, Len(parts) - 1)) ELSE parts

Parsed(part) == IF part.form = "minus" THEN -part.value ELSE part.value
InRange(n) == n \in 0..OctetMax

AcceptedByService(r) ==
    LET parts == Split(r.parts) IN
    /\ r.cidr \in 0..Width
    /\ Len(parts) = 4
    /\ \A i \in 1..4 : parts[i].form \in {"digits", "plus", "minus"} /\ InRange(Parsed(parts[i]))

AcceptedByPage(r) ==
    /\ r.cidr \in 0..Width
    /\ Len(r.parts) = 4
    /\ \A i \in 1..4 : r.parts[i].form = "digits" /\ InRange(r.parts[i].value)

(* ------------------------------ arithmetic ----------------------------- *)

Address(parts) == (Parsed(parts[1]) * 2^(3 * OctetBits)) | (Parsed(parts[2]) * 2^(2 * OctetBits))
                  | (Parsed(parts[3]) * 2^OctetBits) | Parsed(parts[4])

ServiceMask(cidr) == IF cidr = 0 THEN 0 ELSE (All * 2^(Width - cidr)) & All

(* ~0 << n on bit patterns: the count is taken modulo the width.           *)
ShiftLeft(bits, n) == (bits * 2^(n % Width)) % 2^Width
PageMask(cidr) == IF cidr = 0 THEN 0 ELSE ShiftLeft(All, Width - cidr)

Subnet(address, mask, cidr) ==
    LET net == address & mask
        last == net | (All - mask)
        total == 2^(Width - cidr)
    IN [valid |-> TRUE, network |-> net, broadcast |-> last, mask |-> mask,
        firstHost |-> IF cidr >= Width - 1 THEN net ELSE net + 1,
        lastHost |-> IF cidr >= Width - 1 THEN last ELSE last - 1,
        totalHosts |-> total, usableHosts |-> IF total > 2 THEN total - 2 ELSE total]

ComputeSubnet ==
    /\ "service" \notin sub.asked
    /\ sub' = [sub EXCEPT !.asked = @ \cup {"service"},
                          !.service = IF AcceptedByService(sub.req)
                                      THEN Subnet(Address(Split(sub.req.parts)), ServiceMask(sub.req.cidr), sub.req.cidr)
                                      ELSE @]

CalculateIpv4Subnet ==
    /\ "page" \notin sub.asked
    /\ sub' = [sub EXCEPT !.asked = @ \cup {"page"},
                          !.page = IF AcceptedByPage(sub.req)
                                   THEN Subnet(Address(sub.req.parts), PageMask(sub.req.cidr), sub.req.cidr)
                                   ELSE @]

Next == ComputeSubnet \/ CalculateIpv4Subnet
Spec == Init /\ [][Next]_sub

(* ------------------------------ properties ----------------------------- *)

(* The block of 2^(Width - cidr) addresses that share the prefix.          *)
Block(a, cidr) == LET size == 2^(Width - cidr) IN [low |-> a - (a % size), high |-> a - (a % size) + size - 1]

(* An answer is the block of the address: its bounds, its size, its mask   *)
(* and a host range inside it that leaves both bounds out when it can.     *)
AnswerIsTheBlock(answer, a, cidr) ==
    LET b == Block(a, cidr) IN
    /\ answer.network = b.low /\ answer.broadcast = b.high
    /\ answer.mask = All - (b.high - b.low)
    /\ answer.totalHosts = b.high - b.low + 1
    /\ b.low <= answer.firstHost /\ answer.firstHost <= answer.lastHost /\ answer.lastHost <= b.high
    /\ answer.usableHosts = answer.lastHost - answer.firstHost + 1

(* Whatever the page accepts the service accepts with the same answer, and *)
(* an answer is the block the address lies in.                             *)
SubnetsAreSound ==
    /\ \A side \in {"service", "page"} : sub[side].valid =>
           AnswerIsTheBlock(sub[side], Address(Split(sub.req.parts)), sub.req.cidr)
    /\ (sub.asked = {"service", "page"} /\ sub.page.valid) => sub.service = sub.page
==============================================================================
