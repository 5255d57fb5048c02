--------------------------- MODULE MCVisualizerPages ---------------------------
(* Small instances of the visualizers and requests of the four endpoints.   *)
EXTENDS VisualizerPages, TLC

MCMaxGestures ==
    ("spring-testing-production" :> 8) @@ ("java-multithreading-concurrency" :> 7)
    @@ ("virtual memory" :> 5) @@ ("jvm-gc" :> 8) @@ ("java-hashmap-internals" :> 6)
    @@ ("consistent hashing" :> 8) @@ ("tcp-congestion" :> 9) @@ ("dbms-indexing" :> 2)
    @@ ("networking" :> 5) @@ ("hubs" :> 4) @@ ("network-performance-qos" :> 6)
    @@ ("synchronization" :> 7)

(* Pages 1 and 3 are in frames and in the TLB, two more are in frames.      *)
MCPageFrames == <<1, NoFrame, 2, 3, NoFrame, NoFrame, 4>>
MCFreeFrames == <<5, 6>>

(* Keys 1 to 6 share the low bits of their hash, 7 and 8 do not.            *)
MCSpreadHash == <<1, 5, 9, 1, 13, 3, 6, 4>>
MCMapSeeds == <<1, 7>>
MCDemoKeys == <<2, 3, 4, 5>>

MCServerNames == <<"A", "B", "C", "D", "E">>
Row(one, three) == (1 :> <<one>>) @@ (3 :> <<three, three + 1, three + 2>>)
MCHashToAngle == [A |-> Row(23, 241), B |-> Row(24, 152), C |-> Row(25, 63),
                  D |-> Row(26, 334), E |-> Row(27, 245)]

MCPrefilled == <<10, 20, 5, 15, 25, 30>>
MCDemoInserts == <<10, 20, 5, 15, 25, 30, 35, 40, 50>>

MCBitInputs == {<<0, 0, 1, 1>>, <<1, 1, 0, 1, 0>>}

Queue(head, requests) == [head |-> head, requests |-> requests]
MCDiskQueues == <<Queue(50, <<95, 180, 34, 119, 11, 123, 62, 64>>), Queue(50, <<50, 50, 10>>), Queue(0, <<>>),
                  Queue(250, <<-3, 199, 0>>)>>

Card(options, kind, value) == [options |-> options, answer |-> <<kind, value>>]
MCQuizData == <<Card(<<"page", "A", "frame">>, "number", 2), Card(<<"page", "frame">>, "text", "B"),
                Card(<<"B", "frame">>, "text", "frame"), Card(<<>>, "text", "page")>>

(* Requests for the four endpoints: every small one, and those the service  *)
(* refuses.                                                                 *)
Triples(S) == S \X S \X S
Named(ps) == [i \in 1..3 |-> [id |-> i, arrival |-> ps[i][1], burst |-> ps[i][2], priority |-> ps[i][3]]]

(* Arrival 3 leaves the processor idle after a short first burst; a burst   *)
(* of 3 can be preempted with more left than the newcomer has.              *)
Flat == {0, 1, 3} \X (1..3) \X {1}
Ranked == {0, 1, 3} \X (1..2) \X (1..2)
Twins == {<<[id |-> 1, arrival |-> 0, burst |-> 2, priority |-> 1],
            [id |-> 1, arrival |-> 1, burst |-> 1, priority |-> 1]>>}
MCRequests ==
    [algo : {"FCFS", "SJF", "SRTF"}, quantum : {1}, procs : {Named(p) : p \in Triples(Flat)}]
    \cup [algo : {"RR"}, quantum : 1..2, procs : {Named(p) : p \in Triples(Flat)}]
    \cup [algo : {"PRIORITY"}, quantum : {1}, procs : {Named(p) : p \in Triples(Ranked)}]
    \cup [algo : {"SJF", "RR"}, quantum : {1}, procs : Twins]

(* Streams up to renaming of pages: each new page is the next number.       *)
Streams(n) == {s \in [1..n -> 0..3] :
                 \A i \in 1..n : s[i] > 0 => \E j \in 1..i - 1 : s[j] = s[i] - 1}
MCPageRequests ==
    [stream : Streams(6), frames : 1..3, algo : {"FIFO", "LRU", "OPTIMAL"}]
    \cup [stream : {<<7, 0, 1, 2, 0, 3, 0, 4, 2, 3, 0, 3, 2>>}, frames : 3..4, algo : {"FIFO", "LRU", "OPTIMAL"}]

(* The matrices on the page, from an instance that refers to no requests.  *)
OnPage == INSTANCE BankersSafety WITH BankRequests <- {}, MaxWord <- 0, bank <- page

Holds == {<<0, 0>>, <<0, 1>>, <<1, 0>>, <<1, 1>>}
Needs == {<<0, 0>>, <<1, 0>>, <<0, 2>>, <<2, 1>>}
Sum2(a, b) == <<a[1] + b[1], a[2] + b[2]>>
MCBankRequests ==
    {[allocation |-> [i \in 1..3 |-> rows[i][1]],
      max |-> [i \in 1..3 |-> Sum2(rows[i][1], rows[i][2])], available |-> free] :
        rows \in Triples(Holds \X Needs), free \in {<<0, 0>>, <<1, 0>>, <<0, 1>>}}
    \cup {[allocation |-> <<<<8>>, <<7>>>>, max |-> <<<<8>>, <<15>>>>, available |-> <<n>>] : n \in {-1, 0, 7}}
    \cup {[allocation |-> OnPage!PageAllocation, max |-> OnPage!PageMax, available |-> <<a, b, c>>] :
            a \in {-1, 0, 3}, b \in {0, 3}, c \in {0, 2}}

Octet(n) == [form |-> "digits", value |-> n]
Odd == {[form |-> "plus", value |-> 1], [form |-> "minus", value |-> 0], [form |-> "minus", value |-> 1],
        [form |-> "empty", value |-> 0], [form |-> "other", value |-> 0], Octet(4)}
MCSubnetRequests ==
    [parts : [1..4 -> {Octet(n) : n \in 0..3}], cidr : 0..8]
    \cup [parts : {<<Octet(1), Octet(0), Octet(3), p>> : p \in Odd}, cidr : {-1, 4, 9}]
    \cup [parts : {<<Octet(1), Octet(2), Octet(3), Octet(0), p>> : p \in Odd}, cidr : {5}]
================================================================================
