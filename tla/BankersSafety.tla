---------------------------- MODULE BankersSafety ----------------------------
(***************************************************************************)
(* The banker's safety check of one request, a pass over the processes a   *)
(* step.  The service refuses malformed requests and adds with Java's      *)
(* int; the browser's copy checks nothing and adds exactly.                *)
(***************************************************************************)
EXTENDS Integers, Sequences, FiniteSets, SequencesExt, FiniteSetsExt

CONSTANTS BankRequests,   \* the matrices the page can hold
          MaxWord         \* Integer.MAX_VALUE

VARIABLE bank

Processes(r) == 1..Len(r.allocation)
Resources(r) == 1..Len(r.available)
Need(r, i) == [k \in Resources(r) |-> r.max[i][k] - r.allocation[i][k]]

ValidBank(r) ==
    \A k \in Resources(r) : /\ r.available[k] >= 0
                            /\ \A i \in Processes(r) : r.allocation[i][k] \in 0..r.max[i][k]

(* The page's matrices never change; its form edits what is available.     *)
PageAllocation == <<<<0, 1, 0>>, <<2, 0, 0>>, <<3, 0, 2>>, <<2, 1, 1>>, <<0, 0, 2>>>>
PageMax == <<<<7, 5, 3>>, <<3, 2, 2>>, <<9, 0, 2>>, <<2, 2, 2>>, <<4, 3, 3>>>>
OnThePage(r) == r.allocation = PageAllocation /\ r.max = PageMax

Fresh(r) == [req |-> r, by |-> "nobody", work |-> r.available, finish |-> {},
             sequence |-> <<>>, over |-> FALSE]
Starts == {Fresh(r) : r \in BankRequests}
Init == bank \in Starts

Wrap(n) == IF n > MaxWord THEN n - 2 * (MaxWord + 1) ELSE n
Fits(b, i) == i \notin b.finish /\ \A k \in Resources(b.req) : Need(b.req, i)[k] <= b.work[k]

(* One process of the pass: what it holds comes back if its need is met.   *)
Checked(b, i) ==
    IF ~Fits(b, i) THEN b
    ELSE [b EXCEPT !.work = [k \in Resources(b.req) |->
                                LET sum == b.work[k] + b.req.allocation[i][k]
                                IN IF b.by = "service" THEN Wrap(sum) ELSE sum],
                   !.finish = @ \cup {i}, !.sequence = Append(@, i)]

Passed(b) ==
    LET after == FoldLeft(Checked, b, [i \in Processes(b.req) |-> i])
    IN [after EXCEPT !.over = after.finish \in {b.finish, Processes(b.req)}]

Serve == bank.by = "nobody" /\ ValidBank(bank.req) /\ bank' = [bank EXCEPT !.by = "service"]
FallBack == bank.by = "nobody" /\ OnThePage(bank.req) /\ bank' = [bank EXCEPT !.by = "browser"]
Pass == bank.by = "service" /\ ~bank.over /\ bank' = Passed(bank)
PassInBrowser == bank.by = "browser" /\ ~bank.over /\ bank' = Passed(bank)

Next == Serve \/ FallBack \/ Pass \/ PassInBrowser
Spec == Init /\ [][Next]_bank

(* ------------------------------ properties ----------------------------- *)

IsSafe(b) == b.finish = Processes(b.req)

(* What is free once the processes of S have returned what they hold.      *)
Free(r, S) == [k \in Resources(r) |-> r.available[k] + MapThenSumSet(LAMBDA i : r.allocation[i][k], S)]
Allows(r, order) ==
    \A n \in 1..Len(order) : \A k \in Resources(r) :
        Need(r, order[n])[k] <= Free(r, {order[m] : m \in 1..n - 1})[k]
CompletionOrders(r) == SetToSeqs(Processes(r))
Representable(r) == \A k \in Resources(r) : Free(r, Processes(r))[k] <= MaxWord

(* The verdict is "safe" exactly when some order lets every process finish *)
(* (the greedy pass misses none), the reported sequence is such an order,  *)
(* and the work vector is what the finished ones gave back.                *)
VerdictsAreSound ==
    (ValidBank(bank.req) /\ (bank.by = "browser" \/ Representable(bank.req))) =>
        /\ Allows(bank.req, bank.sequence)
        /\ ToSet(bank.sequence) = bank.finish /\ Len(bank.sequence) = Cardinality(bank.finish)
        /\ bank.work = Free(bank.req, bank.finish)
        /\ bank.over => (IsSafe(bank) <=> \E order \in CompletionOrders(bank.req) : Allows(bank.req, order))
==============================================================================
