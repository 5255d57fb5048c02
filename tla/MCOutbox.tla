------------------------------- MODULE MCOutbox -------------------------------
(* Instances of Outbox for TLC: two events of one ticket, and an event with  *)
(* another delta that a second producer publishes under the first one's id.  *)
EXTENDS Outbox

first  == [id |-> 1, ticket |-> "t1", delta |-> 1]
second == [id |-> 2, ticket |-> "t1", delta |-> 2]
reused == [id |-> 1, ticket |-> "t1", delta |-> 4]

MCEvents  == {first, second, reused}
MCForeign == {reused}
NoneSent  == [id |-> 0, ticket |-> "none", delta |-> 0]
=============================================================================
