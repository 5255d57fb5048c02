----------------------------- MODULE ActivityFeed -----------------------------
(***************************************************************************)
(* What the outbox and the inbox promise together: an activity feed whose  *)
(* totals take in, once per id, events that a producer has posted before.  *)
(* Nothing is retracted.                                                   *)
(***************************************************************************)
EXTENDS Naturals

CONSTANTS Events, Tickets

VARIABLES posted, applied, total

vars == <<posted, applied, total>>

Init == posted = {} /\ applied = {} /\ total = [t \in Tickets |-> 0]

Post(e) ==
  /\ posted' = posted \cup {e}
  /\ UNCHANGED <<applied, total>>

Apply(e) ==
  /\ e \in posted
  /\ \A f \in applied : f.id # e.id
  /\ applied' = applied \cup {e}
  /\ total' = [total EXCEPT ![e.ticket] = @ + e.delta]
  /\ UNCHANGED posted

Next == \E e \in Events : Post(e) \/ Apply(e)

Spec == Init /\ [][Next]_vars
=============================================================================
