--------------------------- MODULE BreakerEpisodes ---------------------------
(***************************************************************************)
(* What a circuit breaker promises, without generation numbers.  A breaker *)
(* lives through episodes: closed, open, half open.  Only a caller that    *)
(* was admitted in the present episode has a vote in it; a half-open       *)
(* episode has exactly one voter; whatever earlier callers report counts   *)
(* for nothing.                                                            *)
(***************************************************************************)
EXTENDS Naturals

CONSTANTS Callers, Threshold, Cooldown

VARIABLES mode, voters, streak, openedAt, now

vars == <<mode, voters, streak, openedAt, now>>

Init == mode = "CLOSED" /\ voters = {} /\ streak = 0 /\ openedAt = 0 /\ now = 0

Admit(c) ==
  /\ mode = "CLOSED"
  /\ voters' = voters \cup {c}
  /\ UNCHANGED <<mode, streak, openedAt, now>>

Probe(c) ==
  /\ mode = "OPEN"
  /\ now >= openedAt + Cooldown
  /\ mode' = "HALF_OPEN"
  /\ voters' = {c}
  /\ UNCHANGED <<streak, openedAt, now>>

NewEpisode(m) == mode' = m /\ voters' = {} /\ streak' = 0

Open  == NewEpisode("OPEN") /\ openedAt' = now
Close == NewEpisode("CLOSED") /\ UNCHANGED openedAt
Leave(c, count) == voters' = voters \ {c} /\ streak' = count /\ UNCHANGED <<mode, openedAt>>

Vote(c) ==
  /\ c \in voters
  /\ \/ mode = "HALF_OPEN" /\ (Open \/ Close)
     \/ mode = "CLOSED" /\ \E count \in {0, streak} : Leave(c, count)
     \/ mode = "CLOSED" /\ streak + 1 < Threshold /\ Leave(c, streak + 1)
     \/ mode = "CLOSED" /\ streak + 1 >= Threshold /\ Open
  /\ UNCHANGED now

Tick == now' = now + 1 /\ UNCHANGED <<mode, voters, streak, openedAt>>

Next == Tick \/ \E c \in Callers : Admit(c) \/ Probe(c) \/ Vote(c)

Spec == Init /\ [][Next]_vars
=============================================================================
