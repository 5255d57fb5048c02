------------------------------ MODULE FreshReads ------------------------------
(***************************************************************************)
(* What a reader of tickets is promised, however the ticket reaches it: a  *)
(* ticket is answered as it was at some moment between the question and    *)
(* the answer, or not at all.  Versions stand for the ticket's contents.   *)
(***************************************************************************)
EXTENDS Integers

CONSTANTS Readers, MaxVersion, None, Failed

VARIABLES
  version,    \* of the ticket at its source; 0 before it is created
  floor,      \* reader -> the version when it asked, or None
  answer      \* reader -> a version, Failed, or None as long as it waits

vars == <<version, floor, answer>>

Init ==
  /\ version = 0
  /\ floor = [r \in Readers |-> None]
  /\ answer = [r \in Readers |-> None]

Change ==
  /\ version < MaxVersion
  /\ version' = version + 1
  /\ UNCHANGED <<floor, answer>>

Ask(r) ==
  /\ floor[r] = None /\ answer[r] = None
  /\ floor' = [floor EXCEPT ![r] = version]
  /\ UNCHANGED <<version, answer>>

Answer(r) ==
  /\ floor[r] # None /\ answer[r] = None
  /\ \E v \in floor[r]..version : answer' = [answer EXCEPT ![r] = v]
  /\ UNCHANGED <<version, floor>>

Refuse(r) ==
  /\ answer[r] = None
  /\ answer' = [answer EXCEPT ![r] = Failed]
  /\ UNCHANGED <<version, floor>>

Next == Change \/ \E r \in Readers : Ask(r) \/ Answer(r) \/ Refuse(r)

Spec == Init /\ [][Next]_vars
=============================================================================
