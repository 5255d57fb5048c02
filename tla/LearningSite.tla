----------------------------- MODULE LearningSite ----------------------------
(* The reader's side of the site outside of the visualizers: what the       *)
(* browser keeps of a reader's work, and the pages that fetch.  A behaviour *)
(* is a visit of one of them.                                               *)
EXTENDS Integers, Sequences, FiniteSets, TLC

CONSTANTS
  Tabs, Questions, Texts, Headings, Flags, MaxAttempts, MaxClock, MaxFailures, ChangesAlone, ChangesShared,
  Bank,      \* the server's questions, by scope, in the order it pages them
  PageSize,
  Trimmed,   \* what remains of a query without the blanks around it
  Categories, OddCategory, All, MaxGestures, None

VARIABLES part, page, gestures
vars == <<part, page, gestures>>

Queries == DOMAIN Trimmed

Learning == INSTANCE LearningState
Fetched == INSTANCE FetchedPages

(* The server pages through distinct questions; trimming a query gives a    *)
(* query; and nothing that is asked for or shown is None.                  *)
ASSUME SiteAssumption ==
  /\ PageSize \in Nat \ {0} /\ MaxAttempts \in Nat
  /\ \A scope \in DOMAIN Bank :
        /\ Bank[scope] \in Seq(Fetched!Items)
        /\ \A i, j \in DOMAIN Bank[scope] : Bank[scope][i] = Bank[scope][j] => i = j
  /\ \A query \in Queries : Trimmed[query] \in Queries
  /\ None \notin DOMAIN Bank \cup Fetched!Items
  /\ None \notin Fetched!Params
  /\ None \notin Fetched!Decks
  /\ None \notin Fetched!Requests

(* A small site: three questions, two of them easy, none hard; queries with *)
(* and without blanks around them.                                         *)
SmallBank == ("all" :> <<"q1", "q2", "q3">>) @@ ("easy" :> <<"q3", "q2">>) @@ ("hard" :> <<>>)
SmallTrimmed == ("" :> "") @@ (" " :> "") @@ ("a" :> "a") @@ ("a " :> "a") @@ ("b" :> "b")

Init == /\ gestures = 0
        /\ \/ part = "learning" /\ Learning!Init
           \/ part = "interview" /\ Fetched!InterviewInit
           \/ part = "search" /\ Fetched!SearchInit

Reads == /\ UNCHANGED part
         /\ \/ part = "learning" /\ (Learning!Reader \/ Learning!Tick) /\ UNCHANGED gestures
            \/ part = "interview" /\ Fetched!InterviewReader
            \/ part = "search" /\ Fetched!SearchReader

Answers == /\ UNCHANGED part
           /\ \/ part = "learning" /\ Learning!Browser /\ UNCHANGED gestures
              \/ part = "interview" /\ Fetched!InterviewBrowser
              \/ part = "search" /\ Fetched!SearchBrowser

Next == Reads \/ Answers

(* Writes end, events are delivered, what is rendered has its effects, a   *)
(* delay ends and a request is answered or fails.                          *)
Spec == Init /\ [][Next]_vars /\ WF_vars(Answers)

(* ------------------------------ properties ----------------------------- *)

(* What is on display is what is kept or what was fetched: a tab and the   *)
(* store, a deck and its scope, search results and their query; and who    *)
(* is told to wait has something to wait for.                              *)
DisplayIsTrue == CASE part = "learning" -> Learning!ShowsWhatIsKept
                   [] part = "interview" -> Fetched!DeckIsWhole
                   [] OTHER -> Fetched!ResultsMatch

(* What a tab computes has every draft, attempt and flag that it read, but  *)
(* for the one being changed and the oldest of enough attempts, and all of  *)
(* an imported backup; and when it is written, the tab reads just that,     *)
(* unless another tab's change is on its way.  (A write that one has        *)
(* crossed overwrites it, learningState.js:46-50, and a storage event drops *)
(* what a failed write left in memory, :91: such drafts are lost.)  A deck  *)
(* keeps its reader's place.                                                *)
WorkIsKept == [][CASE part = "learning" -> Learning!KeepsWork
                   [] part = "interview" -> Fetched!KeepsPlace
                   [] OTHER -> TRUE]_vars

(* Once the reader asks no more, a fetching page stops waiting.            *)
PagesSettle == <>[](CASE part = "interview" -> Fetched!InterviewSettled
                      [] part = "search" -> Fetched!SearchSettled
                      [] OTHER -> TRUE)
==============================================================================
