---------------------------- MODULE StreamingOllama ----------------------------
(***************************************************************************)
(* examples/ai-backend: StreamingOllamaClient.  Over one handle meet the   *)
(* thread that starts it, the transport's, the timer's, a caller who       *)
(* cancels and the thread that closes the client.  Whoever sets the result *)
(* first cleans up, and reads fields that the others assign before they    *)
(* look for a result.  The clean-up is a course of its own here: the       *)
(* thread that is at it may go on besides, which allows more than it does. *)
(*                                                                         *)
(* A handle's lock makes an action; so does each access to a field that is *)
(* volatile, atomic or concurrent.  What a frame says is only what becomes *)
(* of the stream; kinds of failures, counts, times and metadata other than *)
(* whether it has come are left out.                                       *)
(***************************************************************************)
EXTENDS Integers, FiniteSets

CONSTANTS
  Handles,                                  \* bound: the calls of start, numbers
  ConcurrentCalls, CallLimit, ContentLimit  \* positive

VARIABLES
  stream,    \* handle -> what its threads have made of it
  client     \* admission, calls, active; the timer's tasks; how far close is, and what it
             \* has still to visit

NoResult == [status |-> "none"]
NothingSeen == [content |-> 0, usage |-> FALSE]

NewHandle ==
  [caller |-> "new",       \* how far start is
   result |-> NoResult,    \* terminal
   ending |-> "no",        \* how far finish is, for the one who set the result
   admitted |-> FALSE, requested |-> FALSE, answered |-> FALSE,
   seen |-> NothingSeen,   \* what snapshots show
   wire |-> "none",        \* the exchange that sendAsync began
   sub |-> "none",         \* its subscription
   reader |-> "none",      \* how far the subscriber is
   outcome |-> "none"]     \* the End its last frame came to

Init ==
  /\ stream = [h \in Handles |-> NewHandle]
  /\ client = [stage |-> "open", left |-> {}, permits |-> ConcurrentCalls, calls |-> 0,
               active |-> {}, timers |-> {}]

vars == <<stream, client>>

Step(h, s) == stream' = [stream EXCEPT ![h] = s]
At(h, stage) == stream[h].caller = stage
Over(h) == stream[h].result # NoResult

-----------------------------------------------------------------------------
(* finish                                                                  *)

Finished(s, status) ==
  IF s.result # NoResult THEN s
  ELSE [s EXCEPT !.result = [status |-> status, seen |-> s.seen], !.ending = "timer"]

CancelTimer(h) ==
  /\ stream[h].ending = "timer"
  /\ client' = [client EXCEPT !.timers = @ \ {h}]
  /\ Step(h, [stream[h] EXCEPT !.ending = "body"])

CancelBody(h) ==
  /\ stream[h].ending = "body"
  /\ Step(h, [stream[h] EXCEPT !.ending = "wire", !.sub = IF @ = "open" THEN "cancelled" ELSE @])
  /\ UNCHANGED client

\* handle.transport is assigned a step after the exchange has begun.
Assigned(h) == At(h, "assigned") \/ At(h, "returned")
Cut(s) == [s EXCEPT !.wire = IF @ = "open" THEN "cancelled" ELSE @]

CancelWire(h) ==
  /\ stream[h].ending = "wire"
  /\ Step(h, [(IF Assigned(h) THEN Cut(stream[h]) ELSE stream[h]) EXCEPT !.ending = "place"])
  /\ UNCHANGED client

LeavePlace(h) ==
  /\ stream[h].ending = "place"
  /\ client' = [client EXCEPT !.active = @ \ {h},
                              !.permits = IF stream[h].admitted THEN @ + 1 ELSE @]
  /\ Step(h, [stream[h] EXCEPT !.ending = "answer", !.admitted = FALSE])

Answer(h) ==
  /\ stream[h].ending = "answer"
  /\ Step(h, [stream[h] EXCEPT !.ending = "done", !.answered = TRUE])
  /\ UNCHANGED client

Finish(h) == CancelTimer(h) \/ CancelBody(h) \/ CancelWire(h) \/ LeavePlace(h) \/ Answer(h)

-----------------------------------------------------------------------------
(* start                                                                   *)

Closed == client.stage # "open"
Refused(s) == [Finished(s, "failed") EXCEPT !.caller = "returned"]
Reaches(h, stage) == Step(h, [stream[h] EXCEPT !.caller = stage])

\* Handles are numbered as their calls begin.
Enter(h) ==
  /\ At(h, "new") /\ \A k \in Handles : At(k, "new") => h <= k
  /\ IF Closed THEN Step(h, Refused(stream[h])) ELSE Reaches(h, "entered")
  /\ UNCHANGED client

Acquire(h) ==
  /\ At(h, "entered")
  /\ IF client.permits = 0 THEN Step(h, Refused(stream[h])) /\ UNCHANGED client
     ELSE /\ client' = [client EXCEPT !.permits = @ - 1]
          /\ Step(h, [stream[h] EXCEPT !.caller = "acquired", !.admitted = TRUE])

Add(h) ==
  /\ At(h, "acquired")
  /\ client' = [client EXCEPT !.active = @ \cup {h}]
  /\ Reaches(h, "added")

NotAgain == FALSE                  \* slip: closed is not looked at a second time
ClosedMeanwhile == Closed

Recheck(h) ==
  /\ At(h, "added")
  /\ IF ClosedMeanwhile THEN Step(h, Refused(stream[h])) ELSE Reaches(h, "checked")
  /\ UNCHANGED client

Spend(h) ==
  /\ At(h, "checked")
  /\ IF client.calls >= CallLimit THEN Step(h, Refused(stream[h])) /\ UNCHANGED client
     ELSE /\ client' = [client EXCEPT !.calls = @ + 1]
          /\ Reaches(h, "spent")

\* The field is assigned with the task: who reads it too early leaves a task that will
\* find a result, or no timer to run it.
Schedule(h) ==
  /\ At(h, "spent")
  /\ IF client.stage = "shut" THEN Step(h, Refused(stream[h])) /\ UNCHANGED client
     ELSE /\ client' = [client EXCEPT !.timers = @ \cup {h}]
          /\ Reaches(h, "scheduled")

Request(h) ==
  /\ At(h, "scheduled")
  /\ Step(h, IF Over(h) THEN [stream[h] EXCEPT !.caller = "returned"]
             ELSE [stream[h] EXCEPT !.caller = "requested", !.requested = TRUE])
  /\ UNCHANGED client

Send(h) ==
  /\ At(h, "requested")
  /\ \/ Step(h, [stream[h] EXCEPT !.caller = "sent", !.wire = "open"])
     \/ Step(h, Refused(stream[h]))
  /\ UNCHANGED client

Assign(h) == At(h, "sent") /\ Reaches(h, "assigned") /\ UNCHANGED client

\* With whenComplete: from here on a failure of the exchange is reported.
Return(h) ==
  /\ At(h, "assigned")
  /\ Step(h, [(IF Over(h) THEN Cut(stream[h]) ELSE stream[h]) EXCEPT !.caller = "returned"])
  /\ UNCHANGED client

Start(h) == \/ Enter(h) \/ Acquire(h) \/ Add(h) \/ Recheck(h) \/ Spend(h)
            \/ Schedule(h) \/ Request(h) \/ Send(h) \/ Assign(h) \/ Return(h)

-----------------------------------------------------------------------------
(* The exchange and its subscriber.                                        *)

\* The connection fails, or nothing comes in time.
WireFails(h) ==
  /\ stream[h].wire = "open" /\ stream[h].reader = "none"
  /\ Step(h, [stream[h] EXCEPT !.wire = "failed"])
  /\ UNCHANGED client

Reported(h) ==
  /\ stream[h].wire = "failed" /\ At(h, "returned") /\ ~Over(h)
  /\ \E status \in {"incomplete", "failed"} : Step(h, Finished(stream[h], status))
  /\ UNCHANGED client

\* Headers may be in when the exchange is cancelled.
OnSubscribe(h) ==
  /\ stream[h].wire \in {"open", "cancelled"} /\ stream[h].reader = "none"
  /\ Step(h, [stream[h] EXCEPT !.sub = "open", !.reader = "subscribed"])
  /\ UNCHANGED client

Subscribed(h) ==
  /\ stream[h].reader = "subscribed"
  /\ IF Over(h) THEN Step(h, [stream[h] EXCEPT !.sub = "cancelled", !.reader = "over"])
     ELSE \/ Step(h, [stream[h] EXCEPT !.reader = "reading"])
          \/ Step(h, [Finished(stream[h], "failed") EXCEPT !.reader = "over"])  \* status, media type
  /\ UNCHANGED client

\* What a frame may come to: more content or none, the final frame and its reason, metadata
\* that is malformed, content beyond the limit, or nothing that is a frame.
More(seen) == {[seen EXCEPT !.content = n] : n \in seen.content..ContentLimit}
Final(seen) ==
  {[seen |-> [seen EXCEPT !.usage = TRUE], outcome |-> o] :
     o \in {"refused", "incomplete", "failed"} \cup IF seen.content > 0 THEN {"complete"} ELSE {}}
Frame(seen) ==
  {[seen |-> seen, outcome |-> "failed"]}
  \cup {[seen |-> more, outcome |-> o] : more \in More(seen), o \in {"none", "failed"}}
  \cup UNION {Final(more) : more \in More(seen)}

Ends(s, f) == [s EXCEPT !.seen = f.seen, !.outcome = f.outcome, !.reader = "ending"]
Reads(s, f) == IF f.outcome = "none" THEN [s EXCEPT !.seen = f.seen] ELSE Ends(s, f)

OnNext(h) ==
  /\ stream[h].reader = "reading"
  /\ IF Over(h) THEN Step(h, [stream[h] EXCEPT !.reader = "over"])
     ELSE \E f \in Frame(stream[h].seen) : Step(h, Reads(stream[h], f))
  /\ UNCHANGED client

\* The rest of a line counts as a frame; a stream without a final one is incomplete.
Last(seen) == {[seen |-> seen, outcome |-> "none"]} \cup Frame(seen)
OrIncomplete(f) == IF f.outcome = "none" THEN [f EXCEPT !.outcome = "incomplete"] ELSE f

OnComplete(h) ==
  /\ stream[h].reader = "reading"
  /\ LET s == [stream[h] EXCEPT !.wire = IF @ = "open" THEN "done" ELSE @] IN
       IF Over(h) THEN Step(h, [s EXCEPT !.reader = "over"])
       ELSE \E f \in Last(s.seen) : Step(h, Ends(s, OrIncomplete(f)))
  /\ UNCHANGED client

OnError(h) ==
  /\ stream[h].reader = "reading"
  /\ Step(h, [Finished(stream[h], "failed") EXCEPT !.reader = "over", !.wire = "failed"])
  /\ UNCHANGED client

\* end comes after the lock has been left: another may be faster.
End(h) ==
  /\ stream[h].reader = "ending"
  /\ Step(h, [Finished(stream[h], stream[h].outcome) EXCEPT !.reader = "over"])
  /\ UNCHANGED client

Transport(h) == \/ WireFails(h) \/ Reported(h) \/ OnSubscribe(h) \/ Subscribed(h)
                \/ OnNext(h) \/ OnComplete(h) \/ OnError(h) \/ End(h)

-----------------------------------------------------------------------------
(* The timer, the caller and close.                                        *)

DeadlineFires(h) ==
  /\ h \in client.timers
  /\ client' = [client EXCEPT !.timers = @ \ {h}]
  /\ Step(h, Finished(stream[h], "incomplete"))

Cancel(h) ==
  /\ At(h, "returned") /\ ~Over(h)
  /\ Step(h, Finished(stream[h], "cancelled"))
  /\ UNCHANGED client

SetClosed ==
  /\ client.stage = "open"
  /\ client' = [client EXCEPT !.stage = "closed"]
  /\ UNCHANGED stream

\* The iterator visits all it found, and perhaps what has been added since.
Iterate ==
  /\ client.stage = "closed"
  /\ client' = [client EXCEPT !.stage = "cancelling", !.left = client.active]
  /\ UNCHANGED stream

CancelNext(h) ==
  /\ client.stage = "cancelling" /\ h \in client.left \cup client.active
  /\ h \in client.left \/ ~Over(h)
  /\ client' = [client EXCEPT !.left = @ \ {h}]
  /\ Step(h, Finished(stream[h], "cancelled"))

Shutdown ==
  /\ client.stage = "cancelling" /\ client.left = {}
  /\ client' = [client EXCEPT !.stage = "shut", !.timers = {}]
  /\ UNCHANGED stream

Closes == Iterate \/ (\E h \in Handles : CancelNext(h)) \/ Shutdown

-----------------------------------------------------------------------------

Next ==
  \/ \E h \in Handles : \/ Start(h) \/ Finish(h) \/ Transport(h)
                        \/ DeadlineFires(h) \/ Cancel(h)
  \/ SetClosed \/ Closes

\* The threads of start, finish and close run on and the timer runs; the provider owes
\* nothing, and nobody need call.
Running(h) == (~At(h, "new") /\ Start(h)) \/ Finish(h)

Fairness ==
  /\ WF_vars(Closes)
  /\ \A h \in Handles : WF_vars(Running(h)) /\ WF_vars(DeadlineFires(h))

-----------------------------------------------------------------------------
(* Properties.                                                             *)

TypeOK ==
  /\ stream \in [Handles ->
       [caller : {"new", "entered", "acquired", "added", "checked", "spent", "scheduled",
                  "requested", "sent", "assigned", "returned"},
        result : {NoResult} \cup [status : {"complete", "refused", "incomplete", "failed", "cancelled"},
                                  seen : [content : 0..ContentLimit, usage : BOOLEAN]],
        ending : {"no", "timer", "body", "wire", "place", "answer", "done"},
        admitted : BOOLEAN, requested : BOOLEAN, answered : BOOLEAN,
        seen : [content : 0..ContentLimit, usage : BOOLEAN],
        wire : {"none", "open", "failed", "cancelled", "done"}, sub : {"none", "open", "cancelled"},
        reader : {"none", "subscribed", "reading", "ending", "over"},
        outcome : {"none", "complete", "refused", "incomplete", "failed"}]]
  /\ client.stage \in {"open", "closed", "cancelling", "shut"}
  /\ client.active \cup client.timers \cup client.left \subseteq Handles
  /\ client.permits \in 0..ConcurrentCalls /\ client.calls \in 0..CallLimit

Admitted == {h \in Handles : stream[h].admitted}

\* Places and the call budget are neither lost nor exceeded, and who has an answer has no
\* place any more: the next call need not fear to be refused for it.
PlacesAreKept ==
  /\ client.permits + Cardinality(Admitted) = ConcurrentCalls
  /\ Cardinality({h \in Handles : stream[h].requested}) <= client.calls
  /\ \A h \in Handles : stream[h].answered => h \notin Admitted \cup client.active

\* A result is the last word: what snapshots show stays what it says, and it says complete
\* only of a stream whose final frame came.
ResultsAreFinal ==
  \A h \in Handles : Over(h) =>
    /\ stream[h].result.seen = stream[h].seen
    /\ stream[h].result.status = "complete" => stream[h].seen.usage /\ stream[h].seen.content > 0

\* No exchange goes on behind an answer: whichever of start, subscriber and finish comes
\* last to a field cancels it.
NothingRunsOn ==
  \A h \in Handles : (stream[h].answered /\ At(h, "returned")) =>
    /\ stream[h].wire # "open"
    /\ stream[h].sub = "open" => stream[h].reader = "subscribed"

\* Close leaves no handle behind that nobody is going to end.
NoneIsOrphaned ==
  client.stage = "shut" => \A h \in Handles : At(h, "returned") => Over(h)

StreamsAreLawful == TypeOK /\ PlacesAreKept /\ ResultsAreFinal /\ NothingRunsOn /\ NoneIsOrphaned

\* Whoever calls start is answered, also when the provider says nothing and close comes.
AllAnswered == \A h \in Handles : At(h, "new") \/ stream[h].answered
=============================================================================
