--------------------------- MODULE CongestionWindow ---------------------------
(* The TCP congestion page: slow start, congestion avoidance and losses of  *)
(* Reno and Tahoe.  A snapshot is taken before the round trip it is of is   *)
(* appended to the history, which the chart is drawn from.                  *)
EXTENDS Integers, Sequences, SequencesExt

CONSTANT InitialSsthresh

VARIABLE page
Player == INSTANCE StepPlayer

Algos == {"Reno", "Tahoe"}
Point(e) == [rtt |-> e.rtt, cwnd |-> e.cwnd, ssthresh |-> e.ssthresh, phase |-> e.phase]
NewWindow(algo) ==
    LET e == [algo |-> algo, cwnd |-> 1, ssthresh |-> InitialSsthresh, rtt |-> 0, phase |-> "SLOW_START",
              history |-> <<>>]
    IN [e EXCEPT !.history = <<Point(e)>>]
Recorded(e) == [e EXCEPT !.history = Append(@, Point(e))]

(* ------------------------------ the engine ----------------------------- *)

NextRtt(e) ==
    IF e.phase # "SLOW_START" THEN [e EXCEPT !.rtt = @ + 1, !.cwnd = @ + 1]
    ELSE [e EXCEPT !.rtt = @ + 1, !.cwnd = 2 * @,
                   !.phase = IF 2 * e.cwnd >= e.ssthresh THEN "CONGESTION_AVOIDANCE" ELSE @]

Halved(e) == IF e.cwnd \div 2 > 2 THEN e.cwnd \div 2 ELSE 2

TriggerLoss(e) ==
    LET lost == [e EXCEPT !.rtt = @ + 1, !.ssthresh = Halved(e)]
    IN IF e.algo = "Tahoe" THEN [lost EXCEPT !.cwnd = 1, !.phase = "SLOW_START"]
       ELSE [lost EXCEPT !.cwnd = Halved(e), !.phase = "CONGESTION_AVOIDANCE"]

(* ------------------------------- the page ------------------------------ *)

Plays(e) == page' = Player!Played(Recorded(e), <<e>>)

Init == \E still \in BOOLEAN :
            LET e == NextRtt(NewWindow("Reno")) IN page = Player!Opened(Recorded(e), <<e>>, still)

HandleAlgoChange == \E algo \in Algos :
    page' = [Player!Played(NewWindow(algo), <<NewWindow(algo)>>) EXCEPT !.playing = FALSE]

HandleNextRtt == Plays(NextRtt(page.engine))
HandlePacketLoss == Plays(TriggerLoss(page.engine))

Timer == Player!Tick
ControlBar == Player!Bar

Gesture == \/ page.visible /\ (HandleAlgoChange \/ HandleNextRtt \/ HandlePacketLoss)
           \/ ControlBar \/ Player!Tabs

(* What the chart spans: it is never narrower than twelve round trips or   *)
(* lower than 32 segments.                                                 *)
Chart(s) == [rtts |-> IF Len(s.history) > 12 THEN Len(s.history) ELSE 12,
             points |-> [i \in DOMAIN s.history |-> s.history[i].rtt]]

(* ------------------------------ properties ----------------------------- *)

(* Slow start is below the threshold and congestion avoidance never is;    *)
(* the history has one point for each round trip, in which the window      *)
(* grows by a segment or doubles, or a loss set the threshold to half of   *)
(* what it was, at least two.                                              *)
WindowIsSound(e) ==
    /\ e.cwnd >= 1 /\ e.ssthresh >= 2
    /\ e.phase = "SLOW_START" <=> e.cwnd < e.ssthresh
    /\ \A i \in DOMAIN e.history :
          LET now == e.history[i] IN
          /\ now.rtt = i - 1
          /\ i > 1 => LET was == e.history[i - 1] IN
                \/ /\ now.ssthresh = was.ssthresh
                   /\ now.cwnd > was.cwnd /\ now.cwnd <= 2 * was.cwnd
                   /\ was.cwnd >= was.ssthresh => now.cwnd = was.cwnd + 1
                \/ /\ now.ssthresh = 2 \/ 2 * now.ssthresh \in {was.cwnd, was.cwnd - 1}
                   /\ now.cwnd = IF e.algo = "Tahoe" THEN 1 ELSE now.ssthresh
                   /\ now.cwnd <= was.cwnd \/ now.cwnd = 2

EngineIsSound == WindowIsSound(page.engine)

(* The chart fits, and lags what is said beside it by the one round trip   *)
(* at most that was not in the history yet.                                *)
ShownIsSound == LET s == Player!Shown IN
                /\ WindowIsSound(s)
                /\ \A i \in DOMAIN Chart(s).points : Chart(s).points[i] <= Chart(s).rtts
                /\ Len(s.history) \in {s.rtt, s.rtt + 1}
==============================================================================
