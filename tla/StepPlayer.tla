------------------------------ MODULE StepPlayer ------------------------------
(***************************************************************************)
(* What the animated pages have in common: an engine that is already at    *)
(* the end of its last operation, the snapshots of that operation, and a   *)
(* timer and a control bar that move between them.  A page shows the       *)
(* snapshot it stands at, or the engine where there is none; its buttons   *)
(* are those of what it shows, their handlers act on the engine.           *)
(***************************************************************************)
EXTENDS Integers, Sequences

VARIABLE page

(* `still': the reader asked the browser for reduced motion.               *)
Opened(engine, steps, still) ==
    [engine |-> engine, steps |-> steps, at |-> 0, playing |-> FALSE, visible |-> TRUE, still |-> still]

(* An operation ran on the engine: its snapshots are played from the first.*)
Played(engine, steps) ==
    [page EXCEPT !.engine = engine, !.steps = steps, !.at = 0, !.playing = TRUE]

Shown == IF page.at + 1 \in DOMAIN page.steps THEN page.steps[page.at + 1] ELSE page.engine
MaxTime == IF page.steps = <<>> THEN 0 ELSE Len(page.steps) - 1

(* ------------------------------- the timer ------------------------------ *)

Running == page.visible /\ page.playing /\ page.steps # <<>> /\ ~page.still

(* Slip: the last snapshot is shown again and again.                       *)
TickForever == /\ Running
               /\ page' = IF page.at >= Len(page.steps) - 1 THEN [page EXCEPT !.at = 0]
                                                            ELSE [page EXCEPT !.at = @ + 1]

Tick == /\ Running
        /\ page' = IF page.at >= Len(page.steps) - 1 THEN [page EXCEPT !.playing = FALSE]
                                                     ELSE [page EXCEPT !.at = @ + 1]

(* ---------------------------- the control bar --------------------------- *)

TogglePlay == page' = [page EXCEPT !.playing = ~@]

(* Not clamped from below: with no snapshots one stands before the first.  *)
StepForward == /\ ~(page.at >= MaxTime /\ MaxTime > 0)
               /\ page' = [page EXCEPT !.at = IF @ + 1 < Len(page.steps) THEN @ + 1
                                              ELSE Len(page.steps) - 1]

StepBackward == page.at > 0 /\ page' = [page EXCEPT !.at = @ - 1]

Reset == page' = [page EXCEPT !.at = 0, !.playing = FALSE]

Seek == /\ MaxTime > 0
        /\ \E n \in 0..MaxTime : page' = [page EXCEPT !.at = n]

(* The reader opens another tab of the topic, and comes back.              *)
Hide == page.visible /\ page' = [page EXCEPT !.visible = FALSE, !.playing = FALSE]
Show == ~page.visible /\ page' = [page EXCEPT !.visible = TRUE]

Bar == page.visible /\ (TogglePlay \/ StepForward \/ StepBackward \/ Reset \/ Seek)
Tabs == Hide \/ Show

(***************************************************************************)
(* The lessons have less in common: an engine that computes all steps of   *)
(* the chosen exercise at once and an index into them, moved by the        *)
(* control bar.  The bar calls the callbacks it knows by name, so it       *)
(* matters which names a lesson passes it; `passed' holds those.  No       *)
(* lesson passes a way to play or to seek.                                 *)
(***************************************************************************)

LessonOpened(choice, steps, passed) == [choice |-> choice, steps |-> steps, index |-> 1, passed |-> passed]
Chosen(choice, steps) == [page EXCEPT !.choice = choice, !.steps = steps, !.index = 1]

StepData == page.steps[page.index]

NextStep(p) == IF p.index < Len(p.steps) THEN [p EXCEPT !.index = @ + 1] ELSE p
PrevStep(p) == IF p.index > 1 THEN [p EXCEPT !.index = @ - 1] ELSE p
ResetSteps(p) == [p EXCEPT !.index = 1]

(* Without a callback Step does nothing, and there is no Back.             *)
PressStep == page' = IF "onStepForward" \in page.passed THEN NextStep(page) ELSE page
PressBack == "onStepBackward" \in page.passed /\ page' = PrevStep(page)
PressReset == "onReset" \in page.passed /\ page' = ResetSteps(page)

StepBar == PressStep \/ PressBack \/ PressReset

(* ------------------------------ properties ------------------------------ *)

(* A page stands at a snapshot that exists, or has none to stand at; out   *)
(* of sight nothing plays.                                                 *)
StandsAtASnapshot == /\ page.at \in -1..MaxTime
                     /\ page.at = -1 => page.steps = <<>>
                     /\ page.playing => page.visible
==============================================================================
