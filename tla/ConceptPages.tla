---------------------------- MODULE ConceptPages ----------------------------
(***************************************************************************)
(* The AI, Java and database hubs: a row of tabs over walks, sliders and   *)
(* calculators whose state the page keeps while another tab is open.       *)
(* Reals are counted in tenths or hundredths; vectors have whole-number    *)
(* coordinates.                                                            *)
(*                                                                         *)
(* The shell around the larger simulators: three tabs moved by mouse or    *)
(* keys, of which only the selected one is mounted, and the self-check     *)
(* cards behind the third.  A card names its right option by number, by    *)
(* letter or by the option's text, and can be answered once while it is    *)
(* mounted.                                                                *)
(***************************************************************************)
EXTENDS Integers, Sequences, FiniteSets

CONSTANTS Coordinates,  \* what the reader types into a vector
          Drifts,       \* positions of the drift slider, in hundredths
          QuizData,     \* cards: [options, answer]; answer is <<kind, value>>
          Unanswered

VARIABLE page

(* Which tab a lesson opens each hub on.                                   *)
AiMlTab(topic) == CASE topic = "rag-architecture" -> "rag" [] topic = "model-serving" -> "vllm"
                    [] topic = "llm-parameters" -> "sampling" [] topic = "feature-stores" -> "featurestore"
                    [] topic = "recommendation-systems" -> "recsys" [] OTHER -> "embeddings"
JavaTab(topic) == CASE topic = "spring-mvc-lifecycle" -> "mvc" [] topic = "quartz-scheduler" -> "quartz"
                    [] OTHER -> "jvm"
DbmsTab(topic) == CASE topic = "functional-dependencies-keys" -> "closure" [] topic = "database-normalization" -> "normalization"
                    [] topic = "dbms-indexing" -> "btree" [] topic = "concurrency-control" -> "concurrency"
                    [] OTHER -> "relational-algebra"

AiMlTabs == {"embeddings", "rag", "vllm", "sampling", "featurestore", "recsys"}
JavaTabs == {"jvm", "mvc", "quartz"}
DbmsTabs == {"relational-algebra", "closure", "normalization", "btree", "concurrency"}
TabsOf(hub) == CASE hub = "aiml" -> AiMlTabs [] hub = "java" -> JavaTabs [] OTHER -> DbmsTabs

(* Topics as the registry routes them to a hub.                            *)
Routed == {<<"aiml", t>> : t \in {"embeddings-vector-db", "rag-architecture", "model-serving",
                                  "llm-parameters", "feature-stores", "recommendation-systems"}}
          \cup {<<"java", t>> : t \in {"jvm-gc", "spring-mvc-lifecycle", "quartz-scheduler"}}
          \cup {<<"dbms", t>> : t \in {"relational-algebra-calculus", "functional-dependencies-keys",
                                       "database-normalization", "dbms-indexing", "concurrency-control"}}

OpensOn(hub, topic) ==
    CASE hub = "aiml" -> AiMlTab(topic) [] hub = "java" -> JavaTab(topic) [] OTHER -> DbmsTab(topic)

HubInit == \E entry \in Routed :
    page = [hub |-> entry[1], tab |-> OpensOn(entry[1], entry[2]),
            a |-> <<8, 2, 5>>, b |-> <<7, 3, 4>>, rag |-> 0, paged |-> "vllm", drift |-> 28, recsys |-> 0,
            mvc |-> 0, disallow |-> TRUE, misfire |-> "fire_now"]

On(hub, tab) == page.hub = hub /\ page.tab = tab
SelectHubTab == \E tab \in TabsOf(page.hub) : page' = [page EXCEPT !.tab = tab]

(* -------------------------------- AI hub ------------------------------- *)

DotProduct(a, b) == a[1] * b[1] + a[2] * b[2] + a[3] * b[3]
DistanceSquared(a, b) == DotProduct([i \in 1..3 |-> a[i] - b[i]], [i \in 1..3 |-> a[i] - b[i]])

(* Cosine similarity as the dot product and the square of the product of   *)
(* the magnitudes it is divided by; 0 when one of them is 0.               *)
CosineSim(a, b) ==
    LET norms == DotProduct(a, a) * DotProduct(b, b)
    IN IF norms = 0 THEN [dot |-> 0, norms |-> 1] ELSE [dot |-> DotProduct(a, b), norms |-> norms]

TypeCoordinate == On("aiml", "embeddings") /\ \E i \in 1..3, n \in Coordinates :
    page' = [page EXCEPT !.a[i] = n] \/ page' = [page EXCEPT !.b[i] = n]

RagButtons == On("aiml", "rag") /\ (\/ page' = [page EXCEPT !.rag = 0]
                                    \/ page.rag < 4 /\ page' = [page EXCEPT !.rag = @ + 1])
SelectPaging == On("aiml", "vllm") /\ \E mode \in {"traditional", "vllm"} : page' = [page EXCEPT !.paged = mode]
SlideDrift == On("aiml", "featurestore") /\ \E psi \in Drifts : page' = [page EXCEPT !.drift = psi]
SelectRecsys == On("aiml", "recsys") /\ \E step \in 0..2 : page' = [page EXCEPT !.recsys = step]

DriftStatus(psi) == IF psi < 10 THEN "normal" ELSE IF psi < 25 THEN "moderate" ELSE "critical"
DriftAction(psi) == IF psi >= 25 THEN "retrain" ELSE "none"

(* ------------------------------- Java hub ------------------------------ *)

MvcButtons == On("java", "mvc") /\ (\/ page' = [page EXCEPT !.mvc = 0]
                                    \/ page.mvc < 6 /\ page' = [page EXCEPT !.mvc = @ + 1])
QuartzControls == On("java", "quartz") /\ (\/ page' = [page EXCEPT !.disallow = ~@]
                                           \/ \E p \in {"fire_now", "do_nothing"} : page' = [page EXCEPT !.misfire = p])

HubGesture == \/ SelectHubTab \/ TypeCoordinate \/ RagButtons \/ SelectPaging \/ SlideDrift
           \/ SelectRecsys \/ MvcButtons \/ QuartzControls

(* ------------------------------ properties ----------------------------- *)

(* Every topic opens on a tab of its hub, no two topics on the same one,   *)
(* and every tab is some topic's.                                          *)
TopicsHaveTheirTabs ==
    LET opened == {<<r[1], OpensOn(r[1], r[2])>> : r \in Routed}
    IN /\ Cardinality(opened) = Cardinality(Routed)
       /\ \A hub \in {"aiml", "java", "dbms"} : {o[2] : o \in {p \in opened : p[1] = hub}} = TabsOf(hub)

(* A similarity lies between -1 and 1, and two vectors at no distance are  *)
(* alike unless they are null.                                             *)
HubEngineIsSound ==
    LET sim == CosineSim(page.a, page.b) IN
    /\ sim.dot * sim.dot <= sim.norms
    /\ (DistanceSquared(page.a, page.b) = 0 /\ page.a # <<0, 0, 0>>) => sim.dot * sim.dot = sim.norms
    /\ TopicsHaveTheirTabs

HubShownIsSound == /\ page.tab \in TabsOf(page.hub)
                /\ (DriftStatus(page.drift) = "critical") = (DriftAction(page.drift) = "retrain")

(* ------------------------------- the shell ------------------------------ *)

ShellTabs == <<"simulation", "theory", "quiz">>
Letters == <<"A", "B", "C", "D", "E">>
Cards == DOMAIN QuizData
HasOptions(c) == QuizData[c].options # <<>>

(* The number of the right option, from 1; 0 when nothing resolves.  A     *)
(* letter is tried before a text.                                          *)
ByText(options, text) == {i \in DOMAIN options : options[i] = text}
LetterOf(text) == {i \in DOMAIN Letters : Letters[i] = text}
ResolveCorrectIndex(card) ==
    LET kind == card.answer[1]
        value == card.answer[2]
    IN CASE kind = "number" -> value
         [] kind = "text" /\ LetterOf(value) \cap DOMAIN card.options # {} -> CHOOSE i \in LetterOf(value) : TRUE
         [] kind = "text" /\ ByText(card.options, value) # {} ->
                CHOOSE i \in ByText(card.options, value) : \A j \in ByText(card.options, value) : i <= j
         [] OTHER -> 0

(* `selected' and `open' are the state of the cards, fresh at each mount.  *)
FreshCards == [c \in Cards |-> [selected |-> Unanswered, open |-> FALSE]]
ShellInit == page = [tab |-> 1, cards |-> FreshCards]

(* Slip: cards keep what they were answered while another tab is mounted.  *)
MountKeepingCards(tab) == [page EXCEPT !.tab = tab]

(* The tab that is left is unmounted; one selected again stays as it is.   *)
Mount(tab) == IF tab = page.tab THEN page ELSE [page EXCEPT !.tab = tab, !.cards = FreshCards]

SelectShellTab == \E tab \in 1..3 : page' = Mount(tab)
ArrowRight == page' = Mount(1 + (page.tab % 3))
ArrowLeft == page' = Mount(1 + ((page.tab + 1) % 3))
HomeOrEnd == page' = Mount(1) \/ page' = Mount(3)

OnQuiz == ShellTabs[page.tab] = "quiz"

HandleSelect(c, i) ==
    /\ OnQuiz /\ HasOptions(c) /\ page.cards[c].selected = Unanswered
    /\ page' = [page EXCEPT !.cards[c] = [selected |-> i, open |-> TRUE]]
RevealOrHide(c) ==
    /\ OnQuiz /\ ~HasOptions(c)
    /\ page' = [page EXCEPT !.cards[c].open = ~@]

ShellGesture == \/ SelectShellTab \/ ArrowRight \/ ArrowLeft \/ HomeOrEnd
           \/ \E c \in Cards : RevealOrHide(c) \/ \E i \in DOMAIN QuizData[c].options : HandleSelect(c, i)

(* What an answered card marks: the right option, and the one chosen if it *)
(* is another.                                                             *)
Marked(c) == IF page.cards[c].selected = Unanswered THEN {}
             ELSE {ResolveCorrectIndex(QuizData[c]), page.cards[c].selected}
Verdict(c) == IF page.cards[c].selected = ResolveCorrectIndex(QuizData[c]) THEN "Correct" ELSE "Not quite"

(* ------------------------------ properties ----------------------------- *)

(* Every card with options resolves to one of them.                        *)
ShellEngineIsSound == \A c \in Cards : HasOptions(c) => ResolveCorrectIndex(QuizData[c]) \in DOMAIN QuizData[c].options

(* Away from the self-check nothing of it is kept, and an answered card    *)
(* says Correct exactly when it marks a single option.                     *)
ShellShownIsSound ==
    /\ ~OnQuiz => page.cards = FreshCards
    /\ \A c \in Cards : page.cards[c].selected # Unanswered =>
           page.cards[c].open /\ (Verdict(c) = "Correct") = (Cardinality(Marked(c)) = 1)
==============================================================================
