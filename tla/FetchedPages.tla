---------------------------- MODULE FetchedPages -----------------------------
(* The two pages that fetch what the reader asks for while the reader goes  *)
(* on asking: the interview page with its deck, page by page, and search.   *)
(*                                                                          *)
(* The address of a page is rendered in a transition, later than what the   *)
(* reader types or clicks, and the effects of a render run after it: both   *)
(* are steps of their own.  The effects of a click run with it.  A request  *)
(* that is aborted has no answer; any other one is answered, or fails.      *)
EXTENDS Integers, Sequences, FiniteSets, SequencesExt, FiniteSetsExt

CONSTANTS
  Bank,            \* the server's questions, by scope
  PageSize,
  Queries, Trimmed, Categories, OddCategory, All,
  None,
  MaxGestures      \* bound

VARIABLES page, gestures

Scopes == DOMAIN Bank
Items == UNION {ToSet(Bank[scope]) : scope \in Scopes}
May == gestures < MaxGestures
Asks == May /\ gestures' = gestures + 1
Goes == UNCHANGED gestures

(* --------------------------- the interview page ------------------------ *)

InterviewQuestions(scope, offset) == SubSeq(Bank[scope], offset + 1, Min({offset + PageSize, Len(Bank[scope])}))

(* What is kept of a deck, and of a request for more of its scope.         *)
Decks == [scope : Scopes, finding : BOOLEAN, revealed : BOOLEAN, answerViewed : BOOLEAN, missing : BOOLEAN,
          selected : Items]
Requests == [scope : Scopes, offset : Nat, total : Nat, key : Items \cup {None}]

(* The deck is mounted with the questions, anew for every scope; it opens  *)
(* on the question the session was left at.                                *)
Displayed(p) == ~p.loading /\ ~p.error /\ p.questions # <<>>
Deck(p) == [scope |-> p.scope, finding |-> FALSE, revealed |-> FALSE, answerViewed |-> FALSE, missing |-> FALSE,
            selected |-> IF p.sessions[p.scope] # None THEN p.sessions[p.scope] ELSE Head(p.questions)]
Rendered(p) == [p EXCEPT !.deck = IF ~Displayed(p) THEN None
                                  ELSE IF p.deck # None /\ p.deck.scope = p.scope THEN p.deck ELSE Deck(p)]
Renders(p) == page' = Rendered(p)

(* `due': the effect of the last render is still to run.                   *)
InterviewInit == \E scope \in Scopes :
    page = [scope |-> scope, due |-> TRUE, questions |-> <<>>, total |-> 0, offset |-> 0, loading |-> TRUE,
            error |-> FALSE, loadingMore |-> FALSE, loadMoreError |-> FALSE, first |-> None, more |-> None,
            deck |-> None, sessions |-> [s \in Scopes |-> None]]

(* Another category or difficulty; effects that are due run before.        *)
ChooseScope == \E scope \in Scopes \ {page.scope} :
                   Asks /\ ~page.due /\ Renders([page EXCEPT !.scope = scope, !.due = TRUE])

RestartedBeside(p) == [p EXCEPT !.due = FALSE, !.first = p.scope, !.more = None, !.loading = TRUE, !.error = FALSE,
                                !.loadMoreError = FALSE]
Restarted(p) == [p EXCEPT !.due = FALSE, !.first = p.scope, !.more = None, !.loading = TRUE, !.error = FALSE,
                          !.loadMoreError = FALSE, !.loadingMore = FALSE]
RunEffect == page.due /\ Renders(Restarted(page)) /\ Goes
Retry == page.error /\ ~page.loading /\ Asks /\ Renders(Restarted(page))

FirstPage(p) == LET questions == InterviewQuestions(p.first, 0)
                IN [p EXCEPT !.questions = questions, !.total = Len(Bank[p.first]), !.offset = Len(questions),
                             !.loading = FALSE, !.first = None]
FirstAnswered == page.first # None /\ Renders(FirstPage(page)) /\ Goes
FirstFails == page.first # None /\ Renders([page EXCEPT !.error = TRUE, !.loading = FALSE, !.first = None]) /\ Goes

(* `key': the saved question that is looked for, page after page.          *)
More(p, key) == [p EXCEPT !.more = [scope |-> p.scope, offset |-> p.offset, total |-> p.total, key |-> key],
                          !.loadingMore = TRUE, !.loadMoreError = FALSE]
LoadMore == /\ Displayed(page) /\ page.offset < page.total /\ ~page.loadingMore
            /\ Asks /\ Renders(More(page, None))

Missing(p) == p.deck # None /\ p.deck.selected \notin ToSet(p.questions)
Finding(p, finding, missing) ==
    IF p.deck = None THEN p ELSE [p EXCEPT !.deck.finding = finding, !.deck.missing = missing]
FindSavedQuestion ==
    /\ Missing(page) /\ ~page.deck.finding /\ Asks
    /\ Renders(IF page.offset < page.total THEN Finding(More(page, page.deck.selected), TRUE, FALSE)
               ELSE Finding([page EXCEPT !.more = None, !.loadingMore = FALSE, !.loadMoreError = FALSE], FALSE, TRUE))

(* What a further page adds; looking for a question goes on until it is    *)
(* there or the questions end.  A page of another scope is dropped.        *)
Appended(p, questions) == [p EXCEPT !.questions = @ \o questions,
    !.offset = IF p.more.key = None THEN @ + Len(questions) ELSE p.more.offset + Len(questions)]
Ended(p) == [p EXCEPT !.more = None, !.loadingMore = FALSE]
MoreArrived(p) ==
    LET questions == InterviewQuestions(p.more.scope, p.more.offset)
        next == p.more.offset + Len(questions)
        found == p.more.key \in ToSet(questions)
    IN IF p.more.key = None THEN Ended(Appended(p, questions))
       ELSE IF questions # <<>> /\ ~found /\ next < p.more.total
            THEN [Appended(p, questions) EXCEPT !.more.offset = next]
            ELSE Finding(Ended(Appended(p, questions)), FALSE, ~found)
Stale(p) == p.more.scope # p.scope
MoreAnswered == /\ page.more # None /\ Goes
                /\ Renders(IF Stale(page) THEN [page EXCEPT !.more = None] ELSE MoreArrived(page))
MoreFails == /\ page.more # None /\ Goes
             /\ Renders(IF Stale(page) THEN [page EXCEPT !.more = None]
                        ELSE IF page.more.key = None THEN [Ended(page) EXCEPT !.loadMoreError = TRUE]
                        ELSE Finding(Ended(page), FALSE, TRUE))

Shuffle == /\ Displayed(page) /\ Asks
           /\ \E questions \in SetToSeqs(ToSet(page.questions)) : Renders([page EXCEPT !.questions = questions])

(* ------------------------------- the deck ------------------------------ *)

Position(p) == CHOOSE i \in DOMAIN p.questions : p.questions[i] = p.deck.selected
MovedTo(p, i) == [p EXCEPT !.deck.selected = p.questions[i], !.deck.revealed = FALSE, !.deck.answerViewed = FALSE,
                           !.deck.missing = FALSE, !.sessions[p.scope] = p.questions[i]]
Move == /\ page.deck # None /\ Asks
        /\ IF Missing(page) THEN Renders(MovedTo(page, 1))
           ELSE \E i \in DOMAIN page.questions \cap {Position(page) - 1, Position(page) + 1} : Renders(MovedTo(page, i))
Reveal == /\ page.deck # None /\ ~Missing(page) /\ Asks
          /\ Renders([page EXCEPT !.deck.revealed = ~@, !.deck.answerViewed = TRUE])

InterviewReader == ChooseScope \/ Retry \/ LoadMore \/ FindSavedQuestion \/ Shuffle \/ Move \/ Reveal
InterviewBrowser == RunEffect \/ FirstAnswered \/ FirstFails \/ MoreAnswered \/ MoreFails

(* A displayed deck holds each of the first `offset' questions of its       *)
(* scope once, in some order; a spinner has a request that will end it.    *)
DeckIsWhole ==
    /\ ~page.due /\ Displayed(page) =>
          /\ Len(page.questions) = page.offset /\ page.total = Len(Bank[page.scope])
          /\ ToSet(page.questions) = ToSet(SubSeq(Bank[page.scope], 1, page.offset))
    /\ page.loading => page.due \/ page.first = page.scope
    /\ page.loadingMore => page.due \/ page.more # None
    /\ page.deck # None /\ page.deck.finding => page.due \/ page.more # None

(* Whatever arrives, is shuffled or fails, the reader stays at a question; *)
(* its answer is shown and marked as viewed only after it was revealed.    *)
KeepsPlace ==
    page.deck # None /\ page'.deck # None /\ page'.deck.scope = page.deck.scope =>
        \/ page'.deck.selected = page.deck.selected /\ (page.deck.answerViewed => page'.deck.answerViewed)
        \/ page'.sessions[page.scope] = page'.deck.selected /\ ~page'.deck.revealed /\ ~page'.deck.answerViewed

InterviewSettled == ~page.loading /\ ~page.loadingMore /\ (page.deck # None => ~page.deck.finding)

(* ------------------------------- search -------------------------------- *)

Params == [q : Queries, category : Categories \cup {All, OddCategory}]
CategoryFromParams(params) == IF params.category = OddCategory THEN All ELSE params.category

(* `heading': the address on its way; `written': lastWrittenParams; a       *)
(* request waits out its delay first.  Results are known by their query.    *)
SearchInit == \E url \in Params :
    page = [url |-> url, heading |-> None, due |-> TRUE, query |-> url.q, category |-> CategoryFromParams(url),
            written |-> url, results |-> None, loading |-> FALSE, error |-> FALSE, waiting |-> None, request |-> None]

Wanted(p) == [q |-> Trimmed[p.query], category |-> p.category]
AtUrl(p) == p.query = p.url.q /\ p.category = CategoryFromParams(p.url)

(* The address changed and the reader's query has not followed yet.        *)
NeverLags(p) == FALSE
Lags(p) == p.url # p.written /\ ~AtUrl(p)

(* The second effect: the last request is dropped, the address follows the *)
(* query, and a request is on its way.                                     *)
Searched(p) ==
    LET dropped == [p EXCEPT !.waiting = None, !.request = None]
        written == [dropped EXCEPT !.written = Wanted(p), !.heading = IF Wanted(p) # p.url THEN Wanted(p) ELSE @]
    IN IF Lags(p) THEN dropped
       ELSE IF Wanted(p).q = "" THEN [written EXCEPT !.results = None, !.loading = FALSE, !.error = FALSE]
       ELSE [written EXCEPT !.loading = TRUE, !.error = FALSE, !.waiting = Wanted(p)]

(* Both effects; the first one sets the query to the address, and the      *)
(* second one then runs again.                                             *)
Followed(p) == IF p.url # p.written /\ ~AtUrl(p)
               THEN Searched([Searched(p) EXCEPT !.query = p.url.q, !.category = CategoryFromParams(p.url)])
               ELSE Searched(p)

Type == \E query \in Queries \ {page.query} : Asks /\ ~page.due /\ page' = Searched([page EXCEPT !.query = query])
SelectCategory == \E category \in (Categories \cup {All}) \ {page.category} :
                      Asks /\ ~page.due /\ page' = Searched([page EXCEPT !.category = category])
TryAgain == page.error /\ Asks /\ ~page.due /\ page' = Searched(page)

(* A link to search, or back and forward in the history.  Left out: going   *)
(* back to the address on display before another one on its way is shown.  *)
Follow == \E url \in Params : Asks /\ (page.heading = None \/ url # page.url) /\ page' = [page EXCEPT !.heading = url]

Arrive == /\ page.heading # None /\ ~page.due /\ Goes
          /\ page' = [page EXCEPT !.url = page.heading, !.heading = None, !.due = page.heading # page.url]
RunEffects == page.due /\ Goes /\ page' = Followed([page EXCEPT !.due = FALSE])
DelayEnds == page.waiting # None /\ Goes /\ page' = [page EXCEPT !.waiting = None, !.request = page.waiting]
Found == /\ page.request # None /\ Goes
         /\ page' = [page EXCEPT !.results = page.request, !.request = None, !.loading = FALSE, !.error = FALSE]
SearchFails == page.request # None /\ Goes /\ page' = [page EXCEPT !.request = None, !.loading = FALSE, !.error = TRUE]

SearchReader == Type \/ SelectCategory \/ TryAgain \/ Follow
SearchBrowser == Arrive \/ RunEffects \/ DelayEnds \/ Found \/ SearchFails

(* Once no address is on its way, the results on display are those of the  *)
(* query on display, or those are under way.                               *)
ResultsMatch ==
    page.heading = None /\ ~page.due =>
        /\ page.loading => page.waiting = Wanted(page) \/ page.request = Wanted(page)
        /\ ~page.loading /\ ~page.error => page.results = IF Wanted(page).q = "" THEN None ELSE Wanted(page)

SearchSettled == page.heading = None /\ ~page.due /\ ~page.loading
==============================================================================
