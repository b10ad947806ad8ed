--------------------------- MODULE ProjectScreen ---------------------------
(***************************************************************************)
(* What the page of a project shows (pages/ProjectPage.tsx): the URL holds *)
(* the direction, the view and a tab, the page holds the active tab, and   *)
(* the directions come with the summary, which is fetched anew meanwhile.  *)
(* React renders until the state adjusted while rendering is stable;       *)
(* "Rendered" is that fixed point and a part of every step.                *)
(***************************************************************************)
EXTENDS Naturals, Sequences, SequencesExt

CONSTANTS
  MaxClicks,   \* bound: steps of the user
  MaxFetches,  \* bound: answers of the summary
  None

VARIABLE page
\* .url         the search parameters, as typed, linked or pushed
\* .back        the entries of the history below it
\* .directions  those of the summary, None while it loads
\* .tab, .prevDirection, .prevTab  the states of the component
\* .month       whether the invoices are filtered by a month
\* .chosen      history: the direction the active tab was chosen in
\* .asked       history: "link" after the user has followed the link to the errors, "again"
\*              when the URL named their tab already, "alert" after the alert of the summary
\* .clicks, .fetches  counters of the bounds

Gone == [at |-> "other"]
Codes == {"c1", "c2"}
PROJECT_TAB_VALUES == {"overview", "invoices", "prices", "corridors", "suppliers", "monthly", "errors"}

ResolveInitialTab(raw) == IF raw \in PROJECT_TAB_VALUES THEN raw ELSE "overview"

Direction(url, directions) ==
  CASE directions = None -> None
    [] directions # None /\ url.direction = "all" -> "all"
    [] directions # None /\ url.direction \in directions -> url.direction
    [] directions = {"c1"} /\ url.direction \notin {"all", "c1"} -> "c1"
    [] OTHER -> "all"

IsLegacy(p) == p.directions = {}
Scoped(p) == Direction(p.url, p.directions) \in Codes

\* What is on the screen.
Shown(p) ==
  CASE p.directions = None -> "skeleton"
    [] p.directions # None /\ (IsLegacy(p) \/ Scoped(p)) -> p.tab
    [] p.directions # None /\ ~IsLegacy(p) /\ ~Scoped(p) -> IF p.url.view = "errors" THEN "errors" ELSE "summary"

-----------------------------------------------------------------------------
(* Rendering.                                                               *)

\* Bug: a change of direction keeps the tab.
ResetTab_Never(p) == FALSE
\* The first answer of the summary is not a change.
ResetTab(p) == p.prevDirection # None /\ p.prevDirection # Direction(p.url, p.directions)

NewTab(p) == p.url.tab # p.prevTab /\ p.url.tab \in PROJECT_TAB_VALUES

Rendered(p) ==
  [p EXCEPT !.prevDirection = Direction(p.url, p.directions),
            !.prevTab = p.url.tab,
            !.tab = CASE NewTab(p) -> p.url.tab
                      [] ~NewTab(p) /\ ResetTab(p) -> "overview"
                      [] OTHER -> @,
            !.chosen = IF NewTab(p) \/ ResetTab(p) THEN Direction(p.url, p.directions) ELSE @]

Urls == [direction : {None, "all", "c1", "gone"}, view : {None, "errors"}, tab : {None, "errors", "prices", "bad"}]

\* The page is mounted by a link, a bookmark or a reload, with or without a cached summary.
Open ==
  \E url \in Urls, directions \in {None, {}, {"c1"}, Codes} :
    page' = [at |-> "project", url |-> url, back |-> <<>>, directions |-> directions,
             tab |-> ResolveInitialTab(url.tab), prevDirection |-> Direction(url, directions),
             prevTab |-> url.tab, month |-> FALSE, chosen |-> None, asked |-> "no",
             clicks |-> 0, fetches |-> 0]

-----------------------------------------------------------------------------
(* The user.                                                                *)

Click(p) == page.clicks < MaxClicks /\ page' = Rendered([p EXCEPT !.clicks = @ + 1])
Pushed(url) == [page EXCEPT !.url = url, !.back = Append(@, page.url), !.asked = "no"]
Tabs == page.directions # None /\ (IsLegacy(page) \/ Scoped(page))
To(tab) == [page EXCEPT !.tab = tab, !.chosen = Direction(page.url, page.directions), !.asked = "no"]

ChangeDirection ==
  /\ page.directions \notin {None, {}}
  /\ \E code \in page.directions \cup {"all"} :
       /\ code # Direction(page.url, page.directions)
       /\ Click(Pushed([page.url EXCEPT !.direction = code, !.view = None]))

ClickTab == Tabs /\ \E t \in PROJECT_TAB_VALUES \ {page.tab} : Click(To(t))

\* The month of a row becomes a filter of the invoices.
NavigateToMonth ==
  Tabs /\ page.tab = "monthly" /\ Click([To("invoices") EXCEPT !.month = TRUE])
ClearMonth ==
  Tabs /\ page.tab = "invoices" /\ page.month /\ Click([page EXCEPT !.month = FALSE, !.asked = "no"])

OpenErrors ==
  Shown(page) = "summary" /\ Click([Pushed([page.url EXCEPT !.view = "errors"]) EXCEPT !.asked = "alert"])
CloseErrors ==
  /\ ~Tabs /\ Shown(page) = "errors"
  /\ Click(Pushed([page.url EXCEPT !.view = None]))

\* Bug: the link names the view only.
RetryLink_NoTab == [direction |-> "all", view |-> "errors", tab |-> None]
\* The link of a duplicate in the sheet of uploads.
RetryLink == [direction |-> "all", view |-> "errors", tab |-> "errors"]
FollowRetryLink ==
  /\ page.directions # None
  /\ Click([Pushed(RetryLink) EXCEPT !.asked = IF page.url.tab = "errors" THEN "again" ELSE "link"])

Back ==
  /\ page.back # <<>>
  /\ Click([page EXCEPT !.url = Last(page.back), !.back = Front(@), !.asked = "no"])

\* Documents are parsed, deleted, given other directions.
Summary ==
  /\ page.fetches < MaxFetches
  /\ \E directions \in {{}, {"c1"}, Codes} :
       page' = Rendered([page EXCEPT !.directions = directions, !.fetches = @ + 1])

Step ==
  /\ page # Gone
  /\ \/ ChangeDirection \/ ClickTab \/ NavigateToMonth \/ ClearMonth
     \/ OpenErrors \/ CloseErrors \/ FollowRetryLink \/ Back \/ Summary

-----------------------------------------------------------------------------
(* Properties.                                                              *)

\* Whoever follows the link of a duplicate sees the errors of the project, in every
\* mode of the page and however its directions change afterwards.  When the URL
\* named the tab already, this holds in projects that have directions.
ErrorsReached ==
  (page # Gone /\ (page.asked = "link" \/ (page.asked = "again" /\ ~IsLegacy(page))))
  => Shown(page) = "errors"

\* Neither Back nor an answer of the summary leaves the user on a tab that was
\* chosen for another direction.
TabBelongsToDirection ==
  (page # Gone /\ Tabs /\ page.tab # "overview")
  => page.chosen \in {None, Direction(page.url, page.directions)}
=============================================================================
