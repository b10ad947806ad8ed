----------------------------- MODULE AppProofs -----------------------------
(***************************************************************************)
(* Proofs about App: what the user types is kept and stored where it       *)
(* belongs, what the user confirms or deletes was on the screen, and what  *)
(* the screens show was asked for and is not older than the user's own     *)
(* changes; and the administration of users, as proved in OrgAdminProofs.  *)
(* They hold for any number of keystrokes, requests, answers and changes   *)
(* by others, in any order; the rows, fields, files and accounts are those *)
(* that the modules of the screens name.                                   *)
(*                                                                         *)
(* A step of App is one of the part that is followed, so every part has    *)
(* an invariant of its own, true of what it opens with and kept by each    *)
(* of its steps; the last section puts them together.                      *)
(*   Boxed         ExclusionToggles: the boxes are those of the server, or *)
(*                 a fetch that is to bring them is under way              *)
(*   PageSound     ProjectScreen: the tab and the last direction rendered  *)
(*                 go with the URL                                         *)
(*   ListSound     InvoiceList: only ticked rows are selected, and a bulk  *)
(*                 deletion names only those the filters let through       *)
(*   AccountSound  AccountScreens: one invariant for each of its screens   *)
(*   FormSound     Dialogs: the fields, the requests and the rows a dialog *)
(*                 was opened for, and no text in two of them              *)
(*   ReviewSound   InvoiceReview: ids are not used again, and every text   *)
(*                 was read, saved, typed meanwhile or is being saved      *)
(*   SheetSound    Uploads: one request of a drop at a time, and the rows  *)
(*                 say what became of their own                            *)
(*   CacheSound    QueryCache: what a mutation reaches is read after it,   *)
(*                 or marked stale, or being read again                    *)
(***************************************************************************)
EXTENDS App, TLAPS, FiniteSetTheorems, SequenceTheorems

-----------------------------------------------------------------------------
(* The administration of users (OrgAdmin).                                  *)

Admins == INSTANCE OrgAdminProofs WITH user <- user, lock <- lock, tx <- tx

\* The administration of users goes on by itself, whatever is followed.
LEMMA UsersApart == Spec => Admins!Spec
<1>1. Init => Admins!Init
  BY DEF Init, Administration!Init, Admins!Init, Administration!Idle, Admins!Idle
<1>2. [Next]_vars => [Admins!Next]_(Admins!vars)
  <2> SUFFICES ASSUME Next \/ UNCHANGED vars PROVE Admins!Next \/ UNCHANGED <<user, lock, tx>>
    BY DEF Admins!vars
  <2>1. CASE OnUsers
    BY <2>1 DEF OnUsers,
       Administration!Next, Administration!Begin, Administration!Step,
       Administration!StartAdminPatch, Administration!StartOrgPatch,
       Administration!StartAdminCreate, Administration!StartOrgCreate,
       Administration!Open, Administration!PatchOf, Administration!AtStake,
       Administration!CanManage, Administration!CanSetRole, Administration!OrgAdmins,
       Administration!Select, Administration!LockNext, Administration!Decide,
       Administration!Write, Administration!Written, Administration!InsertUser,
       Administration!Abort, Administration!Close, Administration!Present,
       Administration!ActiveSuperadmins, Administration!Lowest, Administration!Idle,
       Administration!Roles, Admins!Next, Admins!Begin,
       Admins!Step, Admins!StartAdminPatch, Admins!StartOrgPatch,
       Admins!StartAdminCreate, Admins!StartOrgCreate, Admins!Open, Admins!PatchOf,
       Admins!AtStake, Admins!CanManage, Admins!CanSetRole, Admins!OrgAdmins,
       Admins!Select, Admins!LockNext, Admins!Decide, Admins!Write, Admins!Written,
       Admins!InsertUser, Admins!Abort, Admins!Close, Admins!Present,
       Admins!ActiveSuperadmins, Admins!Lowest, Admins!Idle, Admins!Roles
  <2> QED
    BY <2>1 DEF Next, OnReview, OnInvoices, OnPage, OnExclusions, OnUploads, OnDialog, OnAccount,
       OnQueries, Screen, vars, server
<1> QED BY <1>1, <1>2, PTL DEF Spec, Admins!Spec

LEMMA ValuesApart == Admins!ValuesApart
BY UsersAssumption
   DEF Administration!ValuesApart, Admins!ValuesApart, Administration!Roles, Admins!Roles,
       Administration!UserT, Admins!UserT

\* An organisation loses its last active superadmin only to a request that had loaded the
\* row before it was made a superadmin; every other interleaving leaves one.
THEOREM AppKeepsSuperadmin == Spec => LostOnlyToPromotion
<1>1. Admins!Spec => Admins!LostOnlyToPromotion
  BY ValuesApart, Admins!SuperadminKept
<1>2. Admins!LostOnlyToPromotion => LostOnlyToPromotion
  BY DEF Admins!LostOnlyToPromotion, LostOnlyToPromotion, Administration!LostOnlyToPromotion,
     Admins!vars, Administration!vars, Admins!ActiveSuperadmins, Administration!ActiveSuperadmins,
     Admins!Present, Administration!Present, Admins!Idle, Administration!Idle
<1> QED BY <1>1, <1>2, UsersApart, PTL

-----------------------------------------------------------------------------
(* The suppliers excluded from a project (ExclusionToggles). Requests are   *)
(* served in any order, but each answer has the list fetched anew: unless   *)
(* some answer is still to come, what is shown or on its way is what the    *)
(* server has.                                                              *)

Outcomes == {Sent, "ok", "refused", "answered"}
AskT == [who : Boxes!Suppliers, wish : {"in", "out"}, outcome : Outcomes]
TogglesT == [excluded : SUBSET Boxes!Suppliers, data : SUBSET Boxes!Suppliers,
  fetch : {None, Sent} \cup SUBSET Boxes!Suppliers,
       asks : Seq(AskT), form : {None} \cup Boxes!Suppliers, clicks : Nat, foreign : Nat]
\* What is shown, or on its way, is what the server has, once an answer has come.
UpToDate(t) ==
  (t.foreign = 0 /\ \A i \in DOMAIN t.asks : t.asks[i].outcome # "ok")
     => \/ t.fetch = Sent
        \/ t.fetch = None /\ t.data = t.excluded
        \/ t.fetch = t.excluded
Boxed == toggles = Boxes!Closed \/ (toggles \in TogglesT /\ UpToDate(toggles))

LEMMA BoxOpen == Boxes!Open => Boxed'
BY ValuesAssumption DEF Boxes!Open, Boxed, TogglesT, UpToDate

LEMMA BoxClick ==
  ASSUME NEW state \in TogglesT, Boxes!Click(state)
  PROVE  /\ toggles' \in TogglesT
         /\ toggles'.excluded = state.excluded /\ toggles'.data = state.data /\ toggles'.fetch = state.fetch
         /\ toggles'.asks = state.asks /\ toggles'.foreign = state.foreign
<1>1. state.clicks + 1 \in Nat
  BY DEF TogglesT
<1> QED BY <1>1 DEF Boxes!Click, TogglesT

LEMMA BoxStep == ASSUME toggles \in TogglesT, UpToDate(toggles), Boxes!Step
  PROVE toggles' \in TogglesT /\ UpToDate(toggles')
<1> USE ValuesAssumption DEF TogglesT
<1>0. ASSUME NEW s \in Boxes!Suppliers, NEW w \in {"in", "out"}
      PROVE  /\ Boxes!Ask(s, w) \in TogglesT
             /\ Boxes!Ask(s, w).asks = Append(toggles.asks, [who |-> s, wish |-> w, outcome |-> Sent])
             /\ \A x \in {"excluded", "data", "fetch", "foreign"} : Boxes!Ask(s, w)[x] = toggles[x]
  <2>1. Append(toggles.asks, [who |-> s, wish |-> w, outcome |-> Sent]) \in Seq(AskT)
    BY DEF AskT, Outcomes
  <2> QED BY <2>1 DEF Boxes!Ask
<1>a. ASSUME NEW s \in Boxes!Suppliers, NEW w \in {"in", "out"},
        toggles'.asks = Append(toggles.asks, [who |-> s, wish |-> w, outcome |-> Sent]),
       toggles'.excluded = toggles.excluded, toggles'.data = toggles.data, toggles'.fetch = toggles.fetch,
         toggles'.foreign = toggles.foreign PROVE UpToDate(toggles')
  <2>1. DOMAIN toggles.asks \subseteq DOMAIN toggles'.asks /\ \A i \in DOMAIN toggles.asks :
          toggles'.asks[i] = toggles.asks[i]
    BY <1>a
  <2> QED BY <2>1, <1>a DEF UpToDate
<1>1. ASSUME NEW s \in Boxes!Suppliers, Boxes!CheckBox(s) PROVE toggles' \in TogglesT /\ UpToDate(toggles')
  <2>1. CASE Boxes!Click(Boxes!Ask(s, "in"))
    BY <1>0, <1>a, <2>1, BoxClick
  <2>2. CASE Boxes!Click([toggles EXCEPT !.form = s])
    BY <2>2, BoxClick DEF UpToDate
  <2> QED BY <1>1, <2>1, <2>2 DEF Boxes!CheckBox
<1>2. CASE Boxes!Confirm
  <2>1. toggles.form \in Boxes!Suppliers
    BY <1>2 DEF Boxes!Confirm
  <2> DEFINE s == Boxes!Ask(toggles.form, "out")
  <2>2. [s EXCEPT !.form = None] \in TogglesT
    BY <1>0, <2>1
  <2> QED BY <1>0, <1>2, <1>a, <2>1, <2>2, BoxClick DEF Boxes!Confirm
<1>3. CASE Boxes!CancelForm
  BY <1>3, BoxClick DEF Boxes!CancelForm, UpToDate
<1>4. ASSUME NEW i \in DOMAIN toggles.asks, Boxes!Serve(i) PROVE  toggles' \in TogglesT /\ UpToDate(toggles')
  <2>0. toggles.asks \in Seq(AskT)
    OBVIOUS
  <2>1. toggles.asks[i] \in AskT
    BY <2>0
  <2>2. ASSUME NEW o \in {"ok", "refused"} PROVE [toggles.asks EXCEPT ![i].outcome = o] \in Seq(AskT)
    BY <2>1 DEF AskT, Outcomes
  <2>3. Boxes!Excluded(toggles.asks[i]) \in SUBSET Boxes!Suppliers
    BY <2>1 DEF AskT, Boxes!Excluded
  <2>4. CASE toggles' = [toggles EXCEPT !.asks[i].outcome = "ok",
          !.excluded = Boxes!Excluded(toggles.asks[i])]
    <3>1. toggles' \in TogglesT
      BY <2>2, <2>3, <2>4
    <3>2. toggles'.asks[i].outcome = "ok" /\ i \in DOMAIN toggles'.asks
      BY <2>4, <2>1 DEF AskT
    <3> QED BY <3>1, <3>2 DEF UpToDate
  <2>5. CASE toggles' = [toggles EXCEPT !.asks[i].outcome = "refused"]
    <3>1. toggles' \in TogglesT
      BY <2>2, <2>5
    <3>2. Sent # "ok" /\ toggles.asks[i].outcome = Sent
      BY <1>4 DEF Boxes!Serve
    <3>3. DOMAIN toggles'.asks = DOMAIN toggles.asks /\ \A j \in DOMAIN toggles.asks :
            toggles'.asks[j].outcome = IF j = i THEN "refused" ELSE toggles.asks[j].outcome
      BY <2>0, <2>1, <2>5 DEF AskT
    <3>4. UpToDate(toggles')
      BY <2>5, <3>2, <3>3 DEF UpToDate
    <3> QED BY <3>1, <3>4
  <2> QED BY <1>4, <2>4, <2>5 DEF Boxes!Serve
<1>5. ASSUME NEW i \in DOMAIN toggles.asks, Boxes!Answer(i) PROVE  toggles' \in TogglesT /\ UpToDate(toggles')
  <2>0. toggles.asks \in Seq(AskT)
    OBVIOUS
  <2>1. toggles.asks[i] \in AskT
    BY <2>0
  <2>2. [toggles.asks EXCEPT ![i].outcome = "answered"] \in Seq(AskT)
    BY <2>1 DEF AskT, Outcomes
  <2>3. toggles' \in TogglesT
    BY <1>5, <2>2 DEF Boxes!Answer, Boxes!Answered
  <2>4. UpToDate(toggles')
    BY <1>5 DEF Boxes!Answer, Boxes!Answered, UpToDate, AskT
  <2> QED BY <2>3, <2>4
<1>6. CASE Boxes!Foreign
  <2>1. PICK who \in SUBSET Boxes!Suppliers : toggles' = [toggles EXCEPT !.excluded = who, !.foreign = @ + 1]
    BY <1>6 DEF Boxes!Foreign
  <2>2. toggles.foreign + 1 \in Nat /\ toggles.foreign + 1 # 0
    OBVIOUS
  <2> QED BY <2>1, <2>2 DEF UpToDate
<1>7. CASE Boxes!Read \/ Boxes!Land
  BY <1>7 DEF Boxes!Read, Boxes!Land, UpToDate
<1> QED BY <1>1, <1>2, <1>3, <1>4, <1>5, <1>6, <1>7 DEF Boxes!Step

LEMMA BoxSettled == Boxed => Boxes!Settled
BY ValuesAssumption DEF Boxed, Boxes!Settled, TogglesT, UpToDate, AskT, Outcomes

-----------------------------------------------------------------------------
(* The page of a project (ProjectScreen). The page compares the URL with    *)
(* what it rendered last; a step changes the URL, the tab or the            *)
(* directions, and the rendering that ends it makes them agree again        *)
(* (PageRendered).                                                          *)

Directions == {None, {}, {"c1"}, Page!Codes}
UrlT == [direction : {None, "all", "c1", "c2", "gone"}, view : {None, "errors"},
         tab : {None, "errors", "prices", "bad"}]
PageT ==
  [at : {"project"}, url : UrlT, back : Seq(UrlT), directions : Directions, tab : Page!PROJECT_TAB_VALUES,
   prevDirection : {None, "all", "c1", "c2"}, prevTab : {None, "errors", "prices", "bad"}, month : BOOLEAN,
   chosen : {None, "all", "c1", "c2"}, asked : {"no", "link", "again", "alert"}, clicks : Nat, fetches : Nat]

\* What a step hands to the rendering.
PageFits(p) ==
  /\ p.tab # "overview" => p.chosen \in {None, p.prevDirection}
  /\ p.asked \in {"link", "again"} => p.url = Page!RetryLink /\ p.directions # None
  /\ p.asked = "link" => Page!NewTab(p) \/ (p.tab = "errors" /\ p.prevTab = "errors"
     /\ p.prevDirection = "all")
ShowsTab ==
  /\ page.prevTab = page.url.tab /\ page.prevDirection = Page!Direction(page.url, page.directions)
  /\ page.tab # "overview" => page.chosen \in {None, page.prevDirection}
  /\ page.asked \in {"link", "again"} => page.url = Page!RetryLink /\ page.directions # None
  /\ page.asked = "link" => page.tab = "errors"
PageSound == page = Page!Gone \/ (page \in PageT /\ ShowsTab)

LEMMA PageDirections == None \notin {{}, {"c1"}, {"c1", "c2"}} /\ None \notin {"all", "c1", "c2"}
<1>1. {} \in SUBSET Page!Codes /\ {"c1"} \in SUBSET Page!Codes /\ {"c1", "c2"} \in SUBSET Page!Codes
  BY DEF Page!Codes
<1> QED BY <1>1, ValuesAssumption

LEMMA PageDirection ==
  ASSUME NEW url \in UrlT, NEW ds \in Directions
  PROVE  /\ Page!Direction(url, ds) \in {None, "all", "c1", "c2"}
         /\ Page!Direction(url, ds) = None <=> ds = None
         /\ url.direction = "all" /\ ds # None => Page!Direction(url, ds) = "all"
BY PageDirections DEF Page!Direction, Directions, UrlT, Page!Codes

LEMMA PageRendered ==
  ASSUME NEW p \in PageT, PageFits(p), page' = Page!Rendered(p)
  PROVE  page' \in PageT /\ ShowsTab'
<1> DEFINE d == Page!Direction(p.url, p.directions)
<1>1. p.url \in UrlT /\ p.directions \in Directions
  BY DEF PageT
<1>2. d \in {None, "all", "c1", "c2"}
  BY <1>1, PageDirection
<1>3. /\ page' \in PageT
      /\ page'.url = p.url /\ page'.directions = p.directions /\ page'.asked = p.asked
      /\ page'.prevDirection = d /\ page'.prevTab = p.url.tab
      /\ page'.tab = IF Page!NewTab(p) THEN p.url.tab ELSE IF Page!ResetTab(p) THEN "overview" ELSE p.tab
      /\ page'.chosen = IF Page!NewTab(p) \/ Page!ResetTab(p) THEN d ELSE p.chosen
  <2> HIDE DEF d
  <2>1. Page!Rendered(p) = [p EXCEPT !.prevDirection = d, !.prevTab = p.url.tab,
          !.tab = IF Page!NewTab(p) THEN p.url.tab ELSE IF Page!ResetTab(p) THEN "overview" ELSE p.tab,
          !.chosen = IF Page!NewTab(p) \/ Page!ResetTab(p) THEN d ELSE p.chosen]
    BY DEF Page!Rendered, d
  <2>2. p.url.tab \in {None, "errors", "prices", "bad"}
          /\ (Page!NewTab(p) => p.url.tab \in Page!PROJECT_TAB_VALUES)
        /\ "overview" \in Page!PROJECT_TAB_VALUES
    BY <1>1 DEF UrlT, Page!NewTab, Page!PROJECT_TAB_VALUES
  <2> QED BY <1>2, <2>1, <2>2 DEF PageT
<1>4. ~Page!NewTab(p) /\ ~Page!ResetTab(p) => p.prevDirection \in {None, d}
  BY DEF Page!ResetTab
<1>5. p.asked = "link" => page'.tab = "errors"
  <2>1. p.asked = "link" => p.url.tab = "errors" /\ d = "all"
    <3>1. Page!RetryLink.direction = "all" /\ Page!RetryLink.tab = "errors"
      BY DEF Page!RetryLink
    <3> QED BY <1>1, <3>1, PageDirection DEF PageFits
  <2> QED BY <1>3, <2>1 DEF PageFits, Page!NewTab, Page!ResetTab
<1> QED BY <1>3, <1>4, <1>5 DEF PageFits, ShowsTab

LEMMA PageOpen == Page!Open => page' \in PageT /\ ShowsTab'
<1> SUFFICES ASSUME Page!Open PROVE page' \in PageT /\ ShowsTab'
  OBVIOUS
<1>1. PICK url \in Page!Urls, directions \in Directions :
    page' = [at |-> "project", url |-> url, back |-> <<>>, directions |-> directions,
             tab |-> Page!ResolveInitialTab(url.tab), prevDirection |-> Page!Direction(url, directions),
             prevTab |-> url.tab, month |-> FALSE, chosen |-> None, asked |-> "no",
             clicks |-> 0, fetches |-> 0]
  BY DEF Page!Open, Directions
<1>2. url \in UrlT
  BY DEF Page!Urls, UrlT
<1>3. Page!ResolveInitialTab(url.tab) \in Page!PROJECT_TAB_VALUES
  BY DEF Page!ResolveInitialTab, Page!PROJECT_TAB_VALUES
<1>4. url.tab \in {None, "errors", "prices", "bad"}
  BY <1>2 DEF UrlT
<1> QED BY <1>1, <1>2, <1>3, <1>4, PageDirection DEF PageT, ShowsTab

LEMMA PageClick ==
  ASSUME NEW p \in PageT, PageFits(p), Page!Click(p)
  PROVE  page' \in PageT /\ ShowsTab'
<1> DEFINE q == [p EXCEPT !.clicks = @ + 1]
<1>1. p.clicks + 1 \in Nat
  BY DEF PageT
<1>2. q \in PageT /\ PageFits(q)
  BY <1>1 DEF PageT, PageFits, Page!NewTab
<1>3. page' = Page!Rendered(q)
  BY DEF Page!Click
<1> QED BY <1>2, <1>3, PageRendered

LEMMA PageStep ==
  ASSUME page \in PageT, ShowsTab, Page!Step
  PROVE  page' \in PageT /\ ShowsTab'
<1> DEFINE G == page' \in PageT /\ ShowsTab'
<1>0. /\ page.url \in UrlT /\ page.back \in Seq(UrlT) /\ page.directions \in Directions
      /\ Page!Direction(page.url, page.directions) \in {None, "all", "c1", "c2"}
  BY PageDirection DEF PageT
<1>1. ASSUME NEW url \in UrlT, Page!Click(Page!Pushed(url)) PROVE G
  <2>1. Append(page.back, page.url) \in Seq(UrlT)
    BY <1>0
  <2>2. Page!Pushed(url) \in PageT /\ PageFits(Page!Pushed(url))
    BY <2>1 DEF Page!Pushed, PageT, PageFits, ShowsTab
  <2> QED BY <1>1, <2>2, PageClick
<1>2. CASE Page!ChangeDirection
  <2>1. PICK code \in page.directions \cup {"all"} :
          Page!Click(Page!Pushed([page.url EXCEPT !.direction = code, !.view = None]))
    BY <1>2 DEF Page!ChangeDirection
  <2>2. code \in {"all", "c1", "c2"}
    BY <1>0, <1>2 DEF Directions, Page!Codes, Page!ChangeDirection
  <2>3. [page.url EXCEPT !.direction = code, !.view = None] \in UrlT
    BY <1>0, <2>2 DEF UrlT
  <2> QED BY <1>1, <2>1, <2>3
<1>3. ASSUME NEW t \in Page!PROJECT_TAB_VALUES
      PROVE  /\ Page!To(t) \in PageT /\ PageFits(Page!To(t)) /\ [Page!To(t) EXCEPT !.month = TRUE] \in PageT
             /\ PageFits([Page!To(t) EXCEPT !.month = TRUE])
  BY <1>0 DEF Page!To, PageT, PageFits, ShowsTab
<1>4. CASE Page!ClickTab
  BY <1>3, <1>4, PageClick DEF Page!ClickTab
<1>5. CASE Page!NavigateToMonth
  BY <1>3, <1>5, PageClick DEF Page!NavigateToMonth, Page!PROJECT_TAB_VALUES
<1>6. CASE Page!ClearMonth
  <2>1. [page EXCEPT !.month = FALSE, !.asked = "no"] \in PageT
          /\ PageFits([page EXCEPT !.month = FALSE, !.asked = "no"])
    BY DEF PageT, PageFits, ShowsTab
  <2> QED BY <1>6, <2>1, PageClick DEF Page!ClearMonth
<1>7. CASE Page!OpenErrors
  <2> DEFINE url == [page.url EXCEPT !.view = "errors"]
             p == [Page!Pushed(url) EXCEPT !.asked = "alert"]
  <2>1. url \in UrlT /\ Append(page.back, page.url) \in Seq(UrlT)
    BY <1>0 DEF UrlT
  <2>2. p \in PageT /\ PageFits(p)
    BY <2>1 DEF Page!Pushed, PageT, PageFits, ShowsTab
  <2> QED BY <1>7, <2>2, PageClick DEF Page!OpenErrors
<1>8. CASE Page!CloseErrors
  <2>1. [page.url EXCEPT !.view = None] \in UrlT
    BY <1>0 DEF UrlT
  <2> QED BY <1>1, <1>8, <2>1 DEF Page!CloseErrors
<1>9. CASE Page!FollowRetryLink
  <2> DEFINE p == [Page!Pushed(Page!RetryLink) EXCEPT !.asked = IF page.url.tab = "errors" THEN "again"
        ELSE "link"]
  <2>1. Page!RetryLink \in UrlT /\ Append(page.back, page.url) \in Seq(UrlT) /\ Page!RetryLink.tab = "errors"
    BY <1>0 DEF UrlT, Page!RetryLink
  <2>2. p \in PageT /\ p.url = Page!RetryLink /\ p.directions = page.directions /\ p.tab = page.tab
          /\ p.chosen = page.chosen
        /\ p.prevDirection = page.prevDirection /\ p.prevTab = page.prevTab
        /\ p.asked = IF page.url.tab = "errors" THEN "again" ELSE "link"
    BY <2>1 DEF Page!Pushed, PageT
  <2>3. PageFits(p)
    BY <1>9, <2>1, <2>2 DEF PageFits, ShowsTab, Page!NewTab, Page!PROJECT_TAB_VALUES, Page!FollowRetryLink
  <2> QED BY <1>9, <2>2, <2>3, PageClick DEF Page!FollowRetryLink
<1>10. CASE Page!Back
  <2> DEFINE p == [page EXCEPT !.url = Page!Last(page.back), !.back = Page!Front(@), !.asked = "no"]
  <2>1. Page!Last(page.back) \in UrlT /\ Page!Front(page.back) \in Seq(UrlT)
    BY <1>0, <1>10 DEF Page!Back, Page!Last, Page!Front
  <2>2. p \in PageT /\ PageFits(p)
    BY <2>1 DEF PageT, PageFits, ShowsTab
  <2> QED BY <1>10, <2>2, PageClick DEF Page!Back
<1>11. CASE Page!Summary
  <2>1. PICK directions \in {{}, {"c1"}, Page!Codes} :
         page' = Page!Rendered([page EXCEPT !.directions = directions, !.fetches = @ + 1])
    BY <1>11 DEF Page!Summary
  <2> DEFINE p == [page EXCEPT !.directions = directions, !.fetches = @ + 1]
  <2>2. page.fetches + 1 \in Nat /\ directions \in Directions /\ directions # None
    BY PageDirections DEF PageT, Directions, Page!Codes
  <2>3. p \in PageT /\ p.url = page.url /\ p.directions = directions /\ p.tab = page.tab
          /\ p.chosen = page.chosen
        /\ p.prevDirection = page.prevDirection /\ p.prevTab = page.prevTab /\ p.asked = page.asked
    BY <2>2 DEF PageT
  <2>4. page.asked = "link" => page.prevDirection = "all" /\ page.prevTab = "errors"
    BY <1>0, PageDirection DEF ShowsTab, Page!RetryLink
  <2>5. PageFits(p)
    BY <2>2, <2>3, <2>4 DEF PageFits, ShowsTab
  <2> QED BY <2>1, <2>3, <2>5, PageRendered
<1> QED BY <1>2, <1>4, <1>5, <1>6, <1>7, <1>8, <1>9, <1>10, <1>11 DEF Page!Step

LEMMA PageShows == PageSound => Page!ErrorsReached /\ Page!TabBelongsToDirection
<1> SUFFICES ASSUME page \in PageT, ShowsTab PROVE Page!ErrorsReached /\ Page!TabBelongsToDirection
  BY DEF PageSound, Page!ErrorsReached, Page!TabBelongsToDirection
<1>1. page.asked \in {"link", "again"} => Page!Direction(page.url, page.directions) = "all"
        /\ page.url.view = "errors" /\ page.directions # None
  BY PageDirection DEF PageT, ShowsTab, Page!RetryLink
<1>2. Page!ErrorsReached
  BY <1>1 DEF Page!ErrorsReached, Page!Shown, Page!Scoped, Page!IsLegacy, Page!Codes, ShowsTab
<1> QED BY <1>2 DEF Page!TabBelongsToDirection, ShowsTab

-----------------------------------------------------------------------------
(* The list of invoices (InvoiceList). A page exists as long as there are   *)
(* rows: the rows have different places (ListPlaces), a clamped page begins *)
(* at one that is taken (ListPages).                                        *)

RowsT == [Invoices!Ids -> {"confirmed", "review", "pending", "none", "gone"}]
DeletionT == [ids : SUBSET Invoices!Ids, outcome : {Sent, "ok", "refused"}]
ListT ==
  [page : Nat \ {0}, server : RowsT, busy : SUBSET {"a", "b"}, rows : RowsT, busyIds : SUBSET {"a", "b"},
   fetch : {None, Sent} \cup RowsT, stages : SUBSET Invoices!Stages, onlyOther : BOOLEAN, size : {1, 2},
   dir : {"asc", "desc"}, ids : SUBSET Invoices!Ids, pending : {None} \cup Invoices!Ids, bulkOpen : BOOLEAN,
   one : {None} \cup DeletionT, bulk : {None} \cup DeletionT, marked : SUBSET Invoices!Ids,
   agreed : SUBSET Invoices!Ids, clicks : Nat, foreign : Nat]
\* Only ticked rows are selected, and a bulk deletion names those the filters let through.
SeenFirst(l) == l.ids \subseteq l.marked /\ (l.bulk # None => l.bulk.ids \subseteq l.agreed)
\* A step that leaves the invoices, the selection and the bulk deletion alone.
ListSame(l) ==
  /\ l.server = list.server /\ l.bulk = list.bulk
  /\ l.ids = list.ids /\ l.marked = list.marked /\ l.agreed = list.agreed

LEMMA ListOpen == Invoices!Open => list' \in ListT /\ SeenFirst(list')
<1> SUFFICES ASSUME Invoices!Open PROVE list' \in ListT /\ SeenFirst(list')
  OBVIOUS
<1>1. PICK first \in Invoices!Stages, second \in {"review", "pending"}, busy \in {{}, {"a"}} :
   LET invoices == <<first, second, "pending", "none">> IN
    list' = [page |-> 1, server |-> invoices, busy |-> busy, rows |-> invoices, busyIds |-> busy,
      fetch |-> None,
             stages |-> {}, onlyOther |-> FALSE, size |-> 2, dir |-> "desc", ids |-> {},
             pending |-> None, bulkOpen |-> FALSE, one |-> None, bulk |-> None,
             marked |-> {}, agreed |-> {}, clicks |-> 0, foreign |-> 0]
  BY DEF Invoices!Open
<1>2. <<first, second, "pending", "none">> \in RowsT
  BY DEF RowsT, Invoices!Ids, Invoices!Stages
<1> QED BY <1>1, <1>2 DEF ListT, SeenFirst

LEMMA ListClick ==
  ASSUME NEW state \in ListT, Invoices!Click(state)
  PROVE  /\ list' \in ListT
         /\ list'.bulk = state.bulk /\ list'.server = state.server /\ list'.ids = state.ids
         /\ list'.marked = state.marked /\ list'.agreed = state.agreed
<1>1. state.clicks + 1 \in Nat
  BY DEF ListT
<1> QED BY <1>1 DEF Invoices!Click, ListT

LEMMA ListChosen ==
  ASSUME list \in ListT, NEW p \in Nat \ {0}, NEW stages \in SUBSET Invoices!Stages, NEW size \in {1, 2},
    NEW dir \in {"asc", "desc"}
  PROVE  LET Kept(state) == state \in ListT /\ ListSame(state)
         IN  /\ Kept([list EXCEPT !.stages = stages, !.page = p])
             /\ Kept([list EXCEPT !.dir = dir, !.page = p])
             /\ Kept([list EXCEPT !.size = size, !.page = p])
BY DEF ListT, ListSame

LEMMA ListCardinality == ASSUME NEW S PROVE Invoices!Cardinality(S) = Cardinality(S)
BY DEF Invoices!Cardinality, Cardinality

LEMMA ListFiltered == ASSUME list \in ListT
  PROVE Invoices!Filtered \subseteq Invoices!Ids /\ Invoices!EffectiveSelectedIds \subseteq Invoices!Ids
    /\ Invoices!Paged \subseteq Invoices!Ids
BY DEF Invoices!Filtered, Invoices!EffectiveSelectedIds, Invoices!Paged, Invoices!InvoicesProp

LEMMA ListPages == ASSUME list \in ListT
  PROVE  /\ Invoices!TotalPages \in Nat \ {0} /\ Invoices!ClampedPage \in 1..Invoices!TotalPages
         /\ Invoices!Filtered # {} => Cardinality(Invoices!Filtered) \in Nat \ {0}
            /\ (Invoices!ClampedPage - 1) * list.size < Cardinality(Invoices!Filtered)
<1> DEFINE n == Cardinality(Invoices!Filtered)
<1>1. IsFiniteSet(Invoices!Filtered)
  <2>1. IsFiniteSet(1..4)
    BY FS_Interval, 1 \in Int, 4 \in Int
  <2> QED BY <2>1, ListFiltered, FS_Subset DEF Invoices!Ids
<1>2. n \in Nat /\ (Invoices!Filtered # {} => n # 0)
  BY <1>1, FS_CardinalityType, FS_EmptySet
<1>3. list.size \in {1, 2} /\ list.page \in Nat \ {0}
  BY DEF ListT
<1> HIDE DEF n
<1>4. CASE list.size = 1
  <2>1. Invoices!TotalPages = IF n = 0 THEN 1 ELSE n
    BY <1>2, <1>4, ListCardinality DEF Invoices!TotalPages, n
  <2> QED BY <1>2, <1>3, <1>4, <2>1 DEF Invoices!ClampedPage, n
<1>5. CASE list.size = 2
  <2>1. Invoices!TotalPages = IF (n + 1) \div 2 = 0 THEN 1 ELSE (n + 1) \div 2
    BY <1>2, <1>5, ListCardinality DEF Invoices!TotalPages, n
  <2> QED BY <1>2, <1>3, <1>5, <2>1 DEF Invoices!ClampedPage, n
<1> QED BY <1>3, <1>4, <1>5

\* Every place up to the last is taken by a row
LEMMA ListPlaces == ASSUME list \in ListT, NEW k \in Nat, k < Cardinality(Invoices!Filtered)
  PROVE \E id \in Invoices!Filtered : Invoices!Sorted(id) = k
<1> DEFINE n == Cardinality(Invoices!Filtered)
           Before(id) == {other \in Invoices!Filtered : IF list.dir = "asc" THEN other < id ELSE other > id}
           place == [id \in Invoices!Filtered |-> Cardinality(Before(id))]
<1>1. IsFiniteSet(Invoices!Filtered) /\ Invoices!Filtered \subseteq 1..4
  <2>1. IsFiniteSet(1..4)
    BY FS_Interval, 1 \in Int, 4 \in Int
  <2> QED BY <2>1, ListFiltered, FS_Subset DEF Invoices!Ids
<1>2. n \in Nat
  BY <1>1, FS_CardinalityType
<1>3. ASSUME NEW id \in Invoices!Filtered
      PROVE IsFiniteSet(Before(id)) /\ Cardinality(Before(id)) \in 0..(n - 1)
  <2>1. Before(id) \subseteq Invoices!Filtered \ {id}
    BY <1>1
  <2>2. IsFiniteSet(Invoices!Filtered \ {id}) /\ Cardinality(Invoices!Filtered \ {id}) = n - 1
    BY <1>1, FS_RemoveElement
  <2>3. IsFiniteSet(Before(id)) /\ Cardinality(Before(id)) <= n - 1
    BY <2>1, <2>2, FS_Subset
  <2> QED BY <1>2, <2>3, FS_CardinalityType
<1>4. ASSUME NEW a \in Invoices!Filtered, NEW b \in Invoices!Filtered, a # b PROVE place[a] # place[b]
  <2>1. ASSUME NEW x \in Invoices!Filtered, NEW y \in Invoices!Filtered, x \in Before(y)
        PROVE Cardinality(Before(x)) < Cardinality(Before(y))
    <3>1. Before(x) \subseteq Before(y) /\ x \notin Before(x)
      <4>1. x \in 1..4 /\ y \in 1..4 /\ (IF list.dir = "asc" THEN x < y ELSE x > y)
        BY <1>1, <2>1
      <4>2. ASSUME NEW z \in Before(x) PROVE z \in Before(y)
        <5>1. z \in 1..4 /\ z \in Invoices!Filtered /\ (IF list.dir = "asc" THEN z < x ELSE z > x)
          BY <1>1
        <5> QED BY <4>1, <5>1
      <4>3. x \notin Before(x)
        BY <4>1
      <4> HIDE DEF Before
      <4> QED BY <4>2, <4>3
    <3>2. Before(x) # Before(y)
      BY <2>1, <3>1
    <3> HIDE DEF Before
    <3>3. Cardinality(Before(x)) <= Cardinality(Before(y)) /\ Cardinality(Before(x)) # Cardinality(Before(y))
      BY <1>3, <3>1, <3>2, FS_Subset
    <3> QED BY <1>2, <1>3, <3>3
  <2>2. a \in Before(b) \/ b \in Before(a)
    BY <1>1, <1>4
  <2>3. Cardinality(Before(a)) \in 0..(n - 1) /\ Cardinality(Before(b)) \in 0..(n - 1)
    BY <1>3
  <2>4. Cardinality(Before(a)) < Cardinality(Before(b)) \/ Cardinality(Before(b)) < Cardinality(Before(a))
    BY <2>1, <2>2
  <2> HIDE DEF Before
  <2> QED BY <1>2, <2>3, <2>4
<1>5. place \in Injection(Invoices!Filtered, 0..(n - 1))
  BY <1>3, <1>4 DEF Injection, IsInjective
<1>6. IsFiniteSet(0..(n - 1)) /\ Cardinality(0..(n - 1)) = n
  <2>1. 0 \in Int /\ n - 1 \in Int
    BY <1>2
  <2> HIDE DEF n
  <2>2. IsFiniteSet(0..(n - 1)) /\ Cardinality(0..(n - 1)) = IF 0 > n - 1 THEN 0 ELSE n - 1 - 0 + 1
    BY <2>1, FS_Interval
  <2> QED BY <1>2, <2>2
<1>7. place \in Surjection(Invoices!Filtered, 0..(n - 1))
  BY <1>5, <1>6, FS_Injection
<1>8. k \in 0..(n - 1)
  BY <1>2
<1>9. PICK id \in Invoices!Filtered : place[id] = k
  BY <1>7, <1>8 DEF Surjection
<1> QED BY <1>9, ListCardinality DEF Invoices!Sorted

LEMMA ListPaged == ASSUME list \in ListT PROVE Invoices!NoEmptyPage
<1> SUFFICES ASSUME Invoices!Filtered # {} PROVE Invoices!Paged # {}
  BY DEF Invoices!NoEmptyPage
<1> DEFINE k == (Invoices!ClampedPage - 1) * list.size
<1>0. list.size \in {1, 2}
  BY DEF ListT
<1>1. Invoices!ClampedPage \in Nat \ {0}
  BY ListPages
<1>2. k \in Nat /\ k < Cardinality(Invoices!Filtered) /\ k \div list.size + 1 = Invoices!ClampedPage
  BY <1>0, <1>1, ListPages
<1>3. PICK id \in Invoices!Filtered : Invoices!Sorted(id) = k
  BY <1>2, ListPlaces
<1> QED BY <1>2, <1>3 DEF Invoices!Paged

LEMMA ListStep ==
  ASSUME list \in ListT, SeenFirst(list), Invoices!Step
  PROVE  list' \in ListT /\ SeenFirst(list') /\ Invoices!DeletesOnlySeen
<1> DEFINE G == list' \in ListT /\ SeenFirst(list') /\ Invoices!DeletesOnlySeen
<1>0. Invoices!Filtered \subseteq Invoices!Ids /\ Invoices!EffectiveSelectedIds \subseteq Invoices!Filtered
        /\ Invoices!Paged \subseteq Invoices!Ids /\ Invoices!TotalPages \in Nat /\ list.page \in Nat
  BY ListFiltered, ListPages DEF Invoices!EffectiveSelectedIds, ListT
<1>a. 1 \in Nat \ {0}
  OBVIOUS
<1>b. ASSUME list' \in ListT, ListSame(list') PROVE G
  BY <1>b DEF ListSame, SeenFirst, Invoices!DeletesOnlySeen
<1>1. ASSUME NEW state \in ListT, Invoices!Click(state), ListSame(state) PROVE G
  BY <1>1, <1>b, ListClick DEF ListSame
<1>2. CASE Invoices!ToggleStage
  <2>1. PICK s \in Invoices!Stages : Invoices!Click([list EXCEPT !.stages = IF s \in @ THEN @ \ {s}
          ELSE @ \cup {s}, !.page = 1])
    BY <1>2 DEF Invoices!ToggleStage
  <2> DEFINE stages == IF s \in list.stages THEN list.stages \ {s} ELSE list.stages \cup {s}
             state == [list EXCEPT !.stages = stages, !.page = 1]
  <2>2. stages \in SUBSET Invoices!Stages
    BY DEF ListT
  <2>3. Invoices!Click(state)
    BY <2>1
  <2> HIDE DEF stages
  <2>4. state \in ListT /\ ListSame(state)
    BY <2>2, ListChosen, <1>a
  <2> HIDE DEF state
  <2> QED BY <1>1, <2>3, <2>4
<1>3. CASE Invoices!ToggleOther
  <2>1. [list EXCEPT !.onlyOther = ~@] \in ListT /\ ListSame([list EXCEPT !.onlyOther = ~@])
    BY DEF ListT, ListSame
  <2> QED BY <1>1, <1>3, <2>1 DEF Invoices!ToggleOther
<1>4. CASE Invoices!SetSort
  <2> DEFINE dir == IF list.dir = "asc" THEN "desc" ELSE "asc"
             state == [list EXCEPT !.dir = dir, !.page = 1]
  <2>1. dir \in {"asc", "desc"}
    OBVIOUS
  <2>2. Invoices!Click(state)
    BY <1>4 DEF Invoices!SetSort
  <2> HIDE DEF dir
  <2>3. state \in ListT /\ ListSame(state)
    BY <2>1, ListChosen, <1>a
  <2> HIDE DEF state
  <2> QED BY <1>1, <2>2, <2>3
<1>5. CASE Invoices!SetPageSize
  <2> DEFINE size == 3 - list.size
             state == [list EXCEPT !.size = size, !.page = 1]
  <2>1. size \in {1, 2}
    BY DEF ListT
  <2>2. Invoices!Click(state)
    BY <1>5 DEF Invoices!SetPageSize
  <2> HIDE DEF size
  <2>3. state \in ListT /\ ListSame(state)
    BY <2>1, ListChosen, <1>a
  <2> HIDE DEF state
  <2> QED BY <1>1, <2>2, <2>3
<1>6. CASE Invoices!SetPage
  <2>1. PICK p \in Nat \ {0} : Invoices!Click([list EXCEPT !.page = p])
    BY <1>0, <1>6 DEF Invoices!SetPage
  <2> DEFINE state == [list EXCEPT !.page = p]
  <2>2. state \in ListT /\ ListSame(state)
    BY DEF ListT, ListSame
  <2> QED BY <1>1, <2>1, <2>2
<1>7. ASSUME NEW ids \in SUBSET Invoices!Ids, NEW marked \in SUBSET Invoices!Ids, ids \subseteq marked,
             Invoices!Click([list EXCEPT !.ids = ids, !.marked = marked])
      PROVE  G
  <2> DEFINE state == [list EXCEPT !.ids = ids, !.marked = marked]
  <2>1. state \in ListT /\ state.server = list.server /\ state.bulk = list.bulk /\ state.agreed = list.agreed
        /\ state.ids = ids /\ state.marked = marked
    BY DEF ListT
  <2> HIDE DEF state
  <2>2. list' \in ListT /\ list'.server = list.server /\ list'.bulk = list.bulk /\ list'.agreed = list.agreed
        /\ list'.ids = ids /\ list'.marked = marked
    BY <1>7, <2>1, ListClick DEF state
  <2> QED BY <1>7, <2>2 DEF SeenFirst, Invoices!DeletesOnlySeen
<1>c. list.ids \in SUBSET Invoices!Ids /\ list.marked \in SUBSET Invoices!Ids
  BY DEF ListT
<1>8. CASE Invoices!ToggleSelectAll \/ Invoices!ClearSelection
  <2> DEFINE all == Invoices!AllSelected
             ids == IF all THEN {} ELSE Invoices!Filtered
             marked == IF all THEN list.marked \ Invoices!Filtered ELSE list.marked \cup Invoices!Filtered
  <2>1. CASE Invoices!ToggleSelectAll
    <3>1. Invoices!Click([list EXCEPT !.ids = ids, !.marked = marked])
      BY <2>1 DEF Invoices!ToggleSelectAll
    <3>2. ids \in SUBSET Invoices!Ids /\ marked \in SUBSET Invoices!Ids /\ ids \subseteq marked
      BY <1>0, <1>c
    <3> HIDE DEF ids, marked
    <3> QED BY <1>7, <3>1, <3>2
  <2>2. CASE Invoices!ClearSelection
    <3>1. {} \in SUBSET Invoices!Ids /\ Invoices!Click([list EXCEPT !.ids = {}, !.marked = {}])
      BY <2>2 DEF Invoices!ClearSelection
    <3>2. \A e \in SUBSET Invoices!Ids : e = {} /\ Invoices!Click([list EXCEPT !.ids = e, !.marked = e]) => G
      BY <1>7
    <3> QED BY <3>1, <3>2
  <2> QED BY <1>8, <2>1, <2>2
<1>9. CASE Invoices!ToggleRow
  <2>1. PICK id \in Invoices!Paged : Invoices!Click([list EXCEPT
          !.ids = (IF id \in @ THEN @ \ {id} ELSE @ \cup {id}) \cap Invoices!Filtered,
          !.marked = IF id \in Invoices!EffectiveSelectedIds THEN @ \ {id} ELSE @ \cup {id}])
    BY <1>9 DEF Invoices!ToggleRow
  <2> DEFINE ids == (IF id \in list.ids THEN list.ids \ {id} ELSE list.ids \cup {id}) \cap Invoices!Filtered
             marked == IF id \in Invoices!EffectiveSelectedIds THEN list.marked \ {id} ELSE list.marked \cup {id}
  <2>2. id \in Invoices!Filtered /\ (id \in Invoices!EffectiveSelectedIds <=> id \in list.ids)
    BY DEF Invoices!Paged, Invoices!EffectiveSelectedIds
  <2>3. ids \in SUBSET Invoices!Ids /\ marked \in SUBSET Invoices!Ids /\ ids \subseteq marked
    BY <1>0, <1>c, <2>2 DEF SeenFirst
  <2>4. Invoices!Click([list EXCEPT !.ids = ids, !.marked = marked])
    BY <2>1
  <2> HIDE DEF ids, marked
  <2> QED BY <1>7, <2>3, <2>4
<1>10. CASE Invoices!AskDelete
  <2>1. PICK id \in Invoices!Ids : Invoices!Click([list EXCEPT !.pending = id])
    BY <1>0, <1>10 DEF Invoices!AskDelete
  <2> DEFINE state == [list EXCEPT !.pending = id]
  <2>2. state \in ListT /\ ListSame(state)
    BY DEF ListT, ListSame
  <2> QED BY <1>1, <2>1, <2>2
<1>11. CASE Invoices!ConfirmDelete
  <2> DEFINE state == [list EXCEPT !.one = [ids |-> {list.pending}, outcome |-> Sent]]
  <2>1. [ids |-> {list.pending}, outcome |-> Sent] \in DeletionT
    BY <1>11 DEF Invoices!ConfirmDelete, DeletionT, ListT
  <2>2. state \in ListT /\ ListSame(state)
    BY <2>1 DEF ListT, ListSame
  <2> QED BY <1>1, <1>11, <2>2 DEF Invoices!ConfirmDelete
<1>12. CASE Invoices!AskBulk
  <2> DEFINE state == [list EXCEPT !.bulkOpen = TRUE]
  <2>2. state \in ListT /\ ListSame(state)
    BY DEF ListT, ListSame
  <2> QED BY <1>1, <1>12, <2>2 DEF Invoices!AskBulk
<1>13. CASE Invoices!ConfirmBulk
  <2> DEFINE bulk == [ids |-> Invoices!EffectiveSelectedIds, outcome |-> Sent]
             agreed == list.marked \cap Invoices!Filtered
             state == [list EXCEPT !.bulk = bulk, !.agreed = agreed]
  <2>1. bulk \in DeletionT /\ bulk.ids = Invoices!EffectiveSelectedIds
    BY <1>0 DEF DeletionT
  <2>2. agreed \in SUBSET Invoices!Ids /\ Invoices!EffectiveSelectedIds \subseteq agreed
    BY <1>0, <1>c DEF SeenFirst, Invoices!EffectiveSelectedIds
  <2>3. Invoices!Click(state) /\ list.bulk = None
    BY <1>13 DEF Invoices!ConfirmBulk
  <2> HIDE DEF bulk, agreed
  <2>4. state \in ListT /\ state.bulk = bulk /\ state.agreed = agreed /\ state.ids = list.ids
        /\ state.marked = list.marked
    BY <2>1, <2>2 DEF ListT
  <2> HIDE DEF state
  <2>5. list' \in ListT /\ list'.bulk = bulk /\ list'.agreed = agreed /\ list'.ids = list.ids
        /\ list'.marked = list.marked
    BY <2>3, <2>4, ListClick
  <2> QED BY <2>1, <2>2, <2>3, <2>5 DEF SeenFirst, Invoices!DeletesOnlySeen
<1>14. CASE Invoices!Cancel
  <2> DEFINE state == [list EXCEPT !.pending = None, !.bulkOpen = FALSE]
  <2>2. state \in ListT /\ ListSame(state)
    BY DEF ListT, ListSame
  <2> QED BY <1>1, <1>14, <2>2 DEF Invoices!Cancel
<1>15. ASSUME NEW ids \in SUBSET Invoices!Ids, NEW ok \in BOOLEAN
       PROVE  Invoices!Without(ids, ok) \in RowsT
         /\ {id \in Invoices!Ids : list.server[id] # Invoices!Without(ids, ok)[id]} \subseteq ids
  BY DEF Invoices!Without, RowsT, ListT
<1>16. CASE Invoices!ServeDelete
  <2>1. PICK ok \in BOOLEAN : list' = [list EXCEPT
          !.server = Invoices!Without(list.one.ids, ok),
          !.one.outcome = IF ok THEN "ok" ELSE "refused"]
    BY <1>16 DEF Invoices!ServeDelete
  <2>2. list.one \in DeletionT /\ list.one # None
    BY <1>16 DEF Invoices!ServeDelete, ListT
  <2>3. [list.one EXCEPT !.outcome = IF ok THEN "ok" ELSE "refused"] \in DeletionT
    BY <2>2 DEF DeletionT
  <2>4. list.one.ids \in SUBSET Invoices!Ids
    BY <2>2 DEF DeletionT
  <2>5. /\ list' \in ListT /\ list'.bulk = list.bulk /\ list'.agreed = list.agreed
        /\ list'.ids = list.ids /\ list'.marked = list.marked
    BY <1>15, <2>1, <2>3, <2>4 DEF ListT
  <2> QED BY <2>5 DEF SeenFirst, Invoices!DeletesOnlySeen
<1>17. CASE Invoices!ServeBulk
  <2>1. PICK ok \in BOOLEAN : list' = [list EXCEPT
          !.server = Invoices!Without(list.bulk.ids, ok),
          !.bulk.outcome = IF ok THEN "ok" ELSE "refused"]
    BY <1>17 DEF Invoices!ServeBulk
  <2>2. list.bulk \in DeletionT /\ list.bulk # None
    BY <1>17 DEF Invoices!ServeBulk, ListT
  <2>3. [list.bulk EXCEPT !.outcome = IF ok THEN "ok" ELSE "refused"] \in DeletionT
    BY <2>2 DEF DeletionT
  <2>4. list.bulk.ids \in SUBSET Invoices!Ids
    BY <2>2 DEF DeletionT
  <2>5. /\ list' \in ListT /\ list'.bulk.ids = list.bulk.ids /\ list'.agreed = list.agreed
        /\ list'.ids = list.ids /\ list'.marked = list.marked
        /\ list'.server = Invoices!Without(list.bulk.ids, ok)
    <3> DEFINE rows == Invoices!Without(list.bulk.ids, ok)
               bulk == [list.bulk EXCEPT !.outcome = IF ok THEN "ok" ELSE "refused"]
    <3>1. bulk \in DeletionT /\ bulk.ids = list.bulk.ids
      BY <2>2, <2>3 DEF DeletionT
    <3>2. rows \in RowsT
      BY <1>15, <2>4
    <3>3. list' = [list EXCEPT !.server = rows, !.bulk = bulk]
      BY <2>1
    <3> HIDE DEF rows, bulk
    <3>4. list' \in ListT /\ list'.bulk = bulk /\ list'.agreed = list.agreed /\ list'.server = rows
          /\ list'.ids = list.ids /\ list'.marked = list.marked
      BY <3>1, <3>2, <3>3 DEF ListT
    <3> QED BY <3>1, <3>4 DEF rows
  <2> QED BY <1>15, <2>2, <2>4, <2>5 DEF SeenFirst, Invoices!DeletesOnlySeen
<1>18. CASE Invoices!Foreign
  <2>1. PICK after \in Invoices!ForeignChanges : list' = [after EXCEPT !.foreign = @ + 1]
    BY <1>18 DEF Invoices!Foreign
  <2>2. PICK rows \in RowsT, busy \in SUBSET {"a", "b"} : after = [list EXCEPT !.server = rows, !.busy = busy]
    <3> DEFINE Result(rows, busy) == [list EXCEPT !.server = rows, !.busy = busy]
    <3>0. list.server \in RowsT /\ list.busy \in SUBSET {"a", "b"}
      BY DEF ListT
    <3>1. CASE \E d \in {"a", "b"} : after = [list EXCEPT !.busy = @ \cup {d}]
      <4>1. PICK d \in {"a", "b"} : after = [list EXCEPT !.busy = @ \cup {d}]
        BY <3>1
      <4>2. after = Result(list.server, list.busy \cup {d})
        BY <4>1 DEF ListT
      <4> QED BY <3>0, <4>2
    <3>2. CASE \E d \in list.busy : after = [list EXCEPT !.busy = @ \ {d}]
      <4>1. PICK d \in list.busy : after = [list EXCEPT !.busy = @ \ {d}]
        BY <3>2
      <4>2. after = Result(list.server, list.busy \ {d})
        BY <4>1 DEF ListT
      <4> QED BY <3>0, <4>2
    <3>3. CASE \E d \in list.busy : after = [list EXCEPT !.busy = @ \ {d}, !.server = Invoices!Reparsed(d)]
      <4>1. PICK d \in list.busy : after = [list EXCEPT !.busy = @ \ {d}, !.server = Invoices!Reparsed(d)]
        BY <3>3
      <4>2. Invoices!Reparsed(d) \in RowsT
        BY <3>0 DEF Invoices!Reparsed, RowsT
      <4>3. after = Result(Invoices!Reparsed(d), list.busy \ {d})
        BY <4>1 DEF ListT
      <4> QED BY <3>0, <4>2, <4>3
    <3>4. CASE \E id \in Invoices!Ids, stage \in {"confirmed", "pending", "gone"} :
                 after = [list EXCEPT !.server[id] = stage]
      <4>1. PICK id \in Invoices!Ids, stage \in {"confirmed", "pending", "gone"} :
                 after = [list EXCEPT !.server[id] = stage]
        BY <3>4
      <4>2. [list.server EXCEPT ![id] = stage] \in RowsT
        BY <3>0 DEF RowsT
      <4>3. after = Result([list.server EXCEPT ![id] = stage], list.busy)
        BY <4>1 DEF ListT
      <4> QED BY <3>0, <4>2, <4>3
    <3>5. \/ \E d \in {"a", "b"} : after = [list EXCEPT !.busy = @ \cup {d}]
          \/ \E d \in list.busy : after = [list EXCEPT !.busy = @ \ {d}]
          \/ \E d \in list.busy : after = [list EXCEPT !.busy = @ \ {d}, !.server = Invoices!Reparsed(d)]
          \/ \E id \in Invoices!Ids : after = [list EXCEPT
                !.server[id] = IF @ = "confirmed" THEN "pending" ELSE "confirmed"]
          \/ \E id \in Invoices!Ids : after = [list EXCEPT !.server[id] = "gone"]
      BY DEF Invoices!ForeignChanges
    <3>6. CASE \E id \in Invoices!Ids : after = [list EXCEPT
                !.server[id] = IF @ = "confirmed" THEN "pending" ELSE "confirmed"]
      <4>1. PICK id \in Invoices!Ids : after = [list EXCEPT
                !.server[id] = IF @ = "confirmed" THEN "pending" ELSE "confirmed"]
        BY <3>6
      <4> DEFINE stage == IF list.server[id] = "confirmed" THEN "pending" ELSE "confirmed"
      <4>2. stage \in {"confirmed", "pending", "gone"} /\ after = [list EXCEPT !.server[id] = stage]
        BY <4>1
      <4> HIDE DEF stage
      <4> QED BY <3>4, <4>2
    <3> QED BY <3>1, <3>2, <3>3, <3>4, <3>5, <3>6
  <2>3. list.foreign + 1 \in Nat /\ after.foreign = list.foreign
    BY <2>2 DEF ListT
  <2>4. list' = [list EXCEPT !.server = rows, !.busy = busy, !.foreign = list.foreign + 1]
    BY <2>1, <2>2, <2>3 DEF ListT
  <2>5. list' \in ListT /\ list'.bulk = list.bulk /\ list'.agreed = list.agreed
        /\ list'.ids = list.ids /\ list'.marked = list.marked
    BY <2>3, <2>4 DEF ListT
  <2> QED BY <2>5 DEF SeenFirst, Invoices!DeletesOnlySeen
<1>19. CASE Invoices!AnswerDelete
  <2>1. list' \in ListT /\ ListSame(list')
    <3>1. CASE list' = [list EXCEPT !.one = None, !.pending = None, !.fetch = Sent]
      BY <3>1 DEF ListT, ListSame
    <3>2. CASE list' = [list EXCEPT !.one = None]
      BY <3>2 DEF ListT, ListSame
    <3> QED BY <1>19, <3>1, <3>2 DEF Invoices!AnswerDelete
  <2> QED BY <1>b, <2>1
<1>20. CASE Invoices!AnswerBulk
  <2>1. list' \in ListT /\ list'.bulk = None /\ SeenFirst(list')
    <3>1. CASE list' = [list EXCEPT !.bulk = None, !.bulkOpen = FALSE, !.ids = {}, !.marked = {}, !.fetch = Sent]
      BY <3>1 DEF ListT, SeenFirst
    <3>2. CASE list' = [list EXCEPT !.bulk = None]
      BY <3>2 DEF ListT, SeenFirst
    <3> QED BY <1>20, <3>1, <3>2 DEF Invoices!AnswerBulk
  <2> QED BY <2>1 DEF Invoices!DeletesOnlySeen
<1>21. CASE Invoices!Refetch \/ Invoices!Read \/ Invoices!Land \/ Invoices!PollDocuments
  <2>1. list' \in ListT /\ ListSame(list')
    <3>1. CASE Invoices!Refetch BY <3>1 DEF Invoices!Refetch, ListT, ListSame
    <3>2. CASE Invoices!Read BY <3>2 DEF Invoices!Read, ListT, ListSame
    <3>3. CASE Invoices!Land BY <3>3 DEF Invoices!Land, ListT, ListSame
    <3>4. CASE Invoices!PollDocuments BY <3>4 DEF Invoices!PollDocuments, ListT, ListSame
    <3> QED BY <1>21, <3>1, <3>2, <3>3, <3>4
  <2> QED BY <1>b, <2>1
<1> QED
  BY <1>2, <1>3, <1>4, <1>5, <1>6, <1>8, <1>9, <1>10, <1>11, <1>12, <1>13, <1>14, <1>16, <1>17, <1>18,
     <1>19, <1>20, <1>21
     DEF Invoices!Step

-----------------------------------------------------------------------------
(* The screens of an account (AccountScreens): new passwords, a new         *)
(* organisation, the list of users and the settings.                        *)

\* UsersTab: at most one reset is due of a user that nobody else's reset crossed.
ResetT == [user : {1, 2}, at : {Sent, "ok", "refused", "answered"}, password : Nat]
UsersT ==
  [screen : {"users"}, live : [{1, 2} -> Nat], made : Nat, asks : Seq(ResetT),
   shown : {None} \cup [user : {1, 2}, password : Nat], crossed : SUBSET {1, 2}, clicks : Nat]
\* At most one reset is due of a user that nobody else's reset crossed.
OneDue(a) ==
  \A k \in DOMAIN a.asks : a.asks[k].at # "answered" /\ a.asks[k].user \notin a.crossed => k = Len(a.asks)
\* The last reset that was carried out opens the account.
ResetsOpen(a) ==
  \A k \in DOMAIN a.asks : a.asks[k].at = "ok" /\ a.asks[k].user \notin a.crossed
     => a.live[a.asks[k].user] = a.asks[k].password
\* So does the password that is shown, and no other reset of its user is due.
ShownOpens(a) ==
  a.shown # None /\ a.shown.user \notin a.crossed
    => /\ a.live[a.shown.user] = a.shown.password
       /\ \A k \in DOMAIN a.asks : a.asks[k].user = a.shown.user => a.asks[k].at = "answered"
UsersSound(a) == a \in UsersT /\ OneDue(a) /\ ResetsOpen(a) /\ ShownOpens(a)

LEMMA UsersOpen == Account!OpenUsers => UsersSound(account')
<1> SUFFICES ASSUME Account!OpenUsers PROVE UsersSound(account')
  OBVIOUS
<1>1. <<0, 0>> \in [{1, 2} -> Nat]
  OBVIOUS
<1>2. account' \in UsersT
  BY <1>1 DEF Account!OpenUsers, UsersT
<1> QED BY <1>2 DEF Account!OpenUsers, UsersSound, OneDue, ResetsOpen, ShownOpens

LEMMA UsersKept == ASSUME UsersSound(account), Account!UsersStep PROVE UsersSound(account')
<1>0. /\ account \in UsersT /\ account.asks \in Seq(ResetT) /\ account.made + 1 \in Nat
      /\ account.clicks + 1 \in Nat
      /\ \A k \in DOMAIN account.asks : account.asks[k] \in ResetT
      /\ DOMAIN account.asks = 1..Len(account.asks) /\ Len(account.asks) \in Nat
  <2>1. account \in UsersT
    BY DEF UsersSound
  <2>2. account.asks \in Seq(ResetT)
    BY <2>1 DEF UsersT
  <2> QED BY <2>1, <2>2 DEF UsersT
<1>1. ASSUME NEW u \in {1, 2}, Account!HandleReset(u) PROVE UsersSound(account')
  <2> DEFINE ask == [user |-> u, at |-> Sent, password |-> 0]
             others == {d \in Account!Due : account.asks[d].user # u}
             crossed == account.crossed \cup {account.asks[k].user : k \in others}
  <2>1. account' = [account EXCEPT !.asks = Append(@, ask), !.crossed = crossed, !.clicks = @ + 1]
    BY <1>1 DEF Account!HandleReset, Account!Click
  <2>2. crossed \in SUBSET {1, 2} /\ account.crossed \subseteq crossed
    BY <1>0 DEF Account!Due, UsersT, ResetT
  <2>3. Append(account.asks, ask) \in Seq(ResetT)
    BY <1>0 DEF ResetT
  <2>4. ASSUME NEW k \in DOMAIN account.asks, account.asks[k].at # "answered",
          account.asks[k].user \notin crossed
        PROVE  FALSE
    <3>1. k \in Account!Due /\ account.asks[k].user = u
      BY <2>4 DEF Account!Due
    <3>2. k = Len(account.asks)
      BY <2>2, <2>4 DEF UsersSound, OneDue
    <3> QED BY <1>1, <3>1, <3>2 DEF Account!HandleReset, Account!Loading, Account!Last
  <2> HIDE DEF crossed, others
  <2>5. account' \in UsersT /\ account'.shown = None /\ account'.crossed = crossed
          /\ account'.live = account.live
        /\ account'.asks = Append(account.asks, ask)
    BY <1>0, <1>1, <2>1, <2>2, <2>3 DEF UsersT, Account!HandleReset
  <2>6. /\ DOMAIN account'.asks = 1..(Len(account.asks) + 1) /\ Len(account'.asks) = Len(account.asks) + 1
        /\ account'.asks[Len(account.asks) + 1] = ask
        /\ \A k \in DOMAIN account.asks : account'.asks[k] = account.asks[k]
    BY <1>0, <2>3, <2>5
  <2> HIDE DEF ask
  <2>7. OneDue(account')
    BY <1>0, <2>4, <2>5, <2>6 DEF OneDue
  <2>8. ask.at # "ok"
    BY ValuesAssumption DEF ask
  <2>9. ResetsOpen(account')
    BY <1>0, <2>4, <2>5, <2>6, <2>8 DEF ResetsOpen
  <2> QED BY <2>5, <2>7, <2>9 DEF UsersSound, ShownOpens
<1>2. CASE Account!CloseReset
  <2>1. account' \in UsersT /\ account'.shown = None /\ account'.asks = account.asks
          /\ account'.crossed = account.crossed
        /\ account'.live = account.live
    BY <1>0, <1>2 DEF Account!CloseReset, Account!Click, UsersT
  <2> QED BY <2>1 DEF UsersSound, OneDue, ResetsOpen, ShownOpens
<1>3. ASSUME NEW k \in Account!Due PROVE k \in DOMAIN account.asks /\ account.asks[k] \in ResetT
  BY <1>0 DEF Account!Due
\* Only how far the k-th reset is changes, and the password of its user.
<1>4. ASSUME NEW k \in Account!Due, NEW at \in {"ok", "refused"}, NEW changed \in BOOLEAN,
        account.asks[k].at = Sent,
             account' \in UsersT, account'.crossed = account.crossed, account'.shown = account.shown,
             DOMAIN account'.asks = DOMAIN account.asks,
             \A j \in DOMAIN account.asks : j # k => account'.asks[j] = account.asks[j],
             account'.asks[k].user = account.asks[k].user, account'.asks[k].at = at,
             \A v \in {1, 2} : v # account.asks[k].user => account'.live[v] = account.live[v],
             at = "ok" => account'.live[account.asks[k].user] = account'.asks[k].password
      PROVE  UsersSound(account')
  <2>0. k \in DOMAIN account.asks /\ account.asks[k].user \in {1, 2} /\ Sent # "answered"
    BY <1>3, ValuesAssumption DEF ResetT
  <2>a. Len(account'.asks) = Len(account.asks)
    <3>1. account'.asks \in Seq(ResetT)
      BY <1>4 DEF UsersT
    <3> QED BY <1>0, <1>4, <3>1
  <2>1. OneDue(account')
    BY <1>4, <2>0, <2>a DEF OneDue, UsersSound
  <2>2. ResetsOpen(account')
    <3> SUFFICES ASSUME NEW j \in DOMAIN account'.asks, account'.asks[j].at = "ok",
          account'.asks[j].user \notin account'.crossed
                 PROVE  account'.live[account'.asks[j].user] = account'.asks[j].password
      BY DEF ResetsOpen
    <3>1. CASE j = k
      BY <1>4, <3>1
    <3>2. CASE j # k
      <4>1. account.asks[j].at = "ok" /\ account.asks[j].user \notin account.crossed
              /\ account.asks[j].user \in {1, 2}
        BY <1>0, <1>4, <3>2 DEF ResetT
      <4>2. account.asks[j].user # account.asks[k].user
        BY <1>4, <2>0, <3>2, <4>1 DEF UsersSound, OneDue
      <4> QED BY <1>4, <3>2, <4>1, <4>2 DEF UsersSound, ResetsOpen
    <3> QED BY <3>1, <3>2
  <2>3. ShownOpens(account')
    <3> SUFFICES ASSUME account.shown # None, account.shown.user \notin account.crossed
                 PROVE  /\ account'.live[account.shown.user] = account.shown.password
                        /\ \A j \in DOMAIN account.asks :
                           account'.asks[j].user = account.shown.user => account'.asks[j].at = "answered"
      BY <1>4 DEF ShownOpens
    <3>1. account.shown.user \in {1, 2}
      BY <1>0 DEF UsersT
    <3>2. account.asks[k].user # account.shown.user
      BY <1>4, <2>0 DEF UsersSound, ShownOpens
    <3> QED BY <1>4, <3>1, <3>2 DEF UsersSound, ShownOpens
  <2> QED BY <1>4, <2>1, <2>2, <2>3 DEF UsersSound
<1>5. ASSUME NEW k \in Account!Due, Account!Reset(k) PROVE UsersSound(account')
  <2> DEFINE u == account.asks[k].user
             live == [account.live EXCEPT ![u] = account.made + 1]
  <2>1. u \in {1, 2} /\ k \in DOMAIN account.asks
    BY <1>3 DEF ResetT
  <2>2. live \in [{1, 2} -> Nat]
    BY <1>0, <2>1 DEF UsersT
  <2>3. ASSUME NEW at \in {"ok", "refused"} PROVE [account.asks EXCEPT ![k].at = at] \in Seq(ResetT)
    BY <1>0, <1>3 DEF ResetT
  <2>4. ASSUME NEW asks \in Seq(ResetT)
        PROVE  /\ [account EXCEPT !.made = @ + 1, !.live = live, !.asks = asks] \in UsersT
               /\ [account EXCEPT !.asks = asks] \in UsersT
    BY <1>0, <2>2 DEF UsersT
  <2> DEFINE ok == [account.asks EXCEPT ![k].at = "ok", ![k].password = account.made + 1]
             refused == [account.asks EXCEPT ![k].at = "refused"]
  <2>5. ok \in Seq(ResetT) /\ refused \in Seq(ResetT)
    <3>1. [account.asks[k] EXCEPT !.at = "ok", !.password = account.made + 1] \in ResetT
      BY <1>0, <1>3 DEF ResetT
    <3>2. ok = [account.asks EXCEPT ![k] = [account.asks[k] EXCEPT !.at = "ok",
            !.password = account.made + 1]]
      BY <1>0, <2>1
    <3> QED BY <1>0, <2>1, <2>3, <3>1, <3>2
  <2>6. \/ account' = [account EXCEPT !.made = @ + 1, !.live = live, !.asks = ok]
        \/ account' = [account EXCEPT !.made = @ + 1, !.live = live, !.asks = refused]
        \/ account' = [account EXCEPT !.asks = refused]
    BY <1>5, ZenonT(40) DEF Account!Reset
  <2>7. account.asks[k].at = Sent
    BY <1>5 DEF Account!Reset
  <2>8. /\ account' \in UsersT /\ account'.crossed = account.crossed /\ account'.shown = account.shown
        /\ (account'.asks = ok /\ account'.live = live)
           \/ (account'.asks = refused /\ account'.live \in {live, account.live})
    <3> HIDE DEF live, ok, refused
    <3> QED BY <1>0, <2>4, <2>5, <2>6 DEF UsersT
  <2>9. /\ DOMAIN ok = DOMAIN account.asks /\ DOMAIN refused = DOMAIN account.asks
        /\ \A j \in DOMAIN account.asks : j # k => ok[j] = account.asks[j] /\ refused[j] = account.asks[j]
        /\ ok[k].user = u /\ ok[k].at = "ok" /\ ok[k].password = account.made + 1
        /\ refused[k].user = u /\ refused[k].at = "refused"
    BY <1>0, <1>3, <2>1 DEF ResetT
  <2>10. live[u] = account.made + 1 /\ \A v \in {1, 2} : v # u => live[v] = account.live[v]
    BY <1>0, <2>1 DEF UsersT
  <2>11. CASE account'.asks = ok /\ account'.live = live
    <3> HIDE DEF live, ok, refused
    <3> QED BY <1>4, <2>7, <2>8, <2>9, <2>10, <2>11
  <2>12. CASE account'.asks = refused /\ account'.live \in {live, account.live}
    <3> HIDE DEF live, ok, refused
    <3> QED BY <1>4, <2>7, <2>8, <2>9, <2>10, <2>12
  <2> QED BY <2>8, <2>11, <2>12
<1>6. ASSUME NEW k \in Account!Due, Account!AnswerReset(k) PROVE UsersSound(account')
  <2> DEFINE a == account.asks[k]
             asks == [account.asks EXCEPT ![k].at = "answered"]
             new == [user |-> a.user, password |-> a.password]
  <2>1. k \in DOMAIN account.asks /\ a \in ResetT
    BY <1>3
  <2>2. asks \in Seq(ResetT) /\ new \in [user : {1, 2}, password : Nat]
    BY <1>0, <2>1 DEF ResetT
  <2>3. /\ DOMAIN asks = DOMAIN account.asks /\ Len(asks) = Len(account.asks)
        /\ \A j \in DOMAIN account.asks : j # k => asks[j] = account.asks[j]
        /\ asks[k].user = a.user /\ asks[k].at = "answered"
    BY <1>0, <2>1 DEF ResetT
  <2>4. \/ a.at = "ok" /\ account' = [account EXCEPT !.asks = asks, !.shown = new]
        \/ a.at = "refused" /\ account' = [account EXCEPT !.asks = asks]
    BY <1>6 DEF Account!AnswerReset
  <2>5. new # None => new.user = a.user /\ new.password = a.password
    OBVIOUS
  <2> HIDE DEF asks, new
  <2>6. /\ account' \in UsersT /\ account'.crossed = account.crossed /\ account'.live = account.live
        /\ account'.asks = asks
        /\ (a.at = "ok" /\ account'.shown = new) \/ account'.shown = account.shown
    BY <1>0, <2>2, <2>4 DEF UsersT
  <2>7. OneDue(account')
    BY <2>3, <2>6 DEF UsersSound, OneDue
  <2>8. ResetsOpen(account')
    BY <2>3, <2>6 DEF UsersSound, ResetsOpen
  <2>9. ShownOpens(account')
    <3>1. CASE a.at = "ok" /\ account'.shown = new
      <4> SUFFICES ASSUME a.user \notin account.crossed
                   PROVE  /\ account.live[a.user] = a.password
                          /\ \A j \in DOMAIN account.asks : asks[j].user = a.user => asks[j].at = "answered"
        BY <2>3, <2>5, <2>6, <3>1 DEF ShownOpens
      <4>1. ASSUME NEW j \in DOMAIN account.asks, asks[j].user = a.user, asks[j].at # "answered" PROVE FALSE
        <5>1. j # k /\ account.asks[j].at # "answered" /\ account.asks[j].user = a.user
          BY <2>3, <4>1
        <5> QED BY <2>1, <3>1, <5>1 DEF UsersSound, OneDue
      <4> QED BY <2>1, <3>1, <4>1 DEF UsersSound, ResetsOpen
    <3>2. CASE account'.shown = account.shown
      BY <2>3, <2>6, <3>2 DEF UsersSound, ShownOpens
    <3> QED BY <2>6, <3>1, <3>2
  <2> QED BY <2>6, <2>7, <2>8, <2>9 DEF UsersSound
<1> QED BY <1>1, <1>2, <1>5, <1>6 DEF Account!UsersStep

\* AdminOrgCreate: an organisation whose first user is not there yet is the last one.
Underway == {"org_ok", "user", "user_ok", "done"}
NewT == [name : Nat, password : {None} \cup Nat]
OrgT ==
  [screen : {"org"}, name : Nat, password : Nat,
   stage : {"form", "org", "org_ok", "user", "user_ok", "refused", "done"},
   sent : {None} \cup [name : Nat, password : Nat], orgs : Seq(NewT), failed : SUBSET Nat,
   retyped : BOOLEAN, clicks : Nat]
OrgSound(a) ==
  /\ a \in OrgT
  /\ a.stage # "form" => a.sent \in [name : Nat, password : Nat]
  /\ a.stage \notin {"form", "refused"} /\ ~a.retyped => a.sent.password = a.password
  /\ a.stage \in Underway => a.orgs # <<>> /\ a.orgs[Len(a.orgs)].name = a.sent.name
  /\ a.stage \in {"user_ok", "done"} => a.orgs[Len(a.orgs)].password = a.sent.password
  /\ \A i \in DOMAIN a.orgs : a.orgs[i].name \in a.failed \/ (a.stage \in Underway /\ i = Len(a.orgs))

LEMMA OrgOpen == Account!OpenOrgCreate => OrgSound(account')
<1> SUFFICES ASSUME Account!OpenOrgCreate PROVE OrgSound(account')
  OBVIOUS
<1>1. account' \in OrgT
  BY DEF Account!OpenOrgCreate, OrgT
<1> QED BY <1>1 DEF Account!OpenOrgCreate, OrgSound, Underway

LEMMA OrgKept == ASSUME OrgSound(account), Account!OrgStep PROVE OrgSound(account')
<1>0. /\ account \in OrgT /\ account.orgs \in Seq(NewT) /\ account.clicks + 1 \in Nat
      /\ account.name + 1 \in Nat /\ account.password + 1 \in Nat
      /\ DOMAIN account.orgs = 1..Len(account.orgs) /\ Len(account.orgs) \in Nat
  <2>1. account \in OrgT
    BY DEF OrgSound
  <2>2. account.orgs \in Seq(NewT)
    BY <2>1 DEF OrgT
  <2> QED BY <2>1, <2>2 DEF OrgT
<1>1. CASE Account!TypeName
  <2>1. account' = [account EXCEPT !.name = @ + 1, !.clicks = @ + 1]
    BY <1>1 DEF Account!TypeName, Account!Click
  <2> QED BY <1>0, <2>1 DEF OrgSound, OrgT
<1>2. CASE Account!NewPassword
  <2> DEFINE retyped == IF Account!Submitting THEN TRUE ELSE account.retyped
  <2>1. account' = [account EXCEPT !.password = @ + 1, !.retyped = retyped, !.clicks = @ + 1]
    BY <1>0, <1>2 DEF Account!NewPassword, Account!Typing, Account!Click, OrgT
  <2>2. retyped \in BOOLEAN
    BY <1>0 DEF OrgT
  <2>3. account.stage # "form" => retyped
    BY DEF Account!Submitting
  <2> HIDE DEF retyped
  <2>4. account' \in OrgT /\ (account'.retyped <=> retyped) /\ account'.stage = account.stage
          /\ account'.sent = account.sent
        /\ account'.orgs = account.orgs /\ account'.failed = account.failed
    BY <1>0, <2>1, <2>2 DEF OrgT
  <2> QED BY <1>2, <2>3, <2>4 DEF OrgSound, Account!NewPassword, Underway
<1>3. CASE Account!HandleSubmit
  <2> DEFINE sent == [name |-> account.name, password |-> account.password]
  <2>1. account' = [account EXCEPT !.stage = "org", !.retyped = FALSE, !.sent = sent, !.clicks = @ + 1]
    BY <1>3 DEF Account!HandleSubmit, Account!Click
  <2>2. sent \in [name : Nat, password : Nat]
    BY <1>0 DEF OrgT
  <2>3. account.stage = "form"
    BY <1>3 DEF Account!HandleSubmit, Account!Submitting
  <2>4. account' \in OrgT /\ account'.stage = "org" /\ account'.sent = sent
          /\ account'.password = account.password
        /\ account'.orgs = account.orgs /\ account'.failed = account.failed
    BY <1>0, <2>1, <2>2 DEF OrgT
  <2> QED BY <2>2, <2>3, <2>4 DEF OrgSound, Underway
<1>4. CASE Account!CreateOrg
  <2> DEFINE new == [name |-> account.sent.name, password |-> None]
             orgs == Append(account.orgs, new)
             without == account.failed \cup {account.sent.name}
  <2>0. account.stage = "org" /\ account.sent \in [name : Nat, password : Nat]
    BY <1>4 DEF Account!CreateOrg, OrgSound
  <2>1. \/ account' = [account EXCEPT !.orgs = orgs, !.stage = "org_ok"]
        \/ account' = [account EXCEPT !.orgs = orgs, !.stage = "refused", !.failed = without]
        \/ account' = [account EXCEPT !.stage = "refused"]
    BY <1>4 DEF Account!CreateOrg
  <2>2. orgs \in Seq(NewT) /\ without \in SUBSET Nat
    BY <1>0, <2>0 DEF NewT, OrgT
  <2>3. /\ DOMAIN orgs = 1..(Len(account.orgs) + 1) /\ Len(orgs) = Len(account.orgs) + 1 /\ orgs # <<>>
        /\ orgs[Len(account.orgs) + 1].name = account.sent.name
        /\ \A i \in DOMAIN account.orgs : orgs[i] = account.orgs[i]
    <3>1. new.name = account.sent.name /\ new \in NewT
      BY <2>0 DEF NewT
    <3> HIDE DEF new
    <3> QED BY <1>0, <3>1
  <2>4. account' \in OrgT /\ account'.sent = account.sent /\ account'.password = account.password
        /\ (account'.retyped <=> account.retyped)
    <3> HIDE DEF orgs, without
    <3> QED BY <1>0, <2>1, <2>2 DEF OrgT
  <2>5. \/ account'.orgs = orgs /\ account'.stage = "org_ok" /\ account'.failed = account.failed
        \/ account'.orgs = orgs /\ account'.stage = "refused" /\ account'.failed = without
        \/ account'.orgs = account.orgs /\ account'.stage = "refused" /\ account'.failed = account.failed
    <3> HIDE DEF orgs, without
    <3> QED BY <1>0, <2>1 DEF OrgT
  <2>6. \A i \in DOMAIN account.orgs : account.orgs[i].name \in account.failed
    BY <2>0 DEF OrgSound, Underway
  <2>7. CASE account'.orgs = orgs /\ account'.stage = "org_ok" /\ account'.failed = account.failed
    <3> HIDE DEF orgs, without
    <3> QED BY <1>0, <2>0, <2>3, <2>4, <2>6, <2>7 DEF OrgSound, Underway
  <2>8. CASE account'.orgs = orgs /\ account'.stage = "refused" /\ account'.failed = without
    <3>1. \A i \in DOMAIN orgs : orgs[i].name \in without
      <4> HIDE DEF orgs
      <4> QED BY <1>0, <2>3, <2>6
    <3> HIDE DEF orgs, without
    <3> QED BY <2>0, <2>4, <2>8, <3>1 DEF OrgSound, Underway
  <2>9. CASE account'.orgs = account.orgs /\ account'.stage = "refused" /\ account'.failed = account.failed
    BY <2>0, <2>4, <2>6, <2>9 DEF OrgSound, Underway
  <2> QED BY <2>5, <2>7, <2>8, <2>9
<1>5. CASE Account!ThenUser
  <2>1. account' \in OrgT
    BY <1>0, <1>5 DEF Account!ThenUser, OrgT
  <2> QED BY <1>0, <1>5, <2>1 DEF Account!ThenUser, OrgSound, OrgT, Underway
<1>6. CASE Account!CreateUser
  <2> DEFINE n == Len(account.orgs)
             orgs == [account.orgs EXCEPT ![n].password = account.sent.password]
             without == account.failed \cup {account.sent.name}
  <2>0. /\ account.stage = "user" /\ account.sent \in [name : Nat, password : Nat] /\ account.orgs # <<>>
        /\ account.orgs[n].name = account.sent.name
    BY <1>6 DEF Account!CreateUser, OrgSound, Underway
  <2>1. \/ account' = [account EXCEPT !.orgs = orgs, !.stage = "user_ok"]
        \/ account' = [account EXCEPT !.orgs = orgs, !.stage = "refused", !.failed = without]
        \/ account' = [account EXCEPT !.stage = "refused", !.failed = without]
    BY <1>6 DEF Account!CreateUser
  <2>2. n \in DOMAIN account.orgs /\ account.orgs[n] \in NewT
    BY <1>0, <2>0
  <2>3. orgs \in Seq(NewT) /\ without \in SUBSET Nat
    <3>1. [account.orgs[n] EXCEPT !.password = account.sent.password] \in NewT
      BY <2>0, <2>2 DEF NewT
    <3> QED BY <1>0, <2>0, <2>2, <3>1 DEF OrgT
  <2>4. /\ DOMAIN orgs = DOMAIN account.orgs /\ Len(orgs) = n /\ orgs # <<>>
        /\ orgs[n].password = account.sent.password
        /\ \A i \in DOMAIN account.orgs : orgs[i].name = account.orgs[i].name
    BY <1>0, <2>2 DEF NewT
  <2>5. account' \in OrgT /\ account'.sent = account.sent /\ account'.password = account.password
        /\ (account'.retyped <=> account.retyped)
    <3> HIDE DEF orgs, without
    <3> QED BY <1>0, <2>1, <2>3 DEF OrgT
  <2>6. \/ account'.orgs = orgs /\ account'.stage = "user_ok" /\ account'.failed = account.failed
        \/ account'.orgs \in {orgs, account.orgs} /\ account'.stage = "refused" /\ account'.failed = without
    <3> HIDE DEF orgs, without
    <3> QED BY <1>0, <2>1 DEF OrgT
  <2>7. \A i \in DOMAIN account.orgs : account.orgs[i].name \in without
    BY <2>0 DEF OrgSound
  <2>8. CASE account'.orgs = orgs /\ account'.stage = "user_ok" /\ account'.failed = account.failed
    <3> HIDE DEF orgs, without
    <3> QED BY <1>0, <2>0, <2>2, <2>4, <2>5, <2>8 DEF OrgSound, Underway
  <2>9. CASE account'.orgs \in {orgs, account.orgs} /\ account'.stage = "refused" /\ account'.failed = without
    <3> HIDE DEF orgs, without
    <3> QED BY <1>0, <2>0, <2>4, <2>5, <2>7, <2>9 DEF OrgSound, Underway
  <2> QED BY <2>6, <2>8, <2>9
<1>7. CASE Account!AnswerCreate
  <2>1. account' \in OrgT
    BY <1>0, <1>7 DEF Account!AnswerCreate, OrgT
  <2> QED BY <1>0, <1>7, <2>1 DEF Account!AnswerCreate, OrgSound, OrgT, Underway
<1> QED BY <1>1, <1>2, <1>3, <1>4, <1>5, <1>6, <1>7 DEF Account!OrgStep

\* AdminUsers: the page is the first one while a search is still to follow the keystroke.
PagesT ==
  [screen : {"list"}, input : {"all", "a"}, search : {"all", "a"}, page : 1..3,
    have : SUBSET ({"all", "a"} \X (1..3)),
   early : BOOLEAN, clicks : Nat]
PagesSound(a) ==
  /\ a \in PagesT
  /\ ~a.early => IF a.input = a.search THEN a.page \in 1..Account!TotalPages(a.search) ELSE a.page = 1

LEMMA PagesOpen == Account!OpenList => PagesSound(account')
BY DEF Account!OpenList, PagesSound, PagesT, Account!TotalPages

LEMMA PagesKept == ASSUME PagesSound(account), Account!ListStep PROVE PagesSound(account')
<1>0. account \in PagesT /\ account.clicks + 1 \in Nat
  BY DEF PagesSound, PagesT
<1>1. ASSUME NEW q \in {"all", "a"}, Account!HandleSearchChange(q) PROVE PagesSound(account')
  <2>1. account' = [account EXCEPT !.input = q, !.page = 1, !.early = FALSE, !.clicks = @ + 1]
    BY <1>1 DEF Account!HandleSearchChange, Account!Click
  <2>2. 1 \in 1..3
    OBVIOUS
  <2>3. account' \in PagesT /\ account'.page = 1
    BY <1>0, <2>1, <2>2 DEF PagesT
  <2> QED BY <2>3 DEF PagesSound, Account!TotalPages
<1>2. CASE Account!Debounced
  <2>1. account' \in PagesT /\ account'.page = account.page /\ account'.search = account.input
          /\ account'.input = account.input
        /\ (account'.early <=> account.early)
    BY <1>0, <1>2 DEF Account!Debounced, PagesT
  <2> QED BY <1>2, <2>1 DEF PagesSound, Account!TotalPages, Account!Debounced
<1>3. CASE Account!TurnPage
  <2> DEFINE early == account.early \/ account.input # account.search
  <2>1. PICK p \in 1..Account!TotalPages(account.search) :
          Account!Click([account EXCEPT !.page = p, !.early = early])
    BY <1>3 DEF Account!TurnPage
  <2>2. p \in 1..3
    BY DEF Account!TotalPages
  <2>3. early \in BOOLEAN
    OBVIOUS
  <2>4. account' \in PagesT /\ account'.page = p /\ account'.search = account.search
          /\ account'.input = account.input
        /\ (account'.early <=> early)
    <3> HIDE DEF early
    <3>1. account' = [account EXCEPT !.page = p, !.early = early, !.clicks = @ + 1]
      BY <2>1 DEF Account!Click
    <3> QED BY <1>0, <2>2, <2>3, <3>1 DEF PagesT
  <2> QED BY <2>4 DEF PagesSound
<1>4. CASE Account!Fetched
  <2>1. <<account.search, account.page>> \in {"all", "a"} \X (1..3)
    BY <1>0 DEF PagesT
  <2>2. account' \in PagesT /\ account'.page = account.page /\ account'.search = account.search
        /\ account'.input = account.input /\ (account'.early <=> account.early)
    BY <1>0, <1>4, <2>1 DEF Account!Fetched, PagesT
  <2> QED BY <2>2 DEF PagesSound
<1> QED BY <1>1, <1>2, <1>3, <1>4 DEF Account!ListStep

\* SettingsPage, as long as the others leave the settings alone.
SettingValues == {"old", "new", "padded", "high", "other"}
KeptT == [Account!Fields -> {"old", "new", "high", "other"}]
CopyT == {o \in [Account!Fields -> SettingValues] : o["threshold"] # "padded"}
SettingsT ==
  [screen : {"settings"}, mayEdit : BOOLEAN, server : KeptT, data : KeptT, fetch : {None, Sent} \cup KeptT,
   overrides : {None} \cup CopyT,
   save : [at : {Sent, "ok", "refused", "answered"}, ok : BOOLEAN,
           input : {<<>>} \cup UNION {[F -> SettingValues] : F \in SUBSET Account!Fields}],
   typed : SUBSET Account!Fields, since : SUBSET Account!Fields, stale : BOOLEAN, foreign : Nat, clicks : Nat]

\* What was never typed is as it was.
UntypedOld(a) ==
  \A f \in Account!Fields \ a.typed :
    /\ a.server[f] = "old" /\ a.data[f] = "old" /\ (a.fetch \notin {None, Sent} => a.fetch[f] = "old")
    /\ (a.overrides # None => a.overrides[f] = "old")
    /\ (a.save.at = Sent => f \notin DOMAIN a.save.input)
\* After an answer the settings are fetched anew.
FetchedBack(a) ==
  a.save.at = "answered" /\ a.save.ok
    => (a.fetch = None => a.data = a.server) /\ (a.fetch \notin {None, Sent} => a.fetch = a.server)
\* What was sent, as long as the copy is as it was sent.
SentStays(a) ==
  a.overrides # None /\ a.since = {} =>
    /\ a.save.at = Sent => \A f \in DOMAIN a.save.input : a.save.input[f] = a.overrides[f]
    /\ a.save.at \in {"ok", "answered"} /\ a.save.ok
       => \A f \in DOMAIN a.save.input : a.server[f] = Account!Stored(a.overrides[f])
\* A copy that was never typed into before a save was fetched back.
CopyCurrent(a) ==
  a.overrides # None /\ ~a.stale =>
    /\ \A f \in Account!Fields : a.overrides[f] = a.data[f] => a.overrides[f] = a.server[f]
    /\ a.fetch \notin {None, Sent} => \A f \in Account!Fields :
       a.overrides[f] = a.fetch[f] => a.overrides[f] = a.server[f]
    /\ a.save.at = Sent => \A f \in Account!Fields :
         IF f \in DOMAIN a.save.input THEN a.save.input[f] = a.overrides[f] ELSE a.overrides[f] = a.server[f]
    /\ a.save.at \in {"ok", "answered"} /\ a.save.ok /\ a.since = {} /\ a.overrides["model"] # "padded"
       => \A f \in Account!Fields : a.overrides[f] = a.server[f]
SettingsSound(a) ==
  /\ a \in SettingsT
  /\ ~a.mayEdit => "model" \notin a.typed
  /\ a.save.at \in {Sent, "refused"} => ~a.save.ok
  /\ DOMAIN a.save.input \subseteq Account!Fields
  /\ a.foreign = 0 => UntypedOld(a) /\ FetchedBack(a) /\ SentStays(a) /\ CopyCurrent(a)

LEMMA SettingsOpen == Account!OpenSettings => SettingsSound(account')
<1> SUFFICES ASSUME Account!OpenSettings PROVE SettingsSound(account')
  OBVIOUS
<1> DEFINE first == [f \in Account!Fields |-> "old"]
           save == [at |-> "answered", ok |-> FALSE, input |-> <<>>]
<1>1. PICK mayEdit \in BOOLEAN :
    account' = [screen |-> "settings", mayEdit |-> mayEdit, server |-> first, data |-> first, fetch |-> None,
                overrides |-> None, save |-> save,
               typed |-> {}, since |-> {}, stale |-> FALSE, foreign |-> 0, clicks |-> 0]
  BY DEF Account!OpenSettings
<1>2. first \in KeptT /\ \A f \in Account!Fields : first[f] = "old"
  BY DEF KeptT
<1>3. save \in [at : {Sent, "ok", "refused", "answered"}, ok : BOOLEAN,
           input : {<<>>} \cup UNION {[F -> SettingValues] : F \in SUBSET Account!Fields}]
      /\ save.at = "answered" /\ ~save.ok /\ save.at # Sent /\ DOMAIN save.input = {}
  BY ValuesAssumption
<1> HIDE DEF first, save
<1>4. account' \in SettingsT
  BY <1>1, <1>2, <1>3 DEF SettingsT
<1> QED BY <1>1, <1>2, <1>3, <1>4 DEF SettingsSound, UntypedOld, FetchedBack, SentStays, CopyCurrent

LEMMA SettingsTypes ==
  ASSUME account \in SettingsT
  PROVE  /\ account.server \in KeptT /\ account.data \in KeptT /\ account.clicks + 1 \in Nat
         /\ account.foreign + 1 \in Nat \ {0}
         /\ account.fetch \in {None, Sent} \cup KeptT
         /\ account.overrides \in {None} \cup CopyT /\ Account!Draft \in CopyT
         /\ Account!Fields = {"model", "threshold"}
         /\ KeptT \subseteq CopyT
<1>1. KeptT \subseteq CopyT
  BY DEF KeptT, CopyT, SettingValues, Account!Fields
<1> QED BY <1>1 DEF SettingsT, Account!Draft, Account!Fields

LEMMA SettingsKept == ASSUME SettingsSound(account), Account!SettingsStep PROVE SettingsSound(account')
<1>0. account \in SettingsT
  BY DEF SettingsSound
<1>a. /\ account.server \in KeptT /\ account.data \in KeptT /\ account.clicks + 1 \in Nat
      /\ account.foreign + 1 \in Nat \ {0}
      /\ account.fetch \in {None, Sent} \cup KeptT
      /\ account.overrides \in {None} \cup CopyT /\ Account!Draft \in CopyT
      /\ Account!Fields = {"model", "threshold"}
  BY <1>0, SettingsTypes
<1>1. ASSUME NEW f \in Account!Fields, NEW v \in {"old", "new", "padded", "high"},
        f = "model" => account.mayEdit,
             f = "threshold" => v # "padded", Account!SetOverride(f, v)
      PROVE  SettingsSound(account')
  <2> DEFINE copy == [Account!Draft EXCEPT ![f] = v]
             unsettled == account.save.at # "answered" \/ account.fetch # None
               \/ account.data # account.server
             stale == unsettled \/ (account.overrides # None /\ account.stale)
  <2>1. account' = [account EXCEPT !.overrides = copy, !.typed = @ \cup {f}, !.since = @ \cup {f},
          !.stale = stale,
                      !.clicks = @ + 1]
    BY <1>1 DEF Account!SetOverride, Account!Click
  <2>2. copy \in CopyT /\ stale \in BOOLEAN
    BY <1>1, <1>a DEF CopyT, SettingValues
  <2>3. \A g \in Account!Fields : g # f => copy[g] = Account!Draft[g]
    BY <1>a DEF CopyT
  <2>n. copy # None => copy \in CopyT
    BY <2>2
  <2> HIDE DEF copy, stale
  <2>4. /\ account' \in SettingsT /\ account'.overrides = copy /\ account'.since = account.since \cup {f}
        /\ account'.typed = account.typed \cup {f} /\ (account'.stale <=> stale)
           /\ account'.save = account.save
        /\ account'.fetch = account.fetch /\ account'.data = account.data /\ account'.server = account.server
        /\ account'.foreign = account.foreign /\ (account'.mayEdit <=> account.mayEdit)
    BY <1>a, <1>0, <2>1, <2>2 DEF SettingsT
  <2>5. account.foreign = 0 => UntypedOld(account')
    BY <1>a, <2>3, <2>4 DEF SettingsSound, UntypedOld, Account!Draft
  <2>6. account.foreign = 0 => FetchedBack(account')
    BY <2>4 DEF SettingsSound, FetchedBack
  <2>7. SentStays(account')
    BY <2>4 DEF SentStays
  <2>8. CopyCurrent(account')
    <3>1. ~stale => account.save.at = "answered" /\ account.fetch = None /\ account.data = account.server
      BY DEF stale
    <3> QED BY <2>4, <3>1, ValuesAssumption DEF CopyCurrent
  <2> QED BY <1>1, <2>4, <2>5, <2>6, <2>7, <2>8 DEF SettingsSound
<1>2. CASE Account!EditModel
  <2>1. PICK v \in {"old", "new", "padded"} : Account!SetOverride("model", v)
    BY <1>2 DEF Account!EditModel
  <2> QED BY <1>1, <1>2, <1>a, <2>1 DEF Account!EditModel
<1>3. CASE Account!EditThreshold
  <2>1. PICK v \in {"old", "new", "high"} : Account!SetOverride("threshold", v)
    BY <1>3 DEF Account!EditThreshold
  <2> QED BY <1>1, <1>a, <2>1
<1>4. CASE Account!Discard
  <2>1. /\ account' \in SettingsT /\ account'.overrides = None /\ account'.since = account.since
        /\ account'.typed = account.typed /\ account'.save = account.save
        /\ account'.fetch = account.fetch /\ account'.data = account.data /\ account'.server = account.server
        /\ account'.foreign = account.foreign /\ (account'.mayEdit <=> account.mayEdit)
    BY <1>a, <1>0, <1>4 DEF SettingsT, Account!Discard, Account!Click
  <2> QED BY <2>1 DEF SettingsSound, UntypedOld, FetchedBack, SentStays, CopyCurrent
<1>5. CASE Account!Save
  <2> DEFINE save == [at |-> Sent, ok |-> FALSE, input |-> Account!Sends]
  <2>1. account' = [account EXCEPT !.save = save, !.since = {}, !.clicks = @ + 1]
    BY <1>5 DEF Account!Save, Account!Click
  <2>2. Account!Changed \subseteq Account!Fields /\ Account!Sends \in [Account!Changed -> SettingValues]
          /\ \A f \in Account!Changed : Account!Sends[f] = Account!Draft[f]
    BY <1>a DEF Account!Changed, Account!Sends, CopyT
  <2>3. account.overrides # None /\ Account!Draft = account.overrides
    BY <1>5 DEF Account!Save, Account!Dirty, Account!Draft
  <2>4. save \in [at : {Sent, "ok", "refused", "answered"}, ok : BOOLEAN,
                  input : {<<>>} \cup UNION {[F -> SettingValues] : F \in SUBSET Account!Fields}]
        /\ save.at = Sent /\ ~save.ok /\ save.input = Account!Sends /\ DOMAIN save.input = Account!Changed
    BY <2>2
  <2> HIDE DEF save
  <2>5. /\ account' \in SettingsT /\ account'.overrides = account.overrides /\ account'.since = {}
        /\ account'.typed = account.typed /\ (account'.stale <=> account.stale) /\ account'.save = save
        /\ account'.fetch = account.fetch /\ account'.data = account.data /\ account'.server = account.server
        /\ account'.foreign = account.foreign /\ (account'.mayEdit <=> account.mayEdit)
    BY <1>a, <1>0, <2>1, <2>4 DEF SettingsT
  <2>6. account.foreign = 0 => UntypedOld(account')
    <3>1. ASSUME account.foreign = 0, NEW f \in Account!Fields \ account.typed PROVE f \notin Account!Changed
      BY <2>3, <3>1 DEF SettingsSound, UntypedOld, Account!Changed
    <3> QED BY <2>3, <2>4, <2>5, <3>1 DEF SettingsSound, UntypedOld
  <2>7. Sent \notin {"ok", "answered"}
    BY ValuesAssumption
  <2>8. SentStays(account') /\ FetchedBack(account')
    BY <2>2, <2>3, <2>4, <2>5, <2>7 DEF SentStays, FetchedBack
  <2>9. account.foreign = 0 => CopyCurrent(account')
    <3> SUFFICES ASSUME account.foreign = 0, ~account.stale,
                        NEW f \in Account!Fields
                 PROVE  /\ account.overrides[f] = account.data[f] => account.overrides[f] = account.server[f]
                        /\ account.fetch \notin {None, Sent} /\ account.overrides[f] = account.fetch[f]
                             => account.overrides[f] = account.server[f]
                        /\ f \in Account!Changed => Account!Sends[f] = account.overrides[f]
                        /\ f \notin Account!Changed => account.overrides[f] = account.server[f]
      BY <2>4, <2>5, <2>7 DEF CopyCurrent
    <3>1. CopyCurrent(account) /\ UntypedOld(account)
      BY DEF SettingsSound
    <3>2. f \notin Account!Changed => account.overrides[f] = account.data[f] \/ f \notin account.typed
      BY <2>3 DEF Account!Changed, SettingsSound
    <3> QED BY <2>2, <2>3, <3>1, <3>2 DEF CopyCurrent, UntypedOld
  <2> QED BY <2>2, <2>4, <2>5, <2>6, <2>8, <2>9 DEF SettingsSound
<1>6. CASE Account!UpdateSettings
  <2> DEFINE held == [f \in Account!Fields |-> IF f \in DOMAIN account.save.input
        THEN Account!Stored(account.save.input[f]) ELSE account.server[f]]
             ok == [account.save EXCEPT !.at = "ok", !.ok = TRUE]
             refused == [account.save EXCEPT !.at = "refused"]
             SaveT == [at : {Sent, "ok", "refused", "answered"}, ok : BOOLEAN,
                  input : {<<>>} \cup UNION {[F -> SettingValues] : F \in SUBSET Account!Fields}]
  <2>0. account.save.at = Sent /\ DOMAIN account.save.input \subseteq Account!Fields /\ ~account.save.ok
    BY <1>6 DEF Account!UpdateSettings, SettingsSound
  <2>1. \/ account' = [account EXCEPT !.save = ok, !.server = held]
        \/ account' = [account EXCEPT !.save = refused]
    BY <1>6 DEF Account!UpdateSettings
  <2>2. account.save \in SaveT
    BY <1>0 DEF SettingsT
  <2>3. /\ ok \in SaveT /\ ok.at = "ok" /\ ok.ok /\ ok.input = account.save.input
        /\ refused \in SaveT /\ refused.at = "refused" /\ refused.input = account.save.input
        /\ (refused.ok <=> account.save.ok)
    BY <2>2
  <2>4. \A f \in DOMAIN account.save.input : account.save.input[f] \in SettingValues
    <3>1. CASE account.save.input = <<>>
      BY <3>1
    <3>2. CASE \E F \in SUBSET Account!Fields : account.save.input \in [F -> SettingValues]
      BY <3>2
    <3> QED BY <2>2, <3>1, <3>2
  <2>5. held \in KeptT /\ \A f \in Account!Fields :
          held[f] = IF f \in DOMAIN account.save.input THEN Account!Stored(account.save.input[f])
            ELSE account.server[f]
    BY <1>a, <2>4 DEF KeptT, Account!Stored, SettingValues
  <2> HIDE DEF held, ok, refused, SaveT
  <2>6. CASE account' = [account EXCEPT !.save = ok, !.server = held]
    <3>1. /\ account' \in SettingsT /\ account'.overrides = account.overrides
          /\ account'.since = account.since
          /\ account'.typed = account.typed /\ (account'.stale <=> account.stale) /\ account'.save = ok
          /\ account'.fetch = account.fetch /\ account'.data = account.data /\ account'.server = held
          /\ account'.foreign = account.foreign /\ (account'.mayEdit <=> account.mayEdit)
      BY <1>0, <2>3, <2>5, <2>6 DEF SettingsT, SaveT
    <3> SUFFICES ASSUME account.foreign = 0
        PROVE UntypedOld(account') /\ FetchedBack(account') /\ SentStays(account') /\ CopyCurrent(account')
      BY <2>3, <3>1, ValuesAssumption DEF SettingsSound
    <3>2. "ok" # Sent
      BY ValuesAssumption
    <3>3. UntypedOld(account')
      BY <2>0, <2>3, <2>5, <3>1, <3>2 DEF SettingsSound, UntypedOld
    <3>4. FetchedBack(account')
      BY <2>3, <3>1 DEF FetchedBack
    <3>5. SentStays(account')
      BY <2>0, <2>3, <2>5, <3>1, <3>2 DEF SettingsSound, SentStays
    <3>6. CopyCurrent(account')
      <4> SUFFICES ASSUME account.overrides # None, ~account.stale, NEW f \in Account!Fields
                   PROVE  /\ account.overrides[f] = account.data[f] => account.overrides[f] = held[f]
                          /\ account.fetch \notin {None, Sent} /\ account.overrides[f] = account.fetch[f]
                               => account.overrides[f] = held[f]
                          /\ account.overrides["model"] # "padded" => account.overrides[f] = held[f]
        BY <2>3, <3>1, <3>2 DEF CopyCurrent
      <4>1. CopyCurrent(account)
        BY DEF SettingsSound
      <4>2. held[f] = Account!Stored(account.overrides[f])
              \/ (held[f] = account.server[f] /\ account.overrides[f] = account.server[f])
        BY <2>0, <2>5, <4>1 DEF CopyCurrent
      <4>3. account.data[f] # "padded" /\ (account.fetch \notin {None, Sent} => account.fetch[f] # "padded")
            /\ (f = "model" \/ account.overrides[f] # "padded")
        BY <1>a DEF KeptT, CopyT
      <4> QED BY <4>2, <4>3 DEF Account!Stored
    <3> QED BY <3>3, <3>4, <3>5, <3>6
  <2>7. CASE account' = [account EXCEPT !.save = refused]
    <3>1. /\ account' \in SettingsT /\ account'.overrides = account.overrides
          /\ account'.since = account.since
          /\ account'.typed = account.typed /\ (account'.stale <=> account.stale) /\ account'.save = refused
          /\ account'.fetch = account.fetch /\ account'.data = account.data
          /\ account'.server = account.server
          /\ account'.foreign = account.foreign /\ (account'.mayEdit <=> account.mayEdit)
      BY <1>0, <2>3, <2>7 DEF SettingsT, SaveT
    <3>2. "refused" # Sent
      BY ValuesAssumption
    <3> QED BY <2>0, <2>3, <3>1, <3>2 DEF SettingsSound, UntypedOld, FetchedBack, SentStays, CopyCurrent
  <2> QED BY <2>1, <2>6, <2>7
<1>7. CASE Account!AnswerSave
  <2> DEFINE save == [account.save EXCEPT !.at = "answered"]
             SaveT == [at : {Sent, "ok", "refused", "answered"}, ok : BOOLEAN,
                  input : {<<>>} \cup UNION {[F -> SettingValues] : F \in SUBSET Account!Fields}]
  <2>1. \/ account.save.at = "ok" /\ account' = [account EXCEPT !.save = save, !.fetch = Sent]
        \/ account.save.at = "refused" /\ account' = [account EXCEPT !.save = save]
    BY <1>7 DEF Account!AnswerSave
  <2>2. account.save \in SaveT
    BY <1>0 DEF SettingsT
  <2>3. save \in SaveT /\ save.at = "answered" /\ (save.ok <=> account.save.ok)
          /\ save.input = account.save.input
    BY <2>2
  <2> HIDE DEF save, SaveT
  <2>4. /\ account' \in SettingsT /\ account'.overrides = account.overrides /\ account'.since = account.since
        /\ account'.typed = account.typed /\ (account'.stale <=> account.stale) /\ account'.save = save
        /\ account'.data = account.data /\ account'.server = account.server
        /\ account'.foreign = account.foreign /\ (account'.mayEdit <=> account.mayEdit)
        /\ (account.save.at = "ok" /\ account'.fetch = Sent)
           \/ (account.save.at = "refused" /\ account'.fetch = account.fetch)
    <3>1. CASE account.save.at = "ok" /\ account' = [account EXCEPT !.save = save, !.fetch = Sent]
      BY <1>0, <2>3, <3>1 DEF SettingsT, SaveT
    <3>2. CASE account.save.at = "refused" /\ account' = [account EXCEPT !.save = save]
      BY <1>0, <2>3, <3>2 DEF SettingsT, SaveT
    <3> QED BY <2>1, <3>1, <3>2
  <2>5. "answered" # Sent /\ Sent # None
    BY ValuesAssumption
  <2>6. account.save.at = "refused" => ~account.save.ok
    BY DEF SettingsSound
  <2> QED BY <2>3, <2>4, <2>5, <2>6 DEF SettingsSound, UntypedOld, FetchedBack, SentStays, CopyCurrent
<1>8. CASE Account!Foreign
  <2>1. PICK f \in Account!Fields : account' = [account EXCEPT !.server = [@ EXCEPT ![f] = "other"],
          !.foreign = @ + 1]
    BY <1>8 DEF Account!Foreign
  <2>2. [account.server EXCEPT ![f] = "other"] \in KeptT
    BY <1>a DEF KeptT
  <2>3. /\ account' \in SettingsT /\ account'.typed = account.typed /\ account'.save = account.save
        /\ account'.foreign # 0 /\ (account'.mayEdit <=> account.mayEdit)
    BY <1>0, <1>a, <2>1, <2>2 DEF SettingsT
  <2> QED BY <2>3 DEF SettingsSound
<1>9. CASE Account!Refetch \/ Account!Read \/ Account!Land
  <2>1. /\ account' \in SettingsT /\ account'.overrides = account.overrides /\ account'.since = account.since
        /\ account'.typed = account.typed /\ (account'.stale <=> account.stale)
           /\ account'.save = account.save
        /\ account'.server = account.server
        /\ account'.foreign = account.foreign /\ (account'.mayEdit <=> account.mayEdit)
        /\ \/ account'.fetch = Sent /\ account'.data = account.data
           \/ account'.fetch = account.server /\ account'.data = account.data
           \/ account.fetch \in KeptT /\ account.fetch \notin {None, Sent} /\ account'.data = account.fetch
              /\ account'.fetch = None
    <3>1. CASE Account!Refetch
      BY <1>0, <3>1 DEF Account!Refetch, SettingsT
    <3>2. CASE Account!Read
      BY <1>0, <1>a, <3>2 DEF Account!Read, SettingsT
    <3>3. CASE Account!Land
      BY <1>0, <1>a, <3>3 DEF Account!Land, SettingsT
    <3> QED BY <1>9, <3>1, <3>2, <3>3
  <2>2. Sent # None
    BY ValuesAssumption
  <2> SUFFICES ASSUME account.foreign = 0
      PROVE UntypedOld(account') /\ FetchedBack(account') /\ SentStays(account') /\ CopyCurrent(account')
    BY <2>1 DEF SettingsSound
  <2>3. UntypedOld(account')
    BY <2>1, <2>2 DEF SettingsSound, UntypedOld
  <2>4. FetchedBack(account')
    <3>1. None \notin KeptT
      BY ValuesAssumption DEF KeptT
    <3> QED BY <1>a, <2>1, <2>2, <3>1 DEF SettingsSound, FetchedBack
  <2>5. SentStays(account')
    BY <2>1 DEF SettingsSound, SentStays
  <2>6. CopyCurrent(account')
    BY <2>1, <2>2 DEF SettingsSound, CopyCurrent
  <2> QED BY <2>3, <2>4, <2>5, <2>6
<1> QED BY <1>2, <1>3, <1>4, <1>5, <1>6, <1>7, <1>8, <1>9 DEF Account!SettingsStep

LEMMA SettingsSaved == ASSUME SettingsSound(account), account # Account!Away PROVE Account!SavedAsTyped
<1> SUFFICES ASSUME account.foreign = 0
             PROVE  /\ account.save.at = Sent => DOMAIN account.save.input \subseteq account.typed
                    /\ account.save.at = "answered" /\ account.save.ok /\ account.since = {}
                       /\ account.fetch = None /\ Account!Draft["model"] # "padded"
                       => /\ \A f \in DOMAIN account.save.input : Account!Draft[f] = account.data[f]
                          /\ ~account.stale => ~Account!Dirty
  BY DEF Account!SavedAsTyped
<1>0. account \in SettingsT
  BY DEF SettingsSound
<1>1. account.save.at = Sent => DOMAIN account.save.input \subseteq account.typed
  BY DEF SettingsSound, UntypedOld
<1>2. ASSUME account.save.at = "answered", account.save.ok, account.since = {}, account.fetch = None,
        Account!Draft["model"] # "padded"
      PROVE  /\ \A f \in DOMAIN account.save.input : Account!Draft[f] = account.data[f]
             /\ ~account.stale => ~Account!Dirty
  <2>1. account.data = account.server
    BY <1>2 DEF SettingsSound, FetchedBack
  <2>2. CASE account.overrides = None
    BY <2>2 DEF Account!Draft, Account!Dirty
  <2>3. CASE account.overrides # None
    <3>1. Account!Draft = account.overrides /\ account.overrides \in CopyT
            /\ Account!Fields = {"model", "threshold"} /\ account.server \in KeptT
      BY <1>0, <2>3, SettingsTypes DEF Account!Draft
    <3>2. ~account.stale => \A f \in Account!Fields : account.overrides[f] = account.server[f]
      BY <1>2, <2>3, <3>1 DEF SettingsSound, CopyCurrent
    <3>3. ~account.stale => account.overrides = account.server
      BY <3>1, <3>2 DEF CopyT, KeptT
    <3>4. \A f \in Account!Fields : Account!Stored(account.overrides[f]) = account.overrides[f]
      BY <1>2, <3>1 DEF CopyT, Account!Stored
    <3>5. \A f \in DOMAIN account.save.input : f \in Account!Fields
            /\ account.server[f] = Account!Stored(account.overrides[f])
      BY <1>2, <2>3 DEF SettingsSound, SentStays
    <3> QED BY <2>1, <3>1, <3>3, <3>4, <3>5 DEF Account!Dirty
  <2> QED BY <2>2, <2>3
<1> QED BY <1>1, <1>2

AccountSound ==
  account = Account!Away \/ UsersSound(account) \/ OrgSound(account) \/ PagesSound(account)
    \/ SettingsSound(account)

LEMMA AccountOpen == Account!Open => AccountSound'
BY UsersOpen, OrgOpen, PagesOpen, SettingsOpen DEF Account!Open, AccountSound

LEMMA AccountStep == ASSUME AccountSound, Account!Step PROVE AccountSound'
<1>1. CASE UsersSound(account)
  BY <1>1, UsersKept DEF AccountSound, Account!Step, Account!UsersStep, Account!OrgStep, Account!ListStep,
     Account!SettingsStep, UsersSound, UsersT
<1>2. CASE OrgSound(account)
  BY <1>2, OrgKept DEF AccountSound, Account!Step, Account!UsersStep, Account!OrgStep, Account!ListStep,
     Account!SettingsStep, OrgSound, OrgT
<1>3. CASE PagesSound(account)
  BY <1>3, PagesKept DEF AccountSound, Account!Step, Account!UsersStep, Account!OrgStep, Account!ListStep,
     Account!SettingsStep, PagesSound, PagesT
<1>4. CASE SettingsSound(account)
  BY <1>4, SettingsKept DEF AccountSound, Account!Step, Account!UsersStep, Account!OrgStep,
     Account!ListStep, Account!SettingsStep, SettingsSound, SettingsT
<1> QED BY <1>1, <1>2, <1>3, <1>4 DEF AccountSound, Account!Step

LEMMA AccountHolds == AccountSound => Account!ShownPasswordWorks /\ Account!OneOrganisation
  /\ Account!PageExists /\ Account!SavedAsTyped
<1> SUFFICES ASSUME AccountSound, account # Account!Away
    PROVE Account!ShownPasswordWorks /\ Account!OneOrganisation /\ Account!PageExists
      /\ Account!SavedAsTyped
  BY DEF Account!ShownPasswordWorks, Account!OneOrganisation, Account!PageExists, Account!SavedAsTyped,
     Account!On
<1>1. CASE UsersSound(account)
  BY <1>1 DEF UsersSound, UsersT, ShownOpens, Account!ShownPasswordWorks, Account!OneOrganisation,
     Account!PageExists, Account!SavedAsTyped, Account!On
<1>2. CASE OrgSound(account)
  <2>1. account.screen = "org" /\ account.orgs \in Seq(NewT)
    BY <1>2 DEF OrgSound, OrgT
  <2>2. Account!ShownPasswordWorks
    BY <1>2, <2>1 DEF OrgSound, Account!ShownPasswordWorks, Account!On, Account!Last, Underway
  <2>3. Account!OneOrganisation
    BY <1>2, <2>1 DEF OrgSound, Account!OneOrganisation
  <2> QED BY <2>1, <2>2, <2>3 DEF Account!PageExists, Account!SavedAsTyped, Account!On
<1>3. CASE PagesSound(account)
  <2>1. account.screen = "list"
    BY <1>3 DEF PagesSound, PagesT
  <2>2. Account!PageExists
    BY <1>3 DEF PagesSound, PagesT, Account!TotalPages, Account!PageExists
  <2> QED BY <2>1, <2>2 DEF Account!ShownPasswordWorks, Account!OneOrganisation, Account!SavedAsTyped,
        Account!On
<1>4. CASE SettingsSound(account)
  <2>1. account.screen = "settings"
    BY <1>4 DEF SettingsSound, SettingsT
  <2> QED BY <1>4, <2>1, SettingsSaved DEF Account!ShownPasswordWorks, Account!OneOrganisation,
        Account!PageExists, Account!On
<1> QED BY <1>1, <1>2, <1>3, <1>4 DEF AccountSound

-----------------------------------------------------------------------------
(* The dialogs (Dialogs). Every dialog behaves in one of a few ways         *)
(* (DialogBehaves); the invariant says what its fields, its requests and    *)
(* the rows on the server have to do with each other in all of them.        *)

BehaviourT ==
  [does : {"create", "update", "delete"}, on : SUBSET {0, 1, 2}, copies : BOOLEAN, clears : BOOLEAN,
   closes : {"click", "success", "answer", "never"}, guarded : BOOLEAN, mounts : BOOLEAN, blocks : BOOLEAN,
   fresh : BOOLEAN]
\* What all the dialogs have in common.
Behaves(b) ==
  /\ b \in BehaviourT
  /\ b.does = "create" => b.guarded /\ b.clears /\ ~b.copies
  /\ b.does = "update" => b.copies /\ ~b.clears
  /\ b.copies => b.on \subseteq Dialog!Rows
  /\ b.clears => ~b.copies
  /\ b.does # "delete" => b.closes # "answer"

LEMMA DialogBasics == Behaves(Dialog!Create) /\ Behaves(Dialog!Edit) /\ Behaves(Dialog!Delete)
BY DEF Behaves, BehaviourT, Dialog!Create, Dialog!Edit, Dialog!Delete, Dialog!Rows, Dialog!New
LEMMA DialogKinds == \A d \in Dialog!Kinds : d \in DOMAIN Dialog!Behaviour
BY DEF Dialog!Kinds
LEMMA DialogVariants ==
  ASSUME NEW b, Behaves(b)
  PROVE  LET Same(c) == Behaves(c) /\ c.does = b.does
         IN  /\ Same([b EXCEPT !.mounts = TRUE]) /\ Same([b EXCEPT !.fresh = TRUE])
                /\ Same([b EXCEPT !.blocks = TRUE])
             /\ Same([b EXCEPT !.closes = "click"]) /\ Same([b EXCEPT !.closes = "never"])
             /\ b.does = "delete" => Same([b EXCEPT !.closes = "answer"])
             /\ b.does # "create" => Same([b EXCEPT !.guarded = FALSE]) /\ Same([b EXCEPT !.on = {1}])
<1> USE DEF Behaves, BehaviourT
<1>1. Behaves([b EXCEPT !.mounts = TRUE]) /\ [b EXCEPT !.mounts = TRUE].does = b.does
  OBVIOUS
<1>2. Behaves([b EXCEPT !.fresh = TRUE]) /\ [b EXCEPT !.fresh = TRUE].does = b.does
  OBVIOUS
<1>3. Behaves([b EXCEPT !.blocks = TRUE]) /\ [b EXCEPT !.blocks = TRUE].does = b.does
  OBVIOUS
<1>4. Behaves([b EXCEPT !.closes = "click"]) /\ [b EXCEPT !.closes = "click"].does = b.does
  OBVIOUS
<1>5. Behaves([b EXCEPT !.closes = "never"]) /\ [b EXCEPT !.closes = "never"].does = b.does
  OBVIOUS
<1>6. b.does = "delete" => Behaves([b EXCEPT !.closes = "answer"])
        /\ [b EXCEPT !.closes = "answer"].does = b.does
  OBVIOUS
<1>7. b.does # "create" => Behaves([b EXCEPT !.guarded = FALSE]) /\ [b EXCEPT !.guarded = FALSE].does = b.does
  OBVIOUS
<1>8. b.does # "create" => Behaves([b EXCEPT !.on = {1}]) /\ [b EXCEPT !.on = {1}].does = b.does
  BY DEF Dialog!Rows
<1> HIDE DEF Behaves, BehaviourT
<1> QED BY <1>1, <1>2, <1>3, <1>4, <1>5, <1>6, <1>7, <1>8

LEMMA DialogBehaves == \A d \in DOMAIN Dialog!Behaviour : Behaves(Dialog!Behaviour[d])
<1>1. /\ Behaves(Dialog!Create) /\ Behaves(Dialog!Edit) /\ Behaves(Dialog!Delete)
      /\ Dialog!Create.does = "create" /\ Dialog!Edit.does = "update" /\ Dialog!Delete.does = "delete"
  BY DialogBasics DEF Dialog!Create, Dialog!Edit, Dialog!Delete
<1>2. Behaves(Dialog!PriceAdd) /\ Behaves(Dialog!PriceEdit) /\ Behaves(Dialog!PriceDelete)
  BY <1>1, DialogVariants DEF Dialog!PriceAdd, Dialog!PriceEdit, Dialog!PriceDelete
<1>3. Behaves(Dialog!ProjectCreate) /\ Behaves(Dialog!ProjectEdit) /\ Behaves(Dialog!ProjectDelete)
  BY <1>1, DialogVariants DEF Dialog!ProjectCreate, Dialog!ProjectEdit, Dialog!ProjectDelete
<1>4. Behaves(Dialog!MaterialCreate) /\ Behaves(Dialog!MaterialDelete) /\ Behaves(Dialog!CorridorRemove)
        /\ Behaves(Dialog!Deactivate) /\ Behaves(Dialog!Unlink)
  <2> DEFINE b == [Dialog!Delete EXCEPT !.closes = "click"]
  <2>1. Behaves(b) /\ b.does = "delete"
    BY <1>1, DialogVariants
  <2>2. Dialog!MaterialDelete = [b EXCEPT !.guarded = FALSE]
    BY DEF Dialog!MaterialDelete
  <2> HIDE DEF b
  <2> QED BY <1>1, <2>1, <2>2, DialogVariants DEF Dialog!MaterialCreate, Dialog!CorridorRemove,
        Dialog!Deactivate, Dialog!Unlink
<1>5. Behaves(Dialog!CorridorClass) /\ Behaves(Dialog!CorridorType) /\ Behaves(Dialog!Role)
  <2> DEFINE b == [Dialog!Edit EXCEPT !.closes = "click"]
  <2>1. Behaves(b) /\ b.does = "update"
    BY <1>1, DialogVariants
  <2>2. Dialog!CorridorClass = [b EXCEPT !.guarded = FALSE]
    BY DEF Dialog!CorridorClass
  <2> HIDE DEF b
  <2>3. Behaves(Dialog!CorridorClass)
    BY <2>1, <2>2, DialogVariants
  <2> QED BY <2>3, DialogVariants DEF Dialog!CorridorType, Dialog!Role
<1>6. Behaves(Dialog!OrgEdit) /\ Behaves(Dialog!SupplierEdit)
  <2> DEFINE b == [Dialog!Edit EXCEPT !.on = {1}]
             c == [b EXCEPT !.mounts = TRUE]
             d == [c EXCEPT !.blocks = TRUE]
  <2>1. Behaves(b)
    BY <1>1, DialogVariants
  <2>2. Dialog!OrgEdit = c /\ Dialog!SupplierEdit = d
    BY DEF Dialog!OrgEdit, Dialog!SupplierEdit
  <2> HIDE DEF b
  <2>3. Behaves(c)
    BY <2>1, DialogVariants
  <2> HIDE DEF c
  <2>4. Behaves(d)
    BY <2>3, DialogVariants
  <2> HIDE DEF d
  <2> QED BY <2>2, <2>3, <2>4
<1>7. Behaves(Dialog!UserCreate) /\ Behaves(Dialog!LinkProject) /\ Behaves(Dialog!ErrorDelete)
  BY <1>1, DialogVariants DEF Dialog!UserCreate, Dialog!LinkProject, Dialog!ErrorDelete
<1> QED BY <1>2, <1>3, <1>4, <1>5, <1>6, <1>7 DEF Dialog!Behaviour

TextT == [row : {0, 1, 2}, no : Nat]
DialogAskT ==
  [does : {"create", "update", "delete", "merge"}, row : {0, 1, 2}, text : TextT, mount : Nat,
   outcome : {Sent, "ok", "refused", "conflict", "answered"}]
FormT ==
  [dialog : DOMAIN Dialog!Behaviour, row : {None} \cup {0, 1, 2}, text : TextT, step : {"form", "merge"},
    mount : Nat,
   asks : Seq(DialogAskT), rows : SUBSET Dialog!Rows, stored : [Dialog!Rows -> TextT], made : Seq(TextT),
   taken : SUBSET Nat, during : SUBSET Nat, lost : BOOLEAN, typed : Nat, clicks : Nat]

\* The last request of this instance of the dialog has no answer yet.
Pending(a) == a.asks # <<>> /\ a.asks[Len(a.asks)].mount = a.mount /\ a.asks[Len(a.asks)].outcome # "answered"

\* Keystrokes and instances are numbered in their order.
Numbered(a) ==
  /\ a.text.no <= a.typed
  /\ \A i \in DOMAIN a.asks : a.asks[i].text.no <= a.typed /\ a.asks[i].mount <= a.mount
  /\ \A i \in DOMAIN a.made : a.made[i].no <= a.typed
  /\ \A r \in Dialog!Rows : a.stored[r].no <= a.typed
\* A dialog asks for what it is for, of the row it is open for.
OwnRow(a) ==
  /\ Dialog!Behaviour[a.dialog].copies /\ a.row # None => a.row \in Dialog!Rows /\ a.text.row = a.row
  /\ a.step = "merge" => Dialog!Behaviour[a.dialog].does = "update"
  /\ \A i \in DOMAIN a.asks :
       /\ a.asks[i].does = Dialog!Behaviour[a.dialog].does
          \/ (a.asks[i].does = "merge" /\ Dialog!Behaviour[a.dialog].does = "update")
       /\ a.asks[i].does = "update" => a.asks[i].row \in Dialog!Rows /\ a.asks[i].text.row = a.asks[i].row
       /\ a.asks[i].outcome = "conflict" => Dialog!Behaviour[a.dialog].does = "update"
  /\ \A r \in Dialog!Rows : a.stored[r].row = r
\* What an answer takes away.
KeptTexts(a) ==
  /\ \A r \in Dialog!Rows : a.stored[r].no \in a.taken \cup {0}
  /\ \A i \in DOMAIN a.asks : a.asks[i].outcome = "ok" => a.asks[i].text.no \in a.taken
  /\ Pending(a) => a.text.no \in {a.asks[Len(a.asks)].text.no, 0} \cup a.during \cup a.taken
\* A text that was sent is not in the fields, unless its answer is due.
Used(a, n) ==
  \/ \E i \in DOMAIN a.made : a.made[i].no = n
  \/ \E i \in DOMAIN a.asks : a.asks[i].outcome # "answered" /\ a.asks[i].text.no = n
SentOnce(a) ==
  /\ \A i, j \in DOMAIN a.made : i # j => a.made[i].no # a.made[j].no
  /\ \A i \in DOMAIN a.asks, j \in DOMAIN a.made :
       a.asks[i].outcome \in {Sent, "refused"} => a.asks[i].text.no # a.made[j].no
  /\ \A i, j \in DOMAIN a.asks :
       i # j /\ a.asks[i].outcome # "answered" /\ a.asks[j].outcome # "answered"
         => a.asks[i].text.no # a.asks[j].text.no
  /\ a.text.no # 0 /\ Used(a, a.text.no) => Pending(a) /\ a.text.no = a.asks[Len(a.asks)].text.no
\* What was created is not in the fields any more; no two rows came of one text.
MadeOnce(a) ==
  /\ Dialog!Behaviour[a.dialog].does # "create" => a.made = <<>>
  /\ Dialog!Behaviour[a.dialog].does = "create" /\ ~a.lost => SentOnce(a)
FormSound(a) == a \in FormT /\ Numbered(a) /\ OwnRow(a) /\ KeptTexts(a) /\ MadeOnce(a)

LEMMA DialogTypes ==
  ASSUME NEW a \in FormT
  PROVE  /\ a.asks \in Seq(DialogAskT) /\ Len(a.asks) \in Nat /\ DOMAIN a.asks = 1..Len(a.asks)
         /\ a.made \in Seq(TextT) /\ Len(a.made) \in Nat /\ DOMAIN a.made = 1..Len(a.made)
         /\ \A i \in DOMAIN a.asks : a.asks[i] \in DialogAskT /\ a.asks[i].text \in TextT
            /\ a.asks[i].text.no \in Nat
                                     /\ a.asks[i].mount \in Nat
         /\ \A i \in DOMAIN a.made : a.made[i] \in TextT /\ a.made[i].no \in Nat
         /\ a.text \in TextT /\ a.text.no \in Nat /\ a.typed \in Nat /\ a.mount \in Nat /\ a.clicks \in Nat
         /\ \A r \in Dialog!Rows : a.stored[r] \in TextT /\ a.stored[r].no \in Nat
         /\ Behaves(Dialog!Behaviour[a.dialog])
<1>1. a.asks \in Seq(DialogAskT) /\ a.made \in Seq(TextT) /\ a.text \in TextT
  BY DEF FormT
<1>2. \A i \in DOMAIN a.asks : a.asks[i] \in DialogAskT
  BY <1>1
<1>3. \A i \in DOMAIN a.made : a.made[i] \in TextT
  BY <1>1
<1>4. Behaves(Dialog!Behaviour[a.dialog])
  BY DialogBehaves DEF FormT
<1> QED BY <1>1, <1>2, <1>3, <1>4 DEF FormT, TextT, DialogAskT

LEMMA DialogOpen == Dialog!Open => FormSound(form')
<1> SUFFICES ASSUME Dialog!Open PROVE FormSound(form')
  OBVIOUS
<1>1. PICK d \in Dialog!Kinds :
    form' = [dialog |-> d, row |-> None, text |-> Dialog!Blank(Dialog!New), step |-> "form", mount |-> 1,
      asks |-> <<>>,
             rows |-> Dialog!Rows, stored |-> [r \in Dialog!Rows |-> Dialog!Blank(r)], made |-> <<>>,
               taken |-> {}, during |-> {}, lost |-> FALSE,
             typed |-> 0, clicks |-> 0]
  BY DEF Dialog!Open
<1>2. Dialog!Blank(Dialog!New) \in TextT /\ Dialog!Blank(Dialog!New).no = 0 /\ \A r \in Dialog!Rows :
        Dialog!Blank(r) \in TextT /\ Dialog!Blank(r).no = 0 /\ Dialog!Blank(r).row = r
  BY DEF Dialog!Blank, Dialog!New, TextT, Dialog!Rows
<1>3. form' \in FormT
  BY <1>1, <1>2, DialogKinds DEF FormT
<1> QED BY <1>1, <1>2, <1>3 DEF FormSound, Numbered, OwnRow, KeptTexts, MadeOnce, SentOnce, Used, Pending

LEMMA DialogClick ==
  ASSUME NEW s, FormSound(s), s.clicks = form.clicks, Dialog!Click(s)
  PROVE  /\ FormSound(form') /\ form'.clicks # form.clicks
         /\ form'.asks = s.asks /\ form'.text = s.text /\ form'.row = s.row
<1>0. s \in FormT
  BY DEF FormSound
<1>1. s.clicks + 1 \in Nat /\ s.clicks + 1 # s.clicks
  BY <1>0 DEF FormT
<1>2. /\ form' \in FormT /\ form'.clicks = s.clicks + 1
      /\ form'.dialog = s.dialog /\ form'.row = s.row /\ form'.text = s.text /\ form'.step = s.step
      /\ form'.mount = s.mount /\ form'.asks = s.asks /\ form'.stored = s.stored /\ form'.made = s.made
      /\ form'.taken = s.taken /\ form'.during = s.during /\ form'.typed = s.typed /\ (form'.lost <=> s.lost)
  BY <1>0, <1>1 DEF Dialog!Click, FormT
<1> QED BY <1>1, <1>2 DEF FormSound, Numbered, OwnRow, KeptTexts, MadeOnce, SentOnce, Used, Pending

\* The user opens, types into and closes the dialog.
LEMMA DialogOpened == ASSUME FormSound(form), NEW r \in {0, 1, 2}, Dialog!OpenFor(r)
  PROVE FormSound(form') /\ form'.clicks # form.clicks /\ form'.asks = form.asks
<1> DEFINE text == CASE Dialog!B.copies -> form.stored[r]
                     [] ~Dialog!B.copies /\ Dialog!B.mounts -> Dialog!Blank(r)
                     [] OTHER -> form.text
           mount == IF Dialog!B.mounts THEN form.mount + 1 ELSE form.mount
           s == [form EXCEPT !.row = r, !.step = "form", !.mount = mount, !.text = text]
<1>0. form \in FormT /\ Behaves(Dialog!B)
  BY DialogTypes DEF FormSound, Dialog!B
<1>1. /\ form.asks \in Seq(DialogAskT) /\ form.text \in TextT /\ form.mount \in Nat /\ form.mount + 1 \in Nat
      /\ \A i \in DOMAIN form.asks : form.asks[i].mount \in Nat /\ form.asks[i].mount <= form.mount
      /\ Len(form.asks) \in Nat /\ DOMAIN form.asks = 1..Len(form.asks) /\ form.typed \in Nat
  BY <1>0, DialogTypes DEF FormSound, Numbered
<1>2. Dialog!B.copies => r \in Dialog!Rows
  BY <1>0 DEF Dialog!OpenFor, Behaves
<1>3. Dialog!Blank(r) \in TextT /\ Dialog!Blank(r).no = 0
  BY DEF Dialog!Blank, TextT
<1>4. /\ text \in TextT /\ text.no <= form.typed
      /\ Dialog!B.copies => text = form.stored[r] /\ text.row = r /\ text.no \in form.taken \cup {0}
      /\ ~Dialog!B.copies => text.no = 0 \/ (text = form.text /\ mount = form.mount)
  <2>1. CASE Dialog!B.copies
    <3>1. text = form.stored[r] /\ r \in Dialog!Rows
      BY <1>2, <2>1
    <3> HIDE DEF text
    <3> QED BY <1>0, <2>1, <3>1, DialogTypes DEF FormSound, Numbered, OwnRow, KeptTexts
  <2>2. CASE ~Dialog!B.copies /\ Dialog!B.mounts
    <3>1. text = Dialog!Blank(r)
      BY <2>2
    <3> HIDE DEF text
    <3> QED BY <1>1, <1>3, <2>2, <3>1
  <2>3. CASE ~Dialog!B.copies /\ ~Dialog!B.mounts
    <3>1. text = form.text /\ mount = form.mount
      BY <2>3
    <3> HIDE DEF text, mount
    <3> QED BY <1>1, <2>3, <3>1 DEF FormSound, Numbered
  <2> QED BY <2>1, <2>2, <2>3
<1>5. mount \in Nat /\ form.mount <= mount /\ (mount # form.mount => mount = form.mount + 1)
  BY <1>1
<1> HIDE DEF text, mount
<1>6. Dialog!Click(s)
  BY DEF Dialog!OpenFor, text, mount
<1>7. /\ s \in FormT /\ s.clicks = form.clicks
      /\ s.dialog = form.dialog /\ s.row = r /\ s.text = text /\ s.step = "form"
      /\ s.mount = mount /\ s.asks = form.asks /\ s.stored = form.stored /\ s.made = form.made
      /\ s.taken = form.taken /\ s.during = form.during /\ s.typed = form.typed /\ (s.lost <=> form.lost)
  BY <1>0, <1>4, <1>5 DEF FormT
<1> HIDE DEF s
<1>8. Numbered(s)
  <2>1. \A i \in DOMAIN form.asks : form.asks[i].mount <= mount
    BY <1>1, <1>5
  <2> QED BY <1>4, <1>7, <2>1 DEF FormSound, Numbered
<1>9. OwnRow(s)
  BY <1>2, <1>4, <1>7 DEF FormSound, OwnRow, Dialog!B
<1>10. Pending(s) => Pending(form) /\ mount = form.mount
  BY <1>1, <1>5, <1>7 DEF Pending
<1>11. KeptTexts(s)
  BY <1>4, <1>7, <1>10 DEF FormSound, KeptTexts
<1>12. MadeOnce(s)
  <2>1. Dialog!B.does = "create" => ~Dialog!B.copies
    BY <1>0 DEF Behaves
  <2>2. mount = form.mount => (Pending(s) <=> Pending(form))
    BY <1>7 DEF Pending
  <2>3. \A n : Used(s, n) <=> Used(form, n)
    BY <1>7 DEF Used
  <2>4. Dialog!B.does = "create" /\ SentOnce(form) => SentOnce(s)
    BY <1>4, <1>7, <2>1, <2>2, <2>3 DEF SentOnce
  <2> QED BY <1>7, <2>4 DEF FormSound, MadeOnce, Dialog!B
<1> QED BY <1>6, <1>7, <1>8, <1>9, <1>11, <1>12, DialogClick DEF FormSound

LEMMA PendingHook == Dialog!IsPending <=> Pending(form)
BY DEF Dialog!IsPending, Pending, Dialog!Last

LEMMA DialogTyped == ASSUME FormSound(form), Dialog!Type
  PROVE FormSound(form') /\ form'.clicks # form.clicks /\ form'.asks = form.asks
<1> DEFINE no == form.typed + 1
           text == [form.text EXCEPT !.row = IF Dialog!B.copies \/ Dialog!B.mounts THEN form.row
             ELSE @, !.no = no]
           during == IF Dialog!IsPending THEN form.during \cup {no} ELSE form.during
           s == [form EXCEPT !.typed = no, !.text = text, !.during = during]
<1>0. form \in FormT /\ Behaves(Dialog!B)
  BY DialogTypes DEF FormSound, Dialog!B
<1>1. /\ form.asks \in Seq(DialogAskT) /\ form.text \in TextT /\ form.typed \in Nat /\ no \in Nat /\ no # 0
      /\ form.row \in {0, 1, 2} /\ form.during \in SUBSET Nat
  BY <1>0, DialogTypes DEF Dialog!Type, FormT
<1>2. text \in TextT /\ text.no = no /\ (Dialog!B.copies => text.row = form.row) /\ during \in SUBSET Nat
      /\ (Pending(form) => no \in during) /\ form.during \subseteq during
  BY <1>1, PendingHook DEF TextT
<1>3. Dialog!Click(s)
  <2>1. s = [form EXCEPT !.typed = @ + 1, !.text.row = IF Dialog!B.copies \/ Dialog!B.mounts
          THEN form.row ELSE @,
              !.text.no = form.typed + 1,
              !.during = IF Dialog!IsPending THEN @ \cup {form.typed + 1} ELSE @]
    BY <1>0, <1>1 DEF FormT, TextT
  <2> QED BY <2>1 DEF Dialog!Type
<1> HIDE DEF text, during
<1>4. /\ s \in FormT /\ s.clicks = form.clicks
      /\ s.dialog = form.dialog /\ s.row = form.row /\ s.text = text /\ s.step = form.step
      /\ s.mount = form.mount /\ s.asks = form.asks /\ s.stored = form.stored /\ s.made = form.made
      /\ s.taken = form.taken /\ s.during = during /\ s.typed = no /\ (s.lost <=> form.lost)
  BY <1>0, <1>1, <1>2 DEF FormT
<1> HIDE DEF s
<1>5. /\ \A i \in DOMAIN form.asks : form.asks[i].text.no < no
      /\ \A i \in DOMAIN form.made : form.made[i].no < no
      /\ \A r \in Dialog!Rows : form.stored[r].no < no
  BY <1>0, <1>1, DialogTypes DEF FormSound, Numbered
<1>6. Numbered(s)
  BY <1>0, <1>1, <1>2, <1>4, <1>5, DialogTypes DEF FormSound, Numbered
<1>7. OwnRow(s)
  BY <1>2, <1>4 DEF FormSound, OwnRow, Dialog!B
<1>8. Pending(s) <=> Pending(form)
  BY <1>4 DEF Pending
<1>9. KeptTexts(s)
  BY <1>2, <1>4, <1>8 DEF FormSound, KeptTexts
<1>10. MadeOnce(s)
  <2>1. ~Used(s, no)
    BY <1>0, <1>1, <1>4, <1>5, DialogTypes DEF Used
  <2>2. SentOnce(form) => SentOnce(s)
    BY <1>2, <1>4, <2>1 DEF SentOnce
  <2> QED BY <1>4, <2>2 DEF FormSound, MadeOnce
<1> QED BY <1>3, <1>4, <1>6, <1>7, <1>9, <1>10, DialogClick DEF FormSound

LEMMA DialogShut == ASSUME FormSound(form), Dialog!Close \/ Dialog!BackToForm
  PROVE FormSound(form') /\ form'.clicks # form.clicks /\ form'.asks = form.asks
<1>0. form \in FormT
  BY DEF FormSound
<1>1. PICK row \in {form.row, None} : Dialog!Click([form EXCEPT !.row = row, !.step = "form"])
  <2>1. CASE Dialog!Close
    BY <2>1 DEF Dialog!Close
  <2>2. CASE Dialog!BackToForm
    <3>1. [form EXCEPT !.step = "form"] = [form EXCEPT !.row = form.row, !.step = "form"]
      BY <1>0 DEF FormT
    <3> QED BY <2>2, <3>1 DEF Dialog!BackToForm
  <2> QED BY <2>1, <2>2
<1> DEFINE s == [form EXCEPT !.row = row, !.step = "form"]
<1>2. /\ s \in FormT /\ s.clicks = form.clicks
      /\ s.dialog = form.dialog /\ s.row = row /\ s.text = form.text /\ s.step = "form"
      /\ s.mount = form.mount /\ s.asks = form.asks /\ s.stored = form.stored /\ s.made = form.made
      /\ s.taken = form.taken /\ s.during = form.during /\ s.typed = form.typed /\ (s.lost <=> form.lost)
  BY <1>0 DEF FormT
<1>3. Dialog!Click(s)
  BY <1>1
<1> HIDE DEF s
<1>4. FormSound(s)
  BY <1>2 DEF FormSound, Numbered, OwnRow, KeptTexts, MadeOnce, SentOnce, Used, Pending
<1> QED BY <1>2, <1>3, <1>4, DialogClick

LEMMA DialogAsked ==
  ASSUME FormSound(form), Dialog!Submit \/ Dialog!Merge
  PROVE  /\ FormSound(form') /\ form'.clicks # form.clicks
         /\ form'.text = form.text /\ (form'.row = form.row \/ Dialog!B.closes = "click")
<1>0. form \in FormT /\ Behaves(Dialog!B)
  BY DialogTypes DEF FormSound, Dialog!B
<1>1. PICK does \in {Dialog!B.does, "merge"} :
        /\ Dialog!Click(Dialog!Asked(does)) /\ Dialog!MayAsk
        /\ does = "merge" => Dialog!B.does = "update"
        /\ does = "create" => form.text.no # 0
  <2>1. CASE Dialog!Submit
    BY <1>0, <2>1 DEF Dialog!Submit, Behaves, BehaviourT
  <2>2. CASE Dialog!Merge
    BY <2>2 DEF Dialog!Merge, FormSound, OwnRow, Dialog!B
  <2> QED BY <2>1, <2>2
<1>2. does \in {"create", "update", "delete", "merge"} /\ (does = Dialog!B.does \/ does = "merge")
  BY <1>0, <1>1 DEF Behaves, BehaviourT
<1>3. form.row \in {0, 1, 2} /\ form.text \in TextT /\ form.mount \in Nat /\ form.asks \in Seq(DialogAskT)
      /\ DOMAIN form.asks = 1..Len(form.asks) /\ Len(form.asks) \in Nat /\ form.typed \in Nat
  BY <1>0, <1>1, DialogTypes DEF Dialog!MayAsk, FormT
<1> DEFINE ask == [does |-> does, row |-> form.row, text |-> form.text, mount |-> form.mount,
      outcome |-> Sent]
           asks == Append(form.asks, ask)
           row == IF Dialog!B.closes = "click" THEN None ELSE form.row
           n == Len(form.asks)
           s == [form EXCEPT !.asks = asks, !.row = row]
<1>4. ask \in DialogAskT /\ ask.does = does /\ ask.row = form.row /\ ask.text = form.text
        /\ ask.mount = form.mount
      /\ ask.outcome = Sent
  BY <1>2, <1>3 DEF DialogAskT
<1>5. Dialog!Click(s)
  BY <1>1 DEF Dialog!Asked
<1> HIDE DEF ask
<1>6. /\ asks \in Seq(DialogAskT) /\ DOMAIN asks = 1..(n + 1) /\ Len(asks) = n + 1 /\ asks # <<>>
      /\ asks[n + 1] = ask
      /\ \A i \in DOMAIN form.asks : asks[i] = form.asks[i]
      /\ n + 1 \in DOMAIN asks /\ DOMAIN form.asks \subseteq DOMAIN asks
      /\ DOMAIN asks = DOMAIN form.asks \cup {n + 1}
      /\ n + 1 \notin DOMAIN form.asks
  BY <1>3, <1>4
<1> HIDE DEF asks
<1>7. /\ s \in FormT /\ s.clicks = form.clicks
      /\ s.dialog = form.dialog /\ s.row = row /\ s.text = form.text /\ s.step = form.step
      /\ s.mount = form.mount /\ s.asks = asks /\ s.stored = form.stored /\ s.made = form.made
      /\ s.taken = form.taken /\ s.during = form.during /\ s.typed = form.typed /\ (s.lost <=> form.lost)
  BY <1>0, <1>6 DEF FormT
<1> HIDE DEF s, n
<1>8. Sent \notin {"answered", "conflict", "ok"}
  BY ValuesAssumption
<1>9. Numbered(s)
  <2>1. Numbered(form) /\ form.mount <= form.mount
    BY <1>3 DEF FormSound
  <2>2. \A i \in DOMAIN asks : asks[i].text.no <= form.typed /\ asks[i].mount <= form.mount
    <3> SUFFICES ASSUME NEW i \in DOMAIN asks
        PROVE asks[i].text.no <= form.typed /\ asks[i].mount <= form.mount
      OBVIOUS
    <3>1. i = n + 1 \/ i \in DOMAIN form.asks
      BY <1>6
    <3> QED BY <1>4, <1>6, <2>1, <3>1 DEF Numbered
  <2> QED BY <1>7, <2>1, <2>2 DEF Numbered
<1>10. OwnRow(s)
  <2>1. does = "update" => form.row \in Dialog!Rows /\ form.text.row = form.row
    BY <1>0, <1>1, <1>2 DEF Behaves, FormSound, OwnRow, Dialog!B, Dialog!MayAsk
  <2>2. ask.does = Dialog!B.does \/ (ask.does = "merge" /\ Dialog!B.does = "update")
    BY <1>1, <1>2, <1>4
  <2>3. \A i \in DOMAIN asks :
       /\ asks[i].does = Dialog!B.does \/ (asks[i].does = "merge" /\ Dialog!B.does = "update")
       /\ asks[i].does = "update" => asks[i].row \in Dialog!Rows /\ asks[i].text.row = asks[i].row
       /\ asks[i].outcome = "conflict" => Dialog!B.does = "update"
    BY <1>4, <1>6, <1>8, <2>1, <2>2, SMTT(30) DEF FormSound, OwnRow, Dialog!B
  <2> QED BY <1>7, <2>3 DEF FormSound, OwnRow, Dialog!B
<1>11. Pending(s) /\ asks[Len(asks)] = ask
  BY <1>4, <1>6, <1>7, <1>8 DEF Pending
<1>12. KeptTexts(s)
  BY <1>4, <1>6, <1>7, <1>8, <1>11, ZenonT(40) DEF FormSound, KeptTexts
<1>13. MadeOnce(s)
  <2> SUFFICES ASSUME Dialog!B.does = "create", SentOnce(form) PROVE SentOnce(s)
    BY <1>7 DEF FormSound, MadeOnce, Dialog!B
  <2>1. ~Pending(form) /\ form.text.no # 0
    BY <1>0, <1>1, <1>2, PendingHook DEF Behaves, Dialog!MayAsk
  <2>2. ~Used(form, form.text.no)
    BY <2>1 DEF SentOnce
  <2>3. \A i \in DOMAIN asks, j \in DOMAIN form.made :
          asks[i].outcome \in {Sent, "refused"} => asks[i].text.no # form.made[j].no
    BY <1>4, <1>6, <2>2 DEF SentOnce, Used
  <2>4. \A i, j \in DOMAIN asks :
          i # j /\ asks[i].outcome # "answered" /\ asks[j].outcome # "answered"
            => asks[i].text.no # asks[j].text.no
    <3>1. \A i \in DOMAIN form.asks : asks[i].outcome # "answered" => asks[i].text.no # ask.text.no
      BY <1>4, <1>6, <2>2 DEF Used
    <3>2. \A i, j \in DOMAIN form.asks :
            i # j /\ asks[i].outcome # "answered" /\ asks[j].outcome # "answered"
              => asks[i].text.no # asks[j].text.no
      <4> SUFFICES ASSUME NEW i \in DOMAIN form.asks, NEW j \in DOMAIN form.asks, i # j,
                          asks[i].outcome # "answered", asks[j].outcome # "answered"
                   PROVE  asks[i].text.no # asks[j].text.no
        OBVIOUS
      <4>1. asks[i] = form.asks[i] /\ asks[j] = form.asks[j]
        BY <1>6
      <4> QED BY <4>1 DEF SentOnce
    <3>3. \A i \in DOMAIN asks : i \in DOMAIN form.asks \/ (asks[i] = ask /\ i = n + 1)
      BY <1>6
    <3> QED BY <3>1, <3>2, <3>3
  <2> QED BY <1>4, <1>7, <1>11, <2>3, <2>4 DEF SentOnce
<1>14. FormSound(s) /\ (row = form.row \/ Dialog!B.closes = "click")
  BY <1>7, <1>9, <1>10, <1>12, <1>13 DEF FormSound
<1> QED BY <1>5, <1>7, <1>14, DialogClick

\* The server carries a request out, or does not.
LEMMA DialogServed == ASSUME FormSound(form), NEW k \in DOMAIN form.asks, Dialog!Serve(k)
  PROVE FormSound(form') /\ form'.text = form.text /\ form'.row = form.row
<1>0. form \in FormT /\ Behaves(Dialog!B)
  BY DialogTypes DEF FormSound, Dialog!B
<1> DEFINE a == form.asks[k]
<1>1. /\ a \in DialogAskT /\ a.text \in TextT /\ a.text.no \in Nat /\ a.row \in {0, 1, 2}
      /\ a.text.no <= form.typed
      /\ form.asks \in Seq(DialogAskT) /\ form.made \in Seq(TextT)
      /\ DOMAIN form.asks = 1..Len(form.asks) /\ Len(form.asks) \in Nat /\ form.typed \in Nat
      /\ DOMAIN form.made = 1..Len(form.made) /\ Len(form.made) \in Nat
  BY <1>0, DialogTypes DEF FormSound, Numbered, DialogAskT
<1>2. a.outcome = Sent /\ a.outcome # "answered"
  BY ValuesAssumption DEF Dialog!Serve
<1>3. a.does = Dialog!B.does \/ (a.does = "merge" /\ Dialog!B.does = "update")
  BY DEF FormSound, OwnRow, Dialog!B
<1>4. ASSUME NEW outcome \in {"ok", "refused", "conflict"}
      PROVE  LET asks == [form.asks EXCEPT ![k].outcome = outcome]
             IN  /\ asks \in Seq(DialogAskT) /\ DOMAIN asks = DOMAIN form.asks /\ Len(asks) = Len(form.asks)
                 /\ asks # <<>> /\ form.asks # <<>>
                 /\ \A i \in DOMAIN form.asks : asks[i] = IF i = k THEN [a EXCEPT !.outcome = outcome]
                    ELSE form.asks[i]
                 /\ [a EXCEPT !.outcome = outcome].outcome = outcome
                 /\ [a EXCEPT !.outcome = outcome].text = a.text
                 /\ [a EXCEPT !.outcome = outcome].does = a.does /\ [a EXCEPT !.outcome = outcome].row = a.row
                 /\ [a EXCEPT !.outcome = outcome].mount = a.mount
  <2>1. [a EXCEPT !.outcome = outcome] \in DialogAskT
    BY <1>1 DEF DialogAskT
  <2>2. /\ [a EXCEPT !.outcome = outcome].outcome = outcome /\ [a EXCEPT !.outcome = outcome].text = a.text
        /\ [a EXCEPT !.outcome = outcome].does = a.does /\ [a EXCEPT !.outcome = outcome].row = a.row
        /\ [a EXCEPT !.outcome = outcome].mount = a.mount
    BY <1>1 DEF DialogAskT
  <2>3. [form.asks EXCEPT ![k].outcome = outcome] = [form.asks EXCEPT ![k] = [a EXCEPT !.outcome = outcome]]
    OBVIOUS
  <2> DEFINE b == [a EXCEPT !.outcome = outcome]
  <2> HIDE DEF b
  <2>4. [form.asks EXCEPT ![k] = b] \in Seq(DialogAskT) /\ \A i \in DOMAIN form.asks :
          [form.asks EXCEPT ![k] = b][i] = IF i = k THEN b ELSE form.asks[i]
    BY <1>1, <2>1 DEF b
  <2> QED BY <1>1, <2>2, <2>3, <2>4 DEF b
\* The request is answered, and what it asked for done or not.
<1>5. ASSUME NEW outcome \in {"ok", "refused", "conflict"}, NEW did \in {0, 1},
             outcome = "ok" => did = 1, outcome = "conflict" => Dialog!B.does = "update",
             form' \in FormT, form'.text = form.text, form'.row = form.row, form'.step = form.step,
               form'.dialog = form.dialog,
             form'.mount = form.mount, form'.during = form.during, form'.typed = form.typed,
             DOMAIN form'.asks = DOMAIN form.asks, Len(form'.asks) = Len(form.asks), form'.asks # <<>>,
               form.asks # <<>>,
             \A i \in DOMAIN form.asks : i # k => form'.asks[i] = form.asks[i],
             \A i \in DOMAIN form.asks :
               /\ form'.asks[i].text = form.asks[i].text /\ form'.asks[i].does = form.asks[i].does
               /\ form'.asks[i].row = form.asks[i].row /\ form'.asks[i].mount = form.asks[i].mount,
             form'.asks[k].outcome = outcome,
             did = 1 /\ a.does = "create" => form'.made = Append(form.made, a.text),
             did = 0 \/ a.does # "create" => form'.made = form.made,
             \A r \in Dialog!Rows : form'.stored[r] = form.stored[r]
               \/ (did = 1 /\ a.does = "update" /\ r = a.row /\ form'.stored[r] = a.text),
             did = 1 => form'.taken = form.taken \cup {a.text.no},
             did = 0 => form'.taken = form.taken,
             form'.lost <=> (form.lost \/ (did = 1 /\ outcome = "refused"))
      PROVE  FormSound(form')
  <2>2. Numbered(form')
    <3>1. CASE did = 1 /\ a.does = "create"
      <4>1. form'.made = Append(form.made, a.text)
        BY <1>5, <3>1
      <4>2. \A j \in DOMAIN form'.made : form'.made[j].no <= form.typed
        BY <1>1, <4>1 DEF FormSound, Numbered
      <4> QED BY <1>1, <1>5, <4>2 DEF FormSound, Numbered
    <3>2. CASE ~(did = 1 /\ a.does = "create")
      BY <1>1, <1>5, <3>2 DEF FormSound, Numbered
    <3> QED BY <3>1, <3>2
  <2>3. OwnRow(form')
    <3>1. a.does = "update" => a.text.row = a.row
      BY DEF FormSound, OwnRow
    <3>2. \A i \in DOMAIN form'.asks :
       /\ form'.asks[i].does = Dialog!B.does \/ (form'.asks[i].does = "merge" /\ Dialog!B.does = "update")
       /\ form'.asks[i].does = "update" => form'.asks[i].row \in Dialog!Rows
          /\ form'.asks[i].text.row = form'.asks[i].row
       /\ form'.asks[i].outcome = "conflict" => Dialog!B.does = "update"
      BY <1>5 DEF FormSound, OwnRow, Dialog!B
    <3> QED BY <1>5, <3>1, <3>2 DEF FormSound, OwnRow, Dialog!B
  <2>4. Pending(form') <=> Pending(form)
    <3>1. CASE k = Len(form.asks)
      BY <1>2, <1>5, <3>1 DEF Pending
    <3>2. CASE k # Len(form.asks)
      <4>1. Len(form.asks) \in DOMAIN form.asks
        BY <1>1
      <4> QED BY <1>5, <3>2, <4>1 DEF Pending
    <3> QED BY <3>1, <3>2
  <2>5. Len(form.asks) \in DOMAIN form.asks
    BY <1>1
  <2>6. KeptTexts(form')
    <3>1. \A r \in Dialog!Rows : form'.stored[r].no \in form'.taken \cup {0}
      BY <1>5 DEF FormSound, KeptTexts
    <3>2. \A i \in DOMAIN form'.asks : form'.asks[i].outcome = "ok" => form'.asks[i].text.no \in form'.taken
      BY <1>5 DEF FormSound, KeptTexts
    <3> QED BY <1>5, <2>4, <2>5, <3>1, <3>2 DEF FormSound, KeptTexts
  <2>7. ASSUME Dialog!B.does # "create" PROVE MadeOnce(form')
    <3>1. a.does # "create"
      BY <1>3, <2>7
    <3>2. form'.made = form.made /\ form'.dialog = form.dialog
      BY <1>5, <3>1
    <3>3. MadeOnce(form)
      BY DEF FormSound
    <3> QED BY <2>7, <3>2, <3>3 DEF MadeOnce, Dialog!B
  <2>8. ASSUME Dialog!B.does = "create" PROVE MadeOnce(form')
    <3> SUFFICES ASSUME ~(form.lost \/ (did = 1 /\ outcome = "refused")) PROVE SentOnce(form')
      <4>1. form'.dialog = form.dialog /\ (form'.lost <=> (form.lost \/ (did = 1 /\ outcome = "refused")))
        BY <1>5
      <4> QED BY <2>8, <4>1 DEF MadeOnce, Dialog!B
    <3>1. SentOnce(form) /\ a.does = "create" /\ (did = 1 <=> outcome = "ok") /\ outcome \in {"ok", "refused"}
      BY <1>3, <1>5, <2>8 DEF FormSound, MadeOnce, Dialog!B
    <3>2. \A j \in DOMAIN form.made : a.text.no # form.made[j].no
      BY <1>2, <3>1 DEF SentOnce
    <3>3. \A i \in DOMAIN form.asks : i # k /\ form.asks[i].outcome # "answered"
            => form.asks[i].text.no # a.text.no
      BY <1>2, <3>1 DEF SentOnce
    <3>4. /\ did = 1 => /\ form'.made = Append(form.made, a.text)
                           /\ DOMAIN form'.made = DOMAIN form.made \cup {Len(form.made) + 1}
                     /\ Len(form.made) + 1 \notin DOMAIN form.made /\ form'.made[Len(form.made) + 1] = a.text
                     /\ \A j \in DOMAIN form.made : form'.made[j] = form.made[j]
          /\ did = 0 => form'.made = form.made
      BY <1>1, <1>5, <3>1
    <3>5. \A i, j \in DOMAIN form'.made : i # j => form'.made[i].no # form'.made[j].no
      <4>1. \A i, j \in DOMAIN form.made : i # j => form.made[i].no # form.made[j].no
        BY <3>1 DEF SentOnce
      <4> QED BY <3>2, <3>4, <4>1
    <3>6. \A i \in DOMAIN form'.asks, j \in DOMAIN form'.made :
            form'.asks[i].outcome \in {Sent, "refused"} => form'.asks[i].text.no # form'.made[j].no
      <4>1. ASSUME NEW i \in DOMAIN form'.asks, form'.asks[i].outcome \in {Sent, "refused"}, did = 1
            PROVE i # k
        BY <1>5, <3>1, <4>1, ValuesAssumption
      <4>2. ASSUME NEW i \in DOMAIN form'.asks, form'.asks[i].outcome \in {Sent, "refused"}
            PROVE  form.asks[i].outcome \in {Sent, "refused"} /\ form.asks[i].outcome # "answered"
        BY <1>5, <1>2, <4>2, ValuesAssumption
      <4>3. ASSUME NEW i \in DOMAIN form'.asks, NEW j \in DOMAIN form'.made,
              form'.asks[i].outcome \in {Sent, "refused"}
            PROVE  form'.asks[i].text.no # form'.made[j].no
        <5>1. CASE j \in DOMAIN form.made
          BY <1>5, <3>1, <3>4, <4>2, <4>3, <5>1 DEF SentOnce
        <5>2. CASE j \notin DOMAIN form.made
          <6>1. did = 1 /\ form'.made[j] = a.text
            BY <3>4, <5>2
          <6> QED BY <1>5, <3>3, <4>1, <4>2, <4>3, <6>1
        <5> QED BY <5>1, <5>2
      <4> QED BY <4>3
    <3>7. \A i \in DOMAIN form'.asks : form'.asks[i].outcome # "answered"
            <=> form.asks[i].outcome # "answered"
      BY <1>5, <1>2
    <3>8. \A i, j \in DOMAIN form'.asks :
            i # j /\ form'.asks[i].outcome # "answered" /\ form'.asks[j].outcome # "answered"
              => form'.asks[i].text.no # form'.asks[j].text.no
      BY <1>5, <3>1, <3>7 DEF SentOnce
    <3>9. ASSUME NEW x, Used(form', x) PROVE Used(form, x)
      <4>1. CASE \E i \in DOMAIN form'.made : form'.made[i].no = x
        <5>1. (\E i \in DOMAIN form.made : form.made[i].no = x) \/ a.text.no = x
          BY <3>4, <4>1
        <5> QED BY <1>2, <5>1 DEF Used
      <4>2. CASE \E i \in DOMAIN form'.asks : form'.asks[i].outcome # "answered" /\ form'.asks[i].text.no = x
        BY <1>5, <3>7, <4>2 DEF Used
      <4> QED BY <1>5, <3>9, <4>1, <4>2 DEF Used
    <3>10. form'.text.no # 0 /\ Used(form', form'.text.no)
           => Pending(form') /\ form'.text.no = form'.asks[Len(form'.asks)].text.no
      BY <1>5, <2>4, <2>5, <3>1, <3>9 DEF SentOnce
    <3> QED BY <1>5, <3>5, <3>6, <3>8, <3>10 DEF SentOnce
  <2> QED BY <1>5, <2>2, <2>3, <2>6, <2>7, <2>8 DEF FormSound
<1>6. ASSUME NEW c \in FormT, c.asks = form.asks, NEW outcome \in {"ok", "refused", "conflict"}
      PROVE  /\ [c EXCEPT !.asks[k].outcome = outcome]
                = [c EXCEPT !.asks = [form.asks EXCEPT ![k].outcome = outcome]]
             /\ [c EXCEPT !.asks[k].outcome = outcome] \in FormT
  <2>1. [c EXCEPT !.asks[k].outcome = outcome] = [c EXCEPT !.asks = [form.asks EXCEPT ![k].outcome = outcome]]
    BY <1>6
  <2> DEFINE asks == [form.asks EXCEPT ![k].outcome = outcome]
  <2>2. asks \in Seq(DialogAskT)
    BY <1>4
  <2> HIDE DEF asks
  <2>3. [c EXCEPT !.asks = asks] \in FormT
    BY <2>2 DEF FormT
  <2> QED BY <2>1, <2>3 DEF asks
\* What is known of the requests then.
<1>7. ASSUME NEW outcome \in {"ok", "refused", "conflict"},
        form'.asks = [form.asks EXCEPT ![k].outcome = outcome]
      PROVE  /\ DOMAIN form'.asks = DOMAIN form.asks /\ Len(form'.asks) = Len(form.asks)
             /\ form'.asks # <<>> /\ form.asks # <<>>
             /\ \A i \in DOMAIN form.asks : i # k => form'.asks[i] = form.asks[i]
             /\ \A i \in DOMAIN form.asks :
                  /\ form'.asks[i].text = form.asks[i].text /\ form'.asks[i].does = form.asks[i].does
                  /\ form'.asks[i].row = form.asks[i].row /\ form'.asks[i].mount = form.asks[i].mount
             /\ form'.asks[k].outcome = outcome
  BY <1>4, <1>7
<1>8. ASSUME NEW outcome \in {"refused", "conflict"}, outcome = "conflict" => Dialog!B.does = "update",
             form' = [form EXCEPT !.asks[k].outcome = outcome]
      PROVE  FormSound(form') /\ form'.text = form.text /\ form'.row = form.row
  <2> DEFINE asks == [form.asks EXCEPT ![k].outcome = outcome]
  <2>1. form' = [form EXCEPT !.asks = asks] /\ form' \in FormT
    BY <1>0, <1>6, <1>8
  <2> HIDE DEF asks
  <2>2. /\ form'.text = form.text /\ form'.row = form.row /\ form'.step = form.step
        /\ form'.dialog = form.dialog
        /\ form'.mount = form.mount /\ form'.during = form.during /\ form'.typed = form.typed
        /\ form'.asks = asks /\ form'.made = form.made /\ form'.stored = form.stored
        /\ form'.taken = form.taken
        /\ (form'.lost <=> form.lost)
    BY <1>0, <2>1 DEF FormT
  <2>3. form.lost \in BOOLEAN
    BY <1>0 DEF FormT
  <2>4. /\ DOMAIN form'.asks = DOMAIN form.asks /\ Len(form'.asks) = Len(form.asks) /\ form'.asks # <<>>
        /\ form.asks # <<>>
        /\ \A i \in DOMAIN form.asks : i # k => form'.asks[i] = form.asks[i]
        /\ \A i \in DOMAIN form.asks :
             /\ form'.asks[i].text = form.asks[i].text /\ form'.asks[i].does = form.asks[i].does
             /\ form'.asks[i].row = form.asks[i].row /\ form'.asks[i].mount = form.asks[i].mount
        /\ form'.asks[k].outcome = outcome
    BY <1>7, <2>2 DEF asks
  <2> QED BY <1>5, <1>8, <2>1, <2>2, <2>3, <2>4
<1>9. ASSUME NEW outcome \in {"ok", "refused"},
             \/ outcome = "ok" /\ form' = [Dialog!Carried(a) EXCEPT !.asks[k].outcome = "ok"]
             \/ outcome = "refused" /\ form' = [Dialog!Carried(a) EXCEPT !.asks[k].outcome = "refused",
                !.lost = TRUE]
      PROVE  FormSound(form') /\ form'.text = form.text /\ form'.row = form.row
  <2> DEFINE asks == [form.asks EXCEPT ![k].outcome = outcome]
             made == IF a.does = "create" THEN Append(form.made, a.text) ELSE form.made
             stored == IF a.does = "update" THEN [form.stored EXCEPT ![a.row] = a.text] ELSE form.stored
             rows == IF a.does \in {"delete", "merge"} THEN form.rows \ {a.row} ELSE form.rows
             taken == form.taken \cup {a.text.no}
             c == [form EXCEPT !.made = made, !.stored = stored, !.rows = rows, !.taken = taken]
             lost == form.lost \/ outcome = "refused"
  <2>1. made \in Seq(TextT)
    BY <1>1
  <2>2. /\ stored \in [Dialog!Rows -> TextT]
        /\ \A r \in Dialog!Rows : stored[r] = IF a.does = "update" /\ r = a.row THEN a.text
           ELSE form.stored[r]
    BY <1>0, <1>1 DEF FormT
  <2>3. rows \in SUBSET Dialog!Rows /\ taken \in SUBSET Nat
    BY <1>0, <1>1 DEF FormT
  <2>4. Dialog!Carried(a) = c
    <3>1. CASE a.does = "create"
      BY <1>0, <3>1 DEF Dialog!Carried, FormT
    <3>2. CASE a.does = "update"
      BY <1>0, <3>2 DEF Dialog!Carried, FormT
    <3>3. CASE a.does \in {"delete", "merge"}
      BY <1>0, <3>3 DEF Dialog!Carried, FormT
    <3> QED BY <1>1, <3>1, <3>2, <3>3 DEF DialogAskT
  <2>5. made = IF a.does = "create" THEN Append(form.made, a.text) ELSE form.made
    OBVIOUS
  <2>6. taken = form.taken \cup {a.text.no}
    OBVIOUS
  <2>7. lost \in BOOLEAN /\ (lost <=> form.lost \/ outcome = "refused")
    OBVIOUS
  <2> HIDE DEF made, stored, rows, taken, lost
  <2>8. /\ c \in FormT /\ c.asks = form.asks /\ c.text = form.text /\ c.row = form.row /\ c.step = form.step
        /\ c.dialog = form.dialog /\ c.mount = form.mount /\ c.during = form.during /\ c.typed = form.typed
        /\ c.made = made /\ c.stored = stored /\ c.taken = taken /\ (c.lost <=> form.lost)
    BY <1>0, <2>1, <2>2, <2>3 DEF FormT
  <2> HIDE DEF c
  <2>9. asks \in Seq(DialogAskT)
    BY <1>4
  <2>10. form' = [c EXCEPT !.asks = asks] \/ (outcome = "refused"
           /\ form' = [c EXCEPT !.asks = asks, !.lost = TRUE])
    BY <1>6, <1>9, <2>4, <2>8
  <2>11. outcome = "ok" => form' = [c EXCEPT !.asks = asks]
    BY <1>6, <1>9, <2>4, <2>8
  <2>12. outcome = "refused" => form' = [c EXCEPT !.asks = asks, !.lost = TRUE]
    BY <1>6, <1>9, <2>4, <2>8
  <2> HIDE DEF asks
  <2>13. /\ form' \in FormT /\ form'.text = form.text /\ form'.row = form.row /\ form'.step = form.step
         /\ form'.dialog = form.dialog
         /\ form'.mount = form.mount /\ form'.during = form.during /\ form'.typed = form.typed
         /\ form'.asks = asks /\ form'.made = made /\ form'.stored = stored /\ form'.taken = taken
         /\ (form'.lost <=> lost)
    <3>1. CASE outcome = "ok"
      BY <2>7, <2>8, <2>9, <2>11, <3>1 DEF FormT
    <3>2. CASE outcome = "refused"
      BY <2>7, <2>8, <2>9, <2>12, <3>2 DEF FormT
    <3> QED BY <3>1, <3>2
  <2>14. /\ DOMAIN form'.asks = DOMAIN form.asks /\ Len(form'.asks) = Len(form.asks) /\ form'.asks # <<>>
         /\ form.asks # <<>>
         /\ \A i \in DOMAIN form.asks : i # k => form'.asks[i] = form.asks[i]
         /\ \A i \in DOMAIN form.asks :
              /\ form'.asks[i].text = form.asks[i].text /\ form'.asks[i].does = form.asks[i].does
              /\ form'.asks[i].row = form.asks[i].row /\ form'.asks[i].mount = form.asks[i].mount
         /\ form'.asks[k].outcome = outcome
    BY <1>7, <2>13 DEF asks
  <2>15. \A r \in Dialog!Rows : form'.stored[r] = IF TRUE /\ a.does = "update" /\ r = a.row THEN a.text
           ELSE form.stored[r]
    BY <2>2, <2>13
  <2>16. FormSound(form')
    <3>1. /\ 1 \in {0, 1} /\ outcome \in {"ok", "refused", "conflict"} /\ outcome # "conflict"
          /\ (form'.lost <=> (form.lost \/ (1 = 1 /\ outcome = "refused")))
          /\ a.does = "create" => form'.made = Append(form.made, a.text)
          /\ a.does # "create" => form'.made = form.made
          /\ \A r \in Dialog!Rows : form'.stored[r] = form.stored[r]
             \/ (a.does = "update" /\ r = a.row /\ form'.stored[r] = a.text)
          /\ form'.taken = form.taken \cup {a.text.no}
      BY <1>9, <2>5, <2>6, <2>7, <2>13, <2>15
    <3> QED BY <1>5, <2>13, <2>14, <3>1
  <2> QED BY <2>13, <2>16
<1>10. CASE form' = [form EXCEPT !.asks[k].outcome = "conflict"] /\ a.does = "update"
  BY <1>3, <1>8, <1>10
<1> QED BY <1>8, <1>9, <1>10 DEF Dialog!Serve

\* The component gets the answer of its last request, or of an earlier one.
LEMMA DialogAnswered == ASSUME FormSound(form), NEW k \in DOMAIN form.asks, Dialog!Answer(k)
  PROVE FormSound(form') /\ Dialog!TextKept
<1>0. form \in FormT /\ Behaves(Dialog!B) /\ form.lost \in BOOLEAN
  BY DialogTypes DEF FormSound, Dialog!B, FormT
<1> DEFINE a == form.asks[k]
           n == Len(form.asks)
           mine == a.mount = form.mount /\ k = n
           b == [a EXCEPT !.outcome = "answered"]
           asks == [form.asks EXCEPT ![k] = b]
<1>1. /\ a \in DialogAskT /\ form.asks \in Seq(DialogAskT) /\ DOMAIN form.asks = 1..n /\ n \in Nat
      /\ n \in DOMAIN form.asks /\ form.asks # <<>>
  BY <1>0, DialogTypes
<1>2. a.outcome \in {"ok", "refused", "conflict"} /\ a.outcome # "answered" /\ (mine => Pending(form))
  BY <1>1, ValuesAssumption DEF Dialog!Answer, Pending
<1>3. /\ b \in DialogAskT /\ b.outcome = "answered" /\ b.text = a.text /\ b.does = a.does /\ b.row = a.row
      /\ b.mount = a.mount
  BY <1>1 DEF DialogAskT
<1> HIDE DEF b
<1>4. /\ asks \in Seq(DialogAskT) /\ DOMAIN asks = DOMAIN form.asks /\ Len(asks) = n /\ asks # <<>>
      /\ asks[k] = b /\ \A i \in DOMAIN form.asks : i # k => asks[i] = form.asks[i]
  BY <1>1, <1>3
<1> HIDE DEF asks
<1>5. PICK row \in {form.row, None}, text \in {form.text, Dialog!Blank(Dialog!New)},
        step \in {form.step, "form", "merge"} :
        /\ form' = [form EXCEPT !.asks = asks, !.row = row, !.text = text, !.step = step]
        /\ row # form.row => mine /\ (a.outcome = "ok" \/ Dialog!B.closes = "answer")
        /\ text # form.text => mine /\ a.outcome = "ok" /\ Dialog!B.clears
        /\ mine /\ a.outcome = "ok" /\ Dialog!B.clears => text = Dialog!Blank(Dialog!New)
        /\ step = "merge" => form.step = "merge" \/ a.outcome = "conflict"
  <2>1. Dialog!Settled(k) = [form EXCEPT !.asks = asks]
    BY DEF Dialog!Settled, asks, b
  <2>2. form.row = form.row /\ form.text = form.text
    OBVIOUS
  <2> DEFINE Result(row, text, step) == [form EXCEPT !.asks = asks, !.row = row, !.text = text, !.step = step]
  <2>3. CASE ~mine /\ form' = Dialog!Settled(k)
    <3>1. form' = Result(form.row, form.text, form.step)
      BY <1>0, <2>1, <2>3 DEF FormT
    <3> QED BY <2>3, <3>1
  <2>4. CASE mine /\ a.outcome = "ok" /\ form' = [Dialog!Settled(k) EXCEPT
             !.row = IF Dialog!B.closes \in {"success", "answer"} THEN None ELSE @,
             !.text = IF Dialog!B.clears THEN Dialog!Blank(Dialog!New) ELSE @]
    <3> DEFINE row == IF Dialog!B.closes \in {"success", "answer"} THEN None ELSE form.row
               text == IF Dialog!B.clears THEN Dialog!Blank(Dialog!New) ELSE form.text
    <3>1. form' = Result(row, text, form.step)
      BY <1>0, <2>1, <2>4 DEF FormT
    <3>2. row \in {form.row, None} /\ text \in {form.text, Dialog!Blank(Dialog!New)}
            /\ (Dialog!B.clears => text = Dialog!Blank(Dialog!New))
          /\ (~Dialog!B.clears => text = form.text)
      OBVIOUS
    <3> HIDE DEF row, text
    <3> QED BY <2>4, <3>1, <3>2
  <2>5. CASE mine /\ a.outcome = "refused" /\ form' = [Dialog!Settled(k) EXCEPT
             !.row = IF Dialog!B.closes = "answer" THEN None ELSE @,
             !.step = "form"]
    <3> DEFINE row == IF Dialog!B.closes = "answer" THEN None ELSE form.row
    <3>1. form' = Result(row, form.text, "form")
      BY <1>0, <2>1, <2>5 DEF FormT
    <3>2. row \in {form.row, None} /\ (row # form.row => Dialog!B.closes = "answer")
      OBVIOUS
    <3> HIDE DEF row
    <3> QED BY <2>5, <3>1, <3>2
  <2>6. CASE mine /\ a.outcome = "conflict" /\ form' = [Dialog!Settled(k) EXCEPT !.step = "merge"]
    <3>1. form' = Result(form.row, form.text, "merge")
      BY <1>0, <2>1, <2>6 DEF FormT
    <3> QED BY <2>6, <3>1
  <2> QED BY <2>3, <2>4, <2>5, <2>6 DEF Dialog!Answer
<1>6. Dialog!Blank(Dialog!New) \in TextT /\ Dialog!Blank(Dialog!New).no = 0
  BY DEF Dialog!Blank, Dialog!New, TextT
<1>7. /\ form' \in FormT /\ form'.dialog = form.dialog /\ form'.row = row /\ form'.text = text
      /\ form'.step = step
      /\ form'.mount = form.mount /\ form'.asks = asks /\ form'.stored = form.stored /\ form'.made = form.made
      /\ form'.taken = form.taken /\ form'.during = form.during /\ form'.typed = form.typed
      /\ (form'.lost <=> form.lost) /\ form.text \in TextT /\ form.text.no \in Nat /\ form.typed \in Nat
  BY <1>0, <1>4, <1>5, <1>6, ZenonT(40) DEF FormT, TextT
<1>8. \A i \in DOMAIN form.asks : /\ asks[i].text = form.asks[i].text /\ asks[i].does = form.asks[i].does
                                  /\ asks[i].row = form.asks[i].row /\ asks[i].mount = form.asks[i].mount
                                  /\ asks[i].outcome # "answered" => i # k /\ asks[i] = form.asks[i]
  BY <1>3, <1>4
<1>9. Numbered(form')
  BY <1>4, <1>5, <1>6, <1>7, <1>8 DEF FormSound, Numbered
<1>10. OwnRow(form')
  <2>1. Dialog!B.copies => text = form.text
    BY <1>0, <1>5 DEF Behaves
  <2>2. step = "merge" => Dialog!B.does = "update"
    BY <1>5 DEF FormSound, OwnRow, Dialog!B
  <2>3. \A i \in DOMAIN asks :
       /\ asks[i].does = Dialog!B.does \/ (asks[i].does = "merge" /\ Dialog!B.does = "update")
       /\ asks[i].does = "update" => asks[i].row \in Dialog!Rows /\ asks[i].text.row = asks[i].row
       /\ asks[i].outcome = "conflict" => Dialog!B.does = "update"
    BY <1>4, <1>8 DEF FormSound, OwnRow, Dialog!B
  <2> QED BY <1>5, <1>7, <2>1, <2>2, <2>3 DEF FormSound, OwnRow, Dialog!B
\* A request that is still due is a later one.
<1>11. Pending(form') => Pending(form) /\ k # n /\ ~mine /\ asks[n] = form.asks[n]
  BY <1>1, <1>4, <1>7, <1>8 DEF Pending
<1>12. KeptTexts(form')
  <2>1. \A i \in DOMAIN asks : asks[i].outcome = "ok" => asks[i].text.no \in form.taken
    BY <1>4, <1>8 DEF FormSound, KeptTexts
  <2> QED BY <1>4, <1>5, <1>7, <1>11, <2>1 DEF FormSound, KeptTexts
<1>13. MadeOnce(form')
  <2>1. ASSUME Dialog!B.does = "create", SentOnce(form) PROVE SentOnce(form')
    <3>1. Dialog!B.clears /\ a.outcome \in {"ok", "refused"}
      BY <1>0, <1>2, <2>1 DEF Behaves, FormSound, OwnRow, Dialog!B
    <3>2. \A i, j \in DOMAIN form.made : i # j => form.made[i].no # form.made[j].no
      BY <2>1 DEF SentOnce
    <3>3. \A i \in DOMAIN asks, j \in DOMAIN form.made :
            asks[i].outcome \in {Sent, "refused"} => asks[i].text.no # form.made[j].no
      BY <1>4, <1>8, <2>1, ValuesAssumption DEF SentOnce
    <3>4. \A i, j \in DOMAIN asks :
            i # j /\ asks[i].outcome # "answered" /\ asks[j].outcome # "answered"
              => asks[i].text.no # asks[j].text.no
      BY <1>4, <1>8, <2>1 DEF SentOnce
    <3>5. ASSUME text.no # 0, Used(form', text.no) PROVE Pending(form') /\ text.no = asks[n].text.no
      <4>1. text = form.text /\ ~(mine /\ a.outcome = "ok")
        BY <1>5, <1>6, <3>1, <3>5
      <4>2. Used(form, text.no)
        BY <1>4, <1>7, <1>8, <3>5 DEF Used
      <4>3. Pending(form) /\ text.no = form.asks[n].text.no
        BY <2>1, <3>5, <4>1, <4>2 DEF SentOnce
      <4>4. k # n
        <5> SUFFICES ASSUME k = n PROVE FALSE
          OBVIOUS
        <5>1. a.outcome = "refused" /\ text.no = a.text.no
          BY <3>1, <4>1, <4>3 DEF Pending
        <5>2. CASE \E i \in DOMAIN form.made : form.made[i].no = text.no
          BY <2>1, <5>1, <5>2 DEF SentOnce
        <5>3. CASE \E i \in DOMAIN asks : asks[i].outcome # "answered" /\ asks[i].text.no = text.no
          BY <1>2, <1>4, <1>8, <2>1, <5>1, <5>3 DEF SentOnce
        <5> QED BY <1>7, <3>5, <5>2, <5>3 DEF Used
      <4> QED BY <1>1, <1>4, <1>7, <4>3, <4>4 DEF Pending
    <3> QED BY <1>4, <1>7, <3>2, <3>3, <3>4, <3>5 DEF SentOnce
  <2> QED BY <1>7, <2>1 DEF FormSound, MadeOnce, Dialog!B
<1>14. Dialog!TextKept
  <2> SUFFICES ASSUME Dialog!B.does # "delete", text # form.text \/ (form.row # None /\ row = None)
               PROVE  form.text.no \in form.taken \cup form.during \cup {0}
    BY <1>7 DEF Dialog!TextKept
  <2>1. mine /\ a.outcome = "ok"
    BY <1>0, <1>5 DEF Behaves
  <2> QED BY <1>2, <2>1 DEF FormSound, KeptTexts
<1> QED BY <1>7, <1>9, <1>10, <1>12, <1>13, <1>14 DEF FormSound

LEMMA DialogStep == FormSound(form) /\ Dialog!Step => FormSound(form') /\ Dialog!TextKept
<1> SUFFICES ASSUME FormSound(form), Dialog!Step PROVE FormSound(form') /\ Dialog!TextKept
  OBVIOUS
<1>1. CASE \E r \in Dialog!Rows \cup {Dialog!New} : Dialog!OpenFor(r)
  <2>1. Dialog!Rows \cup {Dialog!New} = {0, 1, 2}
    BY DEF Dialog!Rows, Dialog!New
  <2> QED BY <1>1, <2>1, DialogOpened DEF Dialog!TextKept
<1>2. CASE Dialog!Type
  BY <1>2, DialogTyped DEF Dialog!TextKept
<1>3. CASE Dialog!Close \/ Dialog!BackToForm
  BY <1>3, DialogShut DEF Dialog!TextKept
<1>4. CASE Dialog!Submit \/ Dialog!Merge
  BY <1>4, DialogAsked DEF Dialog!TextKept
<1>5. ASSUME NEW k \in DOMAIN form.asks, Dialog!Serve(k) PROVE FormSound(form') /\ Dialog!TextKept
  BY <1>5, DialogServed DEF Dialog!TextKept
<1>6. ASSUME NEW k \in DOMAIN form.asks, Dialog!Answer(k) PROVE FormSound(form') /\ Dialog!TextKept
  BY <1>6, DialogAnswered
<1> QED BY <1>1, <1>2, <1>3, <1>4, <1>5, <1>6 DEF Dialog!Step

LEMMA DialogHolds == (form # Dialog!Closed => FormSound(form)) => Dialog!CreatedOnce /\ Dialog!StoredInRow
<1> SUFFICES ASSUME form # Dialog!Closed, FormSound(form) PROVE Dialog!CreatedOnce /\ Dialog!StoredInRow
  BY DEF Dialog!CreatedOnce, Dialog!StoredInRow
<1>1. form \in FormT
  BY DEF FormSound
<1>2. form.rows \subseteq Dialog!Rows
  BY <1>1 DEF FormT
<1>3. Dialog!StoredInRow
  BY <1>2 DEF Dialog!StoredInRow, FormSound, OwnRow
<1>4. Dialog!CreatedOnce
  <2>1. Dialog!Behaviour[form.dialog].does # "create" => form.made = <<>>
    BY DEF FormSound, MadeOnce
  <2>2. Dialog!Behaviour[form.dialog].does = "create" /\ ~form.lost => SentOnce(form)
    BY DEF FormSound, MadeOnce
  <2>3. SentOnce(form) => \A i, j \in DOMAIN form.made : i # j => form.made[i] # form.made[j]
    BY DEF SentOnce
  <2> QED BY <2>1, <2>2, <2>3 DEF Dialog!CreatedOnce
<1> QED BY <1>3, <1>4

-----------------------------------------------------------------------------
(* The review of an invoice (InvoiceReview). Edits are kept until the       *)
(* server has them, and are those of the invoice the page shows, whatever a *)
(* new parse puts in its place.                                             *)

EntryT == Nat \cup {None, Other}
InvoiceT == [id : Nat, text : [Review!Fields -> EntryT], verified : BOOLEAN]
DocumentT(ids) ==
  [id : ids, text : [Review!Fields -> EntryT], verified : BOOLEAN, other : BOOLEAN, busy : BOOLEAN]
MutationT == [id : Nat, text : [Review!Fields -> EntryT], outcome : {Sent, "ok", "refused"}]
ReviewT ==
  [page : {"review"}, server : DocumentT(Nat \cup {None}), drawn : Nat, data : DocumentT(Nat),
   fetch : {None, Sent} \cup DocumentT(Nat), over : {None} \cup InvoiceT,
   ask : [Review!Kinds -> {None} \cup MutationT], dialog : BOOLEAN, saved : SUBSET EntryT,
     during : SUBSET EntryT,
   typed : Nat, asked : Nat, foreign : Nat]

Fetched(r) == r.fetch \notin {None, Sent}
\* Ids are handed out in their order, and an invoice that was replaced does not come back.
IdsFit(r) ==
  /\ r.data.id <= r.drawn
  /\ Fetched(r) => r.fetch.id <= r.drawn
  /\ r.server.id # None => r.server.id <= r.drawn
  /\ r.over # None => r.over.id # 0 /\ r.over.id <= r.drawn
  /\ r.ask["verify"] # None => r.ask["verify"].id <= r.drawn
  /\ Fetched(r) /\ r.fetch.id # r.data.id /\ r.data.id # 0 => r.server.id # r.data.id
  /\ r.over # None /\ r.over.id # r.data.id
       => r.server.id # r.over.id /\ (Fetched(r) => r.fetch.id # r.over.id)
\* What the server and the cache hold was read by the parser, or taken from somebody.
Known(r) == r.saved \cup {0, Other, None}
TextsKnown(r) ==
  \A f \in Review!Fields :
    /\ r.data.text[f] \in Known(r) /\ r.server.text[f] \in Known(r)
    /\ Fetched(r) => r.fetch.text[f] \in Known(r)
\* While an answer is due that will drop the edits, each of them is known, sent or typed since.
EditsCovered(r) ==
  /\ r.over # None /\ r.over.id = r.data.id =>
       \A f \in Review!Fields :
         /\ r.ask["verify"] # None \/ r.ask["unverify"] # None => r.over.text[f] \in r.during \cup Known(r)
         /\ r.ask["save"] # None => r.over.text[f] \in r.during \cup Known(r) \cup {r.ask["save"].text[f]}
  /\ r.ask["save"] # None /\ r.ask["save"].outcome = "ok" => \A f \in Review!Fields :
     r.ask["save"].text[f] \in r.saved
\* What was seen of an invoice is what it says, or what it says was saved, by this user or
\* by another one.
SeenIs(r, x) ==
  x.id = r.server.id /\ x.id # 0 => \A f \in Review!Fields :
    r.server.text[f] \in {x.text[f], Other} \cup r.saved
SeenIsOwn(r) ==
  /\ SeenIs(r, r.data)
  /\ Fetched(r) => SeenIs(r, r.fetch)
  /\ r.ask["verify"] # None => SeenIs(r, r.ask["verify"])
ReviewSound(r) == r \in ReviewT /\ IdsFit(r) /\ TextsKnown(r) /\ EditsCovered(r) /\ SeenIsOwn(r)

LEMMA ReviewFields == \A f \in Review!Fields : f \in {"header", "row"}
BY DEF Review!Fields

LEMMA ReviewParsed ==
  ASSUME NEW id \in Nat, NEW v \in BOOLEAN, NEW other \in BOOLEAN, NEW busy \in BOOLEAN
  PROVE  LET doc == Review!Parsed(id, v, other, busy)
         IN  /\ doc \in DocumentT(Nat) /\ doc \in DocumentT(Nat \cup {None}) /\ doc.id = id
             /\ doc.text \in [Review!Fields -> EntryT] /\ \A f \in Review!Fields : doc.text[f] = 0
             /\ doc.text = [f \in Review!Fields |-> 0]
<1>1. [f \in Review!Fields |-> 0] \in [Review!Fields -> EntryT]
  BY DEF EntryT
<1> QED BY <1>1 DEF Review!Parsed, DocumentT

LEMMA ReviewOpen == Review!Open => ReviewSound(review')
<1> SUFFICES ASSUME Review!Open PROVE ReviewSound(review')
  OBVIOUS
<1>1. PICK id \in {0, 2}, v \in BOOLEAN, other \in BOOLEAN, busy \in BOOLEAN :
        \/ review' = Review!Showing(Review!Parsed(id, v, other, busy), Review!Parsed(id, v, other, busy), None, 0)
        \/ \E old \in {0, 1, id} : review' = Review!Showing(Review!Parsed(id, v, other, busy),
             Review!Parsed(old, FALSE, other, FALSE), Sent, 1)
  BY DEF Review!Open
<1>2. PICK old, got, n, data :
        /\ old \in {0, 1, id} /\ got \in {None, Sent} /\ n \in {0, 1}
        /\ data \in {Review!Parsed(id, v, other, busy), Review!Parsed(old, FALSE, other, FALSE)}
        /\ review' = Review!Showing(Review!Parsed(id, v, other, busy), data, got, n)
        /\ data = Review!Parsed(id, v, other, busy) => old = id
  <2>1. CASE review' = Review!Showing(Review!Parsed(id, v, other, busy), Review!Parsed(id, v, other, busy), None, 0)
    BY <2>1
  <2>2. CASE \E old \in {0, 1, id} : review' = Review!Showing(Review!Parsed(id, v, other, busy),
             Review!Parsed(old, FALSE, other, FALSE), Sent, 1)
    <3>1. PICK old \in {0, 1, id} : review' = Review!Showing(Review!Parsed(id, v, other, busy),
             Review!Parsed(old, FALSE, other, FALSE), Sent, 1)
      BY <2>2
    <3>2. Review!Parsed(id, v, other, busy).id = id /\ Review!Parsed(old, FALSE, other, FALSE).id = old
      BY DEF Review!Parsed
    <3> QED BY <3>1, <3>2
  <2> QED BY <1>1, <2>1, <2>2
<1> DEFINE doc == Review!Parsed(id, v, other, busy)
<1>3. id \in Nat /\ FALSE \in BOOLEAN /\ id <= 2 /\ old \in Nat /\ old <= 2
  BY <1>2
<1>4. /\ doc \in DocumentT(Nat \cup {None}) /\ doc.id = id /\ data \in DocumentT(Nat) /\ data.id = old
      /\ doc.text = data.text /\ \A f \in Review!Fields : doc.text[f] = 0
  <2> DEFINE new == Review!Parsed(old, FALSE, other, FALSE)
  <2>1. /\ doc \in DocumentT(Nat) /\ doc \in DocumentT(Nat \cup {None}) /\ doc.id = id
        /\ doc.text = [f \in Review!Fields |-> 0] /\ \A f \in Review!Fields : doc.text[f] = 0
    BY <1>3 DEF Review!Parsed, DocumentT, EntryT
  <2>2. new \in DocumentT(Nat) /\ new.id = old /\ new.text = [f \in Review!Fields |-> 0]
    BY <1>3, ReviewParsed
  <2>3. data \in {doc, new} /\ (data = doc => old = id)
    BY <1>2
  <2> HIDE DEF doc, new
  <2> QED BY <2>1, <2>2, <2>3
<1> HIDE DEF doc
<1>5. /\ review' \in ReviewT /\ review'.server = doc /\ review'.data = data /\ review'.drawn = 2
      /\ review'.fetch \in {None, Sent} /\ review'.over = None
      /\ review'.ask = [k \in Review!Kinds |-> None]
  <2>1. review' = Review!Showing(doc, data, got, n)
    BY <1>2 DEF doc
  <2>2. got \in {None, Sent} /\ n \in {0, 1}
    BY <1>2
  <2> QED BY <1>4, <2>1, <2>2 DEF Review!Showing, ReviewT
<1>6. \A k \in {"save", "verify", "unverify"} : review'.ask[k] = None
  BY <1>5 DEF Review!Kinds
<1> QED BY <1>3, <1>4, <1>5, <1>6 DEF ReviewSound, IdsFit, TextsKnown, Known, EditsCovered, SeenIsOwn,
      SeenIs, Fetched

LEMMA ReviewTypes ==
  ASSUME review \in ReviewT
  PROVE  /\ review.data \in DocumentT(Nat) /\ review.data.id \in Nat
         /\ review.data.text \in [Review!Fields -> EntryT]
         /\ review.server \in DocumentT(Nat \cup {None}) /\ review.server.id \in Nat \cup {None}
         /\ review.server.text \in [Review!Fields -> EntryT]
         /\ review.drawn \in Nat /\ review.typed \in Nat /\ review.asked \in Nat /\ review.foreign \in Nat
         /\ review.over # None => review.over \in InvoiceT /\ review.over.text \in [Review!Fields -> EntryT]
            /\ review.over.id \in Nat
         /\ Fetched(review) => review.fetch \in DocumentT(Nat) /\ review.fetch.id \in Nat
         /\ \A k \in Review!Kinds : review.ask[k] # None
            => review.ask[k] \in MutationT /\ review.ask[k].text \in [Review!Fields -> EntryT]
                                                  /\ review.ask[k].id \in Nat
BY DEF ReviewT, DocumentT, InvoiceT, MutationT, Fetched

LEMMA ReviewDraft ==
  ASSUME ReviewSound(review)
  PROVE  /\ Review!Draft \in InvoiceT /\ Review!Draft.id = review.data.id
         /\ Review!Edited => Review!Draft = review.over
         /\ ~Review!Edited => Review!Draft.text = review.data.text
         /\ ~Review!Dirty /\ ~Review!Slim => Review!Draft.text = review.data.text
<1>1. review \in ReviewT
  BY DEF ReviewSound
<1>2. Review!Serverinv \in InvoiceT /\ Review!Serverinv.id = review.data.id
        /\ Review!Serverinv.text = review.data.text
  BY <1>1, ReviewTypes DEF Review!Serverinv, Review!Invoice, InvoiceT, DocumentT
<1>3. Review!Edited => review.over \in InvoiceT /\ review.over.id = review.data.id
  BY <1>1, ReviewTypes DEF Review!Edited
<1> QED BY <1>2, <1>3 DEF Review!Draft, Review!Dirty, Review!Slim

LEMMA ReviewCalm ==
  ASSUME Review!Edited => review'.over # None /\ review'.over.id = review'.data.id,
         ~review.server.verified => ~review'.server.verified
  PROVE  Review!NoTextLost /\ Review!ConfirmedIsOwn
BY DEF Review!NoTextLost, Review!ConfirmedIsOwn, Review!Edited

LEMMA ReviewTyped ==
  ASSUME ReviewSound(review), Review!EditHeader \/ Review!EditRow \/ Review!RemoveRow
  PROVE  ReviewSound(review') /\ Review!NoTextLost /\ Review!ConfirmedIsOwn
<1>0. review \in ReviewT
  BY DEF ReviewSound
<1>1. PICK f \in Review!Fields, v \in EntryT : Review!Override(f, v) /\ ~Review!Slim
  <2>1. "header" \in Review!Fields /\ "row" \in Review!Fields /\ review.typed + 1 \in EntryT
          /\ None \in EntryT
    BY <1>0, ReviewTypes DEF Review!Fields, EntryT
  <2>2. \A f \in Review!Fields : review.data.text[f] \in EntryT
    BY <1>0, ReviewTypes
  <2>3. CASE Review!EditHeader
    BY <2>1, <2>2, <2>3 DEF Review!EditHeader
  <2>4. CASE Review!EditRow
    BY <2>1, <2>2, <2>4 DEF Review!EditRow
  <2>5. CASE Review!RemoveRow
    BY <2>1, <2>5 DEF Review!RemoveRow
  <2> QED BY <2>3, <2>4, <2>5
<1> DEFINE over == [Review!Draft EXCEPT !.text[f] = v]
           due == \E k \in {"save", "verify", "unverify"} : Review!IsPending(k)
           during == IF due THEN review.during \cup {v} ELSE review.during
<1>2. Review!Draft \in InvoiceT /\ Review!Draft.text \in [Review!Fields -> EntryT]
        /\ Review!Draft.id = review.data.id /\ review.data.id # 0
  BY <1>1, ReviewDraft DEF Review!Slim, InvoiceT
<1>3. /\ over \in InvoiceT /\ over.id = review.data.id /\ over # None
      /\ \A g \in Review!Fields : over.text[g] = IF g = f THEN v ELSE Review!Draft.text[g]
  <2>1. over = [Review!Draft EXCEPT !.text = [Review!Draft.text EXCEPT ![f] = v]]
    BY <1>2 DEF InvoiceT
  <2> DEFINE text == [Review!Draft.text EXCEPT ![f] = v]
  <2>2. text \in [Review!Fields -> EntryT] /\ \A g \in Review!Fields :
          text[g] = IF g = f THEN v ELSE Review!Draft.text[g]
    BY <1>2
  <2> HIDE DEF text
  <2>3. [Review!Draft EXCEPT !.text = text] \in InvoiceT
          /\ [Review!Draft EXCEPT !.text = text].id = Review!Draft.id
        /\ [Review!Draft EXCEPT !.text = text].text = text
    BY <1>2, <2>2 DEF InvoiceT
  <2>4. None \notin InvoiceT
    BY ValuesAssumption DEF InvoiceT, EntryT
  <2> QED BY <1>2, <2>1, <2>2, <2>3, <2>4 DEF text
<1>4. during \in SUBSET EntryT /\ review.during \subseteq during
      /\ \A k \in {"save", "verify", "unverify"} : review.ask[k] # None => v \in during
  BY <1>0 DEF ReviewT, Review!IsPending
<1>5. review' = [review EXCEPT !.over = over, !.typed = review.typed + 1, !.during = during]
  BY <1>1 DEF Review!Override
<1> HIDE DEF over, during, due
<1>6. /\ review' \in ReviewT /\ review'.over = over /\ review'.during = during
      /\ review'.server = review.server /\ review'.drawn = review.drawn /\ review'.data = review.data
      /\ review'.fetch = review.fetch /\ review'.ask = review.ask /\ review'.saved = review.saved
      /\ review'.foreign = review.foreign
  <2>1. review.typed + 1 \in Nat
    BY <1>0, ReviewTypes
  <2> QED BY <1>0, <1>3, <1>4, <1>5, <2>1 DEF ReviewT
<1>7. IdsFit(review')
  BY <1>2, <1>3, <1>6 DEF ReviewSound, IdsFit, Fetched
<1>8. TextsKnown(review')
  BY <1>6 DEF ReviewSound, TextsKnown, Known, Fetched
<1>9. EditsCovered(review')
  <2>1. ASSUME NEW g \in Review!Fields, NEW k \in {"save", "verify", "unverify"}, review.ask[k] # None
        PROVE  /\ over.text[g] \in during \cup Known(review) \cup (IF k = "save"
                  THEN {review.ask["save"].text[g]} ELSE {})
    <3>1. CASE g = f
      BY <1>3, <1>4, <2>1, <3>1
    <3>2. CASE g # f /\ Review!Edited
      BY <1>3, <1>4, <2>1, <3>2, ReviewDraft DEF ReviewSound, EditsCovered, Review!Edited
    <3>3. CASE g # f /\ ~Review!Edited
      BY <1>3, <3>3, ReviewDraft DEF ReviewSound, TextsKnown
    <3> QED BY <3>1, <3>2, <3>3
  <2> QED BY <1>6, <2>1 DEF ReviewSound, EditsCovered, Known
<1>10. SeenIsOwn(review')
  BY <1>6 DEF ReviewSound, SeenIsOwn, SeenIs, Fetched
<1> QED BY <1>3, <1>6, <1>7, <1>8, <1>9, <1>10, ReviewCalm DEF ReviewSound

LEMMA ReviewAsked ==
  ASSUME ReviewSound(review), Review!Save \/ Review!Verify \/ Review!Unverify \/ Review!Reparse
    \/ Review!Deskew \/ Review!Remove
  PROVE  ReviewSound(review') /\ Review!NoTextLost /\ Review!ConfirmedIsOwn
<1>0. review \in ReviewT
  BY DEF ReviewSound
<1>1. PICK k \in Review!Kinds : Review!Ask(k) /\ (k \in {"verify", "unverify"}
        => ~Review!Dirty /\ ~Review!Slim)
  BY DEF Review!Save, Review!Verify, Review!Unverify, Review!Reparse, Review!Deskew, Review!Remove,
     Review!MayVerify, Review!MayUnverify, Review!Kinds
<1> DEFINE m == [id |-> Review!Draft.id, text |-> Review!Draft.text, outcome |-> Sent]
           ask == [review.ask EXCEPT ![k] = m]
<1>2. /\ m \in MutationT /\ m.id = review.data.id /\ m.text = Review!Draft.text /\ m.outcome = Sent
      /\ m.outcome # "ok"
      /\ \A f \in Review!Fields : m.text[f] \in EntryT
  BY ReviewDraft, ValuesAssumption DEF InvoiceT, MutationT
<1> HIDE DEF m
<1>3. ask \in [Review!Kinds -> {None} \cup MutationT] /\ \A j \in Review!Kinds :
        ask[j] = IF j = k THEN m ELSE review.ask[j]
  BY <1>0, <1>2 DEF ReviewT
<1>4. review' = [review EXCEPT !.asked = review.asked + 1, !.ask = ask]
  BY <1>1 DEF Review!Ask, m
<1> HIDE DEF ask
<1>5. /\ review' \in ReviewT /\ review'.over = review.over /\ review'.during = review.during
      /\ review'.server = review.server /\ review'.drawn = review.drawn /\ review'.data = review.data
      /\ review'.fetch = review.fetch /\ review'.ask = ask /\ review'.saved = review.saved
      /\ review'.foreign = review.foreign
  <2>1. review.asked + 1 \in Nat
    BY <1>0, ReviewTypes
  <2> QED BY <1>0, <1>3, <1>4, <2>1 DEF ReviewT
<1>6. "save" \in Review!Kinds /\ "verify" \in Review!Kinds /\ "unverify" \in Review!Kinds
  BY DEF Review!Kinds
<1>7. k \in {"verify", "unverify"} => Review!Draft.text = review.data.text
  BY <1>1, ReviewDraft
<1>8. IdsFit(review')
  BY <1>2, <1>3, <1>5, <1>6 DEF ReviewSound, IdsFit, Fetched
<1>9. TextsKnown(review')
  BY <1>5 DEF ReviewSound, TextsKnown, Known, Fetched
<1>10. EditsCovered(review')
  <2>1. ASSUME review.over # None, review.over.id = review.data.id, NEW f \in Review!Fields
        PROVE  /\ ask["verify"] # None \/ ask["unverify"] # None
                    => review.over.text[f] \in review.during \cup Known(review)
               /\ ask["save"] # None
                    => review.over.text[f] \in review.during \cup Known(review) \cup {ask["save"].text[f]}
    <3>1. Review!Draft = review.over
      BY <2>1, ReviewDraft DEF Review!Edited
    <3>2. CASE k \in {"verify", "unverify"}
      <4>1. review.over.text[f] \in Known(review)
        BY <1>7, <3>1, <3>2 DEF ReviewSound, TextsKnown
      <4> QED BY <1>3, <1>6, <3>2, <4>1
    <3>3. CASE k = "save"
      BY <1>2, <1>3, <1>6, <2>1, <3>1, <3>3 DEF ReviewSound, EditsCovered
    <3>4. CASE k \notin {"save", "verify", "unverify"}
      BY <1>3, <1>6, <2>1, <3>4 DEF ReviewSound, EditsCovered
    <3> QED BY <3>2, <3>3, <3>4
  <2>2. ask["save"] # None /\ ask["save"].outcome = "ok" => \A f \in Review!Fields :
          ask["save"].text[f] \in review.saved
    BY <1>2, <1>3, <1>6 DEF ReviewSound, EditsCovered
  <2> QED BY <1>5, <2>1, <2>2 DEF EditsCovered, Known
<1>11. SeenIsOwn(review')
  <2>1. k = "verify" => m.text = review.data.text /\ m.id = review.data.id
    BY <1>2, <1>7
  <2> QED BY <1>3, <1>5, <1>6, <2>1 DEF ReviewSound, SeenIsOwn, SeenIs, Fetched
<1> QED BY <1>5, <1>8, <1>9, <1>10, <1>11, ReviewCalm DEF ReviewSound, Review!Edited

\* What the server does changes what it holds, and what a request came to.
LEMMA ReviewOutcome ==
  ASSUME review \in ReviewT, NEW k \in Review!Kinds, review.ask[k] # None, NEW o \in {"ok", "refused"}
  PROVE  \E ask \in [Review!Kinds -> {None} \cup MutationT] :
           /\ Review!Outcome(k, o) = [review EXCEPT !.ask = ask]
           /\ \A j \in Review!Kinds : j # k => ask[j] = review.ask[j]
           /\ ask[k].id = review.ask[k].id /\ ask[k].text = review.ask[k].text /\ ask[k].outcome = o
<1> DEFINE a == [review.ask[k] EXCEPT !.outcome = o]
           ask == [review.ask EXCEPT ![k] = a]
<1>1. review.ask[k] \in MutationT /\ review.ask \in [Review!Kinds -> {None} \cup MutationT]
  BY ReviewTypes DEF ReviewT
<1>2. a \in MutationT /\ a.id = review.ask[k].id /\ a.text = review.ask[k].text /\ a.outcome = o
  BY <1>1 DEF MutationT
<1>3. Review!Outcome(k, o) = [review EXCEPT !.ask = ask]
  BY DEF Review!Outcome
<1> HIDE DEF a
<1>4. ask \in [Review!Kinds -> {None} \cup MutationT] /\ ask[k] = a /\ \A j \in Review!Kinds :
        j # k => ask[j] = review.ask[j]
  BY <1>1, <1>2
<1> HIDE DEF ask
<1> QED BY <1>2, <1>3, <1>4

LEMMA ReviewHeld ==
  ASSUME ReviewSound(review), NEW k \in Review!Kinds, review.ask[k] # None, NEW o \in {"ok", "refused"},
    k = "save" => o = "refused",
         NEW doc \in DocumentT(Nat \cup {None}), doc.text = review.server.text,
           doc.id \in {review.server.id, None},
         review' = [Review!Outcome(k, o) EXCEPT !.server = doc]
  PROVE  /\ ReviewSound(review') /\ review'.server = doc /\ review'.over = review.over
         /\ review'.data = review.data /\ review'.saved = review.saved
         /\ review'.foreign = review.foreign
<1>0. review \in ReviewT
  BY DEF ReviewSound
<1>1. PICK ask \in [Review!Kinds -> {None} \cup MutationT] :
        /\ Review!Outcome(k, o) = [review EXCEPT !.ask = ask]
        /\ \A j \in Review!Kinds : j # k => ask[j] = review.ask[j]
        /\ ask[k].id = review.ask[k].id /\ ask[k].text = review.ask[k].text /\ ask[k].outcome = o
  BY <1>0, ReviewOutcome
<1>2. /\ review' \in ReviewT /\ review'.over = review.over /\ review'.during = review.during
      /\ review'.server = doc /\ review'.drawn = review.drawn /\ review'.data = review.data
      /\ review'.fetch = review.fetch /\ review'.ask = ask /\ review'.saved = review.saved
      /\ review'.foreign = review.foreign
  BY <1>0, <1>1 DEF ReviewT
<1>3. \A j \in {"save", "verify", "unverify"} :
        /\ ask[j] # None => review.ask[j] # None /\ ask[j].id = review.ask[j].id
           /\ ask[j].text = review.ask[j].text
        /\ ask["save"].outcome = "ok" => ask["save"] = review.ask["save"]
  BY <1>1 DEF Review!Kinds
<1>4. review.data.id # None /\ (Fetched(review) => review.fetch.id # None)
      /\ (review.over # None => review.over.id # None) /\ \A j \in Review!Kinds :
         review.ask[j] # None => review.ask[j].id # None
  BY <1>0, ReviewTypes, ValuesAssumption
<1>5. IdsFit(review')
  BY <1>2, <1>3, <1>4 DEF ReviewSound, IdsFit, Fetched
<1>6. TextsKnown(review')
  BY <1>2 DEF ReviewSound, TextsKnown, Known, Fetched
<1>7. EditsCovered(review')
  BY <1>2, <1>3 DEF ReviewSound, EditsCovered, Known
<1>8. SeenIsOwn(review')
  <2>1. "verify" \in Review!Kinds
    BY DEF Review!Kinds
  <2> QED BY <1>2, <1>3, <1>4, <2>1 DEF ReviewSound, SeenIsOwn, SeenIs, Fetched
<1> QED BY <1>2, <1>5, <1>6, <1>7, <1>8 DEF ReviewSound

LEMMA ReviewSaved ==
  ASSUME ReviewSound(review), review.ask["save"] # None, Review!ServeSave
  PROVE  ReviewSound(review') /\ Review!NoTextLost /\ Review!ConfirmedIsOwn
<1>0. review \in ReviewT /\ "save" \in Review!Kinds /\ "verify" \in Review!Kinds
        /\ "unverify" \in Review!Kinds
  BY DEF ReviewSound, Review!Kinds
<1>1. PICK ask \in [Review!Kinds -> {None} \cup MutationT] :
        /\ Review!Outcome("save", "ok") = [review EXCEPT !.ask = ask]
        /\ \A j \in Review!Kinds : j # "save" => ask[j] = review.ask[j]
        /\ ask["save"].id = review.ask["save"].id /\ ask["save"].text = review.ask["save"].text
        /\ ask["save"].outcome = "ok"
  BY <1>0, ReviewOutcome
<1> DEFINE text == review.ask["save"].text
           doc == [review.server EXCEPT !.text = text]
           saved == review.saved \cup {text[f] : f \in Review!Fields}
<1>2. text \in [Review!Fields -> EntryT] /\ review.server \in DocumentT(Nat \cup {None})
  BY <1>0, ReviewTypes
<1>3. /\ doc \in DocumentT(Nat \cup {None}) /\ doc.id = review.server.id /\ doc.text = text
      /\ (doc.verified <=> review.server.verified)
  BY <1>2 DEF DocumentT
<1>4. saved \in SUBSET EntryT /\ review.saved \subseteq saved /\ \A f \in Review!Fields : text[f] \in saved
  BY <1>0, <1>2 DEF ReviewT
<1>5. review' = [review EXCEPT !.ask = ask, !.server = doc, !.saved = saved]
  BY <1>0, <1>1 DEF Review!ServeSave, ReviewT
<1> HIDE DEF text, doc, saved
<1>6. /\ review' \in ReviewT /\ review'.over = review.over /\ review'.during = review.during
      /\ review'.server = doc /\ review'.drawn = review.drawn /\ review'.data = review.data
      /\ review'.fetch = review.fetch /\ review'.ask = ask /\ review'.saved = saved
      /\ review'.foreign = review.foreign
  BY <1>0, <1>1, <1>3, <1>4, <1>5 DEF ReviewT
<1>7. ask["save"].text = text
  BY <1>1 DEF text
<1>8. IdsFit(review')
  BY <1>0, <1>1, <1>3, <1>6 DEF ReviewSound, IdsFit, Fetched
<1>9. TextsKnown(review')
  BY <1>3, <1>4, <1>6 DEF ReviewSound, TextsKnown, Known, Fetched
<1>10. EditsCovered(review')
  <2>1. \A f \in Review!Fields : ask["save"].text[f] \in saved
    BY <1>4, <1>7
  <2>2. Known(review) \subseteq Known(review')
    BY <1>4, <1>6 DEF Known
  <2>3. ask["verify"] = review.ask["verify"] /\ ask["unverify"] = review.ask["unverify"]
    BY <1>0, <1>1
  <2>4. review.over # None /\ review.over.id = review.data.id =>
          \A f \in Review!Fields :
            /\ ask["verify"] # None \/ ask["unverify"] # None
               => review.over.text[f] \in review.during \cup Known(review)
            /\ review.over.text[f] \in review.during \cup Known(review) \cup {text[f]}
    BY <2>3 DEF ReviewSound, EditsCovered, text
  <2> QED BY <1>6, <1>7, <2>1, <2>2, <2>4 DEF EditsCovered
<1>11. SeenIsOwn(review')
  BY <1>3, <1>4, <1>6 DEF SeenIsOwn, SeenIs
<1> QED BY <1>3, <1>6, <1>8, <1>9, <1>10, <1>11, ReviewCalm DEF ReviewSound, Review!Edited

LEMMA ReviewServed ==
  ASSUME ReviewSound(review), NEW k \in Review!Kinds, Review!Serve(k)
  PROVE  ReviewSound(review') /\ Review!NoTextLost /\ Review!ConfirmedIsOwn
<1>0. review \in ReviewT /\ review.server \in DocumentT(Nat \cup {None}) /\ review.ask[k] # None
  BY ReviewTypes DEF ReviewSound, Review!Serve, Review!IsPending
<1>1. CASE review' = Review!Outcome(k, "refused")
  <2>1. PICK ask \in [Review!Kinds -> {None} \cup MutationT] :
          Review!Outcome(k, "refused") = [review EXCEPT !.ask = ask]
    BY <1>0, ReviewOutcome
  <2>2. review' = [Review!Outcome(k, "refused") EXCEPT !.server = review.server]
    BY <1>0, <1>1, <2>1 DEF ReviewT
  <2>3. "refused" \in {"ok", "refused"}
    OBVIOUS
  <2> QED BY <1>0, <2>2, <2>3, ReviewHeld, ReviewCalm DEF Review!Edited
<1>2. CASE k = "save" /\ Review!ServeSave
  BY <1>0, <1>2, ReviewSaved
<1>3. CASE k = "verify" /\ Review!ServeVerify
  <2> DEFINE doc == [review.server EXCEPT !.verified = TRUE]
  <2>1. doc \in DocumentT(Nat \cup {None}) /\ doc.id = review.server.id /\ doc.text = review.server.text
    BY <1>0 DEF DocumentT
  <2>2. review' = [Review!Outcome(k, "ok") EXCEPT !.server = doc]
    BY <1>3 DEF Review!ServeVerify, Review!ServedWith
  <2> HIDE DEF doc
  <2>3. /\ ReviewSound(review') /\ review'.server = doc /\ review'.over = review.over
        /\ review'.data = review.data
    BY <1>0, <1>3, <2>1, <2>2, ReviewHeld
  <2>4. Review!NoTextLost
    BY <2>3 DEF Review!NoTextLost, Review!Edited
  <2>5. Review!ConfirmedIsOwn
    BY <1>0, <1>3 DEF Review!ConfirmedIsOwn, ReviewSound, SeenIsOwn, SeenIs, Review!ServeVerify,
       Review!Present
  <2> QED BY <2>3, <2>4, <2>5
<1>4. CASE k = "unverify" /\ Review!ServeUnverify
  <2> DEFINE doc == [review.server EXCEPT !.verified = FALSE]
  <2>1. doc \in DocumentT(Nat \cup {None}) /\ doc.id = review.server.id /\ doc.text = review.server.text
          /\ ~doc.verified
    BY <1>0 DEF DocumentT
  <2>2. review' = [Review!Outcome(k, "ok") EXCEPT !.server = doc]
    BY <1>4 DEF Review!ServeUnverify, Review!ServedWith
  <2> HIDE DEF doc
  <2> QED BY <1>0, <1>4, <2>1, <2>2, ReviewHeld, ReviewCalm DEF Review!Edited
<1>5. CASE k \in {"reparse", "deskew"} /\ Review!ServeReparse(k)
  <2> DEFINE doc == [review.server EXCEPT !.busy = TRUE]
  <2>1. doc \in DocumentT(Nat \cup {None}) /\ doc.id = review.server.id /\ doc.text = review.server.text
        /\ (doc.verified <=> review.server.verified)
    BY <1>0 DEF DocumentT
  <2>2. review' = [Review!Outcome(k, "ok") EXCEPT !.server = doc]
    BY <1>5 DEF Review!ServeReparse, Review!ServedWith
  <2> HIDE DEF doc
  <2> QED BY <1>0, <1>5, <2>1, <2>2, ReviewHeld, ReviewCalm DEF Review!Edited
<1>6. CASE k = "remove" /\ Review!ServeRemove
  <2> DEFINE doc == [review.server EXCEPT !.id = None]
  <2>1. doc \in DocumentT(Nat \cup {None}) /\ doc.id = None /\ doc.text = review.server.text
        /\ (doc.verified <=> review.server.verified)
    BY <1>0 DEF DocumentT
  <2>2. review' = [Review!Outcome(k, "ok") EXCEPT !.server = doc]
    BY <1>6 DEF Review!ServeRemove, Review!ServedWith
  <2> HIDE DEF doc
  <2> QED BY <1>0, <1>6, <2>1, <2>2, ReviewHeld, ReviewCalm DEF Review!Edited
<1> QED BY <1>1, <1>2, <1>3, <1>4, <1>5, <1>6 DEF Review!Serve

\* Processing ends with new invoices, or other users change the document.
LEMMA ReviewFinished == ASSUME ReviewSound(review), Review!Finish
  PROVE ReviewSound(review') /\ Review!NoTextLost /\ Review!ConfirmedIsOwn
<1>0. review \in ReviewT /\ review.server \in DocumentT(Nat \cup {None}) /\ review.drawn \in Nat
  BY ReviewTypes DEF ReviewSound
<1>1. \A k \in {"save", "verify", "unverify"} : k \in Review!Kinds
  BY DEF Review!Kinds
<1>2. CASE review' = [review EXCEPT !.server.busy = FALSE]
  <2> DEFINE doc == [review.server EXCEPT !.busy = FALSE]
  <2>1. /\ doc \in DocumentT(Nat \cup {None}) /\ doc.id = review.server.id /\ doc.text = review.server.text
        /\ (doc.verified <=> review.server.verified)
    BY <1>0 DEF DocumentT
  <2>2. review' = [review EXCEPT !.server = doc]
    BY <1>2
  <2> HIDE DEF doc
  <2>3. /\ review' \in ReviewT /\ review'.over = review.over /\ review'.during = review.during
        /\ review'.server = doc /\ review'.drawn = review.drawn /\ review'.data = review.data
        /\ review'.fetch = review.fetch /\ review'.ask = review.ask /\ review'.saved = review.saved
        /\ review'.foreign = review.foreign
    BY <1>0, <2>1, <2>2 DEF ReviewT
  <2>4. IdsFit(review') /\ TextsKnown(review')
    BY <2>1, <2>3 DEF ReviewSound, IdsFit, TextsKnown, Known, Fetched
  <2>5. EditsCovered(review') /\ SeenIsOwn(review')
    BY <2>1, <2>3 DEF ReviewSound, EditsCovered, Known, SeenIsOwn, SeenIs, Fetched
  <2> QED BY <2>1, <2>3, <2>4, <2>5, ReviewCalm DEF ReviewSound, Review!Edited
<1>3. CASE \E id \in {0, review.drawn + 1} : review' = [review EXCEPT
          !.drawn = @ + 1,
          !.server = Review!Parsed(id, FALSE, FALSE, FALSE)]
  <2>1. PICK id \in {0, review.drawn + 1} : review' = [review EXCEPT
          !.drawn = review.drawn + 1,
          !.server = Review!Parsed(id, FALSE, FALSE, FALSE)]
    BY <1>3
  <2>2. id \in Nat /\ review.drawn + 1 \in Nat
    BY <1>0
  <2> DEFINE doc == Review!Parsed(id, FALSE, FALSE, FALSE)
  <2>3. doc \in DocumentT(Nat \cup {None}) /\ doc.id = id /\ ~doc.verified /\ \A f \in Review!Fields :
          doc.text[f] = 0
    BY <2>2 DEF Review!Parsed, DocumentT, EntryT
  <2> HIDE DEF doc
  <2>4. /\ review' \in ReviewT /\ review'.over = review.over /\ review'.during = review.during
        /\ review'.server = doc /\ review'.drawn = review.drawn + 1 /\ review'.data = review.data
        /\ review'.fetch = review.fetch /\ review'.ask = review.ask /\ review'.saved = review.saved
        /\ review'.foreign = review.foreign
    BY <1>0, <2>1, <2>2, <2>3 DEF ReviewT, doc
  <2>5. /\ review.data.id \in Nat /\ (Fetched(review) => review.fetch.id \in Nat)
        /\ (review.over # None => review.over.id \in Nat)
        /\ (review.ask["verify"] # None => review.ask["verify"].id \in Nat)
    BY <1>0, <1>1, ReviewTypes
  \* No invoice that was seen is the new one.
  <2>6. \A n \in Nat : n <= review.drawn => n <= review.drawn + 1 /\ n # review.drawn + 1
    BY <1>0
  <2>7. IdsFit(review)
    BY DEF ReviewSound
  <2>8. review.data.id <= review.drawn /\ (Fetched(review) => review.fetch.id <= review.drawn)
         /\ (review.over # None => review.over.id # 0 /\ review.over.id <= review.drawn)
         /\ (review.ask["verify"] # None => review.ask["verify"].id <= review.drawn)
    BY <2>7 DEF IdsFit
  <2>9. /\ id <= review.drawn + 1 /\ (review.data.id # 0 => id # review.data.id)
         /\ (review.over # None => id # review.over.id)
         /\ (Fetched(review) /\ review.fetch.id # 0 => id # review.fetch.id)
         /\ (review.ask["verify"] # None /\ review.ask["verify"].id # 0 => id # review.ask["verify"].id)
    BY <1>0, <2>1, <2>5, <2>6, <2>8
  <2>10. Fetched(review') <=> Fetched(review)
    BY <2>4 DEF Fetched
  <2>11. IdsFit(review')
    BY <2>3, <2>4, <2>5, <2>6, <2>7, <2>8, <2>9, <2>10 DEF IdsFit
  <2>12. TextsKnown(review')
    BY <2>3, <2>4 DEF ReviewSound, TextsKnown, Known, Fetched
  <2>13. EditsCovered(review')
    BY <2>4 DEF ReviewSound, EditsCovered, Known
  <2>14. SeenIsOwn(review')
    BY <2>3, <2>4, <2>9, <2>10 DEF SeenIsOwn, SeenIs
  <2> QED BY <2>3, <2>4, <2>11, <2>12, <2>13, <2>14, ReviewCalm DEF ReviewSound, Review!Edited
<1> QED BY <1>2, <1>3 DEF Review!Finish

LEMMA ReviewForeign == ASSUME ReviewSound(review), Review!Foreign
  PROVE ReviewSound(review') /\ Review!NoTextLost /\ Review!ConfirmedIsOwn
<1>0. review \in ReviewT /\ review.server \in DocumentT(Nat \cup {None}) /\ review.foreign \in Nat
      /\ review.server.text \in [Review!Fields -> EntryT]
  BY ReviewTypes DEF ReviewSound
<1>1. PICK doc \in Review!ForeignChanges(review.server) :
        review' = [review EXCEPT !.server = doc, !.foreign = review.foreign + 1]
  BY DEF Review!Foreign
<1>2. /\ doc \in DocumentT(Nat \cup {None}) /\ doc.id = review.server.id
      /\ \A f \in Review!Fields : doc.text[f] \in {review.server.text[f], Other}
  <2>1. CASE doc = [review.server EXCEPT !.verified = ~@]
    BY <1>0, <2>1 DEF DocumentT
  <2>2. CASE doc = [review.server EXCEPT !.text["header"] = Other]
    <3> DEFINE text == [review.server.text EXCEPT !["header"] = Other]
    <3>1. text \in [Review!Fields -> EntryT] /\ \A f \in Review!Fields :
            text[f] \in {review.server.text[f], Other}
      BY <1>0 DEF EntryT
    <3>2. doc = [review.server EXCEPT !.text = text]
      BY <2>2
    <3> HIDE DEF text
    <3> QED BY <1>0, <3>1, <3>2 DEF DocumentT
  <2>3. CASE doc = [review.server EXCEPT !.busy = TRUE]
    BY <1>0, <2>3 DEF DocumentT
  <2> QED BY <2>1, <2>2, <2>3 DEF Review!ForeignChanges
<1>3. review.foreign + 1 \in Nat /\ review.foreign + 1 # 0
  BY <1>0
<1>4. /\ review' \in ReviewT /\ review'.over = review.over /\ review'.during = review.during
      /\ review'.server = doc /\ review'.drawn = review.drawn /\ review'.data = review.data
      /\ review'.fetch = review.fetch /\ review'.ask = review.ask /\ review'.saved = review.saved
      /\ review'.foreign = review.foreign + 1
  BY <1>0, <1>1, <1>2, <1>3 DEF ReviewT
<1>5. IdsFit(review')
  BY <1>2, <1>4 DEF ReviewSound, IdsFit, Fetched
<1>6. TextsKnown(review')
  BY <1>2, <1>4 DEF ReviewSound, TextsKnown, Known, Fetched
<1>7. EditsCovered(review')
  BY <1>4 DEF ReviewSound, EditsCovered, Known
<1>8. SeenIsOwn(review')
  BY <1>2, <1>4 DEF ReviewSound, SeenIsOwn, SeenIs, Fetched
<1>10. Review!ConfirmedIsOwn
  BY <1>0, <1>4 DEF Review!ConfirmedIsOwn
<1>9. Review!NoTextLost
  BY <1>4 DEF Review!NoTextLost, Review!Edited
<1> QED BY <1>4, <1>5, <1>6, <1>7, <1>8, <1>9, <1>10 DEF ReviewSound

\* The page gets an answer, asks for the document anew, or lands it.
LEMMA ReviewDropped ==
  ASSUME ReviewSound(review), NEW k \in Review!Kinds,
    Review!AnswerEdit(k) \/ Review!AnswerReparse(k)
      \/ (k = "remove" /\ Review!AnswerRemove), review' # Review!Gone
  PROVE  ReviewSound(review') /\ Review!NoTextLost /\ Review!ConfirmedIsOwn
<1>0. review \in ReviewT /\ review.data \in DocumentT(Nat) /\ review.data.id \in Nat /\ review.ask[k] # None
  BY ReviewTypes DEF ReviewSound, Review!AnswerEdit, Review!AnswerReparse, Review!AnswerRemove,
     Review!IsPending
<1> DEFINE ask == [review.ask EXCEPT ![k] = None]
           busy == [review.data EXCEPT !.busy = TRUE]
<1>1. ask \in [Review!Kinds -> {None} \cup MutationT] /\ \A j \in Review!Kinds :
        ask[j] = IF j = k THEN None ELSE review.ask[j]
  BY <1>0 DEF ReviewT
<1>2. busy \in DocumentT(Nat) /\ busy.id = review.data.id /\ busy.text = review.data.text
  BY <1>0 DEF DocumentT
<1>3. PICK coming \in {review.fetch, Sent}, over \in {review.over, None}, during \in {review.during, {}},
           data \in {review.data, busy} :
        /\ review' = [review EXCEPT !.ask = ask, !.fetch = coming, !.over = over, !.during = during,
           !.data = data]
        /\ over # review.over \/ during # review.during
             => /\ k \in {"save", "verify", "unverify"} /\ review.ask[k].outcome = "ok"
                /\ over = None
  <2> DEFINE Result(coming, over, during, data) ==
               [review EXCEPT !.ask = ask, !.fetch = coming, !.over = over, !.during = during, !.data = data]
  <2>1. CASE review' = [review EXCEPT !.ask[k] = None]
    <3>1. review' = Result(review.fetch, review.over, review.during, review.data)
      BY <1>0, <2>1 DEF ReviewT
    <3> QED BY <3>1
  <2>2. CASE /\ k \in {"save", "verify", "unverify"} /\ review.ask[k].outcome = "ok"
             /\ review' = [review EXCEPT !.ask[k] = None, !.fetch = Sent, !.over = None, !.during = {}]
    <3>1. review' = Result(Sent, None, {}, review.data)
      BY <1>0, <2>2 DEF ReviewT
    <3> QED BY <2>2, <3>1
  <2>3. CASE review' = [review EXCEPT !.ask[k] = None, !.fetch = Sent, !.data.busy = TRUE]
    <3>1. review' = Result(Sent, review.over, review.during, busy)
      BY <1>0, <2>3 DEF ReviewT
    <3> QED BY <3>1
  <2> QED BY <2>1, <2>2, <2>3 DEF Review!AnswerEdit, Review!AnswerReparse, Review!AnswerRemove
<1> HIDE DEF ask, busy
<1>4. /\ review' \in ReviewT /\ review'.over = over /\ review'.during = during
      /\ review'.server = review.server /\ review'.drawn = review.drawn /\ review'.data = data
      /\ review'.fetch = coming /\ review'.ask = ask /\ review'.saved = review.saved
      /\ review'.foreign = review.foreign
  BY <1>0, <1>1, <1>2, <1>3 DEF ReviewT
<1>5. data.id = review.data.id /\ data.text = review.data.text
  BY <1>2
<1>6. \A j \in {"save", "verify", "unverify"} : ask[j] # None => ask[j] = review.ask[j]
  BY <1>1 DEF Review!Kinds
<1>7. Fetched(review') => Fetched(review) /\ coming = review.fetch
  BY <1>4 DEF Fetched
<1>8. IdsFit(review')
  BY <1>3, <1>4, <1>5, <1>6, <1>7 DEF ReviewSound, IdsFit
<1>9. TextsKnown(review')
  BY <1>4, <1>5, <1>7 DEF ReviewSound, TextsKnown, Known
<1>10. EditsCovered(review')
  BY <1>3, <1>4, <1>5, <1>6 DEF ReviewSound, EditsCovered, Known
<1>11. SeenIsOwn(review')
  BY <1>4, <1>5, <1>6, <1>7 DEF ReviewSound, SeenIsOwn, SeenIs
<1>12. Review!NoTextLost
  <2>0. Review!Edited /\ over # None => Review!Edited'
    BY <1>3, <1>4, <1>5 DEF Review!Edited
  <2> SUFFICES ASSUME Review!Edited, over = None, NEW f \in Review!Fields
               PROVE  review.over.text[f] \in review.saved \cup review.during \cup {0, Other, None}
    BY <1>4, <2>0 DEF Review!NoTextLost
  <2>1. k \in {"save", "verify", "unverify"} /\ review.ask[k].outcome = "ok" /\ review.ask[k] # None
    BY <1>0, <1>3 DEF Review!Edited
  <2> QED BY <2>1 DEF Review!Edited, ReviewSound, EditsCovered, Known
<1>13. Review!ConfirmedIsOwn
  BY <1>4 DEF Review!ConfirmedIsOwn
<1> QED BY <1>4, <1>8, <1>9, <1>10, <1>11, <1>12, <1>13 DEF ReviewSound

LEMMA ReviewFetched ==
  ASSUME ReviewSound(review), Review!Poll \/ Review!Read \/ Review!Land
  PROVE  ReviewSound(review') /\ Review!NoTextLost /\ Review!ConfirmedIsOwn
<1>0. review \in ReviewT /\ review.server \in DocumentT(Nat \cup {None})
  BY ReviewTypes DEF ReviewSound
<1>1. CASE Review!Poll \/ Review!Read
  <2>1. PICK coming \in {None, Sent, review.server} :
          /\ review' = [review EXCEPT !.fetch = coming]
          /\ coming \notin {None, Sent} => coming = review.server /\ review.server.id # None
    BY <1>1 DEF Review!Poll, Review!Read
  <2>2. coming \in {None, Sent} \cup DocumentT(Nat)
    BY <1>0, <2>1 DEF DocumentT
  <2>3. /\ review' \in ReviewT /\ review'.over = review.over /\ review'.during = review.during
        /\ review'.server = review.server /\ review'.drawn = review.drawn /\ review'.data = review.data
        /\ review'.fetch = coming /\ review'.ask = review.ask /\ review'.saved = review.saved
        /\ review'.foreign = review.foreign
    BY <1>0, <2>1, <2>2 DEF ReviewT
  <2>4. Fetched(review') => coming = review.server /\ review.server.id # None
    BY <2>1, <2>3 DEF Fetched
  <2>5. IdsFit(review')
    BY <2>3, <2>4 DEF ReviewSound, IdsFit
  <2>6. TextsKnown(review') /\ EditsCovered(review')
    BY <2>3, <2>4 DEF ReviewSound, TextsKnown, EditsCovered, Known
  <2>7. SeenIsOwn(review')
    BY <2>3, <2>4 DEF ReviewSound, SeenIsOwn, SeenIs
  <2> QED BY <2>3, <2>5, <2>6, <2>7, ReviewCalm DEF ReviewSound, Review!Edited
<1>2. CASE Review!Land
  <2>1. Fetched(review) /\ review' = [review EXCEPT !.data = review.fetch, !.fetch = None]
    BY <1>2 DEF Review!Land, Fetched
  <2>2. review.fetch \in DocumentT(Nat) /\ review.data.id \in Nat
    BY <1>0, <2>1, ReviewTypes
  <2>3. /\ review' \in ReviewT /\ review'.over = review.over /\ review'.during = review.during
        /\ review'.server = review.server /\ review'.drawn = review.drawn /\ review'.data = review.fetch
        /\ review'.fetch = None /\ review'.ask = review.ask /\ review'.saved = review.saved
        /\ review'.foreign = review.foreign
    BY <1>0, <2>1, <2>2 DEF ReviewT
  <2>4. ~Fetched(review')
    BY <2>3 DEF Fetched
  <2>5. IdsFit(review')
    BY <2>1, <2>3, <2>4 DEF ReviewSound, IdsFit
  <2>6. TextsKnown(review')
    BY <2>1, <2>3, <2>4 DEF ReviewSound, TextsKnown, Known
  \* The edits are still those of the invoice they were of.
  <2>7. review.over # None /\ review.over.id = review.fetch.id => review.over.id = review.data.id
    BY <2>1 DEF ReviewSound, IdsFit
  <2>8. EditsCovered(review')
    BY <2>3, <2>7 DEF ReviewSound, EditsCovered, Known
  <2>9. SeenIsOwn(review')
    BY <2>1, <2>3, <2>4 DEF ReviewSound, SeenIsOwn, SeenIs
  \* Edits go only with their invoice.
  <2>10. Review!NoTextLost
    <3>1. review.fetch.id # review.data.id /\ review.data.id # 0 => review.server.id # review.data.id
      BY <2>1 DEF ReviewSound, IdsFit
    <3>2. Review!Edited => review.data.id # 0
      BY DEF Review!Edited, ReviewSound, IdsFit
    <3> QED BY <2>3, <3>1, <3>2 DEF Review!NoTextLost, Review!Edited
  <2>11. Review!ConfirmedIsOwn
    BY <2>3 DEF Review!ConfirmedIsOwn
  <2> QED BY <2>3, <2>5, <2>6, <2>8, <2>9, <2>10, <2>11 DEF ReviewSound
<1> QED BY <1>1, <1>2

LEMMA ReviewDialog == ASSUME ReviewSound(review), Review!OpenDialog \/ Review!CloseDialog
  PROVE ReviewSound(review') /\ Review!NoTextLost /\ Review!ConfirmedIsOwn
<1>0. review \in ReviewT
  BY DEF ReviewSound
<1>1. review' = [review EXCEPT !.dialog = TRUE] \/ review' = [review EXCEPT !.dialog = FALSE]
  BY DEF Review!OpenDialog, Review!CloseDialog
<1>2. /\ review' \in ReviewT /\ review'.over = review.over /\ review'.during = review.during
      /\ review'.server = review.server /\ review'.drawn = review.drawn /\ review'.data = review.data
      /\ review'.fetch = review.fetch /\ review'.ask = review.ask /\ review'.saved = review.saved
      /\ review'.foreign = review.foreign
  BY <1>0, <1>1 DEF ReviewT
<1>3. IdsFit(review') /\ TextsKnown(review')
  BY <1>2 DEF ReviewSound, IdsFit, TextsKnown, Known, Fetched
<1>4. EditsCovered(review') /\ SeenIsOwn(review')
  BY <1>2 DEF ReviewSound, EditsCovered, Known, SeenIsOwn, SeenIs, Fetched
<1> QED BY <1>2, <1>3, <1>4, ReviewCalm DEF ReviewSound, Review!Edited

LEMMA ReviewStep ==
  ASSUME ReviewSound(review), Review!Step
  PROVE  (review' # Review!Gone => ReviewSound(review')) /\ Review!NoTextLost /\ Review!ConfirmedIsOwn
<1>1. CASE Review!EditHeader \/ Review!EditRow \/ Review!RemoveRow
  BY <1>1, ReviewTyped
<1>2. CASE Review!Save \/ Review!Verify \/ Review!Unverify \/ Review!Reparse \/ Review!Deskew \/ Review!Remove
  BY <1>2, ReviewAsked
<1>3. CASE Review!OpenDialog \/ Review!CloseDialog
  BY <1>3, ReviewDialog
<1>4. ASSUME NEW k \in Review!Kinds, Review!Serve(k)
      PROVE ReviewSound(review') /\ Review!NoTextLost /\ Review!ConfirmedIsOwn
  BY <1>4, ReviewServed
<1>5. ASSUME NEW k \in Review!Kinds, Review!AnswerEdit(k) \/ Review!AnswerReparse(k)
        \/ (k = "remove" /\ Review!AnswerRemove)
      PROVE  (review' # Review!Gone => ReviewSound(review')) /\ Review!NoTextLost /\ Review!ConfirmedIsOwn
  <2>1. CASE review' # Review!Gone
    BY <1>5, <2>1, ReviewDropped
  <2>2. CASE review' = Review!Gone
    <3>1. review'.page # "review"
      BY <2>2 DEF Review!Gone
    <3>2. Review!NoTextLost
      BY <3>1 DEF Review!NoTextLost
    <3>3. Review!ConfirmedIsOwn
      BY <3>1 DEF Review!ConfirmedIsOwn
    <3> QED BY <2>2, <3>2, <3>3
  <2> QED BY <2>1, <2>2
<1>6. CASE Review!Finish \/ Review!Foreign
  BY <1>6, ReviewFinished, ReviewForeign
<1>7. CASE Review!Poll \/ Review!Read \/ Review!Land
  BY <1>7, ReviewFetched
<1>8. "remove" \in Review!Kinds
  BY DEF Review!Kinds
<1> QED BY <1>1, <1>2, <1>3, <1>4, <1>5, <1>6, <1>7, <1>8 DEF Review!Step

-----------------------------------------------------------------------------
(* Uploads. Drops overlap, but each sends its files one after the other, so *)
(* an answer is about the one request of its drop that is under way.        *)

DocStatuses == {"absent", "processing", "parsed", "error"}
ResultT == [doc : Sheet!Files, status : DocStatuses, duplicate : BOOLEAN]
JobT ==
  [id : Nat \X {1, 2}, file : Sheet!Files, status : {"pending", "uploading", "ready", "error"},
    result : {None} \cup ResultT]
SheetAskT ==
  [id : Nat \X {1, 2}, files : Sheet!FileLists, file : Sheet!Files, at : {"sent", "served", "answered"},
   result : {None} \cup ResultT]
SheetT ==
  [jobs : Seq(JobT), asks : Seq(SheetAskT), docs : [Sheet!Files -> DocStatuses],
    seen : [Sheet!Files -> {None} \cup DocStatuses],
   parsed : SUBSET Sheet!Files, drops : Nat, foreign : Nat]

LEMMA SheetFiles ==
  \A files \in Sheet!FileLists : Len(files) = 2 /\ DOMAIN files = 1..2 /\ files[1] \in Sheet!Files
    /\ files[2] \in Sheet!Files
BY DEF Sheet!FileLists, Sheet!Files

LEMMA SheetWith ==
  ASSUME NEW jobs \in Seq(JobT), NEW id \in Nat \X {1, 2}, NEW status \in {"uploading", "ready", "error"},
    NEW result \in {None} \cup ResultT
  PROVE  /\ Sheet!With(jobs, id, status, result) \in Seq(JobT)
         /\ Len(Sheet!With(jobs, id, status, result)) = Len(jobs)
         /\ DOMAIN Sheet!With(jobs, id, status, result) = DOMAIN jobs
         /\ \A i \in DOMAIN jobs :
              /\ Sheet!With(jobs, id, status, result)[i].id = jobs[i].id
              /\ Sheet!With(jobs, id, status, result)[i].file = jobs[i].file
              /\ jobs[i].id = id => /\ Sheet!With(jobs, id, status, result)[i].status = status
                                   /\ Sheet!With(jobs, id, status, result)[i].result = result
              /\ jobs[i].id # id => Sheet!With(jobs, id, status, result)[i] = jobs[i]
<1> DEFINE n == Len(jobs)
           Job(i) == [jobs[i] EXCEPT !.status = status, !.result = result]
           with == Sheet!With(jobs, id, status, result)
<1>1. n \in Nat /\ DOMAIN jobs = 1..n /\ \A i \in 1..n : jobs[i] \in JobT
  OBVIOUS
<1>2. \A i \in 1..n : Job(i) \in JobT /\ Job(i).id = jobs[i].id /\ Job(i).file = jobs[i].file
                      /\ Job(i).status = status /\ Job(i).result = result
  BY <1>1 DEF JobT
<1>3. with = [i \in 1..n |-> IF jobs[i].id = id THEN Job(i) ELSE jobs[i]]
  BY <1>1 DEF Sheet!With, Sheet!Place
<1> HIDE DEF Job, with
<1>4. with \in [1..n -> JobT]
  BY <1>1, <1>2, <1>3
<1> HIDE DEF n
<1>5. with \in Seq(JobT)
  BY <1>1, <1>4, SeqDef
<1>6. Len(with) = n /\ DOMAIN with = 1..n
  BY <1>1, <1>4, <1>5
<1>7. \A i \in 1..n : /\ with[i].id = jobs[i].id /\ with[i].file = jobs[i].file
                      /\ jobs[i].id = id => with[i].status = status /\ with[i].result = result
                      /\ jobs[i].id # id => with[i] = jobs[i]
  BY <1>2, <1>3
<1> QED BY <1>1, <1>5, <1>6, <1>7 DEF with, n

\* Drops are numbered in their order.
Sheeted(s) ==
  /\ \A i \in DOMAIN s.jobs : s.jobs[i].id[1] <= s.drops
  /\ \A k \in DOMAIN s.asks : s.asks[k].id[1] <= s.drops
\* A job has an id of its own and the file that its drop has at its place.
OwnFile(s) ==
  /\ \A i, j \in DOMAIN s.jobs : i # j => s.jobs[i].id # s.jobs[j].id
  /\ \A k \in DOMAIN s.asks :
       /\ s.asks[k].file = s.asks[k].files[s.asks[k].id[2]]
       /\ \A i \in DOMAIN s.jobs : s.jobs[i].id[1] = s.asks[k].id[1]
          => s.jobs[i].file = s.asks[k].files[s.jobs[i].id[2]]
       /\ s.asks[k].result # None => s.asks[k].result.doc = s.asks[k].file
\* A drop has one request under way, and the rows say what became of theirs.
OneUnderway(s) ==
  /\ \A k, l \in DOMAIN s.asks :
       k # l /\ s.asks[k].id[1] = s.asks[l].id[1] => s.asks[k].at = "answered" \/ s.asks[l].at = "answered"
  /\ \A i \in DOMAIN s.jobs :
       /\ s.jobs[i].status = "uploading" => \E k \in DOMAIN s.asks :
          s.asks[k].id = s.jobs[i].id /\ s.asks[k].at # "answered"
       /\ s.jobs[i].status = "ready" =>
            /\ s.jobs[i].result # None
            /\ \E k \in DOMAIN s.asks : s.asks[k].id = s.jobs[i].id /\ s.asks[k].result = s.jobs[i].result
\* Only the first upload of a file is told that its document is new.
FirstIsNew(s) ==
  /\ \A k \in DOMAIN s.asks : s.asks[k].at = "sent" => s.asks[k].result = None
  /\ \A k \in DOMAIN s.asks : s.asks[k].result # None => s.docs[s.asks[k].result.doc] # "absent"
  /\ \A k, l \in DOMAIN s.asks :
       k # l /\ s.asks[k].result # None /\ s.asks[l].result # None
         /\ s.asks[k].result.doc = s.asks[l].result.doc
         => s.asks[k].result.duplicate \/ s.asks[l].result.duplicate
\* Whatever was seen as parsed has been parsed once.
ParsedOnce(s) ==
  /\ \A f \in Sheet!Files :
       /\ s.docs[f] = "parsed" => f \in s.parsed
       /\ s.seen[f] = "parsed" => f \in s.parsed
  /\ \A k \in DOMAIN s.asks :
       s.asks[k].result # None /\ s.asks[k].result.status = "parsed" => s.asks[k].result.doc \in s.parsed
SheetSound(s) == s \in SheetT /\ Sheeted(s) /\ OwnFile(s) /\ OneUnderway(s) /\ FirstIsNew(s) /\ ParsedOnce(s)

LEMMA SheetTypes ==
  ASSUME NEW s \in SheetT
  PROVE  /\ s.jobs \in Seq(JobT) /\ s.asks \in Seq(SheetAskT) /\ DOMAIN s.asks = 1..Len(s.asks)
         /\ Len(s.asks) \in Nat
         /\ DOMAIN s.jobs = 1..Len(s.jobs) /\ Len(s.jobs) \in Nat
         /\ \A i \in DOMAIN s.jobs : s.jobs[i] \in JobT /\ s.jobs[i].id \in Nat \X {1, 2}
            /\ s.jobs[i].id[1] \in Nat
                                     /\ s.jobs[i].id[2] \in {1, 2}
         /\ \A k \in DOMAIN s.asks : /\ s.asks[k] \in SheetAskT /\ s.asks[k].id \in Nat \X {1, 2}
                                        /\ s.asks[k].id[1] \in Nat
                                     /\ s.asks[k].id[2] \in {1, 2}
                                     /\ s.asks[k].files \in Sheet!FileLists /\ s.asks[k].file \in Sheet!Files
                                     /\ s.asks[k].result # None
                                        => s.asks[k].result \in ResultT
                                          /\ s.asks[k].result.doc \in Sheet!Files
         /\ s.docs \in [Sheet!Files -> DocStatuses] /\ s.seen \in [Sheet!Files -> {None} \cup DocStatuses]
         /\ s.drops \in Nat
         /\ s.foreign \in Nat /\ s.parsed \in SUBSET Sheet!Files
<1>1. s.jobs \in Seq(JobT) /\ s.asks \in Seq(SheetAskT)
  BY DEF SheetT
<1>2. \A i \in DOMAIN s.jobs : s.jobs[i] \in JobT
  BY <1>1
<1>3. \A k \in DOMAIN s.asks : s.asks[k] \in SheetAskT
  BY <1>1
<1> QED BY <1>1, <1>2, <1>3 DEF SheetT, JobT, SheetAskT, ResultT

LEMMA SheetConcat ==
  ASSUME NEW a \in Seq(JobT), NEW b \in Seq(JobT)
  PROVE  /\ a \o b \in Seq(JobT) /\ Len(a \o b) = Len(a) + Len(b)
         /\ \A i \in 1..(Len(a) + Len(b)) : (a \o b)[i] = IF i <= Len(a) THEN a[i] ELSE b[i - Len(a)]
OBVIOUS

LEMMA SheetOpen == Sheet!Open => SheetSound(uploads')
<1> SUFFICES ASSUME Sheet!Open PROVE SheetSound(uploads')
  OBVIOUS
<1>1. PICK old \in {"absent", "parsed", "error"} :
    uploads' = [jobs |-> <<>>, asks |-> <<>>,
                docs |-> [f \in Sheet!Files |-> IF f = "x" THEN old ELSE "absent"],
                seen |-> [f \in Sheet!Files |-> None], parsed |-> IF old = "parsed" THEN {"x"} ELSE {},
                drops |-> 0, foreign |-> 0]
  BY DEF Sheet!Open
<1> DEFINE docs == [f \in Sheet!Files |-> IF f = "x" THEN old ELSE "absent"]
           seen == [f \in Sheet!Files |-> None]
           done == IF old = "parsed" THEN {"x"} ELSE {}
<1>2. docs \in [Sheet!Files -> DocStatuses] /\ \A f \in Sheet!Files : docs[f] = "parsed" => f \in done
  BY DEF Sheet!Files, DocStatuses
<1>3. seen \in [Sheet!Files -> {None} \cup DocStatuses] /\ \A f \in Sheet!Files : seen[f] = None
  OBVIOUS
<1>4. done \in SUBSET Sheet!Files
  BY DEF Sheet!Files
<1> HIDE DEF docs, seen, done
<1>5. /\ uploads' \in SheetT /\ uploads'.docs = docs /\ uploads'.seen = seen /\ uploads'.parsed = done
      /\ uploads'.jobs = <<>> /\ uploads'.asks = <<>>
  <2>1. uploads' = [jobs |-> <<>>, asks |-> <<>>, docs |-> docs, seen |-> seen, parsed |-> done,
          drops |-> 0, foreign |-> 0]
    BY <1>1 DEF docs, seen, done
  <2> QED BY <1>2, <1>3, <1>4, <2>1 DEF SheetT
<1> QED BY <1>2, <1>3, <1>5, ValuesAssumption DEF SheetSound, Sheeted, OwnFile, OneUnderway, FirstIsNew,
      ParsedOnce

\* The loop of a drop goes on when its request is answered.
LEMMA SheetContinue ==
  ASSUME NEW s, SheetSound(s), NEW n \in {1, 2, 3}, NEW files \in Sheet!FileLists, NEW drop \in Nat,
    drop <= s.drops,
         \A k \in DOMAIN s.asks : s.asks[k].id[1] = drop => s.asks[k].at = "answered",
         \A i \in DOMAIN s.jobs : s.jobs[i].id[1] = drop => s.jobs[i].file = files[s.jobs[i].id[2]]
  PROVE  SheetSound(Sheet!Continue(s, drop, n, files))
<1>0. s \in SheetT
  BY DEF SheetSound
<1>1. CASE n = 3
  <2>0. Len(files) = 2
    BY SheetFiles
  <2>1. Sheet!Continue(s, drop, n, files) = s
    BY <1>1, <2>0 DEF Sheet!Continue
  <2> QED BY <2>1
<1>2. CASE n \in {1, 2}
  <2> DEFINE id == <<drop, n>>
             ask == [id |-> id, files |-> files, file |-> files[n], at |-> "sent", result |-> None]
             asks == Append(s.asks, ask)
             m == Len(s.asks) + 1
             jobs == Sheet!With(s.jobs, id, "uploading", None)
             t == Sheet!Continue(s, drop, n, files)
  <2>1. id \in Nat \X {1, 2} /\ id[1] = drop /\ id[2] = n
    BY <1>2
  <2> HIDE DEF id
  <2>2. /\ ask \in SheetAskT /\ ask.id = id /\ ask.files = files /\ ask.file = files[n] /\ ask.at = "sent"
        /\ ask.result = None
    BY <1>2, <2>1, SheetFiles DEF SheetAskT
  <2>3. t = [s EXCEPT !.jobs = jobs, !.asks = asks]
    BY <1>2, SheetFiles DEF Sheet!Continue, id
  <2> HIDE DEF ask
  <2>4. /\ asks \in Seq(SheetAskT) /\ m \in DOMAIN asks /\ asks[m] = ask /\ m \notin DOMAIN s.asks
        /\ \A k \in DOMAIN s.asks : k \in DOMAIN asks /\ asks[k] = s.asks[k]
        /\ \A k \in DOMAIN asks : k # m => k \in DOMAIN s.asks
    BY <1>0, <2>2, SheetTypes
  <2>5. /\ jobs \in Seq(JobT) /\ DOMAIN jobs = DOMAIN s.jobs
        /\ \A i \in DOMAIN s.jobs :
             /\ jobs[i].id = s.jobs[i].id /\ jobs[i].file = s.jobs[i].file
             /\ s.jobs[i].id = id => jobs[i].status = "uploading"
             /\ s.jobs[i].id # id => jobs[i] = s.jobs[i]
    <3>1. s.jobs \in Seq(JobT) /\ "uploading" \in {"uploading", "ready", "error"}
            /\ None \in {None} \cup ResultT
      BY <1>0, SheetTypes
    <3> QED BY <2>1, <3>1, SheetWith
  <2> HIDE DEF asks, jobs, m, t
  <2>6. /\ t \in SheetT /\ t.jobs = jobs /\ t.asks = asks /\ t.docs = s.docs /\ t.seen = s.seen
        /\ t.parsed = s.parsed
        /\ t.drops = s.drops /\ t.foreign = s.foreign
    BY <1>0, <2>3, <2>4, <2>5 DEF SheetT
  <2>7. Sheeted(t)
    <3>1. \A k \in DOMAIN asks : asks[k].id[1] <= s.drops
      BY <2>1, <2>2, <2>4 DEF SheetSound, Sheeted
    <3> QED BY <2>5, <2>6, <3>1 DEF SheetSound, Sheeted
  <2>8. OwnFile(t)
    <3>1. \A i, j \in DOMAIN jobs : i # j => jobs[i].id # jobs[j].id
      BY <2>5 DEF SheetSound, OwnFile
    <3>2. ASSUME NEW k \in DOMAIN asks
          PROVE  /\ asks[k].file = asks[k].files[asks[k].id[2]]
                 /\ \A i \in DOMAIN jobs : jobs[i].id[1] = asks[k].id[1]
                    => jobs[i].file = asks[k].files[jobs[i].id[2]]
                 /\ asks[k].result # None => asks[k].result.doc = asks[k].file
      <4>1. CASE k = m
        BY <2>1, <2>2, <2>4, <2>5, <4>1
      <4>2. CASE k # m
        <5>1. k \in DOMAIN s.asks /\ asks[k] = s.asks[k]
          BY <2>4, <4>2
        <5>2. \A i \in DOMAIN s.jobs : s.jobs[i].id[1] = asks[k].id[1]
                => s.jobs[i].file = asks[k].files[s.jobs[i].id[2]]
          BY <5>1 DEF SheetSound, OwnFile
        <5>3. /\ asks[k].file = asks[k].files[asks[k].id[2]]
              /\ asks[k].result # None => asks[k].result.doc = asks[k].file
          BY <5>1 DEF SheetSound, OwnFile
        <5> QED BY <2>5, <5>2, <5>3
      <4> QED BY <4>1, <4>2
    <3> QED BY <2>6, <3>1, <3>2 DEF OwnFile
  <2>9. OneUnderway(t)
    <3>1. \A k, l \in DOMAIN asks : k # l /\ asks[k].id[1] = asks[l].id[1]
            => asks[k].at = "answered" \/ asks[l].at = "answered"
      <4> SUFFICES ASSUME NEW k \in DOMAIN asks, NEW l \in DOMAIN asks, k # l, asks[k].id[1] = asks[l].id[1]
                   PROVE  asks[k].at = "answered" \/ asks[l].at = "answered"
        OBVIOUS
      <4>1. CASE k = m
        BY <2>1, <2>2, <2>4, <4>1
      <4>2. CASE l = m
        BY <2>1, <2>2, <2>4, <4>2
      <4>3. CASE k # m /\ l # m
        BY <2>4, <4>3 DEF SheetSound, OneUnderway
      <4> QED BY <4>1, <4>2, <4>3
    <3>2. ASSUME NEW i \in DOMAIN jobs, jobs[i].status = "uploading"
          PROVE  \E k \in DOMAIN asks : asks[k].id = jobs[i].id /\ asks[k].at # "answered"
      <4>1. CASE s.jobs[i].id = id
        BY <2>2, <2>4, <2>5, <4>1
      <4>2. CASE s.jobs[i].id # id
        BY <2>4, <2>5, <3>2, <4>2 DEF SheetSound, OneUnderway
      <4> QED BY <4>1, <4>2
    <3>3. ASSUME NEW i \in DOMAIN jobs, jobs[i].status = "ready"
          PROVE  jobs[i].result # None /\ \E k \in DOMAIN asks :
            asks[k].id = jobs[i].id /\ asks[k].result = jobs[i].result
      <4>1. jobs[i] = s.jobs[i]
        BY <2>5, <3>3
      <4> QED BY <2>4, <2>5, <3>3, <4>1 DEF SheetSound, OneUnderway
    <3> QED BY <2>6, <3>1, <3>2, <3>3 DEF OneUnderway
  <2>10. \A k \in DOMAIN asks : asks[k].result # None => k \in DOMAIN s.asks /\ asks[k] = s.asks[k]
    BY <2>2, <2>4
  <2>11. FirstIsNew(t)
    <3>1. \A k \in DOMAIN asks : asks[k].at = "sent" => asks[k].result = None
      BY <2>10 DEF SheetSound, FirstIsNew
    <3>2. \A k \in DOMAIN asks : asks[k].result # None => s.docs[asks[k].result.doc] # "absent"
      BY <2>10 DEF SheetSound, FirstIsNew
    <3>3. ASSUME NEW k \in DOMAIN asks, NEW l \in DOMAIN asks,
                 k # l, asks[k].result # None, asks[l].result # None, asks[k].result.doc = asks[l].result.doc
          PROVE  asks[k].result.duplicate \/ asks[l].result.duplicate
      BY <2>10, <3>3 DEF SheetSound, FirstIsNew
    <3> QED BY <2>6, <3>1, <3>2, <3>3 DEF FirstIsNew
  <2>12. ParsedOnce(t)
    BY <2>6, <2>10 DEF SheetSound, ParsedOnce
  <2> QED BY <2>6, <2>7, <2>8, <2>9, <2>11, <2>12 DEF SheetSound, t
<1> QED BY <1>1, <1>2

LEMMA SheetDropped == ASSUME SheetSound(uploads), Sheet!HandleDrop PROVE SheetSound(uploads')
<1>0. uploads \in SheetT
  BY DEF SheetSound
<1> DEFINE drop == uploads.drops + 1
           old == uploads.jobs
           Job(files, i) == [id |-> <<drop, i>>, file |-> files[i], status |-> "pending", result |-> None]
           New(files) == [i \in DOMAIN files |-> Job(files, i)]
<1>1. PICK files \in Sheet!FileLists :
        uploads' = Sheet!Continue([uploads EXCEPT !.jobs = New(files) \o old, !.drops = drop], drop, 1, files)
  BY DEF Sheet!HandleDrop
<1> DEFINE new == New(files)
           jobs == new \o old
           s == [uploads EXCEPT !.jobs = jobs, !.drops = drop]
<1>2. /\ old \in Seq(JobT) /\ DOMAIN old = 1..Len(old) /\ Len(old) \in Nat /\ drop \in Nat
      /\ uploads.drops \in Nat
      /\ \A k \in DOMAIN uploads.asks : uploads.asks[k].id[1] \in Nat
      /\ \A i \in DOMAIN old : old[i].id[1] \in Nat
  BY <1>0, SheetTypes
<1>3. \A i \in {1, 2} : /\ Job(files, i) \in JobT /\ Job(files, i).id = <<drop, i>>
                           /\ Job(files, i).file = files[i]
                        /\ Job(files, i).status = "pending"
  BY <1>2, SheetFiles DEF JobT
<1>4. new = <<Job(files, 1), Job(files, 2)>>
  <2>1. DOMAIN files = 1..2
    BY SheetFiles
  <2> HIDE DEF Job
  <2> QED BY <2>1
<1>5. new \in Seq(JobT) /\ Len(new) = 2 /\ new[1] = Job(files, 1) /\ new[2] = Job(files, 2)
  <2>1. Job(files, 1) \in JobT /\ Job(files, 2) \in JobT
    BY <1>3
  <2> HIDE DEF Job, New
  <2> QED BY <1>4, <2>1
<1>6. \A i \in {1, 2} : new[i] = Job(files, i)
  BY <1>5
<1> HIDE DEF New, Job, old
<1>7. /\ jobs \in Seq(JobT)
      /\ \A i \in DOMAIN jobs :
           \/ i \in {1, 2} /\ jobs[i].id = <<drop, i>> /\ jobs[i].file = files[i]
              /\ jobs[i].status = "pending"
           \/ i \notin {1, 2} /\ i \in Nat /\ i - 2 \in DOMAIN old /\ jobs[i] = old[i - 2]
  <2>1. /\ jobs \in Seq(JobT) /\ Len(jobs) = Len(old) + 2 /\ DOMAIN jobs = 1..(Len(old) + 2)
        /\ \A i \in 1..(Len(old) + 2) : jobs[i] = IF i <= 2 THEN new[i] ELSE old[i - 2]
    <3> HIDE DEF new
    <3>1. jobs \in Seq(JobT) /\ Len(jobs) = 2 + Len(old)
          /\ \A i \in 1..(2 + Len(old)) : jobs[i] = IF i <= 2 THEN new[i] ELSE old[i - 2]
      <4>1. new \in Seq(JobT) /\ old \in Seq(JobT) /\ Len(new) = 2
        BY <1>2, <1>5
      <4>2. /\ new \o old \in Seq(JobT) /\ Len(new \o old) = Len(new) + Len(old)
            /\ \A i \in 1..(Len(new) + Len(old)) :
               (new \o old)[i] = IF i <= Len(new) THEN new[i] ELSE old[i - Len(new)]
        BY <4>1, SheetConcat, Zenon
      <4>3. Len(new) = 2
        BY <4>1
      <4>4. /\ jobs \in Seq(JobT) /\ Len(jobs) = Len(new) + Len(old)
            /\ \A i \in 1..(Len(new) + Len(old)) :
               jobs[i] = IF i <= Len(new) THEN new[i] ELSE old[i - Len(new)]
        BY <4>2
      <4> HIDE DEF jobs
      <4> QED BY <4>3, <4>4
    <3>2. DOMAIN jobs = 1..Len(jobs)
      BY <3>1, LenProperties
    <3>3. 2 + Len(old) = Len(old) + 2
      BY <1>2
    <3> HIDE DEF jobs
    <3> QED BY <3>1, <3>2, <3>3
  <2> HIDE DEF jobs
  <2> SUFFICES ASSUME NEW i \in 1..(Len(old) + 2)
               PROVE  \/ i \in {1, 2} /\ jobs[i].id = <<drop, i>> /\ jobs[i].file = files[i]
                         /\ jobs[i].status = "pending"
                      \/ i \notin {1, 2} /\ i \in Nat /\ i - 2 \in DOMAIN old /\ jobs[i] = old[i - 2]
    BY <2>1
  <2>2. CASE i \in {1, 2}
    BY <1>3, <1>6, <2>1, <2>2
  <2>3. CASE i \notin {1, 2}
    BY <1>2, <2>1, <2>3
  <2> QED BY <2>2, <2>3
<1> HIDE DEF jobs, new
<1>8. /\ s \in SheetT /\ s.jobs = jobs /\ s.asks = uploads.asks /\ s.docs = uploads.docs
      /\ s.seen = uploads.seen
      /\ s.parsed = uploads.parsed /\ s.drops = drop
  BY <1>0, <1>2, <1>7 DEF SheetT
<1>9. uploads' = Sheet!Continue(s, drop, 1, files)
  BY <1>1 DEF jobs, new
<1> HIDE DEF s
<1>10. \A i \in DOMAIN jobs : jobs[i].id[1] = drop <=> i \in {1, 2}
  <2>1. \A i \in DOMAIN old : old[i].id[1] # drop
    BY <1>2 DEF SheetSound, Sheeted, old
  <2>2. \A i \in {1, 2} : <<drop, i>>[1] = drop
    OBVIOUS
  <2> QED BY <1>7, <2>1, <2>2
<1>11. \A k \in DOMAIN uploads.asks : uploads.asks[k].id[1] # drop /\ uploads.asks[k].id[1] <= drop
  BY <1>2 DEF SheetSound, Sheeted
<1>12. Sheeted(s)
  <2>1. ASSUME NEW i \in DOMAIN jobs PROVE jobs[i].id[1] <= drop
    <3>1. CASE i \in {1, 2}
      BY <1>2, <1>10, <3>1
    <3>2. CASE i \notin {1, 2}
      <4>1. i - 2 \in DOMAIN old /\ jobs[i] = old[i - 2]
        BY <1>7, <3>2
      <4>2. old[i - 2].id[1] <= uploads.drops /\ old[i - 2].id[1] \in Nat
        BY <1>2, <4>1 DEF SheetSound, Sheeted, old
      <4> QED BY <1>2, <4>1, <4>2
    <3> QED BY <3>1, <3>2
  <2> QED BY <1>8, <1>11, <2>1 DEF Sheeted
<1>13. OwnFile(s)
  <2>1. ASSUME NEW i \in DOMAIN jobs, NEW j \in DOMAIN jobs, i # j PROVE jobs[i].id # jobs[j].id
    <3>1. CASE i \in {1, 2} /\ j \in {1, 2}
      BY <1>7, <2>1, <3>1
    <3>2. CASE (i \in {1, 2}) # (j \in {1, 2})
      BY <1>10, <3>2
    <3>3. CASE i \notin {1, 2} /\ j \notin {1, 2}
      <4>1. i \in Nat /\ j \in Nat /\ i - 2 \in DOMAIN old /\ j - 2 \in DOMAIN old /\ jobs[i] = old[i - 2]
              /\ jobs[j] = old[j - 2]
        BY <1>7, <3>3
      <4>2. i - 2 # j - 2
        BY <2>1, <4>1
      <4> QED BY <4>1, <4>2 DEF SheetSound, OwnFile, old
    <3> QED BY <3>1, <3>2, <3>3
  <2>2. ASSUME NEW k \in DOMAIN uploads.asks, NEW i \in DOMAIN jobs, jobs[i].id[1] = uploads.asks[k].id[1]
        PROVE  jobs[i].file = uploads.asks[k].files[jobs[i].id[2]]
    <3>1. i - 2 \in DOMAIN old /\ jobs[i] = old[i - 2]
      BY <1>7, <1>10, <1>11, <2>2
    <3> QED BY <2>2, <3>1 DEF SheetSound, OwnFile, old
  <2>3. \A k \in DOMAIN uploads.asks :
          /\ uploads.asks[k].file = uploads.asks[k].files[uploads.asks[k].id[2]]
          /\ uploads.asks[k].result # None => uploads.asks[k].result.doc = uploads.asks[k].file
    BY DEF SheetSound, OwnFile
  <2> QED BY <1>8, <2>1, <2>2, <2>3 DEF OwnFile
<1>14. OneUnderway(s)
  <2>1. ASSUME NEW i \in DOMAIN jobs, jobs[i].status # "pending"
        PROVE i - 2 \in DOMAIN old /\ jobs[i] = old[i - 2]
    BY <1>7, <2>1
  <2>2. ASSUME NEW i \in DOMAIN jobs, jobs[i].status = "uploading"
        PROVE  \E k \in DOMAIN uploads.asks : uploads.asks[k].id = jobs[i].id
          /\ uploads.asks[k].at # "answered"
    BY <2>1, <2>2 DEF SheetSound, OneUnderway, old
  <2>3. ASSUME NEW i \in DOMAIN jobs, jobs[i].status = "ready"
        PROVE  jobs[i].result # None
               /\ \E k \in DOMAIN uploads.asks :
                  uploads.asks[k].id = jobs[i].id /\ uploads.asks[k].result = jobs[i].result
    BY <2>1, <2>3 DEF SheetSound, OneUnderway, old
  <2>4. \A k, l \in DOMAIN uploads.asks :
          k # l /\ uploads.asks[k].id[1] = uploads.asks[l].id[1]
            => uploads.asks[k].at = "answered" \/ uploads.asks[l].at = "answered"
    BY DEF SheetSound, OneUnderway
  <2> QED BY <1>8, <2>2, <2>3, <2>4 DEF OneUnderway
<1>15. FirstIsNew(s) /\ ParsedOnce(s)
  BY <1>8 DEF SheetSound, FirstIsNew, ParsedOnce
<1>16. \A i \in DOMAIN jobs : jobs[i].id[1] = drop => jobs[i].file = files[jobs[i].id[2]]
  <2> SUFFICES ASSUME NEW i \in DOMAIN jobs, jobs[i].id[1] = drop PROVE jobs[i].file = files[jobs[i].id[2]]
    OBVIOUS
  <2>1. jobs[i].id = <<drop, i>> /\ jobs[i].file = files[i]
    BY <1>7, <1>10
  <2>2. jobs[i].id[2] = i
    BY <2>1
  <2> QED BY <2>1, <2>2
<1>17. SheetSound(s) /\ drop <= s.drops /\ 1 \in {1, 2, 3}
  BY <1>2, <1>8, <1>12, <1>13, <1>14, <1>15 DEF SheetSound
<1>18. \A k \in DOMAIN s.asks : s.asks[k].id[1] = drop => s.asks[k].at = "answered"
  BY <1>8, <1>11
<1> QED BY <1>2, <1>8, <1>9, <1>16, <1>17, <1>18, SheetContinue

\* A request is settled: its row takes the answer and the loop goes on.
LEMMA SheetSettled ==
  ASSUME SheetSound(uploads), NEW k \in DOMAIN uploads.asks, uploads.asks[k].at = "served",
         NEW status \in {"ready", "error"}, NEW result \in {None} \cup ResultT,
           NEW seen \in [Sheet!Files -> {None} \cup DocStatuses],
         result = (IF status = "ready" THEN uploads.asks[k].result ELSE None),
         status = "ready" => result # None,
         \A f \in Sheet!Files : seen[f] = "parsed" => f \in uploads.parsed
  PROVE  LET s == [uploads EXCEPT !.asks[k].at = "answered",
    !.jobs = Sheet!With(@, uploads.asks[k].id, status, result), !.seen = seen]
         IN SheetSound(Sheet!Continue(s, uploads.asks[k].id[1], uploads.asks[k].id[2] + 1,
           uploads.asks[k].files))
<1>0. uploads \in SheetT
  BY DEF SheetSound
<1> DEFINE a == uploads.asks[k]
           drop == a.id[1]
           asks == [uploads.asks EXCEPT ![k].at = "answered"]
           jobs == Sheet!With(uploads.jobs, a.id, status, result)
           s == [uploads EXCEPT !.asks[k].at = "answered", !.jobs = Sheet!With(@, a.id, status, result),
             !.seen = seen]
<1>1. /\ a \in SheetAskT /\ a.id \in Nat \X {1, 2} /\ drop \in Nat /\ a.id[2] \in {1, 2}
      /\ a.files \in Sheet!FileLists
      /\ uploads.jobs \in Seq(JobT) /\ uploads.asks \in Seq(SheetAskT)
  BY <1>0, SheetTypes
<1>2. /\ asks \in Seq(SheetAskT) /\ DOMAIN asks = DOMAIN uploads.asks
      /\ \A l \in DOMAIN asks : /\ asks[l].id = uploads.asks[l].id /\ asks[l].files = uploads.asks[l].files
                                /\ asks[l].file = uploads.asks[l].file
                                /\ asks[l].result = uploads.asks[l].result
                                /\ asks[l].at = IF l = k THEN "answered" ELSE uploads.asks[l].at
  <2>1. "answered" \in {"sent", "served", "answered"}
    OBVIOUS
  <2>2. [a EXCEPT !.at = "answered"] \in SheetAskT
    BY <1>1, <2>1 DEF SheetAskT
  <2>3. asks = [uploads.asks EXCEPT ![k] = [a EXCEPT !.at = "answered"]]
    OBVIOUS
  <2>4. asks \in Seq(SheetAskT)
    BY <1>1, <2>2, <2>3
  <2>5. \A l \in DOMAIN uploads.asks : uploads.asks[l] \in SheetAskT
    BY <1>1
  <2> QED BY <1>1, <2>3, <2>4, <2>5 DEF SheetAskT
<1>3. /\ jobs \in Seq(JobT) /\ DOMAIN jobs = DOMAIN uploads.jobs
      /\ \A i \in DOMAIN uploads.jobs :
           /\ jobs[i].id = uploads.jobs[i].id /\ jobs[i].file = uploads.jobs[i].file
           /\ uploads.jobs[i].id = a.id => jobs[i].status = status /\ jobs[i].result = result
           /\ uploads.jobs[i].id # a.id => jobs[i] = uploads.jobs[i]
  <2> DEFINE old == uploads.jobs
             id == a.id
  <2>1. old \in Seq(JobT) /\ id \in Nat \X {1, 2} /\ status \in {"uploading", "ready", "error"}
    BY <1>1
  <2> HIDE DEF old, id
  <2>2. /\ Sheet!With(old, id, status, result) \in Seq(JobT)
        /\ DOMAIN Sheet!With(old, id, status, result) = DOMAIN old
        /\ \A i \in DOMAIN old :
             /\ Sheet!With(old, id, status, result)[i].id = old[i].id
             /\ Sheet!With(old, id, status, result)[i].file = old[i].file
             /\ old[i].id = id => /\ Sheet!With(old, id, status, result)[i].status = status
                                  /\ Sheet!With(old, id, status, result)[i].result = result
             /\ old[i].id # id => Sheet!With(old, id, status, result)[i] = old[i]
    BY <2>1, SheetWith
  <2> QED BY <2>2 DEF old, id
<1>4. s = [uploads EXCEPT !.asks = asks, !.jobs = jobs, !.seen = seen]
  BY <1>0 DEF SheetT
<1> HIDE DEF asks, jobs, s
<1>5. /\ s \in SheetT /\ s.jobs = jobs /\ s.asks = asks /\ s.docs = uploads.docs /\ s.seen = seen
      /\ s.parsed = uploads.parsed /\ s.drops = uploads.drops
  BY <1>0, <1>2, <1>3, <1>4 DEF SheetT
<1>6. Sheeted(s)
  BY <1>2, <1>3, <1>5 DEF SheetSound, Sheeted
<1>7. OwnFile(s)
  <2>1. \A i, j \in DOMAIN jobs : i # j => jobs[i].id # jobs[j].id
    BY <1>3 DEF SheetSound, OwnFile
  <2>2. ASSUME NEW l \in DOMAIN asks, NEW i \in DOMAIN jobs, jobs[i].id[1] = asks[l].id[1]
        PROVE  jobs[i].file = asks[l].files[jobs[i].id[2]]
    BY <1>2, <1>3, <2>2 DEF SheetSound, OwnFile
  <2>3. \A l \in DOMAIN asks :
          /\ asks[l].file = asks[l].files[asks[l].id[2]]
          /\ asks[l].result # None => asks[l].result.doc = asks[l].file
    BY <1>2 DEF SheetSound, OwnFile
  <2> QED BY <1>5, <2>1, <2>2, <2>3 DEF OwnFile
<1>8. OneUnderway(s)
  <2>1. ASSUME NEW l \in DOMAIN asks, NEW m \in DOMAIN asks, l # m, asks[l].id[1] = asks[m].id[1]
        PROVE  asks[l].at = "answered" \/ asks[m].at = "answered"
    BY <1>2, <2>1 DEF SheetSound, OneUnderway
  <2>2. ASSUME NEW i \in DOMAIN jobs, jobs[i].status = "uploading"
        PROVE  \E l \in DOMAIN asks : asks[l].id = jobs[i].id /\ asks[l].at # "answered"
    <3>1. uploads.jobs[i].id # a.id /\ jobs[i] = uploads.jobs[i]
      BY <1>3, <2>2
    <3>2. PICK l \in DOMAIN uploads.asks : uploads.asks[l].id = uploads.jobs[i].id
            /\ uploads.asks[l].at # "answered"
      BY <1>3, <2>2, <3>1 DEF SheetSound, OneUnderway
    <3>3. l # k
      BY <3>1, <3>2
    <3> QED BY <1>2, <3>1, <3>2, <3>3
  <2>3. ASSUME NEW i \in DOMAIN jobs, jobs[i].status = "ready"
        PROVE  jobs[i].result # None /\ \E l \in DOMAIN asks :
          asks[l].id = jobs[i].id /\ asks[l].result = jobs[i].result
    <3>1. CASE uploads.jobs[i].id = a.id
      <4>1. status = "ready" /\ jobs[i].result = result /\ result = a.result /\ result # None
        BY <1>3, <2>3, <3>1
      <4> QED BY <1>2, <1>3, <3>1, <4>1
    <3>2. CASE uploads.jobs[i].id # a.id
      <4>1. jobs[i] = uploads.jobs[i]
        BY <1>3, <3>2
      <4>2. PICK l \in DOMAIN uploads.asks : uploads.asks[l].id = uploads.jobs[i].id
              /\ uploads.asks[l].result = uploads.jobs[i].result
        BY <1>3, <2>3, <4>1 DEF SheetSound, OneUnderway
      <4>3. jobs[i].result # None
        BY <1>3, <2>3, <4>1 DEF SheetSound, OneUnderway
      <4> QED BY <1>2, <4>1, <4>2, <4>3
    <3> QED BY <3>1, <3>2
  <2> QED BY <1>5, <2>1, <2>2, <2>3 DEF OneUnderway
<1>9. FirstIsNew(s)
  <2>1. \A l \in DOMAIN asks : asks[l].at = "sent" => uploads.asks[l].at = "sent"
    BY <1>2
  <2>2. \A l \in DOMAIN asks : asks[l].at = "sent" => asks[l].result = None
    BY <1>2, <2>1 DEF SheetSound, FirstIsNew
  <2>3. \A l \in DOMAIN asks : asks[l].result # None => uploads.docs[asks[l].result.doc] # "absent"
    BY <1>2 DEF SheetSound, FirstIsNew
  <2>4. ASSUME NEW l \in DOMAIN asks, NEW m \in DOMAIN asks,
               l # m, asks[l].result # None, asks[m].result # None, asks[l].result.doc = asks[m].result.doc
        PROVE  asks[l].result.duplicate \/ asks[m].result.duplicate
    BY <1>2, <2>4 DEF SheetSound, FirstIsNew
  <2> QED BY <1>5, <2>2, <2>3, <2>4 DEF FirstIsNew
<1>10. ParsedOnce(s)
  BY <1>2, <1>5 DEF SheetSound, ParsedOnce
<1>11. SheetSound(s) /\ a.id[2] + 1 \in {1, 2, 3} /\ drop <= s.drops
  BY <1>1, <1>5, <1>6, <1>7, <1>8, <1>9, <1>10 DEF SheetSound, Sheeted
<1>12. \A l \in DOMAIN s.asks : s.asks[l].id[1] = drop => s.asks[l].at = "answered"
  <2> SUFFICES ASSUME NEW l \in DOMAIN asks, asks[l].id[1] = drop, l # k PROVE asks[l].at = "answered"
    BY <1>2, <1>5
  <2>1. uploads.asks[l].at = "answered"
    BY <1>2 DEF SheetSound, OneUnderway
  <2> QED BY <1>2, <2>1
<1>13. \A i \in DOMAIN s.jobs : s.jobs[i].id[1] = drop => s.jobs[i].file = a.files[s.jobs[i].id[2]]
  BY <1>3, <1>5 DEF SheetSound, OwnFile
<1> HIDE DEF a, drop
<1>14. SheetSound(Sheet!Continue(s, drop, a.id[2] + 1, a.files))
  BY <1>1, <1>11, <1>12, <1>13, SheetContinue
<1> QED BY <1>14 DEF a, drop, s

LEMMA SheetAnswered ==
  ASSUME SheetSound(uploads), NEW k \in DOMAIN uploads.asks, Sheet!Answer(k) PROVE SheetSound(uploads')
<1> DEFINE a == uploads.asks[k]
           settled == [uploads EXCEPT !.asks[k].at = "answered"]
           Accepted == [settled EXCEPT !.jobs = Sheet!With(@, a.id, "ready", a.result),
             !.seen[a.result.doc] = a.result.status]
           Failed == [settled EXCEPT !.jobs = Sheet!With(@, a.id, "error", None)]
           After(s) == Sheet!Continue(s, a.id[1], a.id[2] + 1, a.files)
<1>0. uploads \in SheetT
  BY DEF SheetSound
<1>1. /\ a \in SheetAskT /\ uploads.seen \in [Sheet!Files -> {None} \cup DocStatuses]
      /\ a.result # None => a.result \in ResultT /\ a.result.doc \in Sheet!Files
  BY <1>0, SheetTypes
<1>2. \A f \in Sheet!Files : uploads.seen[f] = "parsed" => f \in uploads.parsed
  BY DEF SheetSound, ParsedOnce
<1>3. CASE a.result # None /\ uploads' = After(Accepted)
  <2> DEFINE seen == [uploads.seen EXCEPT ![a.result.doc] = a.result.status]
  <2>1. a.result.status \in DocStatuses /\ (a.result.status = "parsed" => a.result.doc \in uploads.parsed)
    BY <1>1, <1>3 DEF ResultT, SheetSound, ParsedOnce
  <2>2. seen \in [Sheet!Files -> {None} \cup DocStatuses] /\ \A f \in Sheet!Files :
          seen[f] = "parsed" => f \in uploads.parsed
    BY <1>1, <1>2, <2>1
  <2>3. Accepted = [uploads EXCEPT !.asks[k].at = "answered",
          !.jobs = Sheet!With(@, a.id, "ready", a.result), !.seen = seen]
    BY <1>0 DEF SheetT
  <2>4. "ready" \in {"ready", "error"} /\ a.result \in {None} \cup ResultT
    BY <1>1, <1>3
  <2>5. a.at = "served"
    BY DEF Sheet!Answer
  <2> HIDE DEF seen
  <2> SUFFICES SheetSound(After(Accepted))
    BY <1>3
  <2> HIDE DEF Accepted
  <2> QED BY <1>3, <2>2, <2>3, <2>4, <2>5, SheetSettled
<1>4. CASE uploads' = After(Failed)
  <2> DEFINE seen == uploads.seen
  <2>1. Failed = [uploads EXCEPT !.asks[k].at = "answered", !.jobs = Sheet!With(@, a.id, "error", None),
          !.seen = seen]
    BY <1>0 DEF SheetT
  <2>2. "error" \in {"ready", "error"} /\ "error" # "ready" /\ None \in {None} \cup ResultT
    OBVIOUS
  <2>3. a.at = "served"
    BY DEF Sheet!Answer
  <2> SUFFICES SheetSound(After(Failed))
    BY <1>4
  <2> HIDE DEF Failed
  <2> QED BY <1>1, <1>2, <2>1, <2>2, <2>3, SheetSettled
<1> QED BY <1>3, <1>4 DEF Sheet!Answer

\* The server takes a file, whether or not its answer is lost.
Taken(s, k, docs, result) == [s EXCEPT !.docs = docs, !.asks[k].at = "served", !.asks[k].result = result]

LEMMA SheetServed ==
  ASSUME SheetSound(uploads), NEW k \in DOMAIN uploads.asks, uploads.asks[k].at = "sent",
         NEW docs \in [Sheet!Files -> DocStatuses], NEW result \in {None} \cup ResultT,
         \A f \in Sheet!Files : docs[f] = uploads.docs[f]
           \/ (uploads.docs[f] = "absent" /\ docs[f] = "processing"),
         result # None =>
           /\ result.doc = uploads.asks[k].file /\ docs[result.doc] # "absent"
           /\ ~result.duplicate => uploads.docs[result.doc] = "absent"
           /\ result.status = "parsed" => uploads.docs[result.doc] = "parsed"
  PROVE  SheetSound(Taken(uploads, k, docs, result))
<1>0. uploads \in SheetT
  BY DEF SheetSound
<1> DEFINE a == uploads.asks[k]
           asks == [uploads.asks EXCEPT ![k].at = "served", ![k].result = result]
           s == Taken(uploads, k, docs, result)
<1> SUFFICES SheetSound(s)
  OBVIOUS
<1>1. a \in SheetAskT /\ a.file \in Sheet!Files /\ uploads.asks \in Seq(SheetAskT)
        /\ uploads.docs \in [Sheet!Files -> DocStatuses]
  BY <1>0, SheetTypes
<1>2. /\ asks \in Seq(SheetAskT) /\ DOMAIN asks = DOMAIN uploads.asks
      /\ \A l \in DOMAIN asks : /\ asks[l].id = uploads.asks[l].id /\ asks[l].files = uploads.asks[l].files
                                /\ asks[l].file = uploads.asks[l].file
                                /\ asks[l].result = IF l = k THEN result ELSE uploads.asks[l].result
                                /\ asks[l].at = IF l = k THEN "served" ELSE uploads.asks[l].at
  <2>1. "served" \in {"sent", "served", "answered"}
    OBVIOUS
  <2>2. [a EXCEPT !.at = "served", !.result = result] \in SheetAskT
    BY <1>1, <2>1 DEF SheetAskT
  <2>3. asks = [uploads.asks EXCEPT ![k] = [a EXCEPT !.at = "served", !.result = result]]
    OBVIOUS
  <2>4. asks \in Seq(SheetAskT)
    BY <1>1, <2>2, <2>3
  <2>5. \A l \in DOMAIN uploads.asks : uploads.asks[l] \in SheetAskT
    BY <1>1
  <2> QED BY <1>1, <2>3, <2>4, <2>5 DEF SheetAskT
<1>3. s = [uploads EXCEPT !.docs = docs, !.asks = asks]
  BY <1>0 DEF SheetT, Taken
<1> HIDE DEF asks, s
<1>4. /\ s \in SheetT /\ s.jobs = uploads.jobs /\ s.asks = asks /\ s.docs = docs
      /\ s.seen = uploads.seen /\ s.parsed = uploads.parsed /\ s.drops = uploads.drops
  BY <1>0, <1>2, <1>3 DEF SheetT
<1>5. a.result = None
  BY DEF SheetSound, FirstIsNew
<1>6. Sheeted(s)
  BY <1>2, <1>4 DEF SheetSound, Sheeted
<1>7. OwnFile(s)
  <2>1. \A i, j \in DOMAIN uploads.jobs : i # j => uploads.jobs[i].id # uploads.jobs[j].id
    BY DEF SheetSound, OwnFile
  <2>2. ASSUME NEW l \in DOMAIN asks, NEW i \in DOMAIN uploads.jobs, uploads.jobs[i].id[1] = asks[l].id[1]
        PROVE  uploads.jobs[i].file = asks[l].files[uploads.jobs[i].id[2]]
    BY <1>2, <2>2 DEF SheetSound, OwnFile
  <2>3. \A l \in DOMAIN asks : asks[l].file = asks[l].files[asks[l].id[2]]
    BY <1>2 DEF SheetSound, OwnFile
  <2>4. ASSUME NEW l \in DOMAIN asks, asks[l].result # None PROVE asks[l].result.doc = asks[l].file
    BY <1>2, <2>4 DEF SheetSound, OwnFile
  <2> QED BY <1>4, <2>1, <2>2, <2>3, <2>4 DEF OwnFile
<1>8. OneUnderway(s)
  <2>1. ASSUME NEW l \in DOMAIN asks, NEW m \in DOMAIN asks, l # m, asks[l].id[1] = asks[m].id[1]
        PROVE  asks[l].at = "answered" \/ asks[m].at = "answered"
    <3>1. uploads.asks[l].at = "answered" \/ uploads.asks[m].at = "answered"
      BY <1>2, <2>1 DEF SheetSound, OneUnderway
    <3> QED BY <1>2, <3>1
  <2>2. ASSUME NEW i \in DOMAIN uploads.jobs, uploads.jobs[i].status = "uploading"
        PROVE  \E l \in DOMAIN asks : asks[l].id = uploads.jobs[i].id /\ asks[l].at # "answered"
    BY <1>2, <2>2 DEF SheetSound, OneUnderway
  <2>3. ASSUME NEW i \in DOMAIN uploads.jobs, uploads.jobs[i].status = "ready"
        PROVE  /\ uploads.jobs[i].result # None
               /\ \E l \in DOMAIN asks : asks[l].id = uploads.jobs[i].id
                  /\ asks[l].result = uploads.jobs[i].result
    <3>1. /\ uploads.jobs[i].result # None
          /\ \E l \in DOMAIN uploads.asks : uploads.asks[l].id = uploads.jobs[i].id
                                            /\ uploads.asks[l].result = uploads.jobs[i].result
      BY <2>3 DEF SheetSound, OneUnderway
    <3> QED BY <1>2, <1>5, <3>1
  <2> QED BY <1>4, <2>1, <2>2, <2>3 DEF OneUnderway
<1>9. \A l \in DOMAIN asks : l # k => asks[l].result = uploads.asks[l].result
  BY <1>2
<1>10. ASSUME NEW l \in DOMAIN asks, l # k, asks[l].result # None
       PROVE  asks[l].result.doc \in Sheet!Files /\ uploads.docs[asks[l].result.doc] # "absent"
  <2>1. l \in DOMAIN uploads.asks /\ uploads.asks[l].result # None /\ asks[l].result = uploads.asks[l].result
    BY <1>2, <1>10
  <2> QED BY <1>0, <2>1, SheetTypes DEF SheetSound, FirstIsNew
<1>11. FirstIsNew(s)
  <2>1. ASSUME NEW l \in DOMAIN asks, asks[l].at = "sent" PROVE asks[l].result = None
    BY <1>2, <2>1 DEF SheetSound, FirstIsNew
  <2>2. ASSUME NEW l \in DOMAIN asks, asks[l].result # None PROVE docs[asks[l].result.doc] # "absent"
    <3>1. CASE l = k
      BY <1>2, <2>2, <3>1
    <3>2. CASE l # k
      BY <1>10, <2>2, <3>2
    <3> QED BY <3>1, <3>2
  <2>3. ASSUME NEW l \in DOMAIN asks, NEW m \in DOMAIN asks,
               l # m, asks[l].result # None, asks[m].result # None, asks[l].result.doc = asks[m].result.doc
        PROVE  asks[l].result.duplicate \/ asks[m].result.duplicate
    <3>1. CASE l = k
      <4>1. uploads.docs[asks[m].result.doc] # "absent"
        BY <1>10, <2>3, <3>1
      <4>2. asks[l].result = result
        BY <1>2, <3>1
      <4> QED BY <2>3, <4>1, <4>2
    <3>2. CASE m = k
      <4>1. uploads.docs[asks[l].result.doc] # "absent"
        BY <1>10, <2>3, <3>2
      <4>2. asks[m].result = result
        BY <1>2, <3>2
      <4> QED BY <2>3, <4>1, <4>2
    <3>3. CASE l # k /\ m # k
      BY <1>2, <2>3, <3>3 DEF SheetSound, FirstIsNew
    <3> QED BY <3>1, <3>2, <3>3
  <2> QED BY <1>4, <2>1, <2>2, <2>3 DEF FirstIsNew
<1>12. ParsedOnce(s)
  <2>1. ASSUME NEW f \in Sheet!Files
        PROVE  /\ docs[f] = "parsed" => f \in uploads.parsed
               /\ uploads.seen[f] = "parsed" => f \in uploads.parsed
    BY DEF SheetSound, ParsedOnce
  <2>2. ASSUME NEW l \in DOMAIN asks, asks[l].result # None, asks[l].result.status = "parsed"
        PROVE  asks[l].result.doc \in uploads.parsed
    <3>1. CASE l = k
      <4>1. asks[l].result = result
        BY <1>2, <3>1
      <4> QED BY <1>1, <2>2, <4>1 DEF SheetSound, ParsedOnce
    <3>2. CASE l # k
      BY <1>2, <2>2, <3>2 DEF SheetSound, ParsedOnce
    <3> QED BY <3>1, <3>2
  <2> QED BY <1>4, <2>1, <2>2 DEF ParsedOnce
<1> QED BY <1>4, <1>6, <1>7, <1>8, <1>11, <1>12 DEF SheetSound

LEMMA SheetUploaded ==
  ASSUME SheetSound(uploads), NEW k \in DOMAIN uploads.asks, Sheet!Upload(k) PROVE SheetSound(uploads')
<1> DEFINE f == uploads.asks[k].file
           New(s) == [s EXCEPT !.docs[f] = "processing"]
           Served(s, r) == [s EXCEPT !.asks[k].at = "served", !.asks[k].result = r]
           Told(status, duplicate) == [doc |-> f, status |-> status, duplicate |-> duplicate]
           fresh == [uploads.docs EXCEPT ![f] = "processing"]
<1>0. uploads \in SheetT /\ uploads.asks[k].at = "sent"
  BY DEF SheetSound, Sheet!Upload
<1>1. f \in Sheet!Files /\ uploads.docs \in [Sheet!Files -> DocStatuses] /\ uploads.docs[f] \in DocStatuses
  BY <1>0, SheetTypes
<1>2. "processing" \in DocStatuses
  BY DEF DocStatuses
<1>3. \A status \in DocStatuses, duplicate \in BOOLEAN :
        /\ Told(status, duplicate) \in ResultT /\ Told(status, duplicate).doc = f
        /\ Told(status, duplicate).status = status
  BY <1>1 DEF ResultT
<1>4. fresh \in [Sheet!Files -> DocStatuses] /\ fresh[f] = "processing" /\ \A g \in Sheet!Files :
        g # f => fresh[g] = uploads.docs[g]
  BY <1>1, <1>2
<1>5. CASE uploads.docs[f] = "absent" /\ uploads' = Served(New(uploads), Told("processing", FALSE))
  <2> DEFINE r == Told("processing", FALSE)
  <2>1. r \in ResultT /\ r.doc = f /\ r.status = "processing"
    BY <1>2, <1>3
  <2>2. uploads' = Taken(uploads, k, fresh, r)
    BY <1>0, <1>5 DEF SheetT, Taken
  <2> HIDE DEF fresh, r
  <2> QED BY <1>0, <1>4, <1>5, <2>1, <2>2, SheetServed
<1>6. CASE uploads.docs[f] # "absent" /\ uploads' = Served(uploads, Told(uploads.docs[f], TRUE))
  <2> DEFINE r == Told(uploads.docs[f], TRUE)
  <2>1. r \in ResultT /\ r.doc = f /\ r.status = uploads.docs[f] /\ r.duplicate
    BY <1>1, <1>3
  <2>2. uploads' = Taken(uploads, k, uploads.docs, r)
    BY <1>0, <1>6 DEF SheetT, Taken
  <2> HIDE DEF r
  <2> QED BY <1>0, <1>1, <1>6, <2>1, <2>2, SheetServed
<1>7. CASE uploads' = Served(uploads, None)
  <2>1. uploads' = Taken(uploads, k, uploads.docs, None)
    BY <1>0, <1>7 DEF SheetT, Taken
  <2> QED BY <1>0, <1>1, <2>1, SheetServed
<1>8. CASE uploads.docs[f] = "absent" /\ uploads' = Served(New(uploads), None)
  <2>1. uploads' = Taken(uploads, k, fresh, None)
    BY <1>0, <1>8 DEF SheetT, Taken
  <2> HIDE DEF fresh
  <2> QED BY <1>0, <1>4, <1>8, <2>1, SheetServed
<1> QED BY <1>5, <1>6, <1>7, <1>8 DEF Sheet!Upload

\* What happens to the documents, and what the rows see of it.
LEMMA SheetFollowed ==
  ASSUME SheetSound(uploads), NEW f \in Sheet!Files, Sheet!Process(f) \/ Sheet!Reparse(f) \/ Sheet!Poll(f)
    PROVE SheetSound(uploads')
<1>0. uploads \in SheetT
  BY DEF SheetSound
<1>1. /\ uploads.docs \in [Sheet!Files -> DocStatuses]
      /\ uploads.seen \in [Sheet!Files -> {None} \cup DocStatuses]
      /\ uploads.foreign \in Nat /\ uploads.parsed \in SUBSET Sheet!Files
  BY <1>0, SheetTypes
<1>2. "parsed" \in DocStatuses /\ "error" \in DocStatuses /\ "processing" \in DocStatuses
  BY DEF DocStatuses
<1>3. /\ uploads' \in SheetT /\ uploads'.jobs = uploads.jobs /\ uploads'.asks = uploads.asks
      /\ uploads'.drops = uploads.drops /\ uploads.parsed \subseteq uploads'.parsed
      /\ \A g \in Sheet!Files :
           /\ uploads.docs[g] # "absent" => uploads'.docs[g] # "absent"
           /\ uploads'.docs[g] = "parsed" => g \in uploads'.parsed
           /\ uploads'.seen[g] = "parsed" => g \in uploads'.parsed
  <2>0. \A g \in Sheet!Files :
          /\ uploads.docs[g] = "parsed" => g \in uploads.parsed
          /\ uploads.seen[g] = "parsed" => g \in uploads.parsed
    BY DEF SheetSound, ParsedOnce
  <2> DEFINE Docs(status) == [uploads.docs EXCEPT ![f] = status]
  <2>1. \A status \in DocStatuses : /\ Docs(status) \in [Sheet!Files -> DocStatuses]
                                       /\ Docs(status)[f] = status
                                    /\ \A g \in Sheet!Files : g # f => Docs(status)[g] = uploads.docs[g]
    BY <1>1
  <2>2. CASE uploads.docs[f] = "processing" /\ uploads' = [uploads EXCEPT !.docs[f] = "parsed",
          !.parsed = @ \cup {f}]
    <3> DEFINE done == uploads.parsed \cup {f}
    <3>1. done \in SUBSET Sheet!Files /\ f \in done /\ uploads.parsed \subseteq done
      BY <1>1
    <3>2. uploads' = [uploads EXCEPT !.docs = Docs("parsed"), !.parsed = done]
      BY <1>0, <2>2 DEF SheetT
    <3> HIDE DEF Docs, done
    <3>3. /\ uploads' \in SheetT /\ uploads'.jobs = uploads.jobs /\ uploads'.asks = uploads.asks
          /\ uploads'.drops = uploads.drops /\ uploads'.docs = Docs("parsed") /\ uploads'.seen = uploads.seen
          /\ uploads'.parsed = done
      BY <1>0, <1>2, <2>1, <3>1, <3>2 DEF SheetT
    <3> QED BY <1>2, <2>0, <2>1, <3>1, <3>3
  <2>3. CASE uploads.docs[f] = "processing" /\ uploads' = [uploads EXCEPT !.docs[f] = "error"]
    <3>1. uploads' = [uploads EXCEPT !.docs = Docs("error")]
      BY <1>0, <2>3 DEF SheetT
    <3> HIDE DEF Docs
    <3>2. /\ uploads' \in SheetT /\ uploads'.jobs = uploads.jobs /\ uploads'.asks = uploads.asks
          /\ uploads'.drops = uploads.drops /\ uploads'.docs = Docs("error") /\ uploads'.seen = uploads.seen
          /\ uploads'.parsed = uploads.parsed
      BY <1>0, <1>2, <2>1, <3>1 DEF SheetT
    <3> QED BY <1>2, <2>0, <2>1, <3>2
  <2>4. CASE uploads' = [uploads EXCEPT !.docs[f] = "processing", !.foreign = @ + 1]
    <3> DEFINE n == uploads.foreign + 1
    <3>1. n \in Nat
      BY <1>1
    <3>2. uploads' = [uploads EXCEPT !.docs = Docs("processing"), !.foreign = n]
      BY <1>0, <2>4 DEF SheetT
    <3> HIDE DEF Docs, n
    <3>3. /\ uploads' \in SheetT /\ uploads'.jobs = uploads.jobs /\ uploads'.asks = uploads.asks
          /\ uploads'.drops = uploads.drops /\ uploads'.docs = Docs("processing")
          /\ uploads'.seen = uploads.seen
          /\ uploads'.parsed = uploads.parsed
      BY <1>0, <1>2, <2>1, <3>1, <3>2 DEF SheetT
    <3> QED BY <1>2, <2>0, <2>1, <3>3
  <2>5. CASE uploads' = [uploads EXCEPT !.seen[f] = uploads.docs[f]]
    <3> DEFINE seen == [uploads.seen EXCEPT ![f] = uploads.docs[f]]
    <3>1. seen \in [Sheet!Files -> {None} \cup DocStatuses] /\ seen[f] = uploads.docs[f]
            /\ \A g \in Sheet!Files : g # f => seen[g] = uploads.seen[g]
      BY <1>1
    <3>2. uploads' = [uploads EXCEPT !.seen = seen]
      BY <1>0, <2>5 DEF SheetT
    <3> HIDE DEF seen
    <3>3. /\ uploads' \in SheetT /\ uploads'.jobs = uploads.jobs /\ uploads'.asks = uploads.asks
          /\ uploads'.drops = uploads.drops /\ uploads'.docs = uploads.docs /\ uploads'.seen = seen
          /\ uploads'.parsed = uploads.parsed
      BY <1>0, <3>1, <3>2 DEF SheetT
    <3> QED BY <2>0, <3>1, <3>3
  <2> QED BY <2>2, <2>3, <2>4, <2>5 DEF Sheet!Process, Sheet!Reparse, Sheet!Poll
<1>4. Sheeted(uploads') /\ OwnFile(uploads') /\ OneUnderway(uploads')
  BY <1>3 DEF SheetSound, Sheeted, OwnFile, OneUnderway
<1>5. \A k \in DOMAIN uploads.asks : uploads.asks[k].result # None
        => uploads.asks[k].result.doc \in Sheet!Files
  BY <1>0, SheetTypes
<1>6. FirstIsNew(uploads')
  <2>1. \A k \in DOMAIN uploads.asks : uploads.asks[k].result # None
          => uploads.docs[uploads.asks[k].result.doc] # "absent"
    BY DEF SheetSound, FirstIsNew
  <2>2. \A k \in DOMAIN uploads.asks : uploads.asks[k].result # None
          => uploads'.docs[uploads.asks[k].result.doc] # "absent"
    BY <1>3, <1>5, <2>1
  <2> QED BY <1>3, <2>2 DEF SheetSound, FirstIsNew
<1>7. ParsedOnce(uploads')
  BY <1>3 DEF SheetSound, ParsedOnce
<1> QED BY <1>3, <1>4, <1>6, <1>7 DEF SheetSound

LEMMA SheetStep == ASSUME SheetSound(uploads), Sheet!Step PROVE SheetSound(uploads')
BY SheetDropped, SheetAnswered, SheetUploaded, SheetFollowed DEF Sheet!Step

LEMMA SheetAgrees == ASSUME SheetSound(uploads) PROVE Sheet!JobsAgree
<1> DEFINE jobs == uploads.jobs
           asks == uploads.asks
<1>0. uploads \in SheetT
  BY DEF SheetSound
<1>1. ASSUME NEW i \in DOMAIN jobs, jobs[i].status = "ready"
      PROVE  /\ jobs[i].result # None /\ jobs[i].result.doc = jobs[i].file /\ jobs[i].file \in Sheet!Files
             /\ \E k \in DOMAIN asks : asks[k].id = jobs[i].id /\ asks[k].result = jobs[i].result
  <2>1. PICK k \in DOMAIN asks : asks[k].id = jobs[i].id /\ asks[k].result = jobs[i].result
    BY <1>1 DEF SheetSound, OneUnderway
  <2>2. jobs[i].result # None
    BY <1>1 DEF SheetSound, OneUnderway
  <2>3. jobs[i].file = asks[k].file /\ asks[k].result.doc = asks[k].file
    BY <2>1, <2>2 DEF SheetSound, OwnFile
  <2>4. asks[k].file \in Sheet!Files
    BY <1>0, SheetTypes
  <2> QED BY <2>1, <2>2, <2>3, <2>4
<1>2. ASSUME NEW i \in DOMAIN jobs, NEW j \in DOMAIN jobs, jobs[i].status = "ready", jobs[j].status = "ready",
             i # j, jobs[i].file = jobs[j].file
      PROVE  jobs[i].result.duplicate \/ jobs[j].result.duplicate
  <2>1. PICK k \in DOMAIN asks : asks[k].id = jobs[i].id /\ asks[k].result = jobs[i].result
    BY <1>1, <1>2
  <2>2. PICK l \in DOMAIN asks : asks[l].id = jobs[j].id /\ asks[l].result = jobs[j].result
    BY <1>1, <1>2
  <2>3. k # l
    BY <1>2, <2>1, <2>2 DEF SheetSound, OwnFile
  <2>4. /\ asks[k].result # None /\ asks[l].result # None /\ asks[k].result.doc = asks[l].result.doc
    BY <1>1, <1>2, <2>1, <2>2
  <2>5. asks[k].result.duplicate \/ asks[l].result.duplicate
    BY <2>3, <2>4 DEF SheetSound, FirstIsNew
  <2> QED BY <2>1, <2>2, <2>5
<1>3. ASSUME NEW i \in DOMAIN jobs, NEW j \in DOMAIN jobs, jobs[i].status = "uploading",
        jobs[j].status = "uploading", i # j
      PROVE  jobs[i].id[1] # jobs[j].id[1]
  <2>1. PICK k \in DOMAIN asks : asks[k].id = jobs[i].id /\ asks[k].at # "answered"
    BY <1>3 DEF SheetSound, OneUnderway
  <2>2. PICK l \in DOMAIN asks : asks[l].id = jobs[j].id /\ asks[l].at # "answered"
    BY <1>3 DEF SheetSound, OneUnderway
  <2>3. k # l
    BY <1>3, <2>1, <2>2 DEF SheetSound, OwnFile
  <2> QED BY <2>1, <2>2, <2>3 DEF SheetSound, OneUnderway
<1>4. ASSUME NEW i \in DOMAIN jobs, jobs[i].status = "ready", "review" \in Sheet!Links(jobs[i])
      PROVE  jobs[i].result.doc \in uploads.parsed
  <2>1. PICK k \in DOMAIN asks : asks[k].id = jobs[i].id /\ asks[k].result = jobs[i].result
    BY <1>1, <1>4
  <2>2. jobs[i].result # None /\ jobs[i].result.doc \in Sheet!Files
    BY <1>1, <1>4
  <2>3. Sheet!Doc(jobs[i]) = "parsed"
    BY <1>4, <2>2 DEF Sheet!Links
  <2>4. uploads.seen[jobs[i].result.doc] = "parsed" \/ jobs[i].result.status = "parsed"
    BY <2>3 DEF Sheet!Doc
  <2>5. uploads.seen[jobs[i].result.doc] = "parsed" => jobs[i].result.doc \in uploads.parsed
    BY <2>2 DEF SheetSound, ParsedOnce
  <2>6. jobs[i].result.status = "parsed" => jobs[i].result.doc \in uploads.parsed
    BY <2>1, <2>2 DEF SheetSound, ParsedOnce
  <2> QED BY <2>4, <2>5, <2>6
<1> QED BY <1>1, <1>2, <1>3, <1>4 DEF Sheet!JobsAgree

-----------------------------------------------------------------------------
(* The tables of QueryCache. Keys are sequences of words, hooks invalidate  *)
(* what begins with one of their prefixes; HooksReach and SummaryReached    *)
(* say that this is all that the mutations change, but for what Overlooked  *)
(* names.                                                                   *)

Words ==
  {None, "dashboard", "summary", "p", "calculations", "all", "c", "invoices", "monthly", "documents",
    "document", "d",
   "suppliers", "s", "projects", "admin", "organizations", "o", "users", 1, 20, "project-suppliers",
   "supplier-exclusions", "corridors", "reference-prices", "b", "material-classes", "settings"}

LEMMA KeyPrefix ==
  ASSUME NEW s \in Seq(Words), NEW t \in Seq(Words), Len(s) <= Len(t), \A i \in 1..Len(s) : s[i] = t[i]
  PROVE  IsPrefix(s, t)
BY DEF IsPrefix

LEMMA KeyDiffers ==
  ASSUME NEW s \in Seq(Words), NEW t \in Seq(Words), NEW i \in 1..Len(s), s[i] # t[i]
  PROVE  ~IsPrefix(s, t)
<1> SUFFICES ASSUME IsPrefix(s, t) PROVE FALSE
  OBVIOUS
<1>1. SubSeq(s, 1, Len(s))[i] = s[i] /\ SubSeq(t, 1, Len(s))[i] = t[i]
  BY DEF IsPrefix
<1> QED BY <1>1 DEF IsPrefix

LEMMA KeysAre ==
  ASSUME NEW q \in Keys
  PROVE  q \in {AllProjects, ProjectSuppliers, Exclusions, Summary, DashInvoices, Calculations("all"),
    Calculations("c"), CalculationsAll, Monthly, Documents, ProjectDocuments, Document, AllSuppliers,
      Supplier("s"),
    SupplierProjects("s"), SupplierInvoices("s"), PricesOfProject, PricesOfClass, AllClasses, Corridors,
    CurrentSettings, AllOrganisations, Organisation, UserList}
BY DEF Keys, Rows, ProjectReads, DashboardReads, DocumentReads, SupplierReads, ReferenceReads, ClassReads,
   CorridorReads, SettingsReads, AdminReads, Row

LEMMA KeysFrom ==
  ASSUME NEW q \in Keys, NEW x, x \in Reads[q]
  PROVE  \E row \in Rows : row.key = q /\ x \in row.from
BY DEF Reads

LEMMA ReadersOf ==
  ASSUME NEW row \in Rows
  PROVE
    /\ "projects" \in row.from =>
         row.key \in {AllProjects, SupplierProjects("s"), SupplierInvoices("s"), Organisation}
    /\ "documents" \in row.from => row.key \in {AllProjects, Summary, Documents, ProjectDocuments}
    /\ "status" \in row.from => row.key \in {Documents, ProjectDocuments, Document}
    /\ "suppliers" \in row.from =>
         row.key \in {ProjectSuppliers, DashInvoices, Document, AllSuppliers, Supplier("s"),
           SupplierProjects("s"),
                      SupplierInvoices("s")}
    /\ "invoices" \in row.from =>
         row.key \in {ProjectSuppliers, Summary, DashInvoices, Calculations("all"), Calculations("c"),
           CalculationsAll,
                      Monthly, Documents, ProjectDocuments, Document, AllSuppliers, Supplier("s"),
                      SupplierProjects("s"), SupplierInvoices("s")}
    /\ "confirmed" \in row.from => row.key \in {DashInvoices, Document, SupplierInvoices("s")}
    /\ "prices" \in row.from =>
         row.key \in {Summary, Calculations("all"), Calculations("c"), CalculationsAll, SupplierProjects("s"),
                      PricesOfProject, PricesOfClass}
    /\ "corridors" \in row.from =>
         row.key \in {Summary, Calculations("all"), Calculations("c"), CalculationsAll, Corridors}
    /\ "exclusions" \in row.from =>
         row.key \in {Exclusions, Summary, Calculations("all"), Calculations("c"), CalculationsAll, Monthly}
    /\ "classes" \in row.from => row.key \in {AllClasses, Corridors}
    /\ "settings" \in row.from => row.key = CurrentSettings
    /\ "orgs" \in row.from => row.key \in {AllOrganisations, Organisation, UserList}
    /\ "users" \in row.from => row.key \in {AllOrganisations, Organisation, UserList}
    /\ "links" \in row.from => row.key \in {AllOrganisations, Organisation}
BY DEF Rows, ProjectReads, DashboardReads, DocumentReads, SupplierReads, ReferenceReads, ClassReads,
   CorridorReads,
       SettingsReads, AdminReads, Row

LEMMA KeyPrefix1 == ASSUME NEW t \in Seq(Words), Len(t) >= 1 PROVE IsPrefix(<<t[1]>>, t)
<1> DEFINE s == <<t[1]>>
<1>1. s \in Seq(Words) /\ Len(s) = 1 /\ s[1] = t[1]
  OBVIOUS
<1> HIDE DEF s
<1>2. IsPrefix(s, t)
  BY <1>1, KeyPrefix
<1> QED BY <1>2 DEF s

LEMMA KeyPrefix2 == ASSUME NEW t \in Seq(Words), Len(t) >= 2 PROVE IsPrefix(<<t[1], t[2]>>, t)
<1> DEFINE s == <<t[1], t[2]>>
<1>1. s \in Seq(Words) /\ Len(s) = 2 /\ s[1] = t[1] /\ s[2] = t[2]
  OBVIOUS
<1> HIDE DEF s
<1>2. IsPrefix(s, t)
  BY <1>1, KeyPrefix
<1> QED BY <1>2 DEF s

LEMMA KeyPrefix3 == ASSUME NEW t \in Seq(Words), Len(t) >= 3 PROVE IsPrefix(<<t[1], t[2], t[3]>>, t)
<1> DEFINE s == <<t[1], t[2], t[3]>>
<1>1. s \in Seq(Words) /\ Len(s) = 3 /\ s[1] = t[1] /\ s[2] = t[2] /\ s[3] = t[3]
  OBVIOUS
<1> HIDE DEF s
<1>2. IsPrefix(s, t)
  BY <1>1, KeyPrefix
<1> QED BY <1>2 DEF s

LEMMA DashboardKeys ==
  /\ Summary \in Seq(Words) /\ Len(Summary) = 3 /\ Summary[1] = "dashboard" /\ Summary[2] = "summary"
  /\ Summary[3] = "p"
  /\ DashInvoices \in Seq(Words) /\ Len(DashInvoices) = 4 /\ DashInvoices[1] = "dashboard"
  /\ DashInvoices[2] = "invoices" /\ DashInvoices[3] = "p"
  /\ Calculations("all") \in Seq(Words) /\ Len(Calculations("all")) = 6
  /\ Calculations("all")[1] = "dashboard" /\ Calculations("all")[2] = "calculations"
  /\ Calculations("all")[3] = "p"
  /\ Calculations("c") \in Seq(Words) /\ Len(Calculations("c")) = 6 /\ Calculations("c")[1] = "dashboard"
  /\ Calculations("c")[2] = "calculations" /\ Calculations("c")[3] = "p"
  /\ CalculationsAll \in Seq(Words) /\ Len(CalculationsAll) = 3 /\ CalculationsAll[1] = "dashboard"
  /\ CalculationsAll[2] = "calculations" /\ CalculationsAll[3] = "all"
  /\ Monthly \in Seq(Words) /\ Len(Monthly) = 4 /\ Monthly[1] = "dashboard" /\ Monthly[2] = "monthly"
  /\ Monthly[3] = "p"
<1>1. Summary \in Seq(Words) /\ Len(Summary) = 3 /\ Summary[1] = "dashboard" /\ Summary[2] = "summary"
        /\ Summary[3] = "p"
  BY DEF Words, Summary
<1>2. DashInvoices \in Seq(Words) /\ Len(DashInvoices) = 4 /\ DashInvoices[1] = "dashboard"
        /\ DashInvoices[2] = "invoices" /\ DashInvoices[3] = "p"
  BY DEF Words, DashInvoices
<1>3. Calculations("all") \in Seq(Words) /\ Len(Calculations("all")) = 6
        /\ Calculations("all")[1] = "dashboard" /\ Calculations("all")[2] = "calculations"
        /\ Calculations("all")[3] = "p"
  BY DEF Words, Calculations
<1>4. Calculations("c") \in Seq(Words) /\ Len(Calculations("c")) = 6 /\ Calculations("c")[1] = "dashboard"
        /\ Calculations("c")[2] = "calculations" /\ Calculations("c")[3] = "p"
  BY DEF Words, Calculations
<1>5. CalculationsAll \in Seq(Words) /\ Len(CalculationsAll) = 3 /\ CalculationsAll[1] = "dashboard"
        /\ CalculationsAll[2] = "calculations" /\ CalculationsAll[3] = "all"
  BY DEF Words, CalculationsAll
<1>6. Monthly \in Seq(Words) /\ Len(Monthly) = 4 /\ Monthly[1] = "dashboard" /\ Monthly[2] = "monthly"
        /\ Monthly[3] = "p"
  BY DEF Words, Monthly
<1> QED BY <1>1, <1>2, <1>3, <1>4, <1>5, <1>6

LEMMA DocumentKeys ==
  /\ Documents \in Seq(Words) /\ Len(Documents) = 1 /\ Documents[1] = "documents"
  /\ ProjectDocuments \in Seq(Words) /\ Len(ProjectDocuments) = 2 /\ ProjectDocuments[1] = "documents"
  /\ ProjectDocuments[2] = "p"
  /\ Document \in Seq(Words) /\ Len(Document) = 2 /\ Document[1] = "document" /\ Document[2] = "d"
<1>1. Documents \in Seq(Words) /\ Len(Documents) = 1 /\ Documents[1] = "documents"
  BY DEF Words, Documents
<1>2. ProjectDocuments \in Seq(Words) /\ Len(ProjectDocuments) = 2 /\ ProjectDocuments[1] = "documents"
        /\ ProjectDocuments[2] = "p"
  BY DEF Words, ProjectDocuments
<1>3. Document \in Seq(Words) /\ Len(Document) = 2 /\ Document[1] = "document" /\ Document[2] = "d"
  BY DEF Words, Document
<1> QED BY <1>1, <1>2, <1>3

LEMMA SupplierKeys ==
  /\ AllSuppliers \in Seq(Words) /\ Len(AllSuppliers) = 1 /\ AllSuppliers[1] = "suppliers"
  /\ Supplier("s") \in Seq(Words) /\ Len(Supplier("s")) = 2 /\ Supplier("s")[1] = "suppliers"
  /\ Supplier("s")[2] = "s"
  /\ SupplierProjects("s") \in Seq(Words) /\ Len(SupplierProjects("s")) = 3
  /\ SupplierProjects("s")[1] = "suppliers" /\ SupplierProjects("s")[2] = "s"
  /\ SupplierProjects("s")[3] = "projects"
  /\ SupplierInvoices("s") \in Seq(Words) /\ Len(SupplierInvoices("s")) = 3
  /\ SupplierInvoices("s")[1] = "suppliers" /\ SupplierInvoices("s")[2] = "s"
  /\ SupplierInvoices("s")[3] = "invoices"
<1>1. AllSuppliers \in Seq(Words) /\ Len(AllSuppliers) = 1 /\ AllSuppliers[1] = "suppliers"
  BY DEF Words, AllSuppliers
<1>2. Supplier("s") \in Seq(Words) /\ Len(Supplier("s")) = 2 /\ Supplier("s")[1] = "suppliers"
        /\ Supplier("s")[2] = "s"
  BY DEF Words, Supplier
<1>3. SupplierProjects("s") \in Seq(Words) /\ Len(SupplierProjects("s")) = 3
        /\ SupplierProjects("s")[1] = "suppliers" /\ SupplierProjects("s")[2] = "s"
        /\ SupplierProjects("s")[3] = "projects"
  BY DEF Words, SupplierProjects
<1>4. SupplierInvoices("s") \in Seq(Words) /\ Len(SupplierInvoices("s")) = 3
        /\ SupplierInvoices("s")[1] = "suppliers" /\ SupplierInvoices("s")[2] = "s"
        /\ SupplierInvoices("s")[3] = "invoices"
  BY DEF Words, SupplierInvoices
<1> QED BY <1>1, <1>2, <1>3, <1>4

LEMMA PriceKeys ==
  /\ PricesOfProject \in Seq(Words) /\ Len(PricesOfProject) = 4 /\ PricesOfProject[1] = "reference-prices"
  /\ PricesOfProject[2] = "p" /\ PricesOfProject[3] = None
  /\ PricesOfClass \in Seq(Words) /\ Len(PricesOfClass) = 4 /\ PricesOfClass[1] = "reference-prices"
  /\ PricesOfClass[2] = None /\ PricesOfClass[3] = "b"
<1>1. PricesOfProject \in Seq(Words) /\ Len(PricesOfProject) = 4 /\ PricesOfProject[1] = "reference-prices"
        /\ PricesOfProject[2] = "p" /\ PricesOfProject[3] = None
  BY DEF Words, PricesOfProject
<1>2. PricesOfClass \in Seq(Words) /\ Len(PricesOfClass) = 4 /\ PricesOfClass[1] = "reference-prices"
        /\ PricesOfClass[2] = None /\ PricesOfClass[3] = "b"
  BY DEF Words, PricesOfClass
<1> QED BY <1>1, <1>2

LEMMA AdminKeys ==
  /\ AllOrganisations \in Seq(Words) /\ Len(AllOrganisations) = 2 /\ AllOrganisations[1] = "admin"
  /\ AllOrganisations[2] = "organizations"
  /\ Organisation \in Seq(Words) /\ Len(Organisation) = 3 /\ Organisation[1] = "admin"
  /\ Organisation[2] = "organizations" /\ Organisation[3] = "o"
  /\ UserList \in Seq(Words) /\ Len(UserList) = 5 /\ UserList[1] = "admin" /\ UserList[2] = "users"
  /\ UserList[3] = "all"
<1>1. AllOrganisations \in Seq(Words) /\ Len(AllOrganisations) = 2 /\ AllOrganisations[1] = "admin"
        /\ AllOrganisations[2] = "organizations"
  BY DEF Words, AllOrganisations
<1>2. Organisation \in Seq(Words) /\ Len(Organisation) = 3 /\ Organisation[1] = "admin"
        /\ Organisation[2] = "organizations" /\ Organisation[3] = "o"
  BY DEF Words, Organisation
<1>3. UserList \in Seq(Words) /\ Len(UserList) = 5 /\ UserList[1] = "admin" /\ UserList[2] = "users"
        /\ UserList[3] = "all"
  BY DEF Words, UserList
<1> QED BY <1>1, <1>2, <1>3

LEMMA OtherKeys ==
  /\ AllProjects \in Seq(Words) /\ Len(AllProjects) = 1 /\ AllProjects[1] = "projects"
  /\ ProjectSuppliers \in Seq(Words) /\ Len(ProjectSuppliers) = 3
  /\ ProjectSuppliers[1] = "project-suppliers" /\ ProjectSuppliers[2] = "p" /\ ProjectSuppliers[3] = "all"
  /\ Exclusions \in Seq(Words) /\ Len(Exclusions) = 2 /\ Exclusions[1] = "supplier-exclusions"
  /\ Exclusions[2] = "p"
  /\ AllClasses \in Seq(Words) /\ Len(AllClasses) = 1 /\ AllClasses[1] = "material-classes"
  /\ Corridors \in Seq(Words) /\ Len(Corridors) = 2 /\ Corridors[1] = "corridors" /\ Corridors[2] = "p"
  /\ CurrentSettings \in Seq(Words) /\ Len(CurrentSettings) = 1 /\ CurrentSettings[1] = "settings"
<1>1. AllProjects \in Seq(Words) /\ Len(AllProjects) = 1 /\ AllProjects[1] = "projects"
  BY DEF Words, AllProjects
<1>2. ProjectSuppliers \in Seq(Words) /\ Len(ProjectSuppliers) = 3
        /\ ProjectSuppliers[1] = "project-suppliers" /\ ProjectSuppliers[2] = "p"
        /\ ProjectSuppliers[3] = "all"
  BY DEF Words, ProjectSuppliers
<1>3. Exclusions \in Seq(Words) /\ Len(Exclusions) = 2 /\ Exclusions[1] = "supplier-exclusions"
        /\ Exclusions[2] = "p"
  BY DEF Words, Exclusions
<1>4. AllClasses \in Seq(Words) /\ Len(AllClasses) = 1 /\ AllClasses[1] = "material-classes"
  BY DEF Words, AllClasses
<1>5. Corridors \in Seq(Words) /\ Len(Corridors) = 2 /\ Corridors[1] = "corridors" /\ Corridors[2] = "p"
  BY DEF Words, Corridors
<1>6. CurrentSettings \in Seq(Words) /\ Len(CurrentSettings) = 1 /\ CurrentSettings[1] = "settings"
  BY DEF Words, CurrentSettings
<1> QED BY <1>1, <1>2, <1>3, <1>4, <1>5, <1>6

LEMMA KeyWords == ASSUME NEW q \in Keys PROVE q \in Seq(Words)
BY KeysAre, DashboardKeys, DocumentKeys, SupplierKeys, PriceKeys, AdminKeys, OtherKeys

LEMMA KeyPrefixes ==
  /\ \A q \in {Summary, DashInvoices, Calculations("all"), Calculations("c"), CalculationsAll, Monthly} :
     IsPrefix(<<"dashboard">>, q)
  /\ \A q \in {Documents, ProjectDocuments} : IsPrefix(<<"documents">>, q)
  /\ \A q \in {Document} : IsPrefix(<<"document">>, q)
  /\ \A q \in {Supplier("s"), SupplierProjects("s"), SupplierInvoices("s")} : IsPrefix(AllSuppliers, q)
  /\ \A q \in {PricesOfProject, PricesOfClass} : IsPrefix(<<"reference-prices">>, q)
  /\ \A q \in {AllOrganisations, Organisation, UserList} : IsPrefix(<<"admin">>, q)
  /\ \A q \in {Organisation} : IsPrefix(AllOrganisations, q)
  /\ \A q \in {UserList} : IsPrefix(<<"admin", "users">>, q)
  /\ \A q \in {DashInvoices} : IsPrefix(<<"dashboard", "invoices">>, q)
  /\ \A q \in {Calculations("all"), Calculations("c")} : IsPrefix(<<"dashboard", "calculations", "p">>, q)
  /\ \A q \in {Monthly} : IsPrefix(<<"dashboard", "monthly", "p">>, q)
  /\ \A q \in Keys : IsPrefix(q, q)
<1>1. \A q \in {Summary, DashInvoices, Calculations("all"), Calculations("c"), CalculationsAll, Monthly} :
        IsPrefix(<<"dashboard">>, q)
  <2>1. IsPrefix(<<"dashboard">>, Summary)
    BY DashboardKeys, KeyPrefix1
  <2>2. IsPrefix(<<"dashboard">>, DashInvoices)
    BY DashboardKeys, KeyPrefix1, SMTT(30)
  <2>3. IsPrefix(<<"dashboard">>, Calculations("all"))
    BY DashboardKeys, KeyPrefix1
  <2>4. IsPrefix(<<"dashboard">>, Calculations("c"))
    BY DashboardKeys, KeyPrefix1
  <2>5. IsPrefix(<<"dashboard">>, CalculationsAll)
    BY DashboardKeys, KeyPrefix1
  <2>6. IsPrefix(<<"dashboard">>, Monthly)
    BY DashboardKeys, KeyPrefix1, SMTT(30)
  <2> QED BY <2>1, <2>2, <2>3, <2>4, <2>5, <2>6
<1>2. \A q \in {Documents, ProjectDocuments} : IsPrefix(<<"documents">>, q)
  <2>1. IsPrefix(<<"documents">>, Documents)
    BY DocumentKeys, KeyPrefix1
  <2>2. IsPrefix(<<"documents">>, ProjectDocuments)
    BY DocumentKeys, KeyPrefix1
  <2> QED BY <2>1, <2>2
<1>3. \A q \in {Document} : IsPrefix(<<"document">>, q)
  <2>1. IsPrefix(<<"document">>, Document)
    BY DocumentKeys, KeyPrefix1
  <2> QED BY <2>1
<1>4. \A q \in {Supplier("s"), SupplierProjects("s"), SupplierInvoices("s")} : IsPrefix(AllSuppliers, q)
  <2>1. IsPrefix(AllSuppliers, Supplier("s"))
    BY SupplierKeys, KeyPrefix1 DEF AllSuppliers
  <2>2. IsPrefix(AllSuppliers, SupplierProjects("s"))
    BY SupplierKeys, KeyPrefix1 DEF AllSuppliers
  <2>3. IsPrefix(AllSuppliers, SupplierInvoices("s"))
    BY SupplierKeys, KeyPrefix1 DEF AllSuppliers
  <2> QED BY <2>1, <2>2, <2>3
<1>5. \A q \in {PricesOfProject, PricesOfClass} : IsPrefix(<<"reference-prices">>, q)
  <2>1. IsPrefix(<<"reference-prices">>, PricesOfProject)
    BY PriceKeys, KeyPrefix1
  <2>2. IsPrefix(<<"reference-prices">>, PricesOfClass)
    BY PriceKeys, KeyPrefix1
  <2> QED BY <2>1, <2>2
<1>6. \A q \in {AllOrganisations, Organisation, UserList} : IsPrefix(<<"admin">>, q)
  <2>1. IsPrefix(<<"admin">>, AllOrganisations)
    <3>1. AllOrganisations \in Seq(Words) /\ Len(AllOrganisations) >= 1 /\ AllOrganisations[1] = "admin"
      BY AdminKeys
    <3> QED BY <3>1, KeyPrefix1
  <2>2. IsPrefix(<<"admin">>, Organisation)
    <3>1. Organisation \in Seq(Words) /\ Len(Organisation) >= 1 /\ Organisation[1] = "admin"
      BY AdminKeys
    <3> QED BY <3>1, KeyPrefix1
  <2>3. IsPrefix(<<"admin">>, UserList)
    <3>1. UserList \in Seq(Words) /\ Len(UserList) >= 1 /\ UserList[1] = "admin"
      BY AdminKeys
    <3> QED BY <3>1, KeyPrefix1
  <2> QED BY <2>1, <2>2, <2>3
<1>7. \A q \in {Organisation} : IsPrefix(AllOrganisations, q)
  <2>1. IsPrefix(AllOrganisations, Organisation)
    BY AdminKeys, KeyPrefix2 DEF AllOrganisations
  <2> QED BY <2>1
<1>8. \A q \in {UserList} : IsPrefix(<<"admin", "users">>, q)
  <2>1. IsPrefix(<<"admin", "users">>, UserList)
    BY AdminKeys, KeyPrefix2
  <2> QED BY <2>1
<1>9. \A q \in {DashInvoices} : IsPrefix(<<"dashboard", "invoices">>, q)
  <2>1. IsPrefix(<<"dashboard", "invoices">>, DashInvoices)
    BY DashboardKeys, KeyPrefix2
  <2> QED BY <2>1
<1>10. \A q \in {Calculations("all"), Calculations("c")} : IsPrefix(<<"dashboard", "calculations", "p">>, q)
  <2>1. IsPrefix(<<"dashboard", "calculations", "p">>, Calculations("all"))
    BY DashboardKeys, KeyPrefix3
  <2>2. IsPrefix(<<"dashboard", "calculations", "p">>, Calculations("c"))
    BY DashboardKeys, KeyPrefix3
  <2> QED BY <2>1, <2>2
<1>11. \A q \in {Monthly} : IsPrefix(<<"dashboard", "monthly", "p">>, q)
  <2>1. IsPrefix(<<"dashboard", "monthly", "p">>, Monthly)
    BY DashboardKeys, KeyPrefix3
  <2> QED BY <2>1
<1>12. \A q \in Keys : IsPrefix(q, q)
  BY KeyWords, KeyPrefix
<1> QED BY <1>1, <1>2, <1>3, <1>4, <1>5, <1>6, <1>7, <1>8, <1>9, <1>10, <1>11, <1>12

LEMMA HookReaches ==
  ASSUME NEW h \in Hooks, NEW m \in h.mutations, NEW k \in h.prefixes, NEW q, IsPrefix(k, q)
  PROVE  Matches(Invalidates[m], q)
<1>1. m \in Mutations /\ k \in Invalidates[m]
  BY DEF Mutations, Invalidates
<1> QED BY <1>1 DEF Matches

LEMMA UnderPrefix ==
  ASSUME NEW q \in Keys, NEW prefixes, NEW k \in prefixes, IsPrefix(k, q)
  PROVE  q \in Under(prefixes)
BY DEF Under, Matches

LEMMA ConcernedRow ==
  ASSUME NEW m, NEW q \in Keys, Concerns(m, q)
  PROVE  \E x \in Changes(m), row \in Rows : row.key = q /\ x \in row.from
BY DEF Concerns, Reads

LEMMA ChangesAre ==
  /\ Changes("createProject") = {"projects"} /\ Changes("updateProject") = {"projects"}
  /\ Changes("deleteProject") = {"projects", "documents", "status", "invoices", "confirmed", "prices",
                                 "corridors", "exclusions", "links"}
  /\ Changes("createClass") = {"classes"} /\ Changes("deleteClass") = {"classes", "invoices", "prices",
     "corridors"}
  /\ \A m \in Prices : Changes(m) = {"prices"}
  /\ \A m \in Reparses : Changes(m) = {"status"}
  /\ Changes("updateInvoice") = {"invoices", "suppliers"}
  /\ Changes("deleteDocument") = {"documents", "status", "invoices"}
  /\ Changes("deleteInvoice") = {"invoices"} /\ Changes("deleteInvoices") = {"invoices"}
  /\ \A m \in Confirmations : Changes(m) = {"confirmed"}
  /\ Changes("upload") = {"documents", "status"}
  /\ Changes("updateSettings") = {"settings"}
  /\ Changes("updateSupplier") = {"suppliers"} /\ Changes("mergeSupplier") = {"suppliers", "exclusions"}
  /\ Changes("toggleExclusion") = {"exclusions"}
  /\ \A m \in CorridorEdits : Changes(m) = {"corridors"}
  /\ \A m \in Organisations : Changes(m) = {"orgs"}
  /\ \A m \in Accounts : Changes(m) = {"users"}
  /\ \A m \in Links : Changes(m) = {"links"}
BY DEF Changes, Prices, Reparses, Confirmations, CorridorEdits, Organisations, Accounts, Links

LEMMA OverlookedAre ==
  /\ Overlooked("createProject") = Under({AllSuppliers, Organisation})
  /\ Overlooked("updateProject") = Under({AllSuppliers, Organisation})
  /\ Overlooked("deleteProject") = Under(OfProject \cup {<<"documents">>, <<"document">>, AllSuppliers,
     <<"admin">>})
  /\ Overlooked("createClass") = Under({Corridors})
  /\ Overlooked("deleteClass") = Under(OfProject \cup {<<"documents">>, <<"document">>, AllSuppliers})
  /\ \A m \in Prices \cup Confirmations : Overlooked(m) = Under({AllSuppliers})
  /\ \A m \in Reparses : Overlooked(m) = {Documents}
  /\ Overlooked("updateInvoice") = Under({<<"documents">>, AllSuppliers, ProjectSuppliers})
  /\ Overlooked("deleteDocument") = Under({AllProjects, <<"document">>, AllSuppliers, ProjectSuppliers})
  /\ Overlooked("deleteInvoice") = Under({AllSuppliers, ProjectSuppliers})
  /\ Overlooked("deleteInvoices") = Under({AllSuppliers, ProjectSuppliers})
  /\ Overlooked("upload") = Under({AllProjects})
  /\ Overlooked("updateSupplier") = Under({<<"document">>, <<"dashboard">>, ProjectSuppliers})
  /\ Overlooked("mergeSupplier") = Under({<<"document">>, <<"dashboard">>, ProjectSuppliers, Exclusions})
  /\ \A m \in Organisations : Overlooked(m) = Under({UserList})
BY DEF Overlooked, Prices, Reparses, Confirmations, Organisations

LEMMA HooksAre ==
  ASSUME NEW h \in Hooks
  PROVE  h \in {Hook(Projects, {AllProjects}), Hook(Classes, {AllClasses}),
    Hook(Prices, {<<"reference-prices">>, <<"dashboard">>}),
    Hook(Reparses, {Document, ProjectDocuments, <<"dashboard">>}),
      Hook({"updateInvoice"}, {<<"document">>, <<"dashboard">>}),
    Hook({"deleteDocument"}, {<<"documents">>, <<"dashboard">>}),
    Hook({"deleteInvoice", "deleteInvoices"}, {<<"documents">>, <<"dashboard">>, <<"document">>}),
    Hook(Confirmations, {<<"document">>, <<"dashboard", "invoices">>}),
      Hook({"upload"}, {<<"documents">>, <<"dashboard">>}),
    Hook({"updateSettings"}, {CurrentSettings}), Hook({"updateSupplier"}, {AllSuppliers, Supplier("s")}),
    Hook({"mergeSupplier"}, {AllSuppliers, Supplier("s"), SupplierProjects("s")}),
    Hook({"toggleExclusion"}, {Exclusions, <<"dashboard", "calculations", "p">>, CalculationsAll, Summary,
      <<"dashboard", "monthly", "p">>}),
    Hook(CorridorEdits, {Corridors, <<"dashboard", "calculations", "p">>, CalculationsAll, Summary}),
    Hook({"createOrg"}, {AllOrganisations}), Hook({"updateOrg"}, {AllOrganisations, Organisation}),
    Hook(Accounts, {Organisation, AllOrganisations, <<"admin", "users">>}),
      Hook(Links, {Organisation, AllOrganisations})}
BY DEF Hooks, ProjectHooks, ClassHooks, PriceHooks, ReparseHooks, InvoiceHooks, ConfirmHooks, UploadHook,
       SettingsHook, SupplierHooks, ExclusionHook, CorridorHooks, OrgHooks, UserHooks, LinkHooks

LEMMA MutationsAre ==
  ASSUME NEW m \in Mutations
  PROVE  m \in Projects \cup Classes \cup Prices \cup Reparses \cup Confirmations \cup CorridorEdits
               \cup Organisations \cup Accounts \cup Links
               \cup {"updateInvoice", "deleteDocument", "deleteInvoice", "deleteInvoices", "upload",
                     "updateSettings", "updateSupplier", "mergeSupplier", "toggleExclusion"}
<1>1. PICK h \in Hooks : m \in h.mutations
  BY DEF Mutations
<1>2. \A on, prefixes : Hook(on, prefixes).mutations = on
  BY DEF Hook
<1>3. h.mutations \in {Projects, Classes, Prices, Reparses, Confirmations, CorridorEdits, Organisations,
        Accounts, Links,
        {"updateInvoice"}, {"deleteDocument"}, {"deleteInvoice", "deleteInvoices"}, {"upload"},
          {"updateSettings"},
        {"updateSupplier"}, {"mergeSupplier"}, {"toggleExclusion"}, {"createOrg"}, {"updateOrg"}}
  BY <1>2, HooksAre
<1> QED BY <1>1, <1>3 DEF Organisations

LEMMA InvalidatedAre ==
  /\ \A m \in Projects : {AllProjects} \subseteq Invalidates[m]
  /\ \A m \in Classes : {AllClasses} \subseteq Invalidates[m]
  /\ \A m \in Prices : {<<"reference-prices">>, <<"dashboard">>} \subseteq Invalidates[m]
  /\ \A m \in Reparses : {Document, ProjectDocuments, <<"dashboard">>} \subseteq Invalidates[m]
  /\ \A m \in {"updateInvoice"} : {<<"document">>, <<"dashboard">>} \subseteq Invalidates[m]
  /\ \A m \in {"deleteDocument"} : {<<"documents">>, <<"dashboard">>} \subseteq Invalidates[m]
  /\ \A m \in {"deleteInvoice", "deleteInvoices"} :
     {<<"documents">>, <<"dashboard">>, <<"document">>} \subseteq Invalidates[m]
  /\ \A m \in Confirmations : {<<"document">>, <<"dashboard", "invoices">>} \subseteq Invalidates[m]
  /\ \A m \in {"upload"} : {<<"documents">>, <<"dashboard">>} \subseteq Invalidates[m]
  /\ \A m \in {"updateSettings"} : {CurrentSettings} \subseteq Invalidates[m]
  /\ \A m \in {"updateSupplier"} : {AllSuppliers, Supplier("s")} \subseteq Invalidates[m]
  /\ \A m \in {"mergeSupplier"} : {AllSuppliers, Supplier("s"),
     SupplierProjects("s")} \subseteq Invalidates[m]
  /\ \A m \in {"toggleExclusion"} : {Exclusions, <<"dashboard", "calculations", "p">>, CalculationsAll,
     Summary, <<"dashboard", "monthly", "p">>} \subseteq Invalidates[m]
  /\ \A m \in CorridorEdits : {Corridors, <<"dashboard", "calculations", "p">>, CalculationsAll,
     Summary} \subseteq Invalidates[m]
  /\ \A m \in {"createOrg"} : {AllOrganisations} \subseteq Invalidates[m]
  /\ \A m \in {"updateOrg"} : {AllOrganisations, Organisation} \subseteq Invalidates[m]
  /\ \A m \in Accounts : {Organisation, AllOrganisations, <<"admin", "users">>} \subseteq Invalidates[m]
  /\ \A m \in Links : {Organisation, AllOrganisations} \subseteq Invalidates[m]
<1>0. ASSUME NEW h \in Hooks PROVE \A m \in h.mutations : h.prefixes \subseteq Invalidates[m]
  BY DEF Mutations, Invalidates
<1>1. \A m \in Projects : {AllProjects} \subseteq Invalidates[m]
  <2> DEFINE h == Hook(Projects, {AllProjects})
  <2>1. h \in Hooks
    BY DEF Hooks, ProjectHooks
  <2>2. h.mutations = Projects /\ h.prefixes = {AllProjects}
    BY DEF Hook
  <2> HIDE DEF h
  <2> QED BY <1>0, <2>1, <2>2
<1>2. \A m \in Classes : {AllClasses} \subseteq Invalidates[m]
  <2> DEFINE h == Hook(Classes, {AllClasses})
  <2>1. h \in Hooks
    BY DEF Hooks, ClassHooks
  <2>2. h.mutations = Classes /\ h.prefixes = {AllClasses}
    BY DEF Hook
  <2> HIDE DEF h
  <2> QED BY <1>0, <2>1, <2>2
<1>3. \A m \in Prices : {<<"reference-prices">>, <<"dashboard">>} \subseteq Invalidates[m]
  <2> DEFINE h == Hook(Prices, {<<"reference-prices">>, <<"dashboard">>})
  <2>1. h \in Hooks
    BY DEF Hooks, PriceHooks
  <2>2. h.mutations = Prices /\ h.prefixes = {<<"reference-prices">>, <<"dashboard">>}
    BY DEF Hook
  <2> HIDE DEF h
  <2> QED BY <1>0, <2>1, <2>2
<1>4. \A m \in Reparses : {Document, ProjectDocuments, <<"dashboard">>} \subseteq Invalidates[m]
  <2> DEFINE h == Hook(Reparses, {Document, ProjectDocuments, <<"dashboard">>})
  <2>1. h \in Hooks
    BY DEF Hooks, ReparseHooks
  <2>2. h.mutations = Reparses /\ h.prefixes = {Document, ProjectDocuments, <<"dashboard">>}
    BY DEF Hook
  <2> HIDE DEF h
  <2> QED BY <1>0, <2>1, <2>2
<1>5. \A m \in {"updateInvoice"} : {<<"document">>, <<"dashboard">>} \subseteq Invalidates[m]
  <2> DEFINE h == Hook({"updateInvoice"}, {<<"document">>, <<"dashboard">>})
  <2>1. h \in Hooks
    BY DEF Hooks, InvoiceHooks
  <2>2. h.mutations = {"updateInvoice"} /\ h.prefixes = {<<"document">>, <<"dashboard">>}
    BY DEF Hook
  <2> HIDE DEF h
  <2> QED BY <1>0, <2>1, <2>2
<1>6. \A m \in {"deleteDocument"} : {<<"documents">>, <<"dashboard">>} \subseteq Invalidates[m]
  <2> DEFINE h == Hook({"deleteDocument"}, {<<"documents">>, <<"dashboard">>})
  <2>1. h \in Hooks
    BY DEF Hooks, InvoiceHooks
  <2>2. h.mutations = {"deleteDocument"} /\ h.prefixes = {<<"documents">>, <<"dashboard">>}
    BY DEF Hook
  <2> HIDE DEF h
  <2> QED BY <1>0, <2>1, <2>2
<1>7. \A m \in {"deleteInvoice", "deleteInvoices"} :
        {<<"documents">>, <<"dashboard">>, <<"document">>} \subseteq Invalidates[m]
  <2> DEFINE h == Hook({"deleteInvoice", "deleteInvoices"},
        {<<"documents">>, <<"dashboard">>, <<"document">>})
  <2>1. h \in Hooks
    BY DEF Hooks, InvoiceHooks
  <2>2. h.mutations = {"deleteInvoice", "deleteInvoices"}
          /\ h.prefixes = {<<"documents">>, <<"dashboard">>, <<"document">>}
    BY DEF Hook
  <2> HIDE DEF h
  <2> QED BY <1>0, <2>1, <2>2
<1>8. \A m \in Confirmations : {<<"document">>, <<"dashboard", "invoices">>} \subseteq Invalidates[m]
  <2> DEFINE h == Hook(Confirmations, {<<"document">>, <<"dashboard", "invoices">>})
  <2>1. h \in Hooks
    BY DEF Hooks, ConfirmHooks
  <2>2. h.mutations = Confirmations /\ h.prefixes = {<<"document">>, <<"dashboard", "invoices">>}
    BY DEF Hook
  <2> HIDE DEF h
  <2> QED BY <1>0, <2>1, <2>2
<1>9. \A m \in {"upload"} : {<<"documents">>, <<"dashboard">>} \subseteq Invalidates[m]
  <2> DEFINE h == Hook({"upload"}, {<<"documents">>, <<"dashboard">>})
  <2>1. h \in Hooks
    BY DEF Hooks, UploadHook
  <2>2. h.mutations = {"upload"} /\ h.prefixes = {<<"documents">>, <<"dashboard">>}
    BY DEF Hook
  <2> HIDE DEF h
  <2> QED BY <1>0, <2>1, <2>2
<1>10. \A m \in {"updateSettings"} : {CurrentSettings} \subseteq Invalidates[m]
  <2> DEFINE h == Hook({"updateSettings"}, {CurrentSettings})
  <2>1. h \in Hooks
    BY DEF Hooks, SettingsHook
  <2>2. h.mutations = {"updateSettings"} /\ h.prefixes = {CurrentSettings}
    BY DEF Hook
  <2> HIDE DEF h
  <2> QED BY <1>0, <2>1, <2>2
<1>11. \A m \in {"updateSupplier"} : {AllSuppliers, Supplier("s")} \subseteq Invalidates[m]
  <2> DEFINE h == Hook({"updateSupplier"}, {AllSuppliers, Supplier("s")})
  <2>1. h \in Hooks
    BY DEF Hooks, SupplierHooks
  <2>2. h.mutations = {"updateSupplier"} /\ h.prefixes = {AllSuppliers, Supplier("s")}
    BY DEF Hook
  <2> HIDE DEF h
  <2> QED BY <1>0, <2>1, <2>2
<1>12. \A m \in {"mergeSupplier"} : {AllSuppliers, Supplier("s"),
         SupplierProjects("s")} \subseteq Invalidates[m]
  <2> DEFINE h == Hook({"mergeSupplier"}, {AllSuppliers, Supplier("s"), SupplierProjects("s")})
  <2>1. h \in Hooks
    BY DEF Hooks, SupplierHooks
  <2>2. h.mutations = {"mergeSupplier"} /\ h.prefixes = {AllSuppliers, Supplier("s"), SupplierProjects("s")}
    BY DEF Hook
  <2> HIDE DEF h
  <2> QED BY <1>0, <2>1, <2>2
<1>13. \A m \in {"toggleExclusion"} : {Exclusions, <<"dashboard", "calculations", "p">>, CalculationsAll,
         Summary, <<"dashboard", "monthly", "p">>} \subseteq Invalidates[m]
  <2> DEFINE h == Hook({"toggleExclusion"}, {Exclusions, <<"dashboard", "calculations", "p">>,
        CalculationsAll, Summary, <<"dashboard", "monthly", "p">>})
  <2>1. h \in Hooks
    BY DEF Hooks, ExclusionHook
  <2>2. h.mutations = {"toggleExclusion"} /\ h.prefixes = {Exclusions, <<"dashboard", "calculations", "p">>,
          CalculationsAll, Summary, <<"dashboard", "monthly", "p">>}
    BY DEF Hook
  <2> HIDE DEF h
  <2> QED BY <1>0, <2>1, <2>2
<1>14. \A m \in CorridorEdits : {Corridors, <<"dashboard", "calculations", "p">>, CalculationsAll,
         Summary} \subseteq Invalidates[m]
  <2> DEFINE h == Hook(CorridorEdits, {Corridors, <<"dashboard", "calculations", "p">>, CalculationsAll,
        Summary})
  <2>1. h \in Hooks
    BY DEF Hooks, CorridorHooks
  <2>2. h.mutations = CorridorEdits /\ h.prefixes = {Corridors, <<"dashboard", "calculations", "p">>,
          CalculationsAll, Summary}
    BY DEF Hook
  <2> HIDE DEF h
  <2> QED BY <1>0, <2>1, <2>2
<1>15. \A m \in {"createOrg"} : {AllOrganisations} \subseteq Invalidates[m]
  <2> DEFINE h == Hook({"createOrg"}, {AllOrganisations})
  <2>1. h \in Hooks
    BY DEF Hooks, OrgHooks
  <2>2. h.mutations = {"createOrg"} /\ h.prefixes = {AllOrganisations}
    BY DEF Hook
  <2> HIDE DEF h
  <2> QED BY <1>0, <2>1, <2>2
<1>16. \A m \in {"updateOrg"} : {AllOrganisations, Organisation} \subseteq Invalidates[m]
  <2> DEFINE h == Hook({"updateOrg"}, {AllOrganisations, Organisation})
  <2>1. h \in Hooks
    BY DEF Hooks, OrgHooks
  <2>2. h.mutations = {"updateOrg"} /\ h.prefixes = {AllOrganisations, Organisation}
    BY DEF Hook
  <2> HIDE DEF h
  <2> QED BY <1>0, <2>1, <2>2
<1>17. \A m \in Accounts : {Organisation, AllOrganisations, <<"admin", "users">>} \subseteq Invalidates[m]
  <2> DEFINE h == Hook(Accounts, {Organisation, AllOrganisations, <<"admin", "users">>})
  <2>1. h \in Hooks
    BY DEF Hooks, UserHooks
  <2>2. h.mutations = Accounts /\ h.prefixes = {Organisation, AllOrganisations, <<"admin", "users">>}
    BY DEF Hook
  <2> HIDE DEF h
  <2> QED BY <1>0, <2>1, <2>2
<1>18. \A m \in Links : {Organisation, AllOrganisations} \subseteq Invalidates[m]
  <2> DEFINE h == Hook(Links, {Organisation, AllOrganisations})
  <2>1. h \in Hooks
    BY DEF Hooks, LinkHooks
  <2>2. h.mutations = Links /\ h.prefixes = {Organisation, AllOrganisations}
    BY DEF Hook
  <2> HIDE DEF h
  <2> QED BY <1>0, <2>1, <2>2
<1> QED BY <1>1, <1>2, <1>3, <1>4, <1>5, <1>6, <1>7, <1>8, <1>9, <1>10, <1>11, <1>12, <1>13, <1>14, <1>15,
      <1>16, <1>17, <1>18

LEMMA Covered ==
  ASSUME NEW prefixes, NEW P \in SUBSET prefixes, NEW q \in Keys, \E k \in P : IsPrefix(k, q)
  PROVE  Matches(prefixes, q)
BY DEF Matches

\* The answer of m reaches q, or App says that it does not.
Reached(m, q) == Matches(Invalidates[m], q) \/ q \in Overlooked(m) \/ (m = "upload" /\ q = Document)

LEMMA HooksReach ==
  ASSUME NEW m \in Mutations, NEW q \in Keys, Concerns(m, q)
  PROVE  Reached(m, q)
<1>1. PICK x \in Changes(m), row \in Rows : row.key = q /\ x \in row.from
  BY ConcernedRow
<1>2. \A k \in Invalidates[m] : IsPrefix(k, q) => Matches(Invalidates[m], q)
  BY DEF Matches
<1>3. CASE m \in {"createProject", "updateProject"}
  <2>1. q \in {AllProjects, SupplierProjects("s"), SupplierInvoices("s"), Organisation}
    BY <1>1, <1>3, ChangesAre, ReadersOf
  <2>2. CASE q \in {AllProjects}
    BY <1>2, <1>3, <2>2, InvalidatedAre, KeyPrefixes DEF Reached, Projects, Classes
  <2>3. CASE q \in {SupplierProjects("s"), SupplierInvoices("s"), Organisation}
    BY <1>3, <2>3, OverlookedAre, UnderPrefix, KeyPrefixes DEF Reached
  <2> QED BY <2>1, <2>2, <2>3
<1>4. CASE m \in {"deleteProject"}
  <2>1. q \in {AllProjects, SupplierProjects("s"), SupplierInvoices("s"), Organisation, Summary, Documents,
          ProjectDocuments, Document, ProjectSuppliers, DashInvoices, Calculations("all"),
            Calculations("c"), CalculationsAll, Monthly, AllSuppliers, Supplier("s"), PricesOfProject,
              PricesOfClass, Corridors, Exclusions, AllOrganisations}
    BY <1>1, <1>4, ChangesAre, ReadersOf
  <2>2. CASE q \in {AllProjects}
    BY <1>2, <1>4, <2>2, InvalidatedAre, KeyPrefixes DEF Reached, Projects, Classes
  <2>3. CASE q \in {Summary, DashInvoices, Calculations("all"), Calculations("c"), CalculationsAll, Monthly,
          ProjectDocuments, ProjectSuppliers, Exclusions, Corridors, PricesOfProject, PricesOfClass,
            Documents, ProjectDocuments, Document, AllSuppliers, Supplier("s"), SupplierProjects("s"),
              SupplierInvoices("s"), AllOrganisations, Organisation}
    BY <1>4, <2>3, OverlookedAre, UnderPrefix, KeyPrefixes, SMTT(30) DEF Reached, OfProject
  <2> QED BY <2>1, <2>2, <2>3
<1>5. CASE m \in {"createClass"}
  <2>1. q \in {AllClasses, Corridors}
    BY <1>1, <1>5, ChangesAre, ReadersOf
  <2>2. CASE q \in {AllClasses}
    BY <1>2, <1>5, <2>2, InvalidatedAre, KeyPrefixes DEF Reached, Projects, Classes
  <2>3. CASE q \in {Corridors}
    BY <1>5, <2>3, OverlookedAre, UnderPrefix, KeyPrefixes DEF Reached
  <2> QED BY <2>1, <2>2, <2>3
<1>6. CASE m \in {"deleteClass"}
  <2>1. q \in {AllClasses, Corridors, ProjectSuppliers, Summary, DashInvoices, Calculations("all"),
          Calculations("c"), CalculationsAll, Monthly, Documents, ProjectDocuments, Document, AllSuppliers,
            Supplier("s"), SupplierProjects("s"), SupplierInvoices("s"), PricesOfProject, PricesOfClass}
    BY <1>1, <1>6, ChangesAre, ReadersOf
  <2>2. CASE q \in {AllClasses}
    BY <1>2, <1>6, <2>2, InvalidatedAre, KeyPrefixes DEF Reached, Projects, Classes
  <2>3. CASE q \in {Summary, DashInvoices, Calculations("all"), Calculations("c"), CalculationsAll, Monthly,
          ProjectDocuments, ProjectSuppliers, Corridors, PricesOfProject, PricesOfClass, Documents,
            ProjectDocuments, Document, AllSuppliers, Supplier("s"), SupplierProjects("s"),
              SupplierInvoices("s")}
    BY <1>6, <2>3, OverlookedAre, UnderPrefix, KeyPrefixes DEF Reached, OfProject
  <2> QED BY <2>1, <2>2, <2>3
<1>7. CASE m \in Prices
  <2>1. q \in {Summary, Calculations("all"), Calculations("c"), CalculationsAll, SupplierProjects("s"),
          PricesOfProject, PricesOfClass}
    BY <1>1, <1>7, ChangesAre, ReadersOf
  <2>2. CASE q \in {PricesOfProject, PricesOfClass, Summary, Calculations("all"), Calculations("c"),
          CalculationsAll}
    BY <1>2, <1>7, <2>2, InvalidatedAre, KeyPrefixes DEF Reached
  <2>3. CASE q \in {SupplierProjects("s")}
    BY <1>7, <2>3, OverlookedAre, UnderPrefix, KeyPrefixes DEF Reached
  <2> QED BY <2>1, <2>2, <2>3
<1>8. CASE m \in Reparses
  <2>1. q \in {Documents, ProjectDocuments, Document}
    BY <1>1, <1>8, ChangesAre, ReadersOf
  <2>2. CASE q \in {Document, ProjectDocuments}
    BY <1>2, <1>8, <2>2, InvalidatedAre, KeyPrefixes DEF Reached
  <2>3. CASE q \in {Documents}
    BY <1>8, <2>3, OverlookedAre, UnderPrefix, KeyPrefixes DEF Reached
  <2> QED BY <2>1, <2>2, <2>3
<1>9. CASE m \in {"updateInvoice"}
  <2>1. q \in {ProjectSuppliers, Summary, DashInvoices, Calculations("all"), Calculations("c"),
          CalculationsAll, Monthly, Documents, ProjectDocuments, Document, AllSuppliers, Supplier("s"),
            SupplierProjects("s"), SupplierInvoices("s")}
    BY <1>1, <1>9, ChangesAre, ReadersOf
  <2>2. CASE q \in {Document, Summary, DashInvoices, Calculations("all"), Calculations("c"),
          CalculationsAll, Monthly}
    BY <1>2, <1>9, <2>2, InvalidatedAre, KeyPrefixes DEF Reached
  <2>3. CASE q \in {Documents, ProjectDocuments, AllSuppliers, Supplier("s"), SupplierProjects("s"),
          SupplierInvoices("s"), ProjectSuppliers}
    BY <1>9, <2>3, OverlookedAre, UnderPrefix, KeyPrefixes DEF Reached
  <2> QED BY <2>1, <2>2, <2>3
<1>10. CASE m \in {"deleteDocument"}
  <2>1. q \in {AllProjects, Summary, Documents, ProjectDocuments, Document, ProjectSuppliers, DashInvoices,
          Calculations("all"), Calculations("c"), CalculationsAll, Monthly, AllSuppliers, Supplier("s"),
            SupplierProjects("s"), SupplierInvoices("s")}
    BY <1>1, <1>10, ChangesAre, ReadersOf
  <2>2. CASE q \in {Documents, ProjectDocuments, Summary, DashInvoices, Calculations("all"),
          Calculations("c"), CalculationsAll, Monthly}
    BY <1>2, <1>10, <2>2, InvalidatedAre, KeyPrefixes DEF Reached
  <2>3. CASE q \in {AllProjects, Document, AllSuppliers, Supplier("s"), SupplierProjects("s"),
          SupplierInvoices("s"), ProjectSuppliers}
    BY <1>10, <2>3, OverlookedAre, UnderPrefix, KeyPrefixes DEF Reached
  <2> QED BY <2>1, <2>2, <2>3
<1>11. CASE m \in {"deleteInvoice", "deleteInvoices"}
  <2>1. q \in {ProjectSuppliers, Summary, DashInvoices, Calculations("all"), Calculations("c"),
          CalculationsAll, Monthly, Documents, ProjectDocuments, Document, AllSuppliers, Supplier("s"),
            SupplierProjects("s"), SupplierInvoices("s")}
    BY <1>1, <1>11, ChangesAre, ReadersOf
  <2>2. CASE q \in {Documents, ProjectDocuments, Summary, DashInvoices, Calculations("all"),
          Calculations("c"), CalculationsAll, Monthly, Document}
    BY <1>2, <1>11, <2>2, InvalidatedAre, KeyPrefixes DEF Reached
  <2>3. CASE q \in {AllSuppliers, Supplier("s"), SupplierProjects("s"), SupplierInvoices("s"),
          ProjectSuppliers}
    BY <1>11, <2>3, OverlookedAre, UnderPrefix, KeyPrefixes DEF Reached
  <2> QED BY <2>1, <2>2, <2>3
<1>12. CASE m \in Confirmations
  <2>1. q \in {DashInvoices, Document, SupplierInvoices("s")}
    BY <1>1, <1>12, ChangesAre, ReadersOf
  <2>2. CASE q \in {Document, DashInvoices}
    BY <1>2, <1>12, <2>2, InvalidatedAre, KeyPrefixes DEF Reached
  <2>3. CASE q \in {SupplierInvoices("s")}
    BY <1>12, <2>3, OverlookedAre, UnderPrefix, KeyPrefixes DEF Reached
  <2> QED BY <2>1, <2>2, <2>3
<1>13. CASE m \in {"upload"}
  <2>1. q \in {AllProjects, Summary, Documents, ProjectDocuments, Document}
    BY <1>1, <1>13, ChangesAre, ReadersOf
  <2>2. CASE q \in {Documents, ProjectDocuments, Summary}
    BY <1>2, <1>13, <2>2, InvalidatedAre, KeyPrefixes DEF Reached
  <2>3. CASE q \in {AllProjects}
    BY <1>13, <2>3, OverlookedAre, UnderPrefix, KeyPrefixes DEF Reached
  <2>4. CASE q = Document
    BY <1>13, <2>4 DEF Reached
  <2> QED BY <2>1, <2>2, <2>3, <2>4
<1>14. CASE m \in {"updateSettings"}
  <2>1. q \in {CurrentSettings}
    BY <1>1, <1>14, ChangesAre, ReadersOf
  <2>2. CASE q \in {CurrentSettings}
    BY <1>2, <1>14, <2>2, InvalidatedAre, KeyPrefixes DEF Reached
  <2> QED BY <2>1, <2>2
<1>15. CASE m \in {"updateSupplier"}
  <2>1. q \in {ProjectSuppliers, DashInvoices, Document, AllSuppliers, Supplier("s"), SupplierProjects("s"),
          SupplierInvoices("s")}
    BY <1>1, <1>15, ChangesAre, ReadersOf
  <2>2. CASE q \in {AllSuppliers, Supplier("s"), SupplierProjects("s"), SupplierInvoices("s")}
    BY <1>2, <1>15, <2>2, InvalidatedAre, KeyPrefixes DEF Reached
  <2>3. CASE q \in {Document, DashInvoices, ProjectSuppliers}
    BY <1>15, <2>3, OverlookedAre, UnderPrefix, KeyPrefixes DEF Reached
  <2> QED BY <2>1, <2>2, <2>3
<1>16. CASE m \in {"mergeSupplier"}
  <2>1. q \in {ProjectSuppliers, DashInvoices, Document, AllSuppliers, Supplier("s"), SupplierProjects("s"),
          SupplierInvoices("s"), Exclusions, Summary, Calculations("all"), Calculations("c"),
            CalculationsAll, Monthly}
    BY <1>1, <1>16, ChangesAre, ReadersOf
  <2>2. CASE q \in {AllSuppliers, Supplier("s"), SupplierProjects("s"), SupplierInvoices("s")}
    BY <1>2, <1>16, <2>2, InvalidatedAre, KeyPrefixes DEF Reached
  <2>3. CASE q \in {Document, Summary, DashInvoices, Calculations("all"), Calculations("c"),
          CalculationsAll, Monthly, ProjectSuppliers, Exclusions}
    BY <1>16, <2>3, OverlookedAre, UnderPrefix, KeyPrefixes DEF Reached
  <2> QED BY <2>1, <2>2, <2>3
<1>17. CASE m \in {"toggleExclusion"}
  <2>1. q \in {Exclusions, Summary, Calculations("all"), Calculations("c"), CalculationsAll, Monthly}
    BY <1>1, <1>17, ChangesAre, ReadersOf
  <2>2. CASE q \in {Exclusions, Calculations("all"), Calculations("c"), CalculationsAll, Summary, Monthly}
    BY <1>2, <1>17, <2>2, InvalidatedAre, KeyPrefixes DEF Reached
  <2> QED BY <2>1, <2>2
<1>18. CASE m \in CorridorEdits
  <2>1. q \in {Summary, Calculations("all"), Calculations("c"), CalculationsAll, Corridors}
    BY <1>1, <1>18, ChangesAre, ReadersOf
  <2>2. CASE q \in {Corridors, Calculations("all"), Calculations("c"), CalculationsAll, Summary}
    BY <1>2, <1>18, <2>2, InvalidatedAre, KeyPrefixes DEF Reached
  <2> QED BY <2>1, <2>2
<1>19. CASE m \in Organisations
  <2>1. q \in {AllOrganisations, Organisation, UserList}
    BY <1>1, <1>19, ChangesAre, ReadersOf
  <2>2. CASE q \in {AllOrganisations, Organisation}
    BY <1>2, <1>19, <2>2, InvalidatedAre, KeyPrefixes DEF Reached, Organisations
  <2>3. CASE q \in {UserList}
    BY <1>19, <2>3, OverlookedAre, UnderPrefix, KeyPrefixes DEF Reached
  <2> QED BY <2>1, <2>2, <2>3
<1>20. CASE m \in Accounts
  <2>1. q \in {AllOrganisations, Organisation, UserList}
    BY <1>1, <1>20, ChangesAre, ReadersOf
  <2>2. CASE q \in {AllOrganisations, Organisation, UserList}
    BY <1>2, <1>20, <2>2, InvalidatedAre, KeyPrefixes DEF Reached
  <2> QED BY <2>1, <2>2
<1>21. CASE m \in Links
  <2>1. q \in {AllOrganisations, Organisation}
    BY <1>1, <1>21, ChangesAre, ReadersOf
  <2>2. CASE q \in {AllOrganisations, Organisation}
    BY <1>2, <1>21, <2>2, InvalidatedAre, KeyPrefixes DEF Reached
  <2> QED BY <2>1, <2>2
<1> QED BY <1>3, <1>4, <1>5, <1>6, <1>7, <1>8, <1>9, <1>10, <1>11, <1>12, <1>13, <1>14, <1>15, <1>16, <1>17,
      <1>18, <1>19, <1>20, <1>21, MutationsAre DEF Classes, Projects

\* Whatever invalidates the calculations, which start from the summary, invalidates the summary.
LEMMA SummaryReached ==
  ASSUME NEW m \in Mutations, NEW d \in {"all", "c"}, Matches(Invalidates[m], Calculations(d))
  PROVE  Matches(Invalidates[m], Summary)
<1> DEFINE q == Calculations(d)
<1>0. q \in Seq(Words) /\ Len(q) = 6 /\ q[1] = "dashboard" /\ q[2] = "calculations"
  BY DashboardKeys
<1> HIDE DEF q
<1>1. PICK h \in Hooks : m \in h.mutations /\ \E k \in h.prefixes : IsPrefix(k, q)
  BY DEF Matches, Invalidates, q
<1>2. h.prefixes \subseteq Invalidates[m]
  BY <1>1 DEF Invalidates
<1>3. IsPrefix(<<"dashboard">>, Summary) /\ IsPrefix(Summary, Summary)
  <2>1. Summary \in Seq(Words)
    BY DashboardKeys
  <2> QED BY <2>1, KeyPrefixes, KeyPrefix
<1>4. CASE <<"dashboard">> \in h.prefixes \/ Summary \in h.prefixes
  BY <1>2, <1>3, <1>4 DEF Matches
<1>5. CASE ~(<<"dashboard">> \in h.prefixes \/ Summary \in h.prefixes)
  <2>1. \A on, prefixes : Hook(on, prefixes).prefixes = prefixes
    BY DEF Hook
  <2>2. h.prefixes \in {{AllProjects}, {AllClasses}, {<<"document">>, <<"dashboard", "invoices">>},
          {CurrentSettings},
          {AllSuppliers, Supplier("s")}, {AllSuppliers, Supplier("s"), SupplierProjects("s")},
            {AllOrganisations},
          {AllOrganisations, Organisation}, {Organisation, AllOrganisations, <<"admin", "users">>}}
    BY <1>5, <2>1, HooksAre
  <2>3. \A k \in {AllProjects, AllClasses, CurrentSettings} :
          k \in Seq(Words) /\ Len(k) >= 1 /\ k[1] # "dashboard"
    BY OtherKeys
  <2>4. \A k \in {AllSuppliers, Supplier("s"), SupplierProjects("s")} :
          k \in Seq(Words) /\ Len(k) >= 1 /\ k[1] # "dashboard"
    <3>1. AllSuppliers[1] # "dashboard" /\ Supplier("s")[1] # "dashboard"
            /\ SupplierProjects("s")[1] # "dashboard"
      BY SupplierKeys
    <3> QED BY <3>1, SupplierKeys
  <2>5. \A k \in {AllOrganisations, Organisation} : k \in Seq(Words) /\ Len(k) >= 1 /\ k[1] # "dashboard"
    <3>1. AllOrganisations \in Seq(Words) /\ Len(AllOrganisations) >= 1 /\ AllOrganisations[1] = "admin"
      BY AdminKeys
    <3>2. Organisation \in Seq(Words) /\ Len(Organisation) >= 1 /\ Organisation[1] = "admin"
      BY AdminKeys
    <3> QED BY <3>1, <3>2
  <2>9. \A k \in Seq(Words) : (Len(k) >= 1 /\ k[1] # "dashboard") => ~IsPrefix(k, q)
    BY <1>0, KeyDiffers
  <2>10. ~IsPrefix(<<"dashboard", "invoices">>, q)
    <3> DEFINE k == <<"dashboard", "invoices">>
    <3>1. k \in Seq(Words) /\ Len(k) = 2 /\ k[2] = "invoices" /\ 2 \in 1..Len(k)
      BY DEF Words
    <3> HIDE DEF k
    <3>2. ~IsPrefix(k, q)
      BY <1>0, <3>1, KeyDiffers
    <3> QED BY <3>2 DEF k
  <2>11. ~IsPrefix(<<"document">>, q)
    <3> DEFINE k == <<"document">>
    <3>1. k \in Seq(Words) /\ Len(k) = 1 /\ k[1] = "document" /\ 1 \in 1..Len(k)
      BY DEF Words
    <3> HIDE DEF k
    <3>2. ~IsPrefix(k, q)
      BY <1>0, <3>1, KeyDiffers
    <3> QED BY <3>2 DEF k
  <2>12. ~IsPrefix(<<"admin", "users">>, q)
    <3> DEFINE k == <<"admin", "users">>
    <3>1. k \in Seq(Words) /\ Len(k) = 2 /\ k[1] = "admin" /\ 1 \in 1..Len(k)
      BY DEF Words
    <3> HIDE DEF k
    <3>2. ~IsPrefix(k, q)
      BY <1>0, <3>1, KeyDiffers
    <3> QED BY <3>2 DEF k
  <2>13. \A k \in {AllProjects, AllClasses, CurrentSettings, AllSuppliers, Supplier("s"),
           SupplierProjects("s"),
           AllOrganisations, Organisation} : ~IsPrefix(k, q)
    BY <2>3, <2>4, <2>5, <2>9
  <2> QED BY <1>1, <2>2, <2>10, <2>11, <2>12, <2>13
<1> QED BY <1>4, <1>5

-----------------------------------------------------------------------------
(* The query cache. Log numbers the mutations, so an entry that was read at *)
(* n has seen the first n of them.                                          *)

\* The types of the cache.
CacheTyped ==
  /\ watched \in SUBSET Keys /\ mounted \in SUBSET watched
  /\ cache \in [watched -> [at : {None} \cup Nat, stale : BOOLEAN]]
  /\ fetch \in [watched -> {None, Sent} \cup Nat]
  /\ log \in Seq(Mutations) /\ known \in SUBSET (DOMAIN log)
\* The answer of the k-th mutation has reached q.
Owed(q, k) == q \notin late /\ (Matches(Invalidates[log[k]], q) \/ q \in Seeded(k))
\* What is shown of q, or on its way, was read after the k-th mutation.
Fresh(q, k) ==
  /\ fetch[q] \in Nat => fetch[q] >= k
  /\ fetch[q] = None /\ Data(q) => cache[q].at >= k \/ (cache[q].stale /\ q \notin mounted)
CacheSound == CacheTyped /\ \A q \in watched, k \in known : Owed(q, k) => Fresh(q, k)

LEMMA CacheStarts == ASSUME NEW qs \in Followed, Start(qs) PROVE CacheSound
<1>1. qs \in SUBSET Keys
  <2>1. Summary \in Keys /\ Calculations("c") \in Keys
    <3>1. \A row \in Rows : row.key \in Keys
      BY DEF Keys
    <3>2. \A key, from : Row(key, from).key = key
      BY DEF Row
    <3>3. \E row \in Rows : row.key = Summary
      <4> DEFINE row == Row(Summary, {"documents", "invoices", "prices", "corridors", "exclusions"})
      <4>1. row \in Rows /\ row.key = Summary
        BY <3>2 DEF Rows, DashboardReads
      <4> QED BY <4>1
    <3>4. \E row \in Rows : row.key = Calculations("c")
      <4> DEFINE row == Row(Calculations("c"), {"invoices", "prices", "corridors", "exclusions"})
      <4>1. row \in Rows /\ row.key = Calculations("c")
        BY <3>2 DEF Rows, DashboardReads
      <4> QED BY <4>1
    <3> QED BY <3>1, <3>3, <3>4
  <2> QED BY <2>1 DEF Followed
<1>2. watched = qs
  BY DEF Start
<1> QED BY <1>1, <1>2 DEF CacheSound, CacheTyped, Start

LEMMA CacheTypes ==
  ASSUME CacheTyped, NEW q \in watched
  PROVE  /\ q \in Keys /\ cache[q] \in [at : {None} \cup Nat, stale : BOOLEAN]
            /\ cache[q].at \in {None} \cup Nat
         /\ cache[q].stale \in BOOLEAN /\ fetch[q] \in {None, Sent} \cup Nat
BY DEF CacheTyped

LEMMA CacheMounts == ASSUME CacheSound, NEW q \in watched, NEW aged \in BOOLEAN, Mount(q, aged)
  PROVE CacheSound'
<1> DEFINE seeded == FromSummary(q)
           entry == IF seeded THEN [at |-> cache[Summary].at, stale |-> FALSE] ELSE cache[q]
           due == fetch[q] = None /\ (entry.at = None \/ entry.stale \/ aged)
<1>1. CacheTyped /\ q \notin mounted
  BY DEF CacheSound, Mount
<1>2. /\ mounted' = mounted \cup {q} /\ cache' = [cache EXCEPT ![q] = entry]
      /\ fetch' = (IF due THEN [fetch EXCEPT ![q] = Sent] ELSE fetch)
      /\ late' = (IF due THEN late \ {q}
                  ELSE IF seeded /\ (cache[Summary].stale \/ fetch[Summary] # None \/ Summary \in late)
                       THEN late \cup {q} ELSE late)
      /\ watched' = watched /\ log' = log /\ known' = known
  BY DEF Mount
<1>3. entry \in [at : {None} \cup Nat, stale : BOOLEAN]
  BY <1>1, CacheTypes DEF FromSummary
<1> HIDE DEF entry
<1>4. CacheTyped'
  BY <1>1, <1>2, <1>3 DEF CacheTyped
<1>5. ASSUME NEW p \in watched, NEW k \in known, Owed(p, k)' PROVE Fresh(p, k)'
  <2>1. CASE p # q
    <3>1. Owed(p, k)
      BY <1>2, <1>5, <2>1 DEF Owed, Seeded
    <3>2. Fresh(p, k)
      BY <3>1 DEF CacheSound
    <3>3. cache'[p] = cache[p] /\ fetch'[p] = fetch[p] /\ (p \in mounted' => p \in mounted)
      BY <1>1, <1>2, <2>1 DEF CacheTyped
    <3> QED BY <3>2, <3>3 DEF Fresh, Data
  <2>2. CASE p = q /\ due
    <3>1. fetch'[q] = Sent
      BY <1>1, <1>2, <2>2 DEF CacheTyped
    <3> QED BY <2>2, <3>1, ValuesAssumption DEF Fresh
  <2>3. CASE p = q /\ ~due
    <3>1. fetch'[q] = fetch[q] /\ cache'[q] = entry
      BY <1>1, <1>2, <2>3 DEF CacheTyped
    <3>2. Owed(q, k)
      BY <1>2, <1>5, <2>3 DEF Owed, Seeded
    <3>3. Fresh(q, k)
      BY <3>2 DEF CacheSound
    <3>4. ASSUME fetch[q] = None, entry.at # None PROVE entry.at >= k
      <4>1. ~entry.stale
        BY <2>3, <3>4
      <4>2. CASE ~seeded
        <5>1. entry = cache[q]
          BY <4>2 DEF entry
        <5> QED BY <3>3, <3>4, <4>1, <5>1 DEF Fresh, Data
      <4>3. CASE seeded
        <5>1. /\ entry.at = cache[Summary].at /\ Summary \in watched /\ Data(Summary)
              /\ q \in {Calculations("all"), Calculations("c")}
          BY <4>3 DEF entry, FromSummary
        <5>2. ~cache[Summary].stale /\ fetch[Summary] = None /\ Summary \notin late
          BY <1>2, <1>5, <2>3, <4>3 DEF Owed
        <5>3. q # Document
          BY <5>1, DashboardKeys, DocumentKeys
        <5>4. log[k] \in Mutations /\ Matches(Invalidates[log[k]], q)
          BY <1>1, <3>2, <5>3 DEF CacheTyped, Owed, Seeded
        <5>5. Matches(Invalidates[log[k]], Summary)
          BY <5>1, <5>4, SummaryReached
        <5>6. Fresh(Summary, k)
          BY <5>1, <5>2, <5>5 DEF CacheSound, Owed
        <5> QED BY <5>1, <5>2, <5>6 DEF Fresh
      <4> QED BY <4>2, <4>3
    <3> QED BY <2>3, <3>1, <3>3, <3>4 DEF Fresh, Data
  <2> QED BY <2>1, <2>2, <2>3
<1> QED BY <1>2, <1>4, <1>5 DEF CacheSound

LEMMA CacheFollows ==
  ASSUME CacheSound, NEW q \in watched, Unmount(q) \/ Read(q) \/ Land(q) \/ Fail(q)
  PROVE  CacheSound'
<1>1. CacheTyped
  BY DEF CacheSound
<1>2. CASE Unmount(q)
  <2>1. CacheTyped'
    BY <1>1, <1>2 DEF CacheTyped, Unmount
  <2>2. \A p \in watched, k \in known : Owed(p, k)' <=> Owed(p, k)
    BY <1>2 DEF Unmount, Owed, Seeded
  <2>3. \A p \in watched, k \in known : Fresh(p, k) => Fresh(p, k)'
    BY <1>2 DEF Unmount, Fresh, Data
  <2> QED BY <1>2, <2>1, <2>2, <2>3 DEF CacheSound, Unmount
<1>3. CASE Read(q)
  <2>1. Len(log) \in Nat /\ \A k \in known : k <= Len(log) /\ k \in Nat
    BY <1>1 DEF CacheTyped
  <2>2. CacheTyped'
    BY <1>1, <1>3, <2>1 DEF CacheTyped, Read
  <2>3. fetch'[q] = Len(log) /\ \A p \in watched : p # q => fetch'[p] = fetch[p]
    BY <1>1, <1>3 DEF CacheTyped, Read
  <2>4. \A p \in watched, k \in known : Owed(p, k)' <=> Owed(p, k)
    BY <1>3 DEF Read, Owed, Seeded
  <2>5. \A p \in watched, k \in known : Fresh(p, k) => Fresh(p, k)'
    BY <1>3, <2>1, <2>3, ValuesAssumption DEF Read, Fresh, Data
  <2> QED BY <1>3, <2>2, <2>4, <2>5 DEF CacheSound, Read
<1>4. CASE Land(q)
  <2>1. fetch[q] \in Nat
    BY <1>4 DEF Land, Times
  <2>2. /\ cache' = [cache EXCEPT ![q] = [at |-> fetch[q], stale |-> FALSE]]
        /\ fetch' = [fetch EXCEPT ![q] = None]
        /\ watched' = watched /\ mounted' = mounted /\ log' = log /\ known' = known /\ late' = late
    BY <1>4 DEF Land
  <2>3. CacheTyped'
    BY <1>1, <2>1, <2>2 DEF CacheTyped
  <2>4. /\ fetch'[q] = None /\ cache'[q].at = fetch[q]
        /\ \A p \in watched : p # q => fetch'[p] = fetch[p] /\ cache'[p] = cache[p]
    BY <1>1, <2>2 DEF CacheTyped
  <2>5. \A p \in watched, k \in known : Owed(p, k)' <=> Owed(p, k)
    BY <2>2 DEF Owed, Seeded
  <2>6. \A p \in watched, k \in known : Fresh(p, k) => Fresh(p, k)'
    BY <2>1, <2>2, <2>4, ValuesAssumption DEF Fresh, Data
  <2> QED BY <2>2, <2>3, <2>5, <2>6 DEF CacheSound
<1>5. CASE Fail(q)
  <2>1. /\ fetch' = [fetch EXCEPT ![q] = None] /\ late' = late \cup {q}
        /\ watched' = watched /\ mounted' = mounted /\ log' = log /\ known' = known /\ cache' = cache
    BY <1>5 DEF Fail
  <2>2. CacheTyped'
    BY <1>1, <2>1 DEF CacheTyped
  <2>3. \A p \in watched, k \in known : Owed(p, k)' => Owed(p, k) /\ p # q
    BY <2>1 DEF Owed, Seeded
  <2>4. \A p \in watched : p # q => fetch'[p] = fetch[p]
    BY <1>1, <2>1 DEF CacheTyped
  <2>5. \A p \in watched, k \in known : Fresh(p, k) /\ p # q => Fresh(p, k)'
    BY <2>1, <2>4 DEF Fresh, Data
  <2> QED BY <2>1, <2>2, <2>3, <2>5 DEF CacheSound
<1> QED BY <1>2, <1>3, <1>4, <1>5

LEMMA CacheServes == ASSUME CacheSound, NEW m \in Kinds, Serve(m) PROVE CacheSound'
<1>1. m \in Mutations
  BY DEF Kinds, Alike
<1>2. /\ log' = Append(log, m) /\ watched' = watched /\ mounted' = mounted /\ cache' = cache /\ fetch' = fetch
      /\ known' = known /\ late' = late
  BY DEF Serve
<1>3. CacheTyped
  BY DEF CacheSound
<1>4. log' \in Seq(Mutations) /\ DOMAIN log \subseteq DOMAIN log' /\ \A k \in DOMAIN log : log'[k] = log[k]
  BY <1>1, <1>2, <1>3 DEF CacheTyped
<1>5. CacheTyped'
  BY <1>2, <1>3, <1>4 DEF CacheTyped
<1>6. \A p \in watched, k \in known : Owed(p, k)' => Owed(p, k)
  BY <1>2, <1>3, <1>4 DEF CacheTyped, Owed, Seeded
<1>7. \A p \in watched, k \in known : Fresh(p, k) => Fresh(p, k)'
  BY <1>2 DEF Fresh, Data
<1> QED BY <1>2, <1>5, <1>6, <1>7 DEF CacheSound

LEMMA CacheAnswered == ASSUME CacheSound, NEW n \in Nat, Answer(n) PROVE CacheSound'
<1> DEFINE c == Seed(cache, n)
           hit == {q \in watched : Matches(Invalidates[log[n]], q)}
           again == {q \in hit : Refetched(q, c)}
<1>1. CacheTyped /\ n \in DOMAIN log
  BY DEF CacheSound, Answer
<1>2. /\ known' = known \cup {n} /\ cache' = [q \in watched |-> [c[q] EXCEPT !.stale = @ \/ q \in hit]]
      /\ fetch' = [q \in watched |-> IF q \in again THEN Sent ELSE fetch[q]]
      /\ late' = (late \ again) \cup
           {q \in (hit \cup Seeded(n)) \ again : fetch[q] # None
             \/ (q \in Seeded(n) /\ \E j \in known : j > n)}
      /\ watched' = watched /\ mounted' = mounted /\ log' = log
  BY DEF Answer
<1>3. \A q \in watched : /\ q \in Seeded(n) => c[q] = [at |-> n, stale |-> FALSE]
                         /\ q \notin Seeded(n) => c[q] = cache[q]
  BY DEF Seed
<1>4. \A q \in watched : c[q] \in [at : {None} \cup Nat, stale : BOOLEAN]
  <2> HIDE DEF c
  <2> SUFFICES ASSUME NEW q \in watched PROVE c[q] \in [at : {None} \cup Nat, stale : BOOLEAN]
    OBVIOUS
  <2>1. CASE q \in Seeded(n)
    <3>1. c[q] = [at |-> n, stale |-> FALSE]
      BY <1>3, <2>1
    <3>2. [at |-> n, stale |-> FALSE] \in [at : {None} \cup Nat, stale : BOOLEAN]
      OBVIOUS
    <3> QED BY <3>1, <3>2
  <2>2. CASE q \notin Seeded(n)
    BY <1>1, <1>3, <2>2, CacheTypes
  <2> QED BY <2>1, <2>2
<1> HIDE DEF c
<1>5. \A q \in watched : /\ cache'[q] \in [at : {None} \cup Nat, stale : BOOLEAN] /\ cache'[q].at = c[q].at
                         /\ q \in hit => cache'[q].stale
                         /\ q \notin hit => cache'[q] = c[q]
  <2> SUFFICES ASSUME NEW q \in watched
               PROVE  /\ cache'[q] \in [at : {None} \cup Nat, stale : BOOLEAN] /\ cache'[q].at = c[q].at
                      /\ q \in hit => cache'[q].stale
                      /\ q \notin hit => cache'[q] = c[q]
    OBVIOUS
  <2> HIDE DEF hit
  <2>1. cache'[q] = [c[q] EXCEPT !.stale = @ \/ q \in hit]
    BY <1>2
  <2>2. CASE q \in hit
    <3>1. cache'[q] = [c[q] EXCEPT !.stale = TRUE]
      BY <2>1, <2>2
    <3> QED BY <1>4, <2>2, <3>1
  <2>3. CASE q \notin hit
    <3>1. cache'[q] = c[q]
      BY <1>4, <2>1, <2>3
    <3> QED BY <1>4, <2>3, <3>1
  <2> QED BY <2>2, <2>3
<1>6. CacheTyped'
  <2>1. cache' \in [watched -> [at : {None} \cup Nat, stale : BOOLEAN]]
    BY <1>2, <1>5
  <2>2. fetch' \in [watched -> {None, Sent} \cup Nat]
    BY <1>1, <1>2 DEF CacheTyped
  <2> QED BY <1>1, <1>2, <2>1, <2>2 DEF CacheTyped
<1>7. ASSUME NEW q \in watched, NEW k \in known', Owed(q, k)' PROVE Fresh(q, k)'
  <2>1. q \notin late' /\ (Matches(Invalidates[log[k]], q) \/ q \in Seeded(k))
    BY <1>2, <1>7 DEF Owed, Seeded
  <2>2. k \in Nat /\ n \in Nat /\ \A j \in known : j \in Nat
    BY <1>1, <1>2 DEF CacheTyped
  <2>3. CASE q \in again
    <3>1. fetch'[q] = Sent
      BY <1>2, <2>3
    <3> QED BY <3>1, ValuesAssumption DEF Fresh
  <2>4. CASE q \notin again /\ q \in hit \cup Seeded(n)
    <3>1. fetch[q] = None /\ fetch'[q] = None /\ ~(q \in Seeded(n) /\ \E j \in known : j > n)
      BY <1>2, <2>1, <2>4
    <3>2. CASE q \in hit
      <4>1. q \notin mounted /\ cache'[q].stale
        BY <1>5, <2>4, <3>1, <3>2 DEF Refetched
      <4> QED BY <1>2, <3>1, <4>1, ValuesAssumption DEF Fresh
    <3>3. CASE q \notin hit
      <4>1. q \in Seeded(n) /\ cache'[q].at = n
        BY <1>3, <1>5, <2>4, <3>3
      <4>2. n >= k
        BY <1>2, <2>2, <3>1, <4>1
      <4> QED BY <3>1, <4>1, <4>2, ValuesAssumption DEF Fresh
    <3> QED BY <3>2, <3>3
  <2>5. CASE q \notin again /\ q \notin hit /\ q \notin Seeded(n)
    <3>1. k # n
      BY <2>1, <2>5
    <3>2. k \in known /\ q \notin late
      BY <1>2, <2>1, <2>5, <3>1
    <3>3. Fresh(q, k)
      BY <2>1, <3>2 DEF CacheSound, Owed
    <3>4. fetch'[q] = fetch[q] /\ cache'[q] = cache[q]
      BY <1>2, <1>3, <1>5, <2>5
    <3> QED BY <1>2, <3>3, <3>4 DEF Fresh, Data
  <2> QED BY <2>3, <2>4, <2>5
<1> QED BY <1>2, <1>6, <1>7 DEF CacheSound

LEMMA CacheStep == ASSUME CacheSound, QueryStep PROVE CacheSound'
<1>1. \A n \in 1..MaxMutations : n \in Nat
  OBVIOUS
<1> QED BY <1>1, CacheMounts, CacheFollows, CacheServes, CacheAnswered DEF QueryStep

LEMMA CacheShows == ASSUME CacheSound PROVE SeesOwnChanges
<1> SUFFICES ASSUME NEW q \in mounted, NEW k \in known, fetch[q] = None, Data(q), q \notin late,
                    Concerns(log[k], q), q \notin Overlooked(log[k])
             PROVE  cache[q].at >= k
  BY DEF SeesOwnChanges
<1>1. q \in watched /\ q \in Keys /\ log[k] \in Mutations
  BY DEF CacheSound, CacheTyped
<1>2. Matches(Invalidates[log[k]], q) \/ (log[k] = "upload" /\ q = Document)
  BY <1>1, HooksReach DEF Reached
<1>3. Owed(q, k)
  BY <1>1, <1>2 DEF Owed, Seeded
<1> QED BY <1>1, <1>3 DEF CacheSound, Fresh

-----------------------------------------------------------------------------
(* The application: each part keeps its invariant, whatever part it is.     *)

LEMMA ScreenSteps ==
  ASSUME [Next]_vars
  PROVE  /\ UNCHANGED list \/ (list = Invoices!Closed /\ Invoices!Open) \/ Invoices!Step
         /\ UNCHANGED page \/ (page = Page!Gone /\ Page!Open) \/ Page!Step
         /\ UNCHANGED toggles \/ (toggles = Boxes!Closed /\ Boxes!Open) \/ Boxes!Step
         /\ UNCHANGED review \/ (review = Review!Gone /\ Review!Open) \/ Review!Step
         /\ UNCHANGED form \/ (form = Dialog!Closed /\ Dialog!Open) \/ Dialog!Step
         /\ UNCHANGED uploads \/ (uploads = Sheet!Shut /\ Sheet!Open) \/ Sheet!Step
         /\ UNCHANGED account \/ (account = Account!Away /\ Account!Open) \/ Account!Step
BY DEF Next, OnReview, OnInvoices, OnPage, OnExclusions, OnUploads, OnDialog, OnAccount, OnQueries, OnUsers,
   vars, screens

LEMMA PageKept == Spec => []PageSound
<1>1. Init => PageSound
  BY DEF Init, PageSound
<1>2. PageSound /\ [Next]_vars => PageSound'
  <2> SUFFICES ASSUME PageSound, [Next]_vars PROVE PageSound'
    OBVIOUS
  <2>1. CASE UNCHANGED page
    BY <2>1 DEF PageSound, ShowsTab
  <2>2. CASE Page!Open
    BY <2>2, PageOpen DEF PageSound
  <2>3. CASE Page!Step
    BY <2>3, PageStep DEF PageSound, Page!Step
  <2> QED BY <2>1, <2>2, <2>3, ScreenSteps
<1> QED BY <1>1, <1>2, PTL DEF Spec

\* The page shows what its URL asks for: the errors behind the link of a duplicate,
\* and no tab that was chosen for another direction.
THEOREM ShowsTheChosen == Spec => []ShowsWhatWasChosen
<1>1. PageSound => ShowsWhatWasChosen
  BY PageShows DEF ShowsWhatWasChosen
<1> QED BY <1>1, PageKept, PTL

LEMMA BoxesKept == Spec => []Boxed
<1>1. Init => Boxed
  BY DEF Init, Boxed
<1>2. Boxed /\ [Next]_vars => Boxed'
  <2> SUFFICES ASSUME Boxed, [Next]_vars PROVE Boxed'
    OBVIOUS
  <2>1. CASE UNCHANGED toggles
    BY <2>1 DEF Boxed
  <2>2. CASE Boxes!Open
    BY <2>2, BoxOpen
  <2>3. CASE Boxes!Step
    BY <2>3, BoxStep DEF Boxed, Boxes!Step
  <2> QED BY <2>1, <2>2, <2>3, ScreenSteps
<1> QED BY <1>1, <1>2, PTL DEF Spec

ListSound == list = Invoices!Closed \/ (list \in ListT /\ SeenFirst(list))

LEMMA ListKept == Spec => []ListSound /\ [][Invoices!DeletesOnlySeen]_vars
<1>1. Init => ListSound
  BY DEF Init, ListSound
<1>2. ListSound /\ [Next]_vars => ListSound' /\ (Invoices!DeletesOnlySeen \/ UNCHANGED vars)
  <2> SUFFICES ASSUME ListSound, [Next]_vars PROVE ListSound' /\ Invoices!DeletesOnlySeen
    OBVIOUS
  <2>1. CASE UNCHANGED list
    BY <2>1 DEF ListSound, Invoices!DeletesOnlySeen
  <2>2. CASE list = Invoices!Closed /\ Invoices!Open
    BY <2>2, ListOpen DEF ListSound, Invoices!DeletesOnlySeen
  <2>3. CASE Invoices!Step
    BY <2>3, ListStep DEF ListSound, Invoices!Step
  <2> QED BY <2>1, <2>2, <2>3, ScreenSteps
<1> QED BY <1>1, <1>2, PTL DEF Spec

\* A bulk deletion removes only rows that were ticked and passed the filters when it was
\* confirmed (BulkDeleteDialog), whatever others delete or have parsed anew meanwhile.
THEOREM DeletionsSeen == Spec => DeletesOnlySeen
BY ListKept, PTL DEF DeletesOnlySeen

LEMMA AccountKept == Spec => []AccountSound
<1>1. Init => AccountSound
  BY DEF Init, AccountSound
<1>2. AccountSound /\ [Next]_vars => AccountSound'
  <2> SUFFICES ASSUME AccountSound, [Next]_vars PROVE AccountSound'
    OBVIOUS
  <2>1. CASE UNCHANGED account
    BY <2>1 DEF AccountSound
  <2>2. CASE Account!Open
    BY <2>2, AccountOpen
  <2>3. CASE Account!Step
    BY <2>3, AccountStep
  <2> QED BY <2>1, <2>2, <2>3, ScreenSteps
<1> QED BY <1>1, <1>2, PTL DEF Spec

DialogSound == form # Dialog!Closed => FormSound(form)

LEMMA DialogKept == Spec => []DialogSound /\ [][Dialog!TextKept]_vars
<1>1. Init => DialogSound
  BY DEF Init, DialogSound
<1>2. DialogSound /\ [Next]_vars => DialogSound' /\ (Dialog!TextKept \/ UNCHANGED vars)
  <2> SUFFICES ASSUME DialogSound, [Next]_vars PROVE DialogSound' /\ Dialog!TextKept
    OBVIOUS
  <2>1. CASE UNCHANGED form
    BY <2>1 DEF DialogSound, Dialog!TextKept
  <2>2. CASE form = Dialog!Closed /\ Dialog!Open
    BY <2>2, DialogOpen DEF DialogSound, Dialog!TextKept
  <2>3. CASE Dialog!Step
    BY <2>3, DialogStep DEF DialogSound, Dialog!Step
  <2> QED BY <2>1, <2>2, <2>3, ScreenSteps
<1> QED BY <1>1, <1>2, PTL DEF Spec

\* No list leaves the user on an empty page while other pages have rows
\* (InvoicesTab, AdminUsers).
THEOREM PagesHaveRows == Spec => []PageHasRows
<1>1. ListSound => Invoices!NoEmptyPage
  BY ListPaged DEF ListSound, Invoices!NoEmptyPage
<1>2. ListSound /\ AccountSound => PageHasRows
  BY <1>1, AccountHolds DEF PageHasRows
<1> QED BY <1>2, ListKept, AccountKept, PTL

\* A text that was typed once makes one row, and one name one organisation.
THEOREM RowsCreatedOnce == Spec => []CreatedOnce
<1>1. DialogSound /\ AccountSound => CreatedOnce
  BY DialogHolds, AccountHolds DEF CreatedOnce, DialogSound
<1> QED BY <1>1, DialogKept, AccountKept, PTL

\* A form changes the row it was opened for, the settings are saved as typed, and the
\* boxes end up as the server has them.
THEOREM FormsStoreWhatWasTyped == Spec => []StoredAsTyped
<1>1. DialogSound /\ AccountSound /\ Boxed => StoredAsTyped
  BY DialogHolds, AccountHolds, BoxSettled DEF StoredAsTyped, DialogSound
<1> QED BY <1>1, DialogKept, AccountKept, BoxesKept, PTL

ReviewHolds == review # Review!Gone => ReviewSound(review)

LEMMA ReviewKept == Spec => []ReviewHolds /\ [][Review!NoTextLost /\ Review!ConfirmedIsOwn]_vars
<1>1. Init => ReviewHolds
  BY DEF Init, ReviewHolds
<1>2. ReviewHolds /\ [Next]_vars
        => ReviewHolds' /\ ((Review!NoTextLost /\ Review!ConfirmedIsOwn) \/ UNCHANGED vars)
  <2> SUFFICES ASSUME ReviewHolds, [Next]_vars
      PROVE ReviewHolds' /\ Review!NoTextLost /\ Review!ConfirmedIsOwn
    OBVIOUS
  <2>1. CASE UNCHANGED review
    BY <2>1 DEF ReviewHolds, Review!NoTextLost, Review!ConfirmedIsOwn, Review!Edited
  <2>2. CASE review = Review!Gone /\ Review!Open
    BY <2>2, ReviewOpen DEF ReviewHolds, Review!NoTextLost, Review!ConfirmedIsOwn
  <2>3. CASE Review!Step
    BY <2>3, ReviewStep DEF ReviewHolds, Review!Step
  <2> QED BY <2>1, <2>2, <2>3, ScreenSteps
<1> QED BY <1>1, <1>2, PTL DEF Spec

\* No step but the user's own takes a typed text away before the server has it, except what
\* was typed while an answer was due, the edits of an invoice that a reparse has replaced,
\* and the dialogs that close on the click that sends them.
THEOREM TextsAreKept == Spec => TypedTextKept
<1>1. [Review!NoTextLost /\ Review!ConfirmedIsOwn]_vars /\ [Dialog!TextKept]_vars
        => [Review!NoTextLost /\ Dialog!TextKept]_vars
  OBVIOUS
<1> QED BY <1>1, ReviewKept, DialogKept, PTL DEF TypedTextKept

\* No confirmation of this user is of an invoice whose text the user has neither seen nor
\* saved, unless another user has saved it since; what others parse, confirm or take back
\* meanwhile does not matter.
THEOREM ConfirmationsAreOwn == Spec => ConfirmedIsOwn
<1>1. [Review!NoTextLost /\ Review!ConfirmedIsOwn]_vars => [Review!ConfirmedIsOwn]_vars
  OBVIOUS
<1> QED BY <1>1, ReviewKept, PTL DEF ConfirmedIsOwn

SheetHolds == uploads # Sheet!Shut => SheetSound(uploads)

LEMMA SheetKept == Spec => []SheetHolds
<1>1. Init => SheetHolds
  BY DEF Init, SheetHolds
<1>2. SheetHolds /\ [Next]_vars => SheetHolds'
  <2> SUFFICES ASSUME SheetHolds, [Next]_vars PROVE SheetHolds'
    OBVIOUS
  <2>1. CASE UNCHANGED uploads
    BY <2>1 DEF SheetHolds
  <2>2. CASE uploads = Sheet!Shut /\ Sheet!Open
    BY <2>2, SheetOpen DEF SheetHolds
  <2>3. CASE Sheet!Step
    BY <2>3, SheetStep DEF SheetHolds, Sheet!Step
  <2> QED BY <2>1, <2>2, <2>3, ScreenSteps
<1> QED BY <1>1, <1>2, PTL DEF Spec

\* The rows of an upload show the documents of their own files, and a password that is
\* shown opens the account it is shown for.
THEOREM AnswersReachTheirOwn == Spec => []AnswersShownRight
<1>1. SheetHolds => Sheet!JobsAgree
  BY SheetAgrees DEF SheetHolds, Sheet!JobsAgree
<1>2. SheetHolds /\ AccountSound => AnswersShownRight
  BY <1>1, AccountHolds DEF AnswersShownRight
<1> QED BY <1>2, SheetKept, AccountKept, PTL

LEMMA CacheKept == Spec => []CacheSound
<1>1. Init => CacheSound
  BY CacheStarts DEF Init
<1>2. CacheSound /\ [Next]_vars => CacheSound'
  <2> SUFFICES ASSUME CacheSound, [Next]_vars PROVE CacheSound'
    OBVIOUS
  <2>1. CASE UNCHANGED queries
    <3>1. /\ watched' = watched /\ mounted' = mounted /\ cache' = cache /\ fetch' = fetch /\ log' = log
          /\ known' = known /\ late' = late
      BY <2>1 DEF queries
    <3>2. CacheTyped'
      BY <3>1 DEF CacheSound, CacheTyped
    <3>3. \A q \in watched, k \in known : (Owed(q, k)' => Owed(q, k)) /\ (Fresh(q, k) => Fresh(q, k)')
      BY <3>1 DEF Owed, Seeded, Fresh, Data
    <3> QED BY <3>1, <3>2, <3>3 DEF CacheSound
  <2>2. CASE QueryStep
    BY <2>2, CacheStep
  <2>3. UNCHANGED queries \/ QueryStep
    BY DEF Next, vars, Screen, OnReview, OnInvoices, OnPage, OnExclusions, OnUploads, OnDialog, OnAccount,
       OnQueries,
           OnUsers
  <2> QED BY <2>1, <2>2, <2>3
<1> QED BY <1>1, <1>2, PTL DEF Spec

\* When a mutation has been answered, what a page rests on was read after it.
THEOREM ChangesAreSeen == Spec => []SeesOwnChanges
BY CacheKept, CacheShows, PTL
=============================================================================
