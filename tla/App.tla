-------------------------------- MODULE App --------------------------------
(***************************************************************************)
(* The single-page application (App.tsx): the routes, their guards, and    *)
(* the parts a route is made of.  The parts of a page meet only on the     *)
(* server and in the query cache, so that one is followed at a time: a     *)
(* screen, the cache, or, for the administration of users, the requests    *)
(* on the server.                                                          *)
(***************************************************************************)
EXTENDS QueryCache

CONSTANTS
  \* bounds of the screens: steps and requests of the user, answers, changes by others
  Typed, Asks, ListClicks, PageClicks, ToggleClicks, DialogClicks, AccountClicks, Drops, Fetches, Others,
  \* the administration of users
  Users, Clients, Absent, Unset,
  Other

ASSUME BoundsAssumption ==
  /\ {Typed, Asks, ListClicks, PageClicks, ToggleClicks, DialogClicks, AccountClicks, Drops, Fetches, Others,
      MaxMutations, MaxMounts, MaxFailures} \subseteq Nat

VARIABLES
  part,                                                        \* what is followed
  review, list, page, toggles, form, uploads, account,         \* the screens
  user, lock, tx                                               \* the users on the server

screens == <<review, list, page, toggles, form, uploads, account>>
server == <<user, lock, tx>>
vars == <<part, screens, queries, server>>

Review == INSTANCE InvoiceReview WITH
  review <- review, MaxTyped <- Typed, MaxAsks <- Asks, MaxForeign <- Others
Invoices == INSTANCE InvoiceList WITH list <- list, MaxClicks <- ListClicks, MaxForeign <- Others
Page == INSTANCE ProjectScreen WITH page <- page, MaxClicks <- PageClicks, MaxFetches <- Fetches
Boxes == INSTANCE ExclusionToggles WITH toggles <- toggles, MaxClicks <- ToggleClicks, MaxForeign <- Others
Sheet == INSTANCE Uploads WITH uploads <- uploads, MaxDrops <- Drops, MaxForeign <- Others
Dialog == INSTANCE Dialogs WITH form <- form, MaxClicks <- DialogClicks
Account == INSTANCE AccountScreens WITH account <- account, MaxClicks <- AccountClicks, MaxForeign <- Others
Administration == INSTANCE OrgAdmin WITH user <- user, lock <- lock, tx <- tx

ASSUME UsersAssumption ==
  /\ Users \subseteq Nat
  /\ Administration!ValuesApart

\* What marks that there is nothing, or no answer yet, is no value of any field.
ASSUME ValuesAssumption ==
  /\ None # Sent
  /\ \A v \in {None, Sent} :
       /\ v \notin {"ok", "refused", "conflict", "answered"} /\ v \notin Nat
       /\ v \notin {"all", "c1", "c2", "gone", "errors", "prices", "bad", "parsed"}
       /\ v \notin Page!PROJECT_TAB_VALUES
       /\ v \notin [id : Nat, text : [Review!Fields -> Nat \cup {None, Other}], verified : BOOLEAN]
       /\ \A s \in SUBSET Boxes!Suppliers : v # s
       /\ \A s \in SUBSET Page!Codes : v # s
       /\ \A s \in [Account!Fields -> {"old", "new", "high", "other"}] : v # s

-----------------------------------------------------------------------------
(* The routes.                                                              *)

Paths == {"/login", "/projects", "/projects/:id", "/suppliers/:id", "/materials", "/settings",
          "/documents/:id", "/admin", "/upload", "*"}
Visitors == {"nobody", "member", "superuser"}

ProtectedLayout(path, who) == IF who = "nobody" THEN "/login" ELSE path
RequireSuperuser(path, who) == IF path = "/admin" /\ who # "superuser" THEN "/dashboard" ELSE path
Redirected(path) ==
  CASE path = "/upload" -> "/projects"
    [] path = "*" -> "/dashboard"
    [] OTHER -> path
Route(path, who) == RequireSuperuser(ProtectedLayout(Redirected(path), who), who)

Parts(route) ==
  CASE route = "/documents/:id" -> {"review"}
    [] route = "/projects/:id" -> {"page", "list", "toggles", "uploads", "form"}
    [] route \in {"/projects", "/suppliers/:id", "/materials"} -> {"form"}
    [] route = "/settings" -> {"account"}
    [] route = "/admin" -> {"form", "account", "users"}
    [] OTHER -> {}

Init ==
  /\ \E path \in Paths, who \in Visitors : part \in Parts(Route(path, who)) \cup {"queries"}
  /\ review = Review!Gone /\ list = Invoices!Closed /\ page = Page!Gone /\ toggles = Boxes!Closed
  /\ uploads = Sheet!Shut /\ form = Dialog!Closed /\ account = Account!Away
  /\ \E qs \in Followed : (part = "queries" <=> qs # {}) /\ Start(qs)
  /\ Administration!Init

Screen(name) == part = name /\ UNCHANGED <<part, queries, server>>

OnReview ==
  /\ Screen("review") /\ ((review = Review!Gone /\ Review!Open) \/ Review!Step)
  /\ UNCHANGED <<list, page, toggles, form, uploads, account>>
OnInvoices ==
  /\ Screen("list") /\ ((list = Invoices!Closed /\ Invoices!Open) \/ Invoices!Step)
  /\ UNCHANGED <<review, page, toggles, form, uploads, account>>
OnPage ==
  /\ Screen("page") /\ ((page = Page!Gone /\ Page!Open) \/ Page!Step)
  /\ UNCHANGED <<review, list, toggles, form, uploads, account>>
OnExclusions ==
  /\ Screen("toggles") /\ ((toggles = Boxes!Closed /\ Boxes!Open) \/ Boxes!Step)
  /\ UNCHANGED <<review, list, page, form, uploads, account>>
OnUploads ==
  /\ Screen("uploads") /\ ((uploads = Sheet!Shut /\ Sheet!Open) \/ Sheet!Step)
  /\ UNCHANGED <<review, list, page, toggles, form, account>>
OnDialog ==
  /\ Screen("form") /\ ((form = Dialog!Closed /\ Dialog!Open) \/ Dialog!Step)
  /\ UNCHANGED <<review, list, page, toggles, uploads, account>>
OnAccount ==
  /\ Screen("account") /\ ((account = Account!Away /\ Account!Open) \/ Account!Step)
  /\ UNCHANGED <<review, list, page, toggles, form, uploads>>
OnQueries == part = "queries" /\ QueryStep /\ UNCHANGED <<part, screens, server>>
OnUsers == part = "users" /\ Administration!Next /\ UNCHANGED <<part, screens, queries>>

Next ==
  \/ OnReview \/ OnInvoices \/ OnPage \/ OnExclusions \/ OnUploads \/ OnDialog \/ OnAccount
  \/ OnQueries \/ OnUsers

Spec == Init /\ [][Next]_vars

-----------------------------------------------------------------------------
(* Properties; the parts say what each conjunct is about.                   *)

\* No text typed into a form is lost before the server has taken it, unless the user
\* types over it or leaves.  Exempt are what was typed while an answer was due, the edits
\* of an invoice a reparse has replaced, and the dialogs that close on the click that
\* sends them (the corridors, the role of a user).
TypedTextKept == [][Review!NoTextLost /\ Dialog!TextKept]_vars

\* What the user confirms is what the user saw, or saved, or what another user saved
\* since the page was read.
ConfirmedIsOwn == [][Review!ConfirmedIsOwn]_vars

\* A bulk deletion removes only rows the user had ticked and the filters let through.
DeletesOnlySeen == [][Invoices!DeletesOnlySeen]_vars

\* No list leaves the user on a page without rows while others have some.
PageHasRows == Invoices!NoEmptyPage /\ Account!PageExists

\* The page of a project shows what was asked for: the errors behind the link of a
\* duplicate, and never a tab that was chosen for another direction.
ShowsWhatWasChosen == Page!ErrorsReached /\ Page!TabBelongsToDirection

\* What is typed once makes one row, whichever form it is.
CreatedOnce == Dialog!CreatedOnce /\ Account!OneOrganisation

\* A form changes the row it was opened for and the fields that were typed into; the boxes
\* of the exclusions end up as the server has them.
StoredAsTyped == Dialog!StoredInRow /\ Account!SavedAsTyped /\ Boxes!Settled

\* Answers are shown for what was asked: uploads by their own row, new passwords for
\* their own user.
AnswersShownRight == Sheet!JobsAgree /\ Account!ShownPasswordWorks

\* An organisation loses its last active superadmin only to a request that loaded the row
\* before it became one, as OrgAdmin states; what the cache owes the user is stated in
\* QueryCache.
LostOnlyToPromotion == Administration!LostOnlyToPromotion
=============================================================================
