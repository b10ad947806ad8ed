--------------------------- MODULE AccountScreens ---------------------------
(***************************************************************************)
(* Four small screens: the passwords of an organisation's users            *)
(* (AdminOrgDetail), a new organisation and its first user                 *)
(* (AdminOrgCreate), the list of all users (AdminUsers) and the settings   *)
(* (Settings).  A password is the number of its generation.                *)
(***************************************************************************)
EXTENDS Naturals, Sequences, SequencesExt

CONSTANTS
  MaxClicks,   \* bound: steps of the user
  MaxForeign,  \* bound: changes by others
  None, Sent

VARIABLE account
\* .screen  which screen this is; the other fields are named where it is opened

Away == [screen |-> "none"]
Click(state) == account.clicks < MaxClicks /\ account' = [state EXCEPT !.clicks = @ + 1]

-----------------------------------------------------------------------------
(* UsersTab: a new password is made by the server and shown once.           *)

\* .live     the password of every user on the server, .made the last one generated
\* .asks     the resets: user, how far, password
\* .shown    resetResult, the dialog with a new password
\* .crossed  history: the users whose reset was on its way while another user's was asked for
OpenUsers ==
  account' = [screen |-> "users", live |-> <<0, 0>>, made |-> 0, asks |-> <<>>, shown |-> None,
              crossed |-> {}, clicks |-> 0]

Due == {k \in DOMAIN account.asks : account.asks[k].at # "answered"}

\* Bug: the button does not wait.
Loading_Never(u) == FALSE
\* resetPassword.isPending && resetPassword.variables === u.id
Loading(u) == Due # {} /\ Len(account.asks) \in Due /\ Last(account.asks).user = u

HandleReset(u) ==
  /\ account.shown = None /\ ~Loading(u)
  /\ Click([account EXCEPT
       !.asks = Append(@, [user |-> u, at |-> Sent, password |-> 0]),
       !.crossed = @ \cup {account.asks[k].user : k \in {d \in Due : account.asks[d].user # u}}])
CloseReset == account.shown # None /\ Click([account EXCEPT !.shown = None])

Reset(k) ==
  LET u == account.asks[k].user
      changed == [account EXCEPT !.made = @ + 1, !.live[u] = account.made + 1]
  IN /\ account.asks[k].at = Sent
     /\ \/ account' = [changed EXCEPT !.asks[k].at = "ok", !.asks[k].password = account.made + 1]
        \/ account' = [changed EXCEPT !.asks[k].at = "refused"]
        \/ account' = [account EXCEPT !.asks[k].at = "refused"]
AnswerReset(k) ==
  LET a == account.asks[k]
      settled == [account EXCEPT !.asks[k].at = "answered"]
  IN \/ a.at = "ok" /\ account' = [settled EXCEPT !.shown = [user |-> a.user, password |-> a.password]]
     \/ a.at = "refused" /\ account' = settled

UsersStep ==
  /\ account.screen = "users"
  /\ \/ \E u \in {1, 2} : HandleReset(u)
     \/ CloseReset
     \/ \E k \in Due : Reset(k) \/ AnswerReset(k)

-----------------------------------------------------------------------------
(* AdminOrgCreate: an organisation and then its superadmin.                 *)

\* .name, .password  the fields; a name is the number of the keystroke, 0 the empty one
\* .stage            "form", the request under way and its outcome, "done" after navigate
\* .sent             the name and the password of the request under way
\* .orgs             the organisations: name and the password of the first user, None without one
\* .failed           history: the names whose second step failed, or whose answer was lost
\* .retyped          history: the password was changed while the form was being sent
OpenOrgCreate ==
  account' = [screen |-> "org", name |-> 0, password |-> 1, stage |-> "form", sent |-> None, orgs |-> <<>>,
              failed |-> {}, retyped |-> FALSE, clicks |-> 0]

\* Bug: the form can be sent again before it is answered.
Submitting_Never == FALSE
Submitting == account.stage # "form"

Typing(state) == Click([state EXCEPT !.retyped = IF Submitting THEN TRUE ELSE @])
TypeName == account.stage # "done" /\ Click([account EXCEPT !.name = @ + 1])
\* PasswordField: typed, or generated.
NewPassword == account.stage # "done" /\ Typing([account EXCEPT !.password = @ + 1])

HandleSubmit ==
  /\ account.stage # "done" /\ ~Submitting /\ account.name # 0
  /\ Click([account EXCEPT !.stage = "org", !.retyped = FALSE,
              !.sent = [name |-> account.name, password |-> account.password]])

CreateOrg ==
  /\ account.stage = "org"
  /\ LET created == [account EXCEPT !.orgs = Append(@, [name |-> account.sent.name, password |-> None])]
     IN \/ account' = [created EXCEPT !.stage = "org_ok"]
        \/ account' = [created EXCEPT !.stage = "refused", !.failed = @ \cup {account.sent.name}]
        \/ account' = [account EXCEPT !.stage = "refused"]
\* The handler has closed over the fields of the submission.
ThenUser == account.stage = "org_ok" /\ account' = [account EXCEPT !.stage = "user"]
CreateUser ==
  /\ account.stage = "user"
  /\ LET created == [account EXCEPT !.orgs[Len(account.orgs)].password = account.sent.password]
     IN \/ account' = [created EXCEPT !.stage = "user_ok"]
        \/ account' = [created EXCEPT !.stage = "refused", !.failed = @ \cup {account.sent.name}]
        \/ account' = [account EXCEPT !.stage = "refused", !.failed = @ \cup {account.sent.name}]
AnswerCreate ==
  \/ account.stage = "user_ok" /\ account' = [account EXCEPT !.stage = "done"]
  \/ account.stage = "refused" /\ account' = [account EXCEPT !.stage = "form"]

OrgStep ==
  /\ account.screen = "org"
  /\ \/ TypeName \/ NewPassword \/ HandleSubmit
     \/ CreateOrg \/ ThenUser \/ CreateUser \/ AnswerCreate

-----------------------------------------------------------------------------
(* AdminUsers: pages of a search that follows the keystrokes.               *)

\* .input, .search  what is typed and what is searched for after 300 ms; "all" is the
\*                  search for nothing
\* .page, .have     the page, and the answers there are in the cache
\* .early           history: the page was turned between a keystroke and its search
OpenList ==
  account' = [screen |-> "list", input |-> "all", search |-> "all", page |-> 1, have |-> {},
              early |-> FALSE, clicks |-> 0]

TotalPages(q) == IF q = "all" THEN 3 ELSE 2
Shows == <<account.search, account.page>> \in account.have

\* Bug: the page stays.
HandleSearchChange_Stay(q) == Click([account EXCEPT !.input = q, !.early = FALSE])
HandleSearchChange(q) == Click([account EXCEPT !.input = q, !.page = 1, !.early = FALSE])
Debounced == account.input # account.search /\ account' = [account EXCEPT !.search = account.input]
TurnPage ==
  /\ Shows
  /\ \E p \in {account.page - 1, account.page + 1} :
       /\ p \in 1..TotalPages(account.search)
       /\ Click([account EXCEPT !.page = p, !.early = @ \/ account.input # account.search])
Fetched == ~Shows /\ account' = [account EXCEPT !.have = @ \cup {<<account.search, account.page>>}]

ListStep ==
  /\ account.screen = "list"
  /\ \/ \E q \in {"all", "a"} \ {account.input} : HandleSearchChange(q)
     \/ Debounced \/ TurnPage \/ Fetched

-----------------------------------------------------------------------------
(* SettingsPage: edits are a copy of all settings, a save sends what of it  *)
(* differs.  "padded" is a model typed with blanks, which the server cuts.  *)

\* .server, .data, .fetch  the settings there, the cached ones and the fetch under way
\* .mayEdit     can_edit_model         .overrides  the edited copy, None without one
\* .save        the last PUT: what it carries, how far it is, whether it was carried out
\* .typed       history: the fields the user has typed into, .since those since the last save
\* .stale       history: the copy was typed into while a save of the user's own was not yet fetched back
\* .foreign     counter: changes by others
Fields == {"model", "threshold"}
Stored(value) == IF value = "padded" THEN "new" ELSE value

OpenSettings ==
  \E mayEdit \in BOOLEAN :
    LET first == [f \in Fields |-> "old"] IN
    account' = [screen |-> "settings", mayEdit |-> mayEdit, server |-> first, data |-> first, fetch |-> None,
                overrides |-> None, save |-> [at |-> "answered", ok |-> FALSE, input |-> <<>>],
               typed |-> {}, since |-> {}, stale |-> FALSE, foreign |-> 0, clicks |-> 0]

Draft == IF account.overrides = None THEN account.data ELSE account.overrides
Dirty == account.overrides # None /\ account.overrides # account.data
Changed == {f \in Fields : Draft[f] # account.data[f] /\ (f = "model" => account.mayEdit)}

SetOverride(f, value) ==
  Click([account EXCEPT !.overrides = [Draft EXCEPT ![f] = value], !.typed = @ \cup {f}, !.since = @ \cup {f},
           !.stale = \/ account.save.at # "answered" \/ account.fetch # None \/ account.data # account.server
                     \/ account.overrides # None /\ @])
EditModel == account.mayEdit /\ \E v \in {"old", "new", "padded"} : SetOverride("model", v)
EditThreshold == \E v \in {"old", "new", "high"} : SetOverride("threshold", v)
Discard == Dirty /\ Click([account EXCEPT !.overrides = None])

\* Bug: a save sends the settings as they were first edited.
Sends_All == [f \in Fields |-> Draft[f]]
Sends == [f \in Changed |-> Draft[f]]
Save ==
  /\ Dirty /\ account.save.at = "answered"
  /\ Click([account EXCEPT !.save = [at |-> Sent, ok |-> FALSE, input |-> Sends], !.since = {}])

UpdateSettings ==
  /\ account.save.at = Sent
  /\ \/ account' = [account EXCEPT !.save.at = "ok", !.save.ok = TRUE,
          !.server = [f \in Fields |-> IF f \in DOMAIN account.save.input THEN Stored(account.save.input[f]) ELSE @[f]]]
     \/ account' = [account EXCEPT !.save.at = "refused"]
AnswerSave ==
  \/ account.save.at = "ok" /\ account' = [account EXCEPT !.save.at = "answered", !.fetch = Sent]
  \/ account.save.at = "refused" /\ account' = [account EXCEPT !.save.at = "answered"]

Foreign ==
  /\ account.foreign < MaxForeign
  /\ \E f \in Fields : account' = [account EXCEPT !.server[f] = "other", !.foreign = @ + 1]
Refetch == account.fetch = None /\ account.data # account.server /\ account' = [account EXCEPT !.fetch = Sent]
Read == account.fetch = Sent /\ account' = [account EXCEPT !.fetch = account.server]
Land == account.fetch \notin {None, Sent} /\ account' = [account EXCEPT !.data = account.fetch, !.fetch = None]

SettingsStep ==
  /\ account.screen = "settings"
  /\ \/ EditModel \/ EditThreshold \/ Discard \/ Save
     \/ UpdateSettings \/ AnswerSave \/ Foreign \/ Refetch \/ Read \/ Land

-----------------------------------------------------------------------------
Open == OpenUsers \/ OpenOrgCreate \/ OpenList \/ OpenSettings
Step == account # Away /\ (UsersStep \/ OrgStep \/ ListStep \/ SettingsStep)
On(screen) == account # Away /\ account.screen = screen

(* Properties.                                                              *)

\* A password that is shown opens the account it is shown for, unless a reset of
\* another user was asked for meanwhile; and when the screen of a new organisation
\* says that all is done, its first user has the password that was on the screen.
ShownPasswordWorks ==
  /\ On("users") /\ account.shown # None /\ account.shown.user \notin account.crossed
     => account.live[account.shown.user] = account.shown.password
  /\ On("org") /\ account.stage = "done" /\ ~account.retyped
     => Last(account.orgs).password = account.password

\* One name makes one organisation, as long as no step failed after it was made.
OneOrganisation ==
  On("org") => \A i, j \in DOMAIN account.orgs :
    i # j /\ account.orgs[i].name = account.orgs[j].name => account.orgs[i].name \in account.failed

\* A page of the list exists, unless it was turned to before the search it is of.
PageExists == On("list") /\ ~account.early => account.page \in 1..TotalPages(account.search)

\* As long as the others leave the settings alone, a save sends only what the user has
\* typed, and when it has been fetched back nothing of it is left to be saved; nothing
\* at all is left if nothing was typed before an earlier save was fetched back.
SavedAsTyped ==
  On("settings") /\ account.foreign = 0 =>
    /\ account.save.at = Sent => DOMAIN account.save.input \subseteq account.typed
    /\ account.save.at = "answered" /\ account.save.ok /\ account.since = {}
       /\ account.fetch = None /\ Draft["model"] # "padded"
       => /\ \A f \in DOMAIN account.save.input : Draft[f] = account.data[f]
          /\ ~account.stale => ~Dirty
=============================================================================
