---------------------------- MODULE AuthSessions ----------------------------
(***************************************************************************)
(* Sessions of one user in one browser: routers/auth.py, auth.py and the   *)
(* CSRF middleware of main.py on the server; lib/api.ts, hooks/useAuth.ts  *)
(* and App.tsx in every tab.  The tabs share one cookie jar.               *)
(*                                                                         *)
(* The refresh cookie and the CSRF cookie are always set and removed by    *)
(* the same answer, so one token number stands for both.  A request goes   *)
(* through the interceptor (which reads the CSRF cookie), is sent (the     *)
(* browser attaches the jar), is served, and its answer is delivered.      *)
(*                                                                         *)
(* Every call starts at most one refresh, so the tokens a behaviour needs  *)
(* are bounded by its calls; nothing else is capped.                       *)
(***************************************************************************)
EXTENDS Naturals, FiniteSets

CONSTANTS
  Calls,      \* calls the pages make, each used once
  Tabs,       \* open tabs
  None, Clear

Tokens == 1..(Cardinality(Calls) + 1)
Requests == Calls \X {"own", "refresh"}
Own(c) == <<c, "own">>
Refresh(c) == <<c, "refresh">>

ASSUME ConstantsAssumption ==
  /\ IsFiniteSet(Calls)
  /\ None \notin Tokens \cup Calls \cup Tabs \cup Requests \cup {Clear}
  /\ Clear \notin Tokens

VARIABLES
  token,        \* table refresh_tokens: state of a row and the row it replaced
  lock,         \* the request that has locked the row of a token
  active,       \* User.is_active
  jar,          \* cookies of the browser
  page,         \* what each tab shows
  refreshing,   \* api.ts: the call whose refresh is under way in the tab
  req           \* requests, from the interceptor to the settled promise

vars == <<token, lock, active, jar, page, refreshing, req>>

\* header: X-CSRF-Token; session, access: the cookies attached;
\* sets: what the answer does to the jar.
Idle == [st |-> "idle", kind |-> "me", tab |-> None, retry |-> FALSE, header |-> None,
         session |-> None, access |-> FALSE, status |-> "ok", sets |-> None]
\* The user has logged in and opened the tabs.
Init ==
  /\ token = [t \in Tokens |-> [st |-> IF t = 1 THEN "live" ELSE "unused", parent |-> None]]
  /\ lock = [t \in Tokens |-> None]
  /\ active = TRUE
  /\ jar = [session |-> 1, access |-> TRUE]
  /\ page = [t \in Tabs |-> "app"]
  /\ refreshing = [t \in Tabs |-> None]
  /\ req = [r \in Requests |-> Idle]

InFlight == {r \in Requests : req[r].st \in {"sent", "holding", "answered"}}
Settled(c) == req[Own(c)].st \in {"done", "failed"}

-----------------------------------------------------------------------------
(* The tab: interceptors of api.ts.                                         *)

\* The request interceptor: the CSRF cookie becomes the header.  A repeated
\* request keeps the header it has when the cookie is gone.
Prepared(q, j) ==
  [q EXCEPT !.st = "prepared",
            !.header = IF q.kind = "me" \/ j.session = None THEN q.header ELSE j.session]

Begin(c, t, k) ==
  /\ req[Own(c)].st = "idle"
  /\ IF page[t] = "app" THEN k \in {"me", "post", "logout"} ELSE k = "login"
  /\ k \in {"login", "logout"} =>        \* their buttons are disabled meanwhile
       \A d \in Calls : req[Own(d)].tab = t /\ req[Own(d)].kind = k => Settled(d)
  /\ req' = [req EXCEPT ![Own(c)] = Prepared([Idle EXCEPT !.tab = t, !.kind = k], jar)]
  /\ UNCHANGED <<token, lock, active, jar, page, refreshing>>

\* The browser attaches the cookies when the request leaves.
Send(r) ==
  /\ req[r].st = "prepared"
  /\ req' = [req EXCEPT ![r].st = "sent", ![r].session = jar.session, ![r].access = jar.access]
  /\ UNCHANGED <<token, lock, active, jar, page, refreshing>>

\* A page opened by its address, in a tab that waits for nothing, shows the
\* application until /auth/me fails.
OpenPage(t) ==
  /\ page[t] = "login"
  /\ jar.session # None
  /\ \A c \in Calls : req[Own(c)].tab = t => Settled(c)
  /\ page' = [page EXCEPT ![t] = "app"]
  /\ UNCHANGED <<token, lock, active, jar, refreshing, req>>

Waiting(t) == {c \in Calls : req[Own(c)].st = "awaiting" /\ req[Own(c)].tab = t}

\* Bug: the answer of /auth/refresh is itself worth a refresh.
Refreshable_Itself(q, j) ==
  q.status = "401" /\ ~q.retry /\ q.kind # "login" /\ j.session # None

\* A 401 is worth a refresh: not repeated yet, neither login nor refresh, and a
\* session cookie is left.
Refreshable(q, j) ==
  q.status = "401" /\ ~q.retry /\ q.kind \notin {"login", "refresh"} /\ j.session # None

\* Bug: every call that meets a 401 starts a refresh of its own.
AwaitRefresh_Each(r, q, j) ==
  /\ req' = [x \in Requests |->
               IF x = r THEN [q EXCEPT !.st = "awaiting", !.retry = TRUE]
               ELSE IF x = Refresh(r[1])
               THEN Prepared([Idle EXCEPT !.tab = q.tab, !.kind = "refresh"], j)
               ELSE req[x]]
  /\ refreshing' = [refreshing EXCEPT ![q.tab] = r[1]]
  /\ UNCHANGED page

\* The call waits for the refresh of its tab, which it starts if there is none.
AwaitRefresh(r, q, j) ==
  /\ req' = [x \in Requests |->
               IF x = r THEN [q EXCEPT !.st = "awaiting", !.retry = TRUE]
               ELSE IF x = Refresh(r[1]) /\ refreshing[q.tab] = None
               THEN Prepared([Idle EXCEPT !.tab = q.tab, !.kind = "refresh"], j)
               ELSE req[x]]
  /\ refreshing' = [refreshing EXCEPT ![q.tab] = IF @ = None THEN r[1] ELSE @]
  /\ UNCHANGED page

\* The refresh settles: who waits for it repeats its request, or fails.
\* ProtectedLayout leaves for /login when /auth/me fails.
SettleRefresh(r, q, j) ==
  LET again == q.status = "ok" IN
  /\ req' = [x \in Requests |->
               IF x = r THEN [q EXCEPT !.st = IF again THEN "done" ELSE "failed"]
               ELSE IF x \notin {Own(c) : c \in Waiting(q.tab)} THEN req[x]
               ELSE IF again THEN Prepared(req[x], j)
               ELSE [req[x] EXCEPT !.st = "failed"]]
  /\ refreshing' = [refreshing EXCEPT ![q.tab] = None]
  /\ page' = IF ~again /\ \E c \in Waiting(q.tab) : req[Own(c)].kind = "me"
             THEN [page EXCEPT ![q.tab] = "login"] ELSE page

\* useLogout reloads the tab: its scripts and all they wait for are gone.
LeavePage(r, q) ==
  /\ req' = [x \in Requests |->
               IF x = r THEN [q EXCEPT !.st = "done"]
               ELSE IF req[x].tab # q.tab THEN req[x]
               ELSE IF req[x].st \in {"prepared", "awaiting"} THEN [req[x] EXCEPT !.st = "failed"]
               ELSE [req[x] EXCEPT !.tab = None]]
  /\ refreshing' = [refreshing EXCEPT ![q.tab] = None]
  /\ page' = [page EXCEPT ![q.tab] = "login"]

Settle(r, q) ==
  /\ req' = [req EXCEPT ![r] = [q EXCEPT !.st = IF q.status = "ok" THEN "done" ELSE "failed"]]
  /\ page' = IF q.kind = "login" /\ q.status = "ok" THEN [page EXCEPT ![q.tab] = "app"]
             ELSE IF q.kind = "me" /\ q.status # "ok" THEN [page EXCEPT ![q.tab] = "login"]
             ELSE page
  /\ UNCHANGED refreshing

\* The answer q reaches the scripts of the tab with the cookies at j.
Arrive(r, q, j) ==
  IF q.tab = None
  THEN /\ req' = [req EXCEPT ![r].st = "failed"]
       /\ UNCHANGED <<page, refreshing>>
  ELSE IF Refreshable(q, j) THEN AwaitRefresh(r, q, j)
  ELSE IF q.kind = "refresh" THEN SettleRefresh(r, q, j)
  ELSE IF q.kind = "logout" /\ q.status = "ok" THEN LeavePage(r, q)
  ELSE Settle(r, q)

\* Bug: the answer of /auth/refresh renews the access cookie only.
Applied_AccessOnly(sets) ==
  CASE sets = None -> jar
    [] sets = Clear -> [session |-> None, access |-> FALSE]
    [] OTHER -> [jar EXCEPT !.access = TRUE]

\* _set_auth_cookies, _clear_auth_cookies, as the browser applies them.
Applied(sets) ==
  CASE sets = None -> jar
    [] sets = Clear -> [session |-> None, access |-> FALSE]
    [] OTHER -> [session |-> sets, access |-> TRUE]

Deliver(r) ==
  /\ req[r].st = "answered"
  /\ jar' = Applied(req[r].sets)
  /\ Arrive(r, req[r], jar')
  /\ UNCHANGED <<token, lock, active>>

\* The network, or the browser once the page is gone.
Lose(r) ==
  /\ req[r].st \in {"sent", "answered"}
  /\ Arrive(r, [req[r] EXCEPT !.status = "lost"], jar)
  /\ UNCHANGED <<token, lock, active, jar>>

-----------------------------------------------------------------------------
(* The server.                                                              *)

Answer(r, status, sets) ==
  req' = [req EXCEPT ![r].st = "answered", ![r].status = status, ![r].sets = sets]

\* csrf_middleware, require_csrf
CsrfHolds(q) == q.kind \in {"me", "login"} \/ (q.header # None /\ q.header = q.session)

RefuseCsrf(r) ==
  /\ req[r].st = "sent"
  /\ ~CsrfHolds(req[r])
  /\ Answer(r, "403", None)
  /\ UNCHANGED <<token, lock, active, jar, page, refreshing>>

\* get_current_user
ServeCall(r) ==
  /\ req[r].st = "sent" /\ req[r].kind \in {"me", "post"}
  /\ CsrfHolds(req[r])
  /\ Answer(r, IF req[r].access /\ active THEN "ok" ELSE "401", None)
  /\ UNCHANGED <<token, lock, active, jar, page, refreshing>>

Unused == {t \in Tokens : token[t].st = "unused"}
NextToken == CHOOSE t \in Unused : \A u \in Unused : t <= u

\* The row of a new token.
Issued(tok, parent) == [tok EXCEPT ![NextToken] = [st |-> "live", parent |-> parent]]

ServeLogin(r, passwordFits) ==
  /\ req[r].st = "sent" /\ req[r].kind = "login"
  /\ IF active /\ passwordFits
     THEN token' = Issued(token, None) /\ Answer(r, "ok", NextToken)
     ELSE Answer(r, "401", None) /\ UNCHANGED token
  /\ UNCHANGED <<lock, active, jar, page, refreshing>>

\* Bug: the token is looked up without FOR UPDATE.
Locks_Nobody(t, r) == UNCHANGED lock

\* SELECT ... FOR UPDATE waits for the row and then looks at it again.
Locks(t, r) == lock[t] = None /\ lock' = [lock EXCEPT ![t] = r]

RefreshSelect(r) ==
  LET q == req[r] IN
  /\ q.st = "sent" /\ q.kind = "refresh"
  /\ CsrfHolds(q)
  /\ IF token[q.session].st = "live"
     THEN /\ Locks(q.session, r)
          /\ req' = [req EXCEPT ![r].st = "holding"]
     ELSE /\ lock[q.session] = None
          /\ Answer(r, "401", None)
          /\ UNCHANGED lock
  /\ UNCHANGED <<token, active, jar, page, refreshing>>

\* The exchanged row is revoked in the transaction that adds the new one.
Rotated(t) == [Issued(token, t) EXCEPT ![t].st = "revoked"]

RefreshCommit(r) ==
  LET q == req[r] IN
  /\ q.st = "holding"
  /\ lock' = [lock EXCEPT ![q.session] = None]
  /\ IF active
     THEN token' = Rotated(q.session) /\ Answer(r, "ok", NextToken)
     ELSE Answer(r, "401", None) /\ UNCHANGED token
  /\ UNCHANGED <<active, jar, page, refreshing>>

\* A conditional UPDATE, which waits for the row as well.
ServeLogout(r) ==
  LET t == req[r].session IN
  /\ req[r].st = "sent" /\ req[r].kind = "logout"
  /\ CsrfHolds(req[r])
  /\ lock[t] = None
  /\ token' = IF token[t].st = "live" THEN [token EXCEPT ![t].st = "revoked"] ELSE token
  /\ Answer(r, "ok", Clear)
  /\ UNCHANGED <<lock, active, jar, page, refreshing>>

-----------------------------------------------------------------------------
(* Time and the administrator.                                              *)

\* Half an hour passes: longer than a login takes, or a refresh and what it repeats.
AccessExpires ==
  /\ jar.access
  /\ \A r \in Requests : req[r].retry \/ req[r].kind \in {"login", "refresh"} =>
                          req[r].st \in {"done", "failed"}
  /\ jar' = [jar EXCEPT !.access = FALSE]
  /\ UNCHANGED <<token, lock, active, page, refreshing, req>>

\* Two weeks pass: the row and the cookies run out together.
SessionExpires(t) ==
  /\ token[t].st = "live"
  /\ \A c \in Calls : req[Own(c)].st = "idle" \/ Settled(c)
  /\ InFlight = {}
  /\ token' = [token EXCEPT ![t].st = "expired"]
  /\ jar' = IF jar.session = t THEN [session |-> None, access |-> FALSE] ELSE jar
  /\ UNCHANGED <<lock, active, page, refreshing, req>>

\* PATCH of the user by an administrator (OrgAdmin).
Deactivate ==
  /\ active
  /\ active' = FALSE
  /\ UNCHANGED <<token, lock, jar, page, refreshing, req>>

\* All calls are made and answered.
Quiet ==
  /\ \A c \in Calls : Settled(c)
  /\ InFlight = {}
  /\ UNCHANGED vars

Serve(r) ==
  \/ RefuseCsrf(r) \/ ServeCall(r) \/ RefreshSelect(r) \/ RefreshCommit(r) \/ ServeLogout(r)
  \/ \E fits \in BOOLEAN : ServeLogin(r, fits)

Next ==
  \/ \E c \in Calls, t \in Tabs, k \in {"me", "post", "login", "logout"} : Begin(c, t, k)
  \/ \E r \in Requests : Send(r) \/ Serve(r) \/ Deliver(r) \/ Lose(r)
  \/ \E t \in Tabs : OpenPage(t)
  \/ \E t \in Tokens : SessionExpires(t)
  \/ AccessExpires
  \/ Deactivate
  \/ Quiet

Spec == Init /\ [][Next]_vars

-----------------------------------------------------------------------------
(* Properties.                                                              *)

\* The row lock "prevents double issue on parallel /refresh": a token is
\* exchanged for one other at most, and is not valid after that.
RotatedOnce ==
  \A t, u \in Tokens :
    token[t].parent # None =>
      /\ token[token[t].parent].st = "revoked"
      /\ t # u => token[t].parent # token[u].parent

NothingLost == \A r \in Requests : req[r].status # "lost"

\* In whatever order the answers of logins, refreshes and logouts of several tabs
\* reach the jar, it ends with no session cookie or with one the server accepts,
\* unless the network has lost one of them.
JarHoldsLiveToken ==
  InFlight = {} /\ NothingLost => jar.session = None \/ token[jar.session].st = "live"

SessionLives == active /\ jar.session # None /\ token[jar.session].st = "live"
OnlyTab(t) == \A c \in Calls : req[Own(c)].tab \in {None, t}

\* The user has logged out in the tab, and the answer is on its way.
LoggedOut(t) ==
  \E c \in Calls : LET q == req[Own(c)] IN
    q.tab = t /\ q.kind = "logout" /\ q.st = "answered" /\ q.status = "ok"

\* When one tab makes all calls and nothing is lost, the page leaves for /login only
\* when the session is over or the user has logged out: a 401 is answered by a
\* refresh, once for all the calls that met it, and they are repeated.
LoginOnlyWhenOver ==
  [][\A t \in Tabs :
       page[t] = "app" /\ page'[t] = "login" /\ OnlyTab(t) /\ NothingLost' =>
         ~SessionLives' \/ LoggedOut(t)]_vars

\* No call waits for a refresh that will not settle: when nothing is on its way any
\* more every call has its answer or has failed.  (A call takes finitely many
\* steps, and no state is a deadlock.)
NobodyWaitsForever ==
  (\A r \in Requests : req[r].st \notin {"prepared", "sent", "holding", "answered"}) =>
    \A c \in Calls : req[Own(c)].st # "awaiting"
=============================================================================
