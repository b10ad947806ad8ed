------------------------- MODULE AuthSessionsProofs -------------------------
(***************************************************************************)
(* Proofs about the sessions of a browser, for any number of calls and     *)
(* tabs.  Three invariants stand on each other:                            *)
(*   Core      who waits for what: which request of a call is under way,   *)
(*             which refresh a tab knows of, who holds the row of a token  *)
(*             (RotatedOnce and NobodyWaitsForever follow), and that the   *)
(*             tokens handed out never exceed the calls that may ask for   *)
(*             one, so there is always one left;                           *)
(*   Sessions  whose hands a token is in: the token of an answer on its    *)
(*             way is known to nobody else, and the token in the jar is    *)
(*             live or about to be replaced (JarHoldsLiveToken follows);   *)
(*   Alone     a tab that makes all the calls, while nothing is lost: its  *)
(*             refresh is granted, and the calls repeated after it are not *)
(*             refused again (LoginOnlyWhenOver follows).                  *)
(***************************************************************************)
EXTENDS AuthSessions, TLAPS, FiniteSetTheorems, WellFoundedInduction

-----------------------------------------------------------------------------
(* The invariant Core.                                                      *)

States == {"idle", "prepared", "sent", "holding", "answered", "awaiting", "done", "failed"}
Kinds == {"me", "post", "login", "logout"}
Progress == {"prepared", "sent", "holding", "answered"}
TokenT == [st : {"unused", "live", "revoked", "expired"}, parent : Tokens \cup {None}]
JarT == [session : Tokens \cup {None}, access : BOOLEAN]
ReqT == [st : States, kind : Kinds \cup {"refresh"}, tab : Tabs \cup {None}, retry : BOOLEAN,
         header : Tokens \cup {None}, session : Tokens \cup {None}, access : BOOLEAN,
         status : {"ok", "401", "403", "lost"}, sets : Tokens \cup {None, Clear}]

TypeOK ==
  /\ token \in [Tokens -> TokenT]
  /\ lock \in [Tokens -> Requests \cup {None}]
  /\ active \in BOOLEAN
  /\ jar \in JarT
  /\ page \in [Tabs -> {"app", "login"}]
  /\ refreshing \in [Tabs -> Calls \cup {None}]
  /\ req \in [Requests -> ReqT]

\* The request of a call, and the refresh it may start.
OwnOK(c, q) ==
  /\ q.kind \in Kinds /\ q.st # "holding"
  /\ q.st = "idle" => q = Idle
  /\ q.st \in {"prepared", "awaiting"} => q.tab \in Tabs
  /\ q.st = "awaiting" => q.kind \in {"me", "post"} /\ q.retry /\ refreshing[q.tab] # None
  /\ q.retry => q.kind \in {"me", "post"}
RefreshOK(c, q) ==
  /\ q.st # "awaiting" /\ ~q.retry
  /\ q.st = "idle" => q = Idle
  /\ q.st # "idle" => q.kind = "refresh" /\ req[Own(c)].retry /\ q.tab \in {None, req[Own(c)].tab}
  /\ q.st = "prepared" => q.tab \in Tabs
  /\ q.st \in Progress /\ q.tab # None => refreshing[q.tab] = c
\* What an answer of each kind brings.
AnswerOK(q) ==
  /\ q.status = "lost" => q.st \in {"done", "failed"}
  /\ q.st = "answered" =>
       CASE q.kind = "me" -> q.sets = None /\ q.status \in {"ok", "401"}
         [] q.kind = "post" -> q.sets = None
         [] q.kind = "logout" -> q.status \in {"ok", "403"} /\ q.sets = IF q.status = "ok" THEN Clear ELSE None
         [] OTHER -> IF q.status = "ok" THEN q.sets \in Tokens ELSE q.sets = None
\* The refresh a tab knows of is under way, and the call that started it waits.
TabOK(t) ==
  /\ refreshing[t] # None =>
       LET c == refreshing[t] IN
       /\ req[Refresh(c)].st \in Progress /\ req[Refresh(c)].tab = t
       /\ req[Own(c)].st = "awaiting" /\ req[Own(c)].tab = t
Form ==
  /\ \A c \in Calls : OwnOK(c, req[Own(c)]) /\ RefreshOK(c, req[Refresh(c)])
  /\ \A r \in Requests : AnswerOK(req[r])
  /\ \A t \in Tabs : TabOK(t)

\* The refresh has locked the row of its session, which is still live.
Holds(r) == req[r].session # None /\ lock[req[r].session] = r /\ token[req[r].session].st = "live"
Rows ==
  /\ \A r \in Requests : req[r].st = "holding" => Holds(r)
  /\ \A t \in Tokens : token[t].st = "unused" => token[t].parent = None
  /\ RotatedOnce

\* The call has been answered by a login or a refresh: it may have got a token.
Spent(c) == \/ req[Own(c)].kind = "login" /\ req[Own(c)].st \in {"answered", "done", "failed"}
            \/ req[Refresh(c)].st \in {"answered", "done", "failed"}
UsedTokens == {t \in Tokens : token[t].st # "unused"}
Enough == Cardinality(UsedTokens) <= Cardinality({c \in Calls : Spent(c)}) + 1

Core == TypeOK /\ Form /\ Rows /\ Enough

-----------------------------------------------------------------------------
(* Requests and tokens.                                                     *)

LEMMA RequestForms ==
  /\ \A c \in Calls : Own(c) \in Requests /\ Refresh(c) \in Requests
  /\ \A c \in Calls : Own(c)[1] = c /\ Refresh(c)[1] = c
  /\ \A c, d \in Calls : Own(c) # Refresh(d)
  /\ \A r \in Requests : r[1] \in Calls /\ r \in {Own(r[1]), Refresh(r[1])}
BY DEF Requests, Own, Refresh

LEMMA NonesApart ==
  /\ \A t \in Tokens : t # None /\ t # Clear
  /\ \A c \in Calls : c # None
  /\ \A t \in Tabs : t # None
  /\ \A r \in Requests : r # None
  /\ None # Clear
BY ConstantsAssumption

LEMMA FirstToken ==
  ASSUME Unused # {}
  PROVE  NextToken \in Tokens /\ token[NextToken].st = "unused"
<1>1. Cardinality(Calls) \in Nat BY ConstantsAssumption, FS_CardinalityType
<1>2. Unused \subseteq Nat BY <1>1 DEF Unused, Tokens
<1>3. \E t \in Unused : \A u \in Unused : <<u, t>> \notin OpToRel(<, Nat)
  BY <1>2, NatLessThanWellFounded, WFMin
<1>4. PICK t \in Unused : \A u \in Unused : <<u, t>> \notin OpToRel(<, Nat)
  BY <1>3
<1>5. \A u \in Unused : t <= u
  <2> SUFFICES ASSUME NEW u \in Unused PROVE t <= u OBVIOUS
  <2>1. t \in Nat /\ u \in Nat BY <1>2
  <2>2. <<u, t>> \in Nat \X Nat BY <2>1
  <2>3. ~ (u < t) BY <1>4, <2>2 DEF OpToRel
  <2> QED BY <2>1, <2>3
<1> QED BY <1>4, <1>5 DEF NextToken, Unused

LEMMA PreparedForm ==
  ASSUME NEW q \in ReqT, NEW j \in JarT
  PROVE  /\ Prepared(q, j) \in ReqT
         /\ Prepared(q, j) =
              [q EXCEPT !.st = "prepared",
                        !.header = IF q.kind = "me" \/ j.session = None THEN q.header ELSE j.session]
BY DEF Prepared, ReqT, JarT, States

LEMMA IdleForm ==
  ASSUME NEW t \in Tabs \cup {None}, NEW k \in Kinds \cup {"refresh"}
  PROVE  Idle \in ReqT /\ [Idle EXCEPT !.tab = t, !.kind = k] \in ReqT
BY DEF Idle, ReqT, States, Kinds

LEMMA TokenLeft ==
  ASSUME TypeOK, Enough, NEW c \in Calls, ~Spent(c)
  PROVE  NextToken \in Tokens /\ token[NextToken].st = "unused"
<1> DEFINE S == {d \in Calls : Spent(d)}
<1>1. IsFiniteSet(Calls) /\ Cardinality(Calls) \in Nat
  BY ConstantsAssumption, FS_CardinalityType
<1>2. IsFiniteSet(Calls \ {c}) /\ Cardinality(Calls \ {c}) = Cardinality(Calls) - 1
  BY <1>1, FS_RemoveElement
<1>3. S \in SUBSET (Calls \ {c}) OBVIOUS
<1>4. IsFiniteSet(S) /\ Cardinality(S) <= Cardinality(Calls) - 1
  BY <1>2, <1>3, FS_Subset
<1>5. Cardinality(S) \in Nat BY <1>4, FS_CardinalityType
<1>6. Cardinality(Tokens) = Cardinality(Calls) + 1 BY <1>1, FS_Interval DEF Tokens
<1>7. UsedTokens # Tokens
  <2>1. Cardinality(UsedTokens) <= Cardinality(S) + 1 BY DEF Enough
  <2> HIDE DEF S
  <2> QED BY <2>1, <1>1, <1>4, <1>5, <1>6
<1> QED BY <1>7, FirstToken DEF UsedTokens, Unused

LEMMA ArriveType ==
  ASSUME TypeOK, NEW r \in Requests, NEW q \in ReqT, NEW j \in JarT, Arrive(r, q, j)
  PROVE  /\ page' \in [Tabs -> {"app", "login"}]
         /\ refreshing' \in [Tabs -> Calls \cup {None}]
         /\ req' \in [Requests -> ReqT]
<1> USE DEF TypeOK
<1>1. r[1] \in Calls BY RequestForms
<1>2. \A x \in Requests : Prepared(req[x], j) \in ReqT BY PreparedForm
<1>3. \A x \in Requests, st \in States : [req[x] EXCEPT !.st = st] \in ReqT BY DEF ReqT
<1>4. \A st \in States, b \in BOOLEAN :
        [q EXCEPT !.st = st] \in ReqT /\ [q EXCEPT !.st = st, !.retry = b] \in ReqT
  BY DEF ReqT
<1>5. \A x \in Requests : [req[x] EXCEPT !.tab = None] \in ReqT BY DEF ReqT
<1>6. Prepared([Idle EXCEPT !.tab = q.tab, !.kind = "refresh"], j) \in ReqT
  <2>1. q.tab \in Tabs \cup {None} BY DEF ReqT
  <2> QED BY <2>1, IdleForm, PreparedForm
<1>7. CASE q.tab = None BY <1>7, <1>3 DEF Arrive, States
<1>8. CASE q.tab # None /\ Refreshable(q, j)
  BY <1>1, <1>4, <1>6, <1>8 DEF Arrive, AwaitRefresh, States
<1>9. CASE q.tab # None /\ ~Refreshable(q, j) /\ q.kind = "refresh"
  <2>1. SettleRefresh(r, q, j) BY <1>9 DEF Arrive
  <2>2. page' \in [Tabs -> {"app", "login"}] /\ refreshing' \in [Tabs -> Calls \cup {None}]
    BY <2>1 DEF SettleRefresh
  <2>3. [q EXCEPT !.st = IF q.status = "ok" THEN "done" ELSE "failed"] \in ReqT
    BY <1>4 DEF States
  <2>4. \A x \in Requests : [req[x] EXCEPT !.st = "failed"] \in ReqT BY <1>3 DEF States
  <2>5. \A x \in Requests : req[x] \in ReqT OBVIOUS
  <2> QED BY <2>1, <2>2, <2>3, <2>4, <2>5, <1>2 DEF SettleRefresh
<1>10. CASE /\ q.tab # None /\ ~Refreshable(q, j) /\ q.kind # "refresh"
            /\ q.kind = "logout" /\ q.status = "ok"
  <2>1. LeavePage(r, q) BY <1>10 DEF Arrive
  <2>2. page' \in [Tabs -> {"app", "login"}] /\ refreshing' \in [Tabs -> Calls \cup {None}]
    BY <2>1 DEF LeavePage
  <2>3. [q EXCEPT !.st = "done"] \in ReqT BY <1>4 DEF States
  <2>4. \A x \in Requests : [req[x] EXCEPT !.st = "failed"] \in ReqT BY <1>3 DEF States
  <2>5. \A x \in Requests : req[x] \in ReqT OBVIOUS
  <2> QED BY <2>1, <2>2, <2>3, <2>4, <2>5, <1>5 DEF LeavePage
<1>11. CASE /\ q.tab # None /\ ~Refreshable(q, j) /\ q.kind # "refresh"
            /\ ~(q.kind = "logout" /\ q.status = "ok")
  BY <1>4, <1>11 DEF Arrive, Settle, States
<1> QED BY <1>7, <1>8, <1>9, <1>10, <1>11

LEMMA AppliedType ==
  ASSUME TypeOK, NEW x \in Tokens \cup {None, Clear}
  PROVE  Applied(x) \in JarT
BY NonesApart DEF Applied, TypeOK, JarT

LEMMA DeliverType ==
  ASSUME TypeOK, NEW r \in Requests, Deliver(r) \/ Lose(r)
  PROVE  TypeOK'
<1>1. CASE Deliver(r)
  <2>1. req[r] \in ReqT /\ req[r].sets \in Tokens \cup {None, Clear} BY DEF TypeOK, ReqT
  <2>2. jar' \in JarT BY <1>1, <2>1, AppliedType DEF Deliver
  <2> QED BY <1>1, <2>1, <2>2, ArriveType DEF Deliver, TypeOK
<1>2. CASE Lose(r)
  <2>1. [req[r] EXCEPT !.status = "lost"] \in ReqT BY DEF TypeOK, ReqT
  <2> QED BY <1>2, <2>1, ArriveType DEF Lose, TypeOK
<1> QED BY <1>1, <1>2

-----------------------------------------------------------------------------
(* Form.                                                                    *)

\* A step that moves one request on, and changes neither kind nor tab.
LEMMA FormMoves ==
  ASSUME TypeOK, Form, NEW r \in Requests, NEW q \in ReqT,
         req' = [req EXCEPT ![r] = q], UNCHANGED refreshing,
         q.kind = req[r].kind, q.tab = req[r].tab, q.retry = req[r].retry,
         req[r].st \in Progress, q.st \in {"sent", "holding", "answered"},
         q.st = "holding" => q.kind = "refresh",
         AnswerOK(q)
  PROVE  Form'
<1> USE DEF TypeOK, Progress
<1>1. PICK c \in Calls : r \in {Own(c), Refresh(c)} BY RequestForms
<1>2. \A x \in Requests : AnswerOK(req'[x])
  BY DEF Form
<1>3. CASE r = Own(c)
  <2>1. /\ \A d \in Calls : req'[Refresh(d)] = req[Refresh(d)]
        /\ \A d \in Calls \ {c} : req'[Own(d)] = req[Own(d)]
        /\ req'[Own(c)] = q
    BY <1>3, RequestForms
  <2>2. OwnOK(c, req[Own(c)]) BY DEF Form
  <2>3. OwnOK(c, q)' BY <1>3, <2>2 DEF OwnOK, Kinds
  <2>4. \A d \in Calls : OwnOK(d, req[Own(d)])' BY <2>1, <2>3 DEF Form, OwnOK
  <2>5. \A d \in Calls : RefreshOK(d, req[Refresh(d)])' BY <2>1, <1>3 DEF Form, RefreshOK
  <2>6. \A t \in Tabs : TabOK(t)' BY <2>1, <1>3 DEF Form, TabOK
  <2> QED BY <1>2, <2>4, <2>5, <2>6 DEF Form
<1>4. CASE r = Refresh(c)
  <2>1. /\ \A d \in Calls : req'[Own(d)] = req[Own(d)]
        /\ \A d \in Calls \ {c} : req'[Refresh(d)] = req[Refresh(d)]
        /\ req'[Refresh(c)] = q
    BY <1>4, RequestForms
  <2>2. RefreshOK(c, req[Refresh(c)]) BY DEF Form
  <2>3. RefreshOK(c, q)' BY <1>4, <2>1, <2>2 DEF RefreshOK
  <2>4. \A d \in Calls : OwnOK(d, req[Own(d)])' BY <2>1 DEF Form, OwnOK
  <2>5. \A d \in Calls : RefreshOK(d, req[Refresh(d)])' BY <2>1, <2>3 DEF Form, RefreshOK
  <2>6. \A t \in Tabs : TabOK(t)' BY <2>1, <1>4 DEF Form, TabOK
  <2> QED BY <1>2, <2>4, <2>5, <2>6 DEF Form
<1> QED BY <1>1, <1>3, <1>4

\* What of request r reaches the scripts of its tab: its answer, or that it is lost.
Arriving(r, q) ==
  \/ req[r].st = "answered" /\ q = req[r]
  \/ req[r].st \in {"sent", "answered"} /\ q = [req[r] EXCEPT !.status = "lost"]

LEMMA ArrivingForm ==
  ASSUME TypeOK, NEW r \in Requests, NEW q, Arriving(r, q)
  PROVE  /\ q \in ReqT
         /\ q.kind = req[r].kind /\ q.tab = req[r].tab /\ q.retry = req[r].retry
         /\ q.session = req[r].session /\ q.sets = req[r].sets /\ q.header = req[r].header
         /\ q.access = req[r].access /\ q.st = req[r].st
         /\ q.status # "lost" => q = req[r] /\ req[r].st = "answered"
BY DEF TypeOK, Arriving, ReqT, States

LEMMA FormAwaits ==
  ASSUME TypeOK, Form, NEW r \in Requests, NEW q, NEW j \in JarT, Arriving(r, q),
         q.tab # None, Refreshable(q, j), AwaitRefresh(r, q, j)
  PROVE  Form'
<1> USE DEF TypeOK, Progress
<1>0. q = req[r] /\ q \in ReqT /\ q.st = "answered" /\ q.status = "401" /\ ~q.retry
  BY ArrivingForm DEF Refreshable
<1>1. PICK c \in Calls : r[1] = c /\ r = Own(c)
  <2>1. \A c \in Calls : r = Refresh(c) => q.kind = "refresh" BY <1>0 DEF Form, RefreshOK
  <2> QED BY <2>1, RequestForms DEF Refreshable
<1>2. q.tab \in Tabs /\ q.kind \in {"me", "post"} /\ q.sets = None
  BY <1>0, <1>1 DEF ReqT, Refreshable, Form, OwnOK, Kinds, AnswerOK
<1>3. req[Refresh(c)] = Idle /\ req[Refresh(c)].st = "idle"
  BY <1>0, <1>1 DEF Form, RefreshOK, Idle, ReqT, States
<1> DEFINE p == Prepared([Idle EXCEPT !.tab = q.tab, !.kind = "refresh"], j)
           t == q.tab
<1>4. /\ p.st = "prepared" /\ p.kind = "refresh" /\ p.tab = t /\ ~p.retry
      /\ p.status = "ok"
  <2> DEFINE i == [Idle EXCEPT !.tab = q.tab, !.kind = "refresh"]
  <2>1. i \in ReqT BY <1>2, IdleForm
  <2>2. i.kind = "refresh" /\ i.tab = t /\ ~i.retry /\ i.status = "ok" BY DEF Idle
  <2> HIDE DEF i
  <2>3. p = [i EXCEPT !.st = "prepared",
                      !.header = IF i.kind = "me" \/ j.session = None THEN i.header ELSE j.session]
    BY <2>1, PreparedForm DEF i
  <2> QED BY <2>1, <2>2, <2>3 DEF ReqT
<1>5. /\ req'[r] = [q EXCEPT !.st = "awaiting", !.retry = TRUE]
      /\ req'[Refresh(c)] = IF refreshing[t] = None THEN p ELSE req[Refresh(c)]
      /\ \A d \in Calls \ {c} : req'[Own(d)] = req[Own(d)] /\ req'[Refresh(d)] = req[Refresh(d)]
      /\ refreshing' = [refreshing EXCEPT ![t] = IF refreshing[t] = None THEN c ELSE refreshing[t]]
  BY <1>1, RequestForms DEF AwaitRefresh
<1> HIDE DEF p
<1>6. /\ req'[r].st = "awaiting" /\ req'[r].retry /\ req'[r].kind = q.kind /\ req'[r].tab = t
      /\ req'[r].status = "401" /\ req'[r].sets = None
  BY <1>0, <1>2, <1>5 DEF ReqT
<1>7. refreshing'[t] # None /\ \A u \in Tabs : u # t => refreshing'[u] = refreshing[u]
  BY <1>5, <1>2, NonesApart
<1>8. \A x \in Requests : AnswerOK(req'[x])
  <2> SUFFICES ASSUME NEW x \in Requests PROVE AnswerOK(req'[x]) OBVIOUS
  <2>1. CASE x = r BY <2>1, <1>6 DEF AnswerOK
  <2>2. CASE x = Refresh(c) BY <2>2, <1>5, <1>4 DEF AnswerOK, Form
  <2>3. CASE x \notin {r, Refresh(c)}
    <3>1. x[1] # c BY <2>3, <1>1, RequestForms
    <3>2. req'[x] = req[x] BY <3>1, <1>5, RequestForms
    <3> QED BY <3>2 DEF Form
  <2> QED BY <2>1, <2>2, <2>3
<1>9. \A d \in Calls : OwnOK(d, req[Own(d)])'
  <2> SUFFICES ASSUME NEW d \in Calls PROVE OwnOK(d, req[Own(d)])' OBVIOUS
  <2>1. CASE d = c BY <2>1, <1>1, <1>6, <1>2, <1>7 DEF OwnOK, Kinds
  <2>2. CASE d # c BY <2>2, <1>5, <1>7 DEF OwnOK, Form
  <2> QED BY <2>1, <2>2
<1>10. \A d \in Calls : RefreshOK(d, req[Refresh(d)])'
  <2> SUFFICES ASSUME NEW d \in Calls PROVE RefreshOK(d, req[Refresh(d)])' OBVIOUS
  <2>1. CASE d = c /\ refreshing[t] = None
    BY <2>1, <1>1, <1>2, <1>4, <1>5, <1>6 DEF RefreshOK
  <2>2. CASE d = c /\ refreshing[t] # None
    BY <2>2, <1>2, <1>3, <1>5 DEF RefreshOK, Idle
  <2>3. CASE d # c
    <3>1. RefreshOK(d, req[Refresh(d)]) BY DEF Form
    <3>2. req[Refresh(d)].tab # None => req[Refresh(d)].tab \in Tabs BY RequestForms DEF ReqT
    <3>3. \A u \in Tabs : refreshing[u] = d => refreshing'[u] = d BY <1>5, NonesApart
    <3> QED BY <2>3, <3>1, <3>2, <3>3, <1>5 DEF RefreshOK
  <2> QED BY <2>1, <2>2, <2>3
<1>11. \A u \in Tabs : TabOK(u)'
  <2> SUFFICES ASSUME NEW u \in Tabs PROVE TabOK(u)' OBVIOUS
  <2>0. TabOK(u) BY DEF Form
  <2>1. CASE u = t /\ refreshing[t] = None
    BY <2>1, <1>1, <1>2, <1>4, <1>5, <1>6 DEF TabOK
  <2>2. CASE refreshing[u] # None
    <3>1. refreshing'[u] = refreshing[u] /\ refreshing[u] \in Calls BY <2>2, <1>5, <1>7
    <3>2. refreshing[u] # c BY <2>0, <2>2, <1>1, <1>0 DEF TabOK
    <3> QED BY <2>0, <2>2, <3>1, <3>2, <1>5 DEF TabOK
  <2>3. CASE u # t /\ refreshing[u] = None BY <2>3, <1>7 DEF TabOK
  <2> QED BY <2>1, <2>2, <2>3
<1> QED BY <1>8, <1>9, <1>10, <1>11 DEF Form

LEMMA FormSettlesRefresh ==
  ASSUME TypeOK, Form, NEW r \in Requests, NEW q, NEW j \in JarT, Arriving(r, q),
         q.tab # None, q.kind = "refresh", SettleRefresh(r, q, j)
  PROVE  Form'
<1> USE DEF TypeOK, Progress
<1>0. q \in ReqT /\ q.tab = req[r].tab /\ q.st = req[r].st /\ q.st \in {"sent", "answered"}
  BY ArrivingForm DEF Arriving
<1>1. PICK c \in Calls : r[1] = c /\ r = Refresh(c)
  BY RequestForms, ArrivingForm DEF Form, OwnOK, Kinds
<1> DEFINE t == q.tab
           W == {Own(d) : d \in Waiting(t)}
<1> HIDE DEF t, W
<1>2. t \in Tabs /\ refreshing[t] = c BY <1>0, <1>1 DEF Form, RefreshOK, ReqT, t
<1>3. /\ req'[r] = [q EXCEPT !.st = IF q.status = "ok" THEN "done" ELSE "failed"]
      /\ \A x \in Requests \ {r} : x \notin W => req'[x] = req[x]
      /\ \A x \in Requests \ {r} : x \in W =>
           req'[x] = IF q.status = "ok" THEN Prepared(req[x], j) ELSE [req[x] EXCEPT !.st = "failed"]
      /\ refreshing' = [refreshing EXCEPT ![t] = None]
  BY DEF SettleRefresh, t, W
<1>4. \A x \in W : x \in Requests \ {r} /\ req[x].st = "awaiting" /\ req[x].tab = t
  BY <1>1, RequestForms DEF W, Waiting
<1>5. \A x \in W :
        /\ req'[x].st \in {"prepared", "failed"} /\ req'[x].kind = req[x].kind
        /\ req'[x].tab = t /\ req'[x].retry = req[x].retry /\ req'[x].status = req[x].status
  <2> SUFFICES ASSUME NEW x \in W
               PROVE /\ req'[x].st \in {"prepared", "failed"} /\ req'[x].kind = req[x].kind
                     /\ req'[x].tab = req[x].tab /\ req'[x].retry = req[x].retry
                     /\ req'[x].status = req[x].status
    BY <1>4
  <2>1. x \in Requests \ {r} /\ req[x] \in ReqT BY <1>4
  <2>2. CASE q.status = "ok"
    <3>1. req'[x] = Prepared(req[x], j) BY <1>3, <2>1, <2>2
    <3>2. req'[x] = [req[x] EXCEPT !.st = "prepared",
                       !.header = IF req[x].kind = "me" \/ j.session = None THEN req[x].header ELSE j.session]
      BY <3>1, <2>1, PreparedForm
    <3> QED BY <2>1, <3>2 DEF ReqT
  <2>3. CASE q.status # "ok"
    <3>1. req'[x] = [req[x] EXCEPT !.st = "failed"] BY <1>3, <2>1, <2>3
    <3> QED BY <2>1, <3>1 DEF ReqT
  <2> QED BY <2>2, <2>3
<1>6. req'[r].st \in {"done", "failed"} /\ req'[r].kind = "refresh" /\ req'[r].tab = t /\ ~req'[r].retry
  <2>1. ~req[r].retry BY <1>1 DEF Form, RefreshOK
  <2> QED BY <2>1, <1>0, <1>3, ArrivingForm DEF ReqT, t
<1>7. \A x \in Requests : AnswerOK(req'[x])
  <2> SUFFICES ASSUME NEW x \in Requests PROVE AnswerOK(req'[x]) OBVIOUS
  <2>1. CASE x = r BY <2>1, <1>6 DEF AnswerOK
  <2>2. CASE x \in W BY <2>2, <1>4, <1>5 DEF AnswerOK, Form
  <2>3. CASE x \notin W /\ x # r BY <2>3, <1>3 DEF Form
  <2> QED BY <2>1, <2>2, <2>3
<1>8. \A d \in Calls : OwnOK(d, req[Own(d)])'
  <2> SUFFICES ASSUME NEW d \in Calls PROVE OwnOK(d, req[Own(d)])' OBVIOUS
  <2>0. OwnOK(d, req[Own(d)]) /\ Own(d) \in Requests \ {r} BY RequestForms, <1>1 DEF Form
  <2>1. CASE Own(d) \in W BY <2>0, <2>1, <1>4, <1>5, <1>2 DEF OwnOK
  <2>2. CASE Own(d) \notin W
    <3>1. req'[Own(d)] = req[Own(d)] BY <2>0, <2>2, <1>3
    <3>2. req[Own(d)].st = "awaiting" => req[Own(d)].tab # t BY <2>2 DEF W, Waiting
    <3> QED BY <2>0, <3>1, <3>2, <1>3, <1>2 DEF OwnOK
  <2> QED BY <2>1, <2>2
<1>9. \A d \in Calls : RefreshOK(d, req[Refresh(d)])'
  <2> SUFFICES ASSUME NEW d \in Calls PROVE RefreshOK(d, req[Refresh(d)])' OBVIOUS
  <2>0. RefreshOK(d, req[Refresh(d)]) BY DEF Form
  <2>1. req'[Own(d)].retry = req[Own(d)].retry /\ req'[Own(d)].tab = req[Own(d)].tab
    <3>1. Own(d) \in Requests \ {r} BY RequestForms, <1>1
    <3> QED BY <3>1, <1>3, <1>4, <1>5
  <2>2. CASE d = c BY <2>0, <2>1, <2>2, <1>0, <1>1, <1>6 DEF RefreshOK, t
  <2>3. CASE d # c
    <3>1. req'[Refresh(d)] = req[Refresh(d)]
      <4>1. Refresh(d) # r BY <2>3, <1>1, RequestForms
      <4>2. Refresh(d) \notin W BY RequestForms DEF W, Waiting
      <4> QED BY <4>1, <4>2, <1>3, RequestForms
    <3>2. req[Refresh(d)].st \in Progress => req[Refresh(d)].tab # t
      BY <2>0, <2>3, <1>2, NonesApart DEF RefreshOK
    <3> QED BY <2>0, <2>1, <3>1, <3>2, <1>3 DEF RefreshOK, ReqT
  <2> QED BY <2>2, <2>3
<1>10. \A u \in Tabs : TabOK(u)'
  <2> SUFFICES ASSUME NEW u \in Tabs, u # t, refreshing[u] # None PROVE TabOK(u)'
    BY <1>3 DEF TabOK
  <2>1. TabOK(u) /\ refreshing[u] \in Calls /\ refreshing'[u] = refreshing[u] BY <1>3 DEF Form
  <2>2. refreshing[u] # c BY <2>1, <1>0, <1>1 DEF TabOK, t
  <2>3. req'[Refresh(refreshing[u])] = req[Refresh(refreshing[u])]
    <3>1. Refresh(refreshing[u]) # r BY <2>1, <2>2, <1>1, RequestForms
    <3>2. Refresh(refreshing[u]) \notin W BY <2>1, RequestForms DEF W, Waiting
    <3> QED BY <2>1, <3>1, <3>2, <1>3, RequestForms
  <2>4. req'[Own(refreshing[u])] = req[Own(refreshing[u])]
    BY <2>1, <1>1, <1>3, <1>4, RequestForms DEF TabOK
  <2> QED BY <2>1, <2>3, <2>4 DEF TabOK
<1> QED BY <1>7, <1>8, <1>9, <1>10 DEF Form

LEMMA FormLeavesPage ==
  ASSUME TypeOK, Form, NEW r \in Requests, NEW q, Arriving(r, q),
         q.tab # None, q.kind = "logout", LeavePage(r, q)
  PROVE  Form'
<1> USE DEF TypeOK, Progress
<1>0. q \in ReqT /\ q.tab = req[r].tab /\ q.st = req[r].st /\ q.st \in {"sent", "answered"}
      /\ req[r].kind = "logout" /\ q.retry = req[r].retry
  BY ArrivingForm DEF Arriving
<1>1. PICK c \in Calls : r = Own(c) BY RequestForms, <1>0 DEF Form, RefreshOK
<1> DEFINE t == q.tab
<1> HIDE DEF t
<1>2. t \in Tabs BY <1>0 DEF ReqT, t
<1>3. /\ req'[r] = [q EXCEPT !.st = "done"]
      /\ \A x \in Requests \ {r} :
           /\ req[x].tab # t => req'[x] = req[x]
           /\ req[x].tab = t /\ req[x].st \in {"prepared", "awaiting"} => req'[x] = [req[x] EXCEPT !.st = "failed"]
           /\ req[x].tab = t /\ req[x].st \notin {"prepared", "awaiting"} => req'[x] = [req[x] EXCEPT !.tab = None]
      /\ refreshing' = [refreshing EXCEPT ![t] = None]
  BY DEF LeavePage, t
<1>4. \A x \in Requests \ {r} :
        /\ req'[x].kind = req[x].kind /\ req'[x].retry = req[x].retry /\ req'[x].status = req[x].status
        /\ req'[x].sets = req[x].sets
        /\ req'[x].st = IF req[x].tab = t /\ req[x].st \in {"prepared", "awaiting"} THEN "failed" ELSE req[x].st
        /\ req'[x].tab = IF req[x].tab = t /\ req[x].st \notin {"prepared", "awaiting"} THEN None ELSE req[x].tab
        /\ req[x].tab # t => req'[x] = req[x]
  <2> SUFFICES ASSUME NEW x \in Requests \ {r}
               PROVE  /\ req'[x].kind = req[x].kind /\ req'[x].retry = req[x].retry
                      /\ req'[x].status = req[x].status /\ req'[x].sets = req[x].sets
                      /\ req'[x].st = IF req[x].tab = t /\ req[x].st \in {"prepared", "awaiting"} THEN "failed" ELSE req[x].st
                      /\ req'[x].tab = IF req[x].tab = t /\ req[x].st \notin {"prepared", "awaiting"} THEN None ELSE req[x].tab
    BY <1>3
  <2>1. req[x] \in ReqT OBVIOUS
  <2> QED BY <2>1, <1>3 DEF ReqT
<1>5. req'[r].st = "done" /\ req'[r].kind = "logout" /\ req'[r].tab = t /\ ~req'[r].retry
  <2>1. ~req[r].retry BY <1>0, <1>1 DEF Form, OwnOK
  <2> QED BY <2>1, <1>0, <1>3, ArrivingForm DEF ReqT, t
<1>6. \A x \in Requests : AnswerOK(req'[x])
  <2> SUFFICES ASSUME NEW x \in Requests PROVE AnswerOK(req'[x]) OBVIOUS
  <2>1. CASE x = r BY <2>1, <1>5 DEF AnswerOK
  <2>2. CASE x # r
    <3>1. AnswerOK(req[x]) BY DEF Form
    <3> QED BY <2>2, <3>1, <1>4 DEF AnswerOK
  <2> QED BY <2>1, <2>2
<1>7. \A d \in Calls : OwnOK(d, req[Own(d)])'
  <2> SUFFICES ASSUME NEW d \in Calls PROVE OwnOK(d, req[Own(d)])' OBVIOUS
  <2>0. OwnOK(d, req[Own(d)]) BY DEF Form
  <2>1. CASE d = c BY <2>1, <1>1, <1>5 DEF OwnOK, Kinds
  <2>2. CASE d # c
    <3>1. Own(d) \in Requests \ {r} BY <2>2, <1>1, RequestForms
    <3>2. CASE req[Own(d)].tab = t
      <4>1. req[Own(d)] # Idle BY <3>2, <1>2, NonesApart DEF Idle
      <4> QED BY <2>0, <3>1, <3>2, <4>1, <1>4 DEF OwnOK
    <3>3. CASE req[Own(d)].tab # t BY <2>0, <3>1, <3>3, <1>3 DEF OwnOK
    <3> QED BY <3>2, <3>3
  <2> QED BY <2>1, <2>2
<1>8. \A d \in Calls : RefreshOK(d, req[Refresh(d)])'
  <2> SUFFICES ASSUME NEW d \in Calls PROVE RefreshOK(d, req[Refresh(d)])' OBVIOUS
  <2>0. RefreshOK(d, req[Refresh(d)]) /\ Refresh(d) \in Requests \ {r} BY <1>1, RequestForms DEF Form
  <2>1. CASE d = c
    <3>1. req[Refresh(d)].st = "idle" /\ req[Refresh(d)] = Idle
      BY <2>0, <2>1, <1>0, <1>1 DEF Form, OwnOK, RefreshOK
    <3>2. req[Refresh(d)].tab # t BY <3>1, <1>2, NonesApart DEF Idle
    <3>3. req'[Refresh(d)] = Idle BY <3>1, <3>2, <2>0, <1>4
    <3> QED BY <2>0, <3>1, <3>3 DEF RefreshOK
  <2>2. CASE d # c
    <3>1. Own(d) \in Requests \ {r} BY <2>2, <1>1, RequestForms
    <3>2. CASE req[Refresh(d)].tab = t
      <4>1. req[Refresh(d)].st # "idle" /\ req[Own(d)].tab = t /\ req[Own(d)].retry
        BY <2>0, <3>2, <1>2, NonesApart DEF RefreshOK, Idle
      <4>2. req[Refresh(d)].st = "prepared" => req[Own(d)].st = "awaiting"
        BY <2>0, <3>2, <1>2, NonesApart DEF RefreshOK, Form, TabOK
      <4> QED BY <2>0, <3>1, <3>2, <4>1, <4>2, <1>4 DEF RefreshOK
    <3>3. CASE req[Refresh(d)].tab # t
      <4>1. req'[Refresh(d)] = req[Refresh(d)] BY <2>0, <3>3, <1>4
      <4>2. req'[Own(d)].retry = req[Own(d)].retry BY <3>1, <1>4
      <4>3. req[Refresh(d)].tab # None /\ req[Refresh(d)].st # "idle" => req'[Own(d)].tab = req[Own(d)].tab
        BY <2>0, <3>1, <3>3, <1>4 DEF RefreshOK
      <4>4. \A u \in Tabs \ {t} : refreshing'[u] = refreshing[u] BY <1>3
      <4>5. req[Refresh(d)].tab # None => req[Refresh(d)].tab \in Tabs \ {t} BY <2>0, <3>3 DEF ReqT
      <4> QED BY <2>0, <4>1, <4>2, <4>3, <4>4, <4>5 DEF RefreshOK
    <3> QED BY <3>2, <3>3
  <2> QED BY <2>1, <2>2
<1>9. \A u \in Tabs : TabOK(u)'
  <2> SUFFICES ASSUME NEW u \in Tabs, u # t, refreshing[u] # None PROVE TabOK(u)'
    BY <1>3 DEF TabOK
  <2>1. TabOK(u) /\ refreshing[u] \in Calls /\ refreshing'[u] = refreshing[u] BY <1>3 DEF Form
  <2>2. req'[Refresh(refreshing[u])] = req[Refresh(refreshing[u])]
    BY <2>1, <1>1, <1>3, RequestForms DEF TabOK
  <2>3. req'[Own(refreshing[u])] = req[Own(refreshing[u])]
    <3>1. Own(refreshing[u]) # r BY <2>1, <1>0 DEF TabOK
    <3> QED BY <2>1, <3>1, <1>3, RequestForms DEF TabOK
  <2> QED BY <2>1, <2>2, <2>3 DEF TabOK
<1> QED BY <1>6, <1>7, <1>8, <1>9 DEF Form

\* A request settles, or its answer finds no tab.
LEMMA FormSettles ==
  ASSUME TypeOK, Form, NEW r \in Requests, NEW q \in ReqT,
         req[r].st \in {"sent", "answered"}, req[r].kind # "refresh" \/ req[r].tab = None,
         q.st \in {"done", "failed"}, q.kind = req[r].kind, q.tab = req[r].tab, q.retry = req[r].retry,
         req' = [req EXCEPT ![r] = q], UNCHANGED refreshing
  PROVE  Form'
<1> USE DEF TypeOK, Progress
<1>1. PICK c \in Calls : r \in {Own(c), Refresh(c)} BY RequestForms
<1>2. /\ req'[r] = q
      /\ \A x \in Requests \ {r} : req'[x] = req[x]
  OBVIOUS
<1>3. \A x \in Requests : AnswerOK(req'[x])
  BY <1>2 DEF Form, AnswerOK
<1>4. \A d \in Calls : OwnOK(d, req[Own(d)])'
  <2> SUFFICES ASSUME NEW d \in Calls PROVE OwnOK(d, req[Own(d)])' OBVIOUS
  <2>0. OwnOK(d, req[Own(d)]) /\ Own(d) \in Requests BY RequestForms DEF Form
  <2> QED BY <2>0, <1>2 DEF OwnOK
<1>5. \A d \in Calls : RefreshOK(d, req[Refresh(d)])'
  <2> SUFFICES ASSUME NEW d \in Calls PROVE RefreshOK(d, req[Refresh(d)])' OBVIOUS
  <2>0. RefreshOK(d, req[Refresh(d)]) /\ Refresh(d) \in Requests /\ Own(d) \in Requests
    BY RequestForms DEF Form
  <2>1. req'[Own(d)].retry = req[Own(d)].retry /\ req'[Own(d)].tab = req[Own(d)].tab
    BY <2>0, <1>2
  <2> QED BY <2>0, <2>1, <1>2 DEF RefreshOK
<1>6. \A u \in Tabs : TabOK(u)'
  <2> SUFFICES ASSUME NEW u \in Tabs, refreshing[u] # None PROVE TabOK(u)'
    BY DEF TabOK
  <2>1. TabOK(u) /\ refreshing[u] \in Calls BY DEF Form
  <2>2. r # Own(refreshing[u]) BY <2>1 DEF TabOK
  <2>3. r # Refresh(refreshing[u])
    <3>1. RefreshOK(refreshing[u], req[Refresh(refreshing[u])]) BY <2>1 DEF Form
    <3> QED BY <2>1, <3>1, NonesApart DEF TabOK, RefreshOK
  <2> QED BY <2>1, <2>2, <2>3, <1>2, RequestForms DEF TabOK
<1> QED BY <1>3, <1>4, <1>5, <1>6 DEF Form

-----------------------------------------------------------------------------
(* What the arrival of an answer does to the other requests.                *)

Flying == {"sent", "holding", "answered"}
LeavesPage(r, q) == q.tab # None /\ q.kind = "logout" /\ q.status = "ok"

\* What the arrival of q at the scripts leaves alone in the request x.
CarriedOne(x, r, q) ==
  LET o == req[x]
      n == req'[x] IN
  /\ n.session = o.session /\ n.sets = o.sets
  /\ x # r => n.status = o.status
  /\ n.kind # o.kind => o.st = "idle" /\ n.st = "prepared" /\ n.kind = "refresh" /\ x = Refresh(r[1])
  /\ n.st \in Flying => x # r /\ n.st = o.st /\ n.header = o.header /\ n.access = o.access
  /\ o.st \in Flying /\ x # r => n.st = o.st
  /\ o.st \in {"done", "failed"} => n.st = o.st
  /\ o.st = "idle" /\ n # o =>
       n.st = "prepared" /\ n.kind = "refresh" /\ n.tab = q.tab /\ q.kind # "logout" /\ x = Refresh(r[1])
  /\ n.tab # o.tab /\ o.st # "idle" => n.tab = None /\ o.tab = q.tab /\ LeavesPage(r, q) /\ x # r
  /\ n.retry # o.retry => x = r /\ n.st = "awaiting"
Carried(r, q) ==
  /\ \A x \in Requests : CarriedOne(x, r, q)
  /\ LET n == req'[r] IN
     /\ n.st \in {"awaiting", "done", "failed"} /\ n.kind = req[r].kind /\ n.tab = req[r].tab
     /\ n.st = "awaiting" => n.kind \in {"me", "post"}
     /\ q.tab # None => n.status = q.status

LEMMA ArriveCarries ==
  ASSUME TypeOK, Form, NEW r \in Requests, NEW q, NEW j \in JarT, Arriving(r, q), Arrive(r, q, j)
  PROVE  Carried(r, q)
<1> USE DEF TypeOK, Flying
<1>0. /\ q \in ReqT /\ q.kind = req[r].kind /\ q.tab = req[r].tab /\ q.retry = req[r].retry
      /\ q.session = req[r].session /\ q.sets = req[r].sets /\ q.st = req[r].st
      /\ q.st \in {"sent", "answered"} /\ req[r] \in ReqT
  BY ArrivingForm DEF Arriving
<1>1. \A x \in Requests : req[x] \in ReqT OBVIOUS
<1>2. CASE q.tab = None
  <2>1. req' = [req EXCEPT ![r].st = "failed"] BY <1>2 DEF Arrive
  <2>2. req'[r] = [req[r] EXCEPT !.st = "failed"] /\ \A x \in Requests \ {r} : req'[x] = req[x]
    BY <2>1
  <2>3. CarriedOne(r, r, q) BY <1>0, <2>2 DEF CarriedOne, ReqT
  <2>4. \A x \in Requests \ {r} : CarriedOne(x, r, q) BY <1>0, <2>2 DEF CarriedOne
  <2>5. /\ req'[r].st = "failed" /\ req'[r].kind = req[r].kind /\ req'[r].tab = req[r].tab
    BY <1>0, <2>2 DEF ReqT
  <2> QED BY <1>2, <2>3, <2>4, <2>5 DEF Carried
<1>3. CASE q.tab # None /\ Refreshable(q, j)
  <2>0. AwaitRefresh(r, q, j) BY <1>3 DEF Arrive
  <2>1. q = req[r] /\ q.st = "answered" /\ q.status = "401" /\ ~q.retry
    BY <1>3, ArrivingForm DEF Refreshable
  <2>2. PICK c \in Calls : r[1] = c /\ r = Own(c)
    <3>1. \A c \in Calls : r = Refresh(c) => q.kind = "refresh" BY <2>1 DEF Form, RefreshOK
    <3> QED BY <3>1, <1>3, RequestForms DEF Refreshable
  <2>3. q.tab \in Tabs /\ q.kind \in {"me", "post"}
    BY <1>3, <2>1, <2>2 DEF ReqT, Refreshable, Form, OwnOK, Kinds, AnswerOK
  <2>4. req[Refresh(c)] = Idle /\ req[Refresh(c)].st = "idle"
    BY <2>1, <2>2 DEF Form, RefreshOK, ReqT, States
  <2> DEFINE p == Prepared([Idle EXCEPT !.tab = q.tab, !.kind = "refresh"], j)
  <2>5. /\ p.st = "prepared" /\ p.kind = "refresh" /\ p.tab = q.tab /\ p.retry = FALSE
        /\ p.status = "ok" /\ p.session = None /\ p.sets = None
    <3> DEFINE i == [Idle EXCEPT !.tab = q.tab, !.kind = "refresh"]
    <3>1. i \in ReqT BY <2>3, IdleForm
    <3>2. i.kind = "refresh" /\ i.tab = q.tab /\ i.retry = FALSE /\ i.status = "ok" /\ i.session = None /\ i.sets = None
      BY DEF Idle
    <3> HIDE DEF i
    <3>3. p = [i EXCEPT !.st = "prepared",
                        !.header = IF i.kind = "me" \/ j.session = None THEN i.header ELSE j.session]
      BY <3>1, PreparedForm DEF i
    <3> QED BY <3>1, <3>2, <3>3 DEF ReqT
  <2> HIDE DEF p
  <2>6. /\ req'[r] = [q EXCEPT !.st = "awaiting", !.retry = TRUE]
        /\ req'[Refresh(c)] = IF refreshing[q.tab] = None THEN p ELSE req[Refresh(c)]
        /\ \A x \in Requests \ {r, Refresh(c)} : req'[x] = req[x]
    BY <2>0, <2>2, RequestForms DEF AwaitRefresh, p
  <2>7. CarriedOne(r, r, q) BY <1>0, <2>1, <2>6 DEF CarriedOne, ReqT
  <2>8. CarriedOne(Refresh(c), r, q)
    <3>1. Refresh(c) # r /\ Refresh(c) = Refresh(r[1]) BY <2>2, RequestForms
    <3>2. req[Refresh(c)].session = None /\ req[Refresh(c)].sets = None /\ req[Refresh(c)].status = "ok"
          /\ req[Refresh(c)].retry = FALSE
      BY <2>4 DEF Idle
    <3>3. CASE req'[Refresh(c)] = p BY <3>1, <3>2, <3>3, <2>3, <2>4, <2>5 DEF CarriedOne
    <3>4. CASE req'[Refresh(c)] = req[Refresh(c)] BY <3>1, <3>4, <2>4 DEF CarriedOne
    <3> QED BY <3>3, <3>4, <2>6
  <2>9. \A x \in Requests \ {r, Refresh(c)} : CarriedOne(x, r, q) BY <2>6 DEF CarriedOne
  <2>10. /\ req'[r].st = "awaiting" /\ req'[r].kind = req[r].kind /\ req'[r].tab = req[r].tab
         /\ req'[r].status = q.status
    BY <1>0, <2>6 DEF ReqT
  <2> QED BY <1>0, <2>3, <2>7, <2>8, <2>9, <2>10 DEF Carried
<1>4. CASE q.tab # None /\ ~Refreshable(q, j) /\ q.kind = "refresh"
  <2>0. SettleRefresh(r, q, j) BY <1>4 DEF Arrive
  <2> DEFINE W == {Own(d) : d \in Waiting(q.tab)}
  <2>1. \A x \in W : x \in Requests /\ req[x].st = "awaiting" BY RequestForms DEF W, Waiting
  <2> HIDE DEF W
  <2>2. /\ req'[r] = [q EXCEPT !.st = IF q.status = "ok" THEN "done" ELSE "failed"]
        /\ \A x \in Requests \ {r} : x \notin W => req'[x] = req[x]
        /\ \A x \in Requests \ {r} : x \in W =>
             req'[x] = IF q.status = "ok" THEN Prepared(req[x], j) ELSE [req[x] EXCEPT !.st = "failed"]
    BY <2>0 DEF SettleRefresh, W
  <2>3. CarriedOne(r, r, q) BY <1>0, <2>2 DEF CarriedOne, ReqT
  <2>4. \A x \in Requests \ {r} : x \notin W => CarriedOne(x, r, q) BY <2>2 DEF CarriedOne
  <2>5. \A x \in Requests \ {r} : x \in W => CarriedOne(x, r, q)
    <3> SUFFICES ASSUME NEW x \in Requests \ {r}, x \in W PROVE CarriedOne(x, r, q) OBVIOUS
    <3>1. req[x].st = "awaiting" /\ req[x] \in ReqT BY <2>1
    <3>2. CASE q.status = "ok"
      <4>1. req'[x] = [req[x] EXCEPT !.st = "prepared",
                         !.header = IF req[x].kind = "me" \/ j.session = None THEN req[x].header ELSE j.session]
        BY <2>2, <3>2, PreparedForm
      <4> QED BY <3>1, <4>1 DEF CarriedOne, ReqT
    <3>3. CASE q.status # "ok"
      <4>1. req'[x] = [req[x] EXCEPT !.st = "failed"] BY <2>2, <3>3
      <4> QED BY <3>1, <4>1 DEF CarriedOne, ReqT
    <3> QED BY <3>2, <3>3
  <2>6. /\ req'[r].st \in {"done", "failed"} /\ req'[r].kind = req[r].kind /\ req'[r].tab = req[r].tab
        /\ req'[r].status = q.status
    BY <1>0, <2>2 DEF ReqT
  <2> QED BY <2>3, <2>4, <2>5, <2>6 DEF Carried
<1>5. CASE q.tab # None /\ ~Refreshable(q, j) /\ q.kind = "logout" /\ q.status = "ok"
  <2>1. LeavePage(r, q) BY <1>5 DEF Arrive
  <2>2. /\ req'[r] = [q EXCEPT !.st = "done"]
        /\ \A x \in Requests \ {r} :
             \/ req'[x] = req[x]
             \/ req[x].tab = q.tab /\ req[x].st \in {"prepared", "awaiting"} /\ req'[x] = [req[x] EXCEPT !.st = "failed"]
             \/ req[x].tab = q.tab /\ req[x].st \notin {"prepared", "awaiting"} /\ req'[x] = [req[x] EXCEPT !.tab = None]
    BY <2>1 DEF LeavePage
  <2>3. CarriedOne(r, r, q) BY <1>0, <2>2 DEF CarriedOne, ReqT
  <2>4. \A x \in Requests \ {r} : CarriedOne(x, r, q)
    <3> SUFFICES ASSUME NEW x \in Requests \ {r} PROVE CarriedOne(x, r, q) OBVIOUS
    <3>1. req[x] \in ReqT OBVIOUS
    <3>2. req[x].st = "idle" => req[x].tab = None
      <4>1. x \in {Own(x[1]), Refresh(x[1])} /\ x[1] \in Calls BY RequestForms
      <4>2. req[x].st = "idle" => req[x] = Idle BY <4>1 DEF Form, OwnOK, RefreshOK
      <4> QED BY <4>2 DEF Idle
    <3>3. CASE req'[x] = req[x] BY <3>3 DEF CarriedOne
    <3>4. CASE req[x].tab = q.tab /\ req[x].st \in {"prepared", "awaiting"} /\ req'[x] = [req[x] EXCEPT !.st = "failed"]
      BY <3>1, <3>4 DEF CarriedOne, ReqT
    <3>5. CASE req[x].tab = q.tab /\ req[x].st \notin {"prepared", "awaiting"} /\ req'[x] = [req[x] EXCEPT !.tab = None]
      BY <3>1, <3>2, <3>5, <1>5 DEF CarriedOne, ReqT, LeavesPage
    <3> QED BY <2>2, <3>3, <3>4, <3>5
  <2>5. /\ req'[r].st = "done" /\ req'[r].kind = req[r].kind /\ req'[r].tab = req[r].tab
        /\ req'[r].status = q.status
    BY <1>0, <2>2 DEF ReqT
  <2> QED BY <2>3, <2>4, <2>5 DEF Carried
<1>6. CASE q.tab # None /\ ~Refreshable(q, j) /\ q.kind # "refresh" /\ ~(q.kind = "logout" /\ q.status = "ok")
  <2>1. Settle(r, q) BY <1>6 DEF Arrive
  <2>2. /\ req'[r] = [q EXCEPT !.st = IF q.status = "ok" THEN "done" ELSE "failed"]
        /\ \A x \in Requests \ {r} : req'[x] = req[x]
    BY <2>1 DEF Settle
  <2>3. CarriedOne(r, r, q) BY <1>0, <2>2 DEF CarriedOne, ReqT
  <2>4. \A x \in Requests \ {r} : CarriedOne(x, r, q) BY <2>2 DEF CarriedOne
  <2>5. /\ req'[r].st \in {"done", "failed"} /\ req'[r].kind = req[r].kind /\ req'[r].tab = req[r].tab
        /\ req'[r].status = q.status
    BY <1>0, <2>2 DEF ReqT
  <2> QED BY <2>3, <2>4, <2>5 DEF Carried
<1> QED BY <1>2, <1>3, <1>4, <1>5, <1>6

LEMMA ArriveForm ==
  ASSUME TypeOK, Form, NEW r \in Requests, NEW q, NEW j \in JarT, Arriving(r, q), Arrive(r, q, j)
  PROVE  Form'
<1>0. /\ q \in ReqT /\ q.kind = req[r].kind /\ q.tab = req[r].tab /\ q.retry = req[r].retry
      /\ q.st = req[r].st /\ q.st \in {"sent", "answered"}
  BY ArrivingForm DEF Arriving
<1>1. CASE q.tab = None
  <2>1. req' = [req EXCEPT ![r] = [req[r] EXCEPT !.st = "failed"]] /\ UNCHANGED refreshing
    BY <1>1 DEF Arrive, TypeOK
  <2>2. [req[r] EXCEPT !.st = "failed"] \in ReqT BY DEF TypeOK, ReqT, States
  <2> QED BY <1>0, <1>1, <2>1, <2>2, FormSettles DEF TypeOK, ReqT
<1>2. CASE q.tab # None /\ Refreshable(q, j) BY <1>2, FormAwaits DEF Arrive
<1>3. CASE q.tab # None /\ ~Refreshable(q, j) /\ q.kind = "refresh"
  BY <1>3, FormSettlesRefresh DEF Arrive
<1>4. CASE q.tab # None /\ ~Refreshable(q, j) /\ q.kind = "logout" /\ q.status = "ok"
  BY <1>4, FormLeavesPage DEF Arrive
<1>5. CASE q.tab # None /\ ~Refreshable(q, j) /\ q.kind # "refresh" /\ ~(q.kind = "logout" /\ q.status = "ok")
  <2>1. Settle(r, q) BY <1>5 DEF Arrive
  <2> DEFINE n == [q EXCEPT !.st = IF q.status = "ok" THEN "done" ELSE "failed"]
  <2>2. n \in ReqT /\ n.st \in {"done", "failed"} /\ n.kind = q.kind /\ n.tab = q.tab /\ n.retry = q.retry
    BY <1>0 DEF ReqT, States
  <2>3. req' = [req EXCEPT ![r] = n] /\ UNCHANGED refreshing BY <2>1 DEF Settle
  <2> HIDE DEF n
  <2> QED BY <1>0, <1>5, <2>2, <2>3, FormSettles
<1> QED BY <1>1, <1>2, <1>3, <1>4, <1>5

-----------------------------------------------------------------------------
(* Types and form, action by action.                                        *)

LEMMA NobodySpent ==
  ASSUME Form, NEW c \in Calls,
         \/ req[Own(c)].kind = "login" /\ req[Own(c)].st = "sent"
         \/ req[Refresh(c)].st = "holding"
  PROVE  ~Spent(c)
<1>1. OwnOK(c, req[Own(c)]) /\ RefreshOK(c, req[Refresh(c)]) BY DEF Form
<1> QED BY <1>1 DEF OwnOK, RefreshOK, Spent

LEMMA BeginForm ==
  ASSUME TypeOK, Form, NEW c \in Calls, NEW t \in Tabs, NEW k \in Kinds, Begin(c, t, k)
  PROVE  /\ TypeOK' /\ Form'
         /\ \E n \in ReqT :
              /\ req' = [req EXCEPT ![Own(c)] = n]
              /\ n.st = "prepared" /\ n.kind = k /\ n.tab = t /\ ~n.retry
              /\ n.session = None /\ n.sets = None /\ n.status = "ok"
<1> DEFINE i == [Idle EXCEPT !.tab = t, !.kind = k]
           n == Prepared(i, jar)
<1>1. i \in ReqT /\ jar \in JarT BY IdleForm DEF TypeOK
<1>2. i.kind = k /\ i.tab = t /\ i.retry = FALSE /\ i.status = "ok" /\ i.session = None /\ i.sets = None
  BY DEF Idle
<1>3. req[Own(c)].st = "idle" /\ req' = [req EXCEPT ![Own(c)] = n] /\ UNCHANGED refreshing
  BY DEF Begin
<1> HIDE DEF i
<1>4. /\ n \in ReqT /\ n.st = "prepared" /\ n.kind = k /\ n.tab = t /\ n.retry = FALSE
      /\ n.session = None /\ n.sets = None /\ n.status = "ok"
  <2>1. n \in ReqT /\ n = [i EXCEPT !.st = "prepared",
                      !.header = IF i.kind = "me" \/ jar.session = None THEN i.header ELSE jar.session]
    BY <1>1, PreparedForm
  <2> QED BY <1>1, <1>2, <2>1 DEF ReqT
<1> HIDE DEF n
<1>5. TypeOK' BY <1>3, <1>4 DEF TypeOK, Begin
<1>6. /\ req'[Own(c)] = n /\ \A x \in Requests \ {Own(c)} : req'[x] = req[x]
  BY <1>3, RequestForms DEF TypeOK
<1>7. req[Own(c)] = Idle /\ req[Refresh(c)] = Idle /\ req[Refresh(c)].st = "idle"
  <2>1. req[Own(c)] = Idle BY <1>3 DEF Form, OwnOK
  <2>2. req[Own(c)].retry = FALSE BY <2>1 DEF Idle
  <2> QED BY <2>1, <2>2 DEF Form, RefreshOK
<1>8. \A x \in Requests : AnswerOK(req'[x]) BY <1>4, <1>6 DEF AnswerOK, Form
<1>9. \A d \in Calls : OwnOK(d, req[Own(d)])'
  <2> SUFFICES ASSUME NEW d \in Calls PROVE OwnOK(d, req[Own(d)])' OBVIOUS
  <2>1. CASE d = c BY <2>1, <1>4, <1>6 DEF OwnOK
  <2>2. CASE d # c BY <2>2, <1>3, <1>6, RequestForms DEF OwnOK, Form
  <2> QED BY <2>1, <2>2
<1>10. \A d \in Calls : RefreshOK(d, req[Refresh(d)])'
  <2> SUFFICES ASSUME NEW d \in Calls PROVE RefreshOK(d, req[Refresh(d)])' OBVIOUS
  <2>0. RefreshOK(d, req[Refresh(d)]) /\ req'[Refresh(d)] = req[Refresh(d)]
    BY <1>6, RequestForms DEF Form
  <2>1. CASE d = c BY <2>0, <2>1, <1>7, <1>4 DEF RefreshOK, Progress
  <2>2. CASE d # c
    <3>1. req'[Own(d)] = req[Own(d)] BY <2>2, <1>6, RequestForms
    <3> QED BY <2>0, <3>1, <1>3 DEF RefreshOK
  <2> QED BY <2>1, <2>2
<1>11. \A u \in Tabs : TabOK(u)'
  <2> SUFFICES ASSUME NEW u \in Tabs, refreshing[u] # None PROVE TabOK(u)' BY <1>3 DEF TabOK
  <2>1. TabOK(u) /\ refreshing[u] \in Calls BY DEF Form, TypeOK
  <2>2. Own(refreshing[u]) # Own(c) BY <2>1, <1>3 DEF TabOK
  <2> QED BY <2>1, <2>2, <1>3, <1>6, RequestForms DEF TabOK
<1> QED BY <1>3, <1>4, <1>5, <1>8, <1>9, <1>10, <1>11 DEF Form

LEMMA SendForm ==
  ASSUME TypeOK, Form, NEW r \in Requests, Send(r)
  PROVE  TypeOK' /\ Form'
<1> DEFINE n == [req[r] EXCEPT !.st = "sent", !.session = jar.session, !.access = jar.access]
<1>1. req[r] \in ReqT /\ jar.session \in Tokens \cup {None} /\ jar.access \in BOOLEAN
  BY DEF TypeOK, JarT
<1>2. /\ n \in ReqT /\ n.st = "sent" /\ n.kind = req[r].kind /\ n.tab = req[r].tab
      /\ n.retry = req[r].retry /\ n.status = req[r].status
  BY <1>1 DEF ReqT, States
<1>3. req' = [req EXCEPT ![r] = n] /\ UNCHANGED refreshing /\ req[r].st = "prepared"
  BY DEF Send, TypeOK
<1> HIDE DEF n
<1>4. AnswerOK(n) BY <1>2, <1>3 DEF AnswerOK, Form
<1>5. TypeOK' BY <1>2, <1>3 DEF TypeOK, Send
<1> QED BY <1>2, <1>3, <1>4, <1>5, FormMoves DEF Progress

LEMMA AnswerForm ==
  ASSUME TypeOK, Form, NEW r \in Requests, NEW status \in {"ok", "401", "403"},
         NEW sets \in Tokens \cup {None, Clear},
         req[r].st \in {"sent", "holding"}, Answer(r, status, sets), UNCHANGED refreshing,
         \/ req[r].kind = "me" /\ sets = None /\ status \in {"ok", "401"}
         \/ req[r].kind = "post" /\ sets = None
         \/ req[r].kind = "logout" /\ status = "403" /\ sets = None
         \/ req[r].kind = "logout" /\ status = "ok" /\ sets = Clear
         \/ req[r].kind \in {"refresh", "login"} /\ status # "ok" /\ sets = None
         \/ req[r].kind \in {"refresh", "login"} /\ status = "ok" /\ sets \in Tokens
  PROVE  req' \in [Requests -> ReqT] /\ Form'
<1> DEFINE n == [req[r] EXCEPT !.st = "answered", !.status = status, !.sets = sets]
<1>1. req[r] \in ReqT BY DEF TypeOK
<1>2. /\ n \in ReqT /\ n.st = "answered" /\ n.kind = req[r].kind /\ n.tab = req[r].tab
      /\ n.retry = req[r].retry /\ n.status = status /\ n.sets = sets
  BY <1>1 DEF ReqT, States
<1>3. req' = [req EXCEPT ![r] = n] BY DEF Answer, TypeOK
<1> HIDE DEF n
<1>4. AnswerOK(n) BY <1>2, NonesApart DEF AnswerOK
<1> QED BY <1>2, <1>3, <1>4, FormMoves DEF Progress, TypeOK

-----------------------------------------------------------------------------
(* Rows of refresh_tokens.                                                  *)

SpentGrows == \A d \in Calls : Spent(d) => Spent(d)'

LEMMA EnoughStays ==
  ASSUME TypeOK, Enough, SpentGrows, UsedTokens' \subseteq UsedTokens
  PROVE  Enough'
<1> DEFINE S == {d \in Calls : Spent(d)}
           T == {d \in Calls : Spent(d)'}
<1>1. IsFiniteSet(Tokens)
  <2>1. Cardinality(Calls) \in Nat BY ConstantsAssumption, FS_CardinalityType
  <2> QED BY <2>1, FS_Interval DEF Tokens
<1>2. IsFiniteSet(UsedTokens) /\ IsFiniteSet(UsedTokens') /\ Cardinality(UsedTokens') <= Cardinality(UsedTokens)
      /\ Cardinality(UsedTokens) \in Nat /\ Cardinality(UsedTokens') \in Nat
  <2>1. UsedTokens \in SUBSET Tokens BY DEF UsedTokens
  <2>2. IsFiniteSet(UsedTokens) BY <1>1, <2>1, FS_Subset
  <2>3. IsFiniteSet(UsedTokens') /\ Cardinality(UsedTokens') <= Cardinality(UsedTokens)
    BY <2>2, FS_Subset
  <2> QED BY <2>2, <2>3, FS_CardinalityType
<1>3. Cardinality(S) <= Cardinality(T) /\ Cardinality(S) \in Nat /\ Cardinality(T) \in Nat
  <2>1. IsFiniteSet(S) /\ IsFiniteSet(T)
    BY ConstantsAssumption, FS_Subset
  <2>2. S \in SUBSET T BY DEF SpentGrows
  <2> HIDE DEF S, T
  <2> QED BY <2>1, <2>2, FS_Subset, FS_CardinalityType
<1>4. Cardinality(UsedTokens) <= Cardinality(S) + 1 BY DEF Enough
<1> HIDE DEF S, T
<1>5. Cardinality(UsedTokens') <= Cardinality(T) + 1 BY <1>2, <1>3, <1>4
<1> QED BY <1>5 DEF Enough, T

LEMMA EnoughIssued ==
  ASSUME TypeOK, Enough, SpentGrows, NEW c \in Calls, ~Spent(c), Spent(c)',
         NEW n \in Tokens, UsedTokens' \subseteq UsedTokens \cup {n}
  PROVE  Enough'
<1> DEFINE S == {d \in Calls : Spent(d)}
           T == {d \in Calls : Spent(d)'}
<1>1. IsFiniteSet(Tokens)
  <2>1. Cardinality(Calls) \in Nat BY ConstantsAssumption, FS_CardinalityType
  <2> QED BY <2>1, FS_Interval DEF Tokens
<1>2. /\ Cardinality(UsedTokens') <= Cardinality(UsedTokens) + 1
      /\ Cardinality(UsedTokens) \in Nat /\ Cardinality(UsedTokens') \in Nat
  <2>1. UsedTokens \in SUBSET Tokens BY DEF UsedTokens
  <2>2. IsFiniteSet(UsedTokens) BY <1>1, <2>1, FS_Subset
  <2>3. /\ IsFiniteSet(UsedTokens \cup {n})
        /\ Cardinality(UsedTokens \cup {n}) = IF n \in UsedTokens THEN Cardinality(UsedTokens) ELSE Cardinality(UsedTokens) + 1
    BY <2>2, FS_AddElement
  <2>4. IsFiniteSet(UsedTokens') /\ Cardinality(UsedTokens') <= Cardinality(UsedTokens \cup {n})
    BY <2>3, FS_Subset
  <2>5. /\ Cardinality(UsedTokens) \in Nat /\ Cardinality(UsedTokens') \in Nat
        /\ Cardinality(UsedTokens \cup {n}) \in Nat
    BY <2>2, <2>3, <2>4, FS_CardinalityType
  <2> QED BY <2>3, <2>4, <2>5
<1>3. Cardinality(S) + 1 <= Cardinality(T) /\ Cardinality(S) \in Nat /\ Cardinality(T) \in Nat
  <2>1. IsFiniteSet(S) /\ IsFiniteSet(T)
    BY ConstantsAssumption, FS_Subset
  <2>2. S \cup {c} \in SUBSET T /\ c \notin S BY DEF SpentGrows
  <2> HIDE DEF S, T
  <2>3. IsFiniteSet(S \cup {c}) /\ Cardinality(S \cup {c}) = Cardinality(S) + 1 BY <2>1, <2>2, FS_AddElement
  <2>4. Cardinality(S \cup {c}) <= Cardinality(T) BY <2>1, <2>2, FS_Subset
  <2> QED BY <2>1, <2>3, <2>4, FS_CardinalityType
<1>4. Cardinality(UsedTokens) <= Cardinality(S) + 1 BY DEF Enough
<1> HIDE DEF S, T
<1>5. Cardinality(UsedTokens') <= Cardinality(T) + 1 BY <1>2, <1>3, <1>4
<1> QED BY <1>5 DEF Enough, T

\* A step that neither issues a token nor touches a lock.
LEMMA RowsStay ==
  ASSUME TypeOK, Rows, UNCHANGED <<token, lock>>,
         \A x \in Requests : req'[x].st = "holding" => req[x].st = "holding" /\ req'[x].session = req[x].session
  PROVE  Rows' /\ UsedTokens' = UsedTokens
BY DEF Rows, Holds, RotatedOnce, UsedTokens

\* A request moves on.
LEMMA SpentMoves ==
  ASSUME TypeOK, Form, NEW r \in Requests, NEW n \in ReqT, req' = [req EXCEPT ![r] = n],
         req[r].st \in {"idle", "prepared", "sent", "holding"}
  PROVE  SpentGrows
BY RequestForms DEF SpentGrows, Spent, TypeOK

LEMMA DeliverCore ==
  ASSUME Core, NEW r \in Requests, NEW q, NEW j \in JarT, Arriving(r, q), Arrive(r, q, j),
         UNCHANGED <<token, lock>>, TypeOK'
  PROVE  Core'
<1> USE DEF Core
<1>1. Form' BY ArriveForm
<1>2. Carried(r, q) BY ArriveCarries
<1>3. \A x \in Requests : req'[x].st = "holding" => req[x].st = "holding" /\ req'[x].session = req[x].session
  BY <1>2 DEF Carried, CarriedOne, Flying
<1>4. SpentGrows
  <2> SUFFICES ASSUME NEW d \in Calls, Spent(d) PROVE Spent(d)' BY DEF SpentGrows
  <2>1. Own(d) \in Requests /\ Refresh(d) \in Requests /\ CarriedOne(Own(d), r, q) /\ CarriedOne(Refresh(d), r, q)
    BY <1>2, RequestForms DEF Carried
  <2>2. CASE req[Own(d)].kind = "login" /\ req[Own(d)].st \in {"answered", "done", "failed"}
    BY <2>1, <2>2, <1>2 DEF Spent, Carried, CarriedOne, Flying
  <2>3. CASE req[Refresh(d)].st \in {"answered", "done", "failed"}
    <3>1. req[Refresh(d)].kind = "refresh" BY <2>3 DEF Form, RefreshOK
    <3> QED BY <2>1, <2>3, <3>1, <1>2 DEF Spent, Carried, CarriedOne, Flying
  <2> QED BY <2>2, <2>3 DEF Spent
<1>5. Rows' /\ UsedTokens' = UsedTokens BY <1>3, RowsStay
<1> QED BY <1>1, <1>4, <1>5, EnoughStays

\* The steps of the server that touch no row, and one that releases a row.
AnsweredPlainly(r) ==
  /\ UNCHANGED <<token, active, jar, page, refreshing>>
  /\ \/ req[r].st = "sent" /\ UNCHANGED lock
     \/ req[r].st = "holding" /\ lock' = [lock EXCEPT ![req[r].session] = None]
  /\ \E status \in {"ok", "401", "403"} :
       /\ Answer(r, status, None)
       /\ req[r].kind \notin {"me", "post"} => status # "ok"
       /\ req[r].kind = "me" => status # "403"
       /\ req[r].kind = "logout" => status = "403"
       /\ req[r].kind # "me" /\ CsrfHolds(req[r]) => status # "403"
       /\ status = "401" => ~req[r].access \/ ~active \/ req[r].kind \in {"login", "refresh"}
       /\ status = "401" /\ req[r].kind = "refresh" => ~active \/ token[req[r].session].st # "live"
Selected(r) ==
  /\ UNCHANGED <<token, active, jar, page, refreshing>>
  /\ req[r].st = "sent" /\ req[r].kind = "refresh" /\ CsrfHolds(req[r])
  /\ token[req[r].session].st = "live" /\ lock[req[r].session] = None
  /\ lock' = [lock EXCEPT ![req[r].session] = r]
  /\ req' = [req EXCEPT ![r].st = "holding"]
LoggedIn(r) ==
  /\ UNCHANGED <<lock, active, jar, page, refreshing>>
  /\ req[r].st = "sent" /\ req[r].kind = "login" /\ active
  /\ token' = Issued(token, None) /\ Answer(r, "ok", NextToken)
Exchanged(r) ==
  /\ UNCHANGED <<active, jar, page, refreshing>>
  /\ req[r].st = "holding" /\ active
  /\ lock' = [lock EXCEPT ![req[r].session] = None]
  /\ token' = Rotated(req[r].session) /\ Answer(r, "ok", NextToken)

LEMMA ServeCases ==
  ASSUME TypeOK, Form, NEW r \in Requests, Serve(r)
  PROVE  AnsweredPlainly(r) \/ Selected(r) \/ LoggedIn(r) \/ Exchanged(r) \/ ServeLogout(r)
<1>0. /\ req[r].st = "holding" => req[r].kind = "refresh"
      /\ req[r].st = "sent" /\ req[r].kind = "refresh" => \E c \in Calls : r = Refresh(c)
  BY RequestForms DEF Form, OwnOK, RefreshOK, Kinds
<1>1. CASE RefuseCsrf(r) BY <1>1 DEF RefuseCsrf, CsrfHolds, AnsweredPlainly
<1>2. CASE ServeCall(r) BY <1>2 DEF ServeCall, AnsweredPlainly
<1>3. CASE RefreshSelect(r) /\ token[req[r].session].st = "live"
  BY <1>3 DEF RefreshSelect, Selected, Locks
<1>4. CASE RefreshSelect(r) /\ token[req[r].session].st # "live"
  BY <1>4 DEF RefreshSelect, AnsweredPlainly
<1>5. CASE RefreshCommit(r) /\ active BY <1>5 DEF RefreshCommit, Exchanged
<1>6. CASE RefreshCommit(r) /\ ~active BY <1>6, <1>0 DEF RefreshCommit, AnsweredPlainly
<1>7. ASSUME NEW fits \in BOOLEAN, ServeLogin(r, fits), active, fits PROVE LoggedIn(r)
  BY <1>7 DEF ServeLogin, LoggedIn
<1>8. ASSUME NEW fits \in BOOLEAN, ServeLogin(r, fits), ~(active /\ fits) PROVE AnsweredPlainly(r)
  BY <1>8 DEF ServeLogin, AnsweredPlainly
<1> QED BY <1>1, <1>2, <1>3, <1>4, <1>5, <1>6, <1>7, <1>8 DEF Serve

LEMMA CsrfToken ==
  ASSUME TypeOK, NEW r \in Requests, req[r].kind \notin {"me", "login"}, CsrfHolds(req[r])
  PROVE  req[r].session \in Tokens /\ req[r].header = req[r].session
BY DEF CsrfHolds, TypeOK, ReqT

LEMMA AnsweredRequest ==
  ASSUME TypeOK, NEW r \in Requests, NEW status, NEW sets, Answer(r, status, sets)
  PROVE  /\ req' = [req EXCEPT ![r] = [req[r] EXCEPT !.st = "answered", !.status = status, !.sets = sets]]
         /\ req'[r] = [req[r] EXCEPT !.st = "answered", !.status = status, !.sets = sets]
         /\ req' = [req EXCEPT ![r] = req'[r]]
         /\ \A x \in Requests \ {r} : req'[x] = req[x]
         /\ req'[r].st = "answered" /\ req'[r].status = status /\ req'[r].sets = sets
         /\ req'[r].kind = req[r].kind /\ req'[r].tab = req[r].tab /\ req'[r].session = req[r].session
         /\ req'[r].header = req[r].header /\ req'[r].access = req[r].access /\ req'[r].retry = req[r].retry
<1>1. req[r] \in ReqT BY DEF TypeOK
<1>2. req' = [req EXCEPT ![r] = [req[r] EXCEPT !.st = "answered", !.status = status, !.sets = sets]]
  BY DEF Answer, TypeOK
<1> QED BY <1>1, <1>2 DEF TypeOK, ReqT

LEMMA AnsweredMoves ==
  ASSUME TypeOK, NEW r \in Requests, NEW status, NEW sets, Answer(r, status, sets)
  PROVE  /\ \A x \in Requests \ {r} : req'[x] = req[x]
         /\ req'[r].st = "answered" /\ req'[r].status = status /\ req'[r].sets = sets
         /\ req'[r].kind = req[r].kind /\ req'[r].tab = req[r].tab /\ req'[r].session = req[r].session
         /\ req'[r].header = req[r].header /\ req'[r].access = req[r].access /\ req'[r].retry = req[r].retry
<1>1. req[r] \in ReqT BY DEF TypeOK
<1>2. req' = [req EXCEPT ![r] = [req[r] EXCEPT !.st = "answered", !.status = status, !.sets = sets]]
  BY DEF Answer, TypeOK
<1> QED BY <1>1, <1>2 DEF TypeOK, ReqT

LEMMA AnsweredCore ==
  ASSUME Core, NEW r \in Requests, AnsweredPlainly(r)
  PROVE  Core'
<1> USE DEF Core
<1>1. PICK status \in {"ok", "401", "403"} :
        /\ Answer(r, status, None)
        /\ req[r].kind \notin {"me", "post"} => status # "ok"
        /\ req[r].kind = "me" => status # "403"
        /\ req[r].kind = "logout" => status = "403"
  BY DEF AnsweredPlainly
<1>2. /\ req'[r].st = "answered" /\ \A x \in Requests \ {r} : req'[x] = req[x]
      /\ req[r].st \in {"sent", "holding"}
  BY <1>1, AnsweredRequest DEF AnsweredPlainly
<1>3. req[r] \in ReqT BY DEF TypeOK
<1>4. req' \in [Requests -> ReqT] /\ Form'
  BY <1>1, <1>2, <1>3, AnswerForm DEF AnsweredPlainly, ReqT, Kinds
<1>5. TypeOK' BY <1>4 DEF TypeOK, AnsweredPlainly
<1>6. SpentGrows
  <2>1. req'[r] \in ReqT /\ req' = [req EXCEPT ![r] = req'[r]]
    BY <1>1, <1>4, AnsweredRequest
  <2> QED BY <1>2, <2>1, SpentMoves
<1>7. Rows' /\ UsedTokens' = UsedTokens
  <2>1. UNCHANGED token /\ UsedTokens' = UsedTokens BY DEF AnsweredPlainly, UsedTokens
  <2>2. \A x \in Requests : req'[x].st = "holding" => Holds(x)'
    <3> SUFFICES ASSUME NEW x \in Requests, req'[x].st = "holding" PROVE Holds(x)' OBVIOUS
    <3>1. x # r /\ req'[x] = req[x] BY <1>2
    <3>2. Holds(x) /\ req[x].session \in Tokens BY <3>1 DEF Rows, Holds, TypeOK, ReqT
    <3>3. CASE req[r].st = "holding"
      <4>1. Holds(r) BY <3>3 DEF Rows
      <4>2. req[r].session # req[x].session BY <4>1, <3>1, <3>2 DEF Holds
      <4>3. lock'[req[x].session] = lock[req[x].session]
        BY <3>2, <3>3, <4>2 DEF AnsweredPlainly, TypeOK
      <4> QED BY <3>1, <3>2, <4>3, <2>1 DEF Holds
    <3>4. CASE req[r].st = "sent" BY <3>1, <3>2, <3>4, <2>1 DEF Holds, AnsweredPlainly
    <3> QED BY <3>3, <3>4, <1>2
  <2> QED BY <2>1, <2>2 DEF Rows, RotatedOnce
<1> QED BY <1>4, <1>5, <1>6, <1>7, EnoughStays

LEMMA SelectedCore ==
  ASSUME Core, NEW r \in Requests, Selected(r)
  PROVE  Core'
<1> USE DEF Core
<1> DEFINE n == [req[r] EXCEPT !.st = "holding"]
<1>1. req[r] \in ReqT /\ req[r].session \in Tokens /\ req[r].st = "sent"
  BY CsrfToken DEF TypeOK, Selected
<1>2. /\ n \in ReqT /\ n.st = "holding" /\ n.kind = "refresh" /\ n.tab = req[r].tab
      /\ n.retry = req[r].retry /\ n.status = req[r].status /\ n.session = req[r].session
  BY <1>1 DEF ReqT, States, Selected
<1>3. req' = [req EXCEPT ![r] = n] /\ req'[r] = n /\ \A x \in Requests \ {r} : req'[x] = req[x]
  BY DEF Selected, TypeOK
<1> HIDE DEF n
<1>4. AnswerOK(n) BY <1>1, <1>2 DEF AnswerOK, Form
<1>5. Form' BY <1>1, <1>2, <1>3, <1>4, FormMoves DEF Progress, Selected
<1>6. TypeOK' BY <1>1, <1>2, <1>3 DEF TypeOK, Selected
<1>7. SpentGrows BY <1>1, <1>2, <1>3, SpentMoves
<1>8. UsedTokens' = UsedTokens /\ UNCHANGED token BY DEF Selected, UsedTokens
<1>9. \A x \in Requests : req'[x].st = "holding" => Holds(x)'
  <2> SUFFICES ASSUME NEW x \in Requests, req'[x].st = "holding" PROVE Holds(x)' OBVIOUS
  <2>1. CASE x = r
    <3>1. lock'[req[r].session] = r BY <1>1 DEF Selected, TypeOK
    <3> QED BY <2>1, <3>1, <1>1, <1>2, <1>3, <1>8, NonesApart DEF Holds, Selected
  <2>2. CASE x # r
    <3>1. Holds(x) /\ req[x].session \in Tokens /\ req'[x] = req[x] BY <2>2, <1>3 DEF Rows, Holds, TypeOK, ReqT
    <3>2. req[x].session # req[r].session BY <3>1, NonesApart DEF Holds, Selected
    <3>3. lock'[req[x].session] = lock[req[x].session] BY <3>1, <3>2 DEF Selected, TypeOK
    <3> QED BY <3>1, <3>3, <1>8 DEF Holds
  <2> QED BY <2>1, <2>2
<1>10. Rows' BY <1>8, <1>9 DEF Rows, RotatedOnce
<1> QED BY <1>5, <1>6, <1>7, <1>8, <1>10, EnoughStays

LEMMA LoggedInCore ==
  ASSUME Core, NEW r \in Requests, LoggedIn(r)
  PROVE  Core' /\ NextToken \in Tokens /\ token[NextToken].st = "unused"
<1> USE DEF Core
<1>1. PICK c \in Calls : r = Own(c) BY RequestForms DEF Form, RefreshOK, LoggedIn
<1>2. ~Spent(c) BY <1>1, NobodySpent DEF LoggedIn
<1> DEFINE n == NextToken
<1>3. n \in Tokens /\ token[n].st = "unused" BY <1>2, TokenLeft
<1>4. token' = [token EXCEPT ![n] = [st |-> "live", parent |-> None]] /\ Answer(r, "ok", n)
  BY DEF LoggedIn, Issued
<1> HIDE DEF n
<1>5. req' \in [Requests -> ReqT] /\ Form'
  BY <1>3, <1>4, AnswerForm DEF LoggedIn
<1>6. TypeOK' BY <1>3, <1>4, <1>5 DEF TypeOK, TokenT, LoggedIn
<1>7. /\ req'[r].st = "answered" /\ req'[r].kind = "login" /\ \A x \in Requests \ {r} : req'[x] = req[x]
  BY <1>4, AnsweredRequest DEF LoggedIn
<1>8. SpentGrows
  <2>1. req'[r] \in ReqT /\ req' = [req EXCEPT ![r] = req'[r]]
    BY <1>4, <1>5, AnsweredRequest
  <2> QED BY <2>1, SpentMoves DEF LoggedIn
<1>9. Spent(c)' BY <1>1, <1>7 DEF Spent
<1>10. UsedTokens' \subseteq UsedTokens \cup {n} BY <1>3, <1>4 DEF UsedTokens, TypeOK
<1>11. Rows'
  <2>1. \A t \in Tokens \ {n} : token'[t] = token[t] BY <1>4 DEF TypeOK
  <2>2. token'[n].st = "live" /\ token'[n].parent = None BY <1>3, <1>4 DEF TypeOK
  <2>3. \A x \in Requests : req'[x].st = "holding" => Holds(x)'
    <3> SUFFICES ASSUME NEW x \in Requests, req'[x].st = "holding" PROVE Holds(x)' OBVIOUS
    <3>1. req'[x] = req[x] /\ Holds(x) BY <1>7 DEF Rows
    <3>2. req[x].session \in Tokens BY <3>1 DEF Holds, TypeOK, ReqT
    <3>3. req[x].session # n BY <3>1, <1>3 DEF Holds
    <3> QED BY <3>1, <3>2, <3>3, <2>1 DEF Holds, LoggedIn
  <2>4. \A t \in Tokens : token'[t].st = "unused" => token'[t].parent = None
    BY <2>1, <2>2 DEF Rows
  <2>5. RotatedOnce'
    <3> SUFFICES ASSUME NEW t \in Tokens, NEW u \in Tokens, token'[t].parent # None
                 PROVE  /\ token'[token'[t].parent].st = "revoked"
                        /\ t # u => token'[t].parent # token'[u].parent
      BY DEF RotatedOnce
    <3>1. t # n /\ token'[t] = token[t] /\ token[t].parent \in Tokens
      BY <2>1, <2>2 DEF TypeOK, TokenT
    <3>2. token[token[t].parent].st = "revoked" /\ (t # u => token[t].parent # token[u].parent)
      BY <3>1 DEF Rows, RotatedOnce
    <3>3. token[t].parent # n BY <3>2, <1>3
    <3> QED BY <3>1, <3>2, <3>3, <2>1, <2>2
  <2> QED BY <2>3, <2>4, <2>5 DEF Rows
<1> QED BY <1>2, <1>3, <1>5, <1>6, <1>8, <1>9, <1>10, <1>11, EnoughIssued DEF n

LEMMA ExchangedCore ==
  ASSUME Core, NEW r \in Requests, Exchanged(r)
  PROVE  /\ Core' /\ NextToken \in Tokens /\ token[NextToken].st = "unused"
         /\ req[r].session \in Tokens /\ token[req[r].session].st = "live"
         /\ token' = [token EXCEPT ![NextToken] = [st |-> "live", parent |-> req[r].session],
                                    ![req[r].session].st = "revoked"]
<1> USE DEF Core
<1>0. Holds(r) /\ req[r].kind = "refresh"
  BY RequestForms DEF Rows, Exchanged, Form, OwnOK, RefreshOK
<1>1. PICK c \in Calls : r = Refresh(c) BY RequestForms DEF Form, OwnOK, Exchanged
<1>2. ~Spent(c) BY <1>1, NobodySpent DEF Exchanged
<1> DEFINE n == NextToken
           s == req[r].session
<1>3. n \in Tokens /\ token[n].st = "unused" BY <1>2, TokenLeft
<1>4. s \in Tokens /\ token[s].st = "live" /\ lock[s] = r /\ s # n
  BY <1>0, <1>3 DEF Holds, TypeOK, ReqT
<1>5. /\ token' = [token EXCEPT ![n] = [st |-> "live", parent |-> s], ![s].st = "revoked"]
      /\ Answer(r, "ok", n) /\ lock' = [lock EXCEPT ![s] = None]
  BY DEF Exchanged, Rotated, Issued
<1> HIDE DEF n, s
<1>6. req' \in [Requests -> ReqT] /\ Form'
  BY <1>0, <1>3, <1>5, AnswerForm DEF Exchanged
<1>a. token \in [Tokens -> TokenT] /\ token[s] \in TokenT BY <1>4 DEF TypeOK
<1>b. /\ token'[s] = [token[s] EXCEPT !.st = "revoked"]
      /\ token'[n] = [st |-> "live", parent |-> s]
      /\ \A t \in Tokens \ {n, s} : token'[t] = token[t]
      /\ DOMAIN token' = Tokens
  BY <1>a, <1>3, <1>4, <1>5
<1>c. token'[s].st = "revoked" /\ token'[s].parent = token[s].parent /\ token'[s] \in TokenT
  BY <1>a, <1>b DEF TokenT
<1>7. TypeOK'
  <2>1. token' \in [Tokens -> TokenT] BY <1>a, <1>3, <1>4, <1>5, <1>c DEF TokenT
  <2> QED BY <2>1, <1>5, <1>6 DEF TypeOK, Exchanged
<1>8. /\ req'[r].st = "answered" /\ req'[r].kind = "refresh" /\ \A x \in Requests \ {r} : req'[x] = req[x]
  BY <1>0, <1>5, AnsweredRequest
<1>9. SpentGrows
  <2>1. req'[r] \in ReqT /\ req' = [req EXCEPT ![r] = req'[r]]
    BY <1>5, <1>6, AnsweredRequest
  <2> QED BY <2>1, SpentMoves DEF Exchanged
<1>10. Spent(c)' BY <1>1, <1>8 DEF Spent
<1>11. UsedTokens' \subseteq UsedTokens \cup {n} BY <1>3, <1>4, <1>b DEF UsedTokens
<1>12. Rows'
  <2>1. \A x \in Requests : req'[x].st = "holding" => Holds(x)'
    <3> SUFFICES ASSUME NEW x \in Requests, req'[x].st = "holding" PROVE Holds(x)' OBVIOUS
    <3>1. x # r /\ req'[x] = req[x] /\ Holds(x) BY <1>8 DEF Rows
    <3>2. req[x].session \in Tokens /\ req[x].session # s /\ req[x].session # n
      BY <3>1, <1>3, <1>4 DEF Holds, TypeOK, ReqT
    <3>3. lock'[req[x].session] = lock[req[x].session] BY <3>2, <1>5 DEF TypeOK
    <3> QED BY <3>1, <3>2, <3>3, <1>b DEF Holds
  <2>2. \A t \in Tokens : token'[t].st = "unused" => token'[t].parent = None
    BY <1>b, <1>c DEF Rows, TokenT
  <2>3. \A t \in Tokens : token[t].parent # s
    BY <1>4, NonesApart DEF Rows, RotatedOnce
  <2>4. \A t \in Tokens \ {n} : token'[t].parent = token[t].parent BY <1>b, <1>c
  <2>5. RotatedOnce'
    <3> SUFFICES ASSUME NEW t \in Tokens, NEW u \in Tokens, token'[t].parent # None
                 PROVE  /\ token'[token'[t].parent].st = "revoked"
                        /\ t # u => token'[t].parent # token'[u].parent
      BY DEF RotatedOnce
    <3>1. CASE t = n
      <4>1. token'[t].parent = s BY <3>1, <1>b
      <4>2. u # t => token'[u].parent # s BY <3>1, <2>3, <2>4
      <4> QED BY <4>1, <4>2, <1>c
    <3>2. CASE t # n
      <4>1. token'[t].parent = token[t].parent /\ token[t].parent \in Tokens BY <3>2, <2>4 DEF TypeOK, TokenT
      <4>2. token[token[t].parent].st = "revoked" BY <4>1, NonesApart DEF Rows, RotatedOnce
      <4>3. token'[token[t].parent].st = "revoked"
        BY <4>1, <4>2, <1>3, <1>b, <1>c
      <4>4. CASE u = n BY <4>1, <4>3, <4>4, <2>3, <1>b
      <4>5. CASE u # n
        <5>1. t # u => token[t].parent # token[u].parent BY <4>1, NonesApart DEF Rows, RotatedOnce
        <5> QED BY <4>1, <4>3, <4>5, <5>1, <2>4
      <4> QED BY <4>4, <4>5
    <3> QED BY <3>1, <3>2
  <2> QED BY <2>1, <2>2, <2>5 DEF Rows
<1>13. Enough' BY <1>2, <1>3, <1>9, <1>10, <1>11, EnoughIssued
<1> QED BY <1>3, <1>4, <1>5, <1>6, <1>7, <1>12, <1>13 DEF n, s

LEMMA LogoutCore ==
  ASSUME Core, NEW r \in Requests, ServeLogout(r)
  PROVE  /\ Core' /\ req[r].session \in Tokens
         /\ \A t \in Tokens : /\ t # req[r].session => token'[t] = token[t]
                              /\ token'[t].st \in {token[t].st, "revoked"}
                              /\ token'[t].st # token[t].st => token[t].st = "live"
         /\ token'[req[r].session].st # "live"
<1> USE DEF Core
<1> DEFINE s == req[r].session
<1>1. s \in Tokens BY CsrfToken DEF ServeLogout
<1>2. /\ token' = IF token[s].st = "live" THEN [token EXCEPT ![s].st = "revoked"] ELSE token
      /\ lock[s] = None /\ Answer(r, "ok", Clear) /\ UNCHANGED <<lock, active, jar, page, refreshing>>
  BY DEF ServeLogout
<1> HIDE DEF s
<1>3. req' \in [Requests -> ReqT] /\ Form'
  BY <1>2, AnswerForm DEF ServeLogout
<1>a. token[s] \in TokenT BY <1>1 DEF TypeOK
<1>4. /\ token' \in [Tokens -> TokenT]
      /\ \A t \in Tokens : /\ t # s => token'[t] = token[t]
                           /\ token'[t].st \in {token[t].st, "revoked"}
                           /\ token'[t].st # token[t].st => token[t].st = "live"
                           /\ token'[t].parent = token[t].parent
                           /\ token'[t].st = "unused" <=> token[t].st = "unused"
                           /\ token[t].st = "revoked" => token'[t].st = "revoked"
      /\ token'[s].st # "live"
  <2>1. CASE token[s].st = "live"
    <3>1. token' = [token EXCEPT ![s] = [token[s] EXCEPT !.st = "revoked"]] BY <2>1, <1>2 DEF TypeOK
    <3>2. [token[s] EXCEPT !.st = "revoked"] \in TokenT /\ [token[s] EXCEPT !.st = "revoked"].parent = token[s].parent
          /\ [token[s] EXCEPT !.st = "revoked"].st = "revoked"
      BY <1>a DEF TokenT
    <3> QED BY <2>1, <3>1, <3>2, <1>1 DEF TypeOK
  <2>2. CASE token[s].st # "live" BY <2>2, <1>2 DEF TypeOK
  <2> QED BY <2>1, <2>2
<1>5. TypeOK' BY <1>2, <1>3, <1>4 DEF TypeOK
<1>6. /\ req'[r].st = "answered" /\ \A x \in Requests \ {r} : req'[x] = req[x]
  BY <1>2, AnsweredRequest
<1>7. SpentGrows
  <2>1. req'[r] \in ReqT /\ req' = [req EXCEPT ![r] = req'[r]] BY <1>2, <1>3, AnsweredRequest
  <2> QED BY <2>1, SpentMoves DEF ServeLogout
<1>8. UsedTokens' \subseteq UsedTokens BY <1>4 DEF UsedTokens
<1>9. Rows'
  <2>1. \A x \in Requests : req'[x].st = "holding" => Holds(x)'
    <3> SUFFICES ASSUME NEW x \in Requests, req'[x].st = "holding" PROVE Holds(x)' OBVIOUS
    <3>1. x # r /\ req'[x] = req[x] /\ Holds(x) BY <1>6 DEF Rows
    <3>2. req[x].session \in Tokens /\ req[x].session # s
      BY <3>1, <1>2, NonesApart DEF Holds, TypeOK, ReqT
    <3> QED BY <3>1, <3>2, <1>2, <1>4 DEF Holds
  <2>2. \A t \in Tokens : token'[t].st = "unused" => token'[t].parent = None
    BY <1>4 DEF Rows
  <2>3. RotatedOnce'
    <3> SUFFICES ASSUME NEW t \in Tokens, NEW u \in Tokens, token[t].parent # None
                 PROVE  /\ token'[token[t].parent].st = "revoked"
                        /\ t # u => token[t].parent # token[u].parent
      BY <1>4 DEF RotatedOnce
    <3>1. token[t].parent \in Tokens BY DEF TypeOK, TokenT
    <3>2. token[token[t].parent].st = "revoked" /\ (t # u => token[t].parent # token[u].parent)
      BY DEF Rows, RotatedOnce
    <3> QED BY <3>1, <3>2, <1>4
  <2> QED BY <2>1, <2>2, <2>3 DEF Rows
<1> QED BY <1>1, <1>3, <1>4, <1>5, <1>7, <1>8, <1>9, EnoughStays DEF s

LEMMA ExpiredCore ==
  ASSUME Core, NEW t \in Tokens, SessionExpires(t)
  PROVE  /\ Core' /\ token'[t].st = "expired" /\ \A u \in Tokens \ {t} : token'[u] = token[u]
<1> USE DEF Core
<1>1. token' = [token EXCEPT ![t] = [token[t] EXCEPT !.st = "expired"]] /\ token[t].st = "live"
  BY DEF SessionExpires, TypeOK
<1>2. token[t] \in TokenT /\ None \in Tokens \cup {None} BY DEF TypeOK
<1>3. /\ token' \in [Tokens -> TokenT]
      /\ token'[t].st = "expired" /\ token'[t].parent = token[t].parent
      /\ \A u \in Tokens \ {t} : token'[u] = token[u]
  <2>1. /\ [token[t] EXCEPT !.st = "expired"] \in TokenT
        /\ [token[t] EXCEPT !.st = "expired"].st = "expired"
        /\ [token[t] EXCEPT !.st = "expired"].parent = token[t].parent
    BY <1>2 DEF TokenT
  <2> QED BY <2>1, <1>1 DEF TypeOK
<1>4. jar' \in JarT BY DEF SessionExpires, TypeOK, JarT
<1>5. TypeOK' BY <1>3, <1>4 DEF TypeOK, SessionExpires
<1>6. UNCHANGED <<req, refreshing, lock>> BY DEF SessionExpires
<1>7. Form' BY <1>6 DEF Form, OwnOK, RefreshOK, AnswerOK, TabOK
<1>8. SpentGrows BY <1>6 DEF SpentGrows, Spent
<1>9. UsedTokens' \subseteq UsedTokens BY <1>1, <1>3 DEF UsedTokens
<1>10. \A x \in Requests : req[x].st # "holding" BY DEF SessionExpires, InFlight
<1>11. \A u \in Tokens : token'[u].parent = token[u].parent BY <1>3
<1>12. RotatedOnce'
  <2> SUFFICES ASSUME NEW u \in Tokens, NEW v \in Tokens, token[u].parent # None
               PROVE  /\ token'[token[u].parent].st = "revoked"
                      /\ u # v => token[u].parent # token[v].parent
    BY <1>11 DEF RotatedOnce
  <2>1. token[u].parent \in Tokens BY DEF TypeOK, TokenT
  <2>2. token[token[u].parent].st = "revoked" /\ (u # v => token[u].parent # token[v].parent)
    BY DEF Rows, RotatedOnce
  <2> QED BY <2>1, <2>2, <1>1, <1>3
<1>13. Rows' BY <1>1, <1>3, <1>6, <1>10, <1>12 DEF Rows
<1> QED BY <1>3, <1>5, <1>7, <1>8, <1>9, <1>13, EnoughStays

\* Steps that leave requests and rows alone.
LEMMA AsideCore ==
  ASSUME Core, TypeOK', UNCHANGED <<token, lock, refreshing, req>>
  PROVE  Core'
<1>1. Form' BY DEF Core, Form, OwnOK, RefreshOK, AnswerOK, TabOK
<1>2. Rows' BY DEF Core, Rows, Holds, RotatedOnce
<1>3. Enough' BY DEF Core, Enough, UsedTokens, Spent
<1> QED BY <1>1, <1>2, <1>3 DEF Core

LEMMA BeginCore ==
  ASSUME Core, NEW c \in Calls, NEW t \in Tabs, NEW k \in Kinds, Begin(c, t, k)
  PROVE  Core'
<1>1. PICK n \in ReqT : req' = [req EXCEPT ![Own(c)] = n] /\ n.st = "prepared"
  BY BeginForm DEF Core
<1>2. TypeOK' /\ Form' BY BeginForm DEF Core
<1>3. req[Own(c)].st = "idle" /\ UNCHANGED <<token, lock>> BY DEF Begin
<1>4. SpentGrows BY <1>1, <1>3, RequestForms, SpentMoves DEF Core
<1>5. Rows' /\ UsedTokens' = UsedTokens
  <2>1. \A x \in Requests : req'[x].st = "holding" => req[x].st = "holding" /\ req'[x].session = req[x].session
    BY <1>1 DEF Core, TypeOK
  <2> QED BY <2>1, <1>3, RowsStay DEF Core
<1> QED BY <1>2, <1>4, <1>5, EnoughStays DEF Core

LEMMA SendCore ==
  ASSUME Core, NEW r \in Requests, Send(r)
  PROVE  Core'
<1> DEFINE n == [req[r] EXCEPT !.st = "sent", !.session = jar.session, !.access = jar.access]
<1>1. TypeOK' /\ Form' BY SendForm DEF Core
<1>2. req' = [req EXCEPT ![r] = n] /\ req[r].st = "prepared" /\ UNCHANGED <<token, lock>>
  BY DEF Send, Core, TypeOK
<1>a. req[r] \in ReqT /\ jar.session \in Tokens \cup {None} /\ jar.access \in BOOLEAN
  BY DEF Core, TypeOK, JarT
<1>3. n.st = "sent" /\ n \in ReqT BY <1>a DEF ReqT, States
<1> HIDE DEF n
<1>4. SpentGrows BY <1>2, <1>3, SpentMoves DEF Core
<1>5. Rows' /\ UsedTokens' = UsedTokens
  <2>1. \A x \in Requests : req'[x].st = "holding" => req[x].st = "holding" /\ req'[x].session = req[x].session
    BY <1>2, <1>3 DEF Core, TypeOK
  <2> QED BY <2>1, <1>2, RowsStay DEF Core
<1> QED BY <1>1, <1>4, <1>5, EnoughStays DEF Core

\* Deliver and Lose as the scripts of the tab see them.
LEMMA ArriveStep ==
  ASSUME TypeOK, NEW r \in Requests, Deliver(r) \/ Lose(r)
  PROVE  /\ TypeOK' /\ UNCHANGED <<token, lock, active>>
         /\ \E q \in ReqT :
              /\ Arriving(r, q) /\ Arrive(r, q, jar')
              /\ \/ q = req[r] /\ q.st = "answered" /\ jar' = Applied(q.sets)
                 \/ q.status = "lost" /\ jar' = jar
<1>1. TypeOK' BY DeliverType
<1>2. CASE Deliver(r) BY <1>1, <1>2 DEF Deliver, Arriving, TypeOK
<1>3. CASE Lose(r)
  <2> DEFINE q == [req[r] EXCEPT !.status = "lost"]
  <2>1. Arriving(r, q) /\ Arrive(r, q, jar') BY <1>3 DEF Lose, Arriving
  <2>2. q.status = "lost" /\ q \in ReqT BY DEF TypeOK, ReqT
  <2> QED BY <1>1, <1>3, <2>1, <2>2 DEF Lose
<1> QED BY <1>2, <1>3

LEMMA ArriveCore ==
  ASSUME Core, NEW r \in Requests, Deliver(r) \/ Lose(r)
  PROVE  Core'
<1>1. TypeOK' /\ UNCHANGED <<token, lock>> /\ jar' \in JarT
  BY ArriveStep DEF Core, TypeOK
<1>2. PICK q : Arriving(r, q) /\ Arrive(r, q, jar') BY ArriveStep DEF Core
<1> QED BY <1>1, <1>2, DeliverCore

\* Every step, as the proofs of the invariants take it.
LEMMA Steps ==
  ASSUME Core, [Next]_vars
  PROVE  \/ UNCHANGED vars
         \/ \E c \in Calls, t \in Tabs, k \in Kinds : Begin(c, t, k)
         \/ \E r \in Requests : \/ Send(r) \/ Deliver(r) \/ Lose(r)
                               \/ AnsweredPlainly(r) \/ Selected(r) \/ LoggedIn(r)
                               \/ Exchanged(r) \/ ServeLogout(r)
         \/ \E t \in Tabs : OpenPage(t)
         \/ \E t \in Tokens : SessionExpires(t)
         \/ AccessExpires
         \/ Deactivate
<1>1. ASSUME NEW r \in Requests, Serve(r)
      PROVE  AnsweredPlainly(r) \/ Selected(r) \/ LoggedIn(r) \/ Exchanged(r) \/ ServeLogout(r)
  BY <1>1, ServeCases DEF Core
<1> QED BY <1>1 DEF Next, Quiet, Kinds

LEMMA CoreInit == Init => Core
<1> SUFFICES ASSUME Init PROVE Core OBVIOUS
<1>1. Cardinality(Calls) \in Nat BY ConstantsAssumption, FS_CardinalityType
<1>2. 1 \in Tokens BY <1>1 DEF Tokens
<1>3. Idle \in ReqT /\ \A r \in Requests : req[r] = Idle
  BY IdleForm DEF Init, Kinds
<1>a. /\ Idle.st = "idle" /\ Idle.kind = "me" /\ Idle.retry = FALSE /\ Idle.status = "ok"
      /\ Idle.tab = None /\ Idle.session = None
  BY DEF Idle
<1>4. TypeOK BY <1>2, <1>3 DEF Init, TypeOK, TokenT, JarT
<1>5. Form
  <2>1. \A r \in Requests : AnswerOK(req[r]) BY <1>3, <1>a DEF AnswerOK
  <2>2. \A c \in Calls : OwnOK(c, req[Own(c)]) BY <1>3, <1>a, RequestForms DEF OwnOK, Kinds
  <2>3. \A c \in Calls : RefreshOK(c, req[Refresh(c)]) BY <1>3, <1>a, RequestForms DEF RefreshOK, Progress
  <2>4. \A t \in Tabs : TabOK(t) BY DEF TabOK, Init
  <2> QED BY <2>1, <2>2, <2>3, <2>4 DEF Form
<1>6. Rows BY <1>3 DEF Init, Rows, RotatedOnce, Idle
<1>7. Enough
  <2>1. UsedTokens = {1} BY <1>2 DEF UsedTokens, Init
  <2>2. Cardinality(UsedTokens) = 1
    <3>1. Cardinality({} \cup {1}) = 1 BY FS_EmptySet, FS_AddElement
    <3> QED BY <2>1, <3>1
  <2>3. Cardinality({c \in Calls : Spent(c)}) \in Nat
    BY ConstantsAssumption, FS_Subset, FS_CardinalityType
  <2> QED BY <2>2, <2>3 DEF Enough
<1> QED BY <1>4, <1>5, <1>6, <1>7 DEF Core

LEMMA CoreNext == ASSUME Core, [Next]_vars PROVE Core'
<1>1. CASE UNCHANGED vars
  BY <1>1, AsideCore DEF Core, vars, TypeOK
<1>2. ASSUME NEW t \in Tabs, OpenPage(t) PROVE Core'
  <2>1. TypeOK' BY <1>2 DEF OpenPage, Core, TypeOK
  <2> QED BY <1>2, <2>1, AsideCore DEF OpenPage
<1>3. CASE AccessExpires
  <2>1. TypeOK' BY <1>3 DEF AccessExpires, Core, TypeOK, JarT
  <2> QED BY <1>3, <2>1, AsideCore DEF AccessExpires
<1>4. CASE Deactivate
  <2>1. TypeOK' BY <1>4 DEF Deactivate, Core, TypeOK
  <2> QED BY <1>4, <2>1, AsideCore DEF Deactivate
<1> QED
  BY <1>1, <1>2, <1>3, <1>4, Steps, BeginCore, SendCore, ArriveCore, AnsweredCore, SelectedCore,
     LoggedInCore, ExchangedCore, LogoutCore, ExpiredCore

LEMMA CoreInvariance == Spec => []Core
BY CoreInit, CoreNext, PTL DEF Spec

\* A token is exchanged for one other at most, and is not valid after that: from its
\* SELECT ... FOR UPDATE to its commit a refresh holds the lock of the row, and
\* nobody else revokes it.
THEOREM ExchangedOnce == Spec => []RotatedOnce
<1>1. Core => RotatedOnce BY DEF Core, Rows
<1> QED BY <1>1, CoreInvariance, PTL

\* No call waits for a refresh that will not settle: the tab remembers whose refresh
\* the call waits for, and that one is on its way.
THEOREM WaitsForARefresh == Spec => []NobodyWaitsForever
<1>1. Core => NobodyWaitsForever
  <2> SUFFICES ASSUME Core, NEW c \in Calls, req[Own(c)].st = "awaiting"
               PROVE  \E r \in Requests : req[r].st \in Progress
    BY DEF NobodyWaitsForever, Progress
  <2>1. req[Own(c)].tab \in Tabs /\ refreshing[req[Own(c)].tab] # None
    BY DEF Core, Form, OwnOK
  <2> QED BY <2>1, RequestForms DEF Core, Form, TabOK, TypeOK
<1> QED BY <1>1, CoreInvariance, PTL

-----------------------------------------------------------------------------
(* The session in the jar: the invariant Sessions.                          *)

\* Nothing, or a token that was issued.
Used(t) == t = None \/ token[t].st # "unused"
\* The answer of r brings t.
Pending(r, t) == req[r].st = "answered" /\ req[r].sets = t
\* A cookie is a token that was issued; one that is still on its way is live and
\* nobody has it.
Attached ==
  /\ Used(jar.session)
  /\ \A r \in Requests : Used(req[r].session)
  /\ \A r \in Requests, t \in Tokens : Pending(r, t) =>
       /\ token[t].st = "live" /\ jar.session # t
       /\ \A x \in Requests : req[x].session # t /\ (x # r => ~Pending(x, t))
\* The answer r is going to replace the session of the jar.
Replaces(r) ==
  /\ req[r].st = "answered" /\ req[r].tab # None /\ req[r].kind \in {"refresh", "logout"}
  /\ req[r].session = jar.session /\ req[r].sets # None
\* The session of the jar is live or about to be replaced; what the page that is
\* gone has left on its way carries another one.
Jar ==
  /\ NothingLost /\ jar.session # None =>
       token[jar.session].st = "live" \/ \E r \in Requests : Replaces(r)
  /\ \A r \in InFlight : req[r].tab = None /\ jar.session # None => req[r].session # jar.session

Sessions == Attached /\ Jar

LEMMA LostForever ==
  ASSUME Core, [Next]_vars, NothingLost'
  PROVE  NothingLost
<1> SUFFICES ASSUME NEW x \in Requests PROVE req[x].status # "lost" BY DEF NothingLost
<1> USE DEF Core
<1>0. req'[x].status # "lost" /\ AnswerOK(req[x]) BY DEF NothingLost, Form
<1>1. ASSUME NEW c \in Calls, NEW t \in Tabs, NEW k \in Kinds, Begin(c, t, k)
      PROVE  req[x].status # "lost"
  <2>1. CASE x = Own(c)
    <3>1. req[x].st = "idle" BY <1>1, <2>1 DEF Begin
    <3> QED BY <3>1, <1>0 DEF AnswerOK
  <2>2. CASE x # Own(c)
    <3>1. req'[x] = req[x] BY <1>1, <2>2 DEF Begin, TypeOK
    <3> QED BY <3>1, <1>0
  <2> QED BY <2>1, <2>2
<1>2. ASSUME NEW r \in Requests, req[r].st \in {"prepared", "sent", "holding", "answered"},
             \A y \in Requests \ {r} : req'[y].status = req[y].status
      PROVE  req[x].status # "lost"
  BY <1>0, <1>2 DEF AnswerOK
<1>3. ASSUME NEW r \in Requests, Deliver(r) \/ Lose(r) PROVE req[x].status # "lost"
  <2>1. PICK q \in ReqT : Arriving(r, q) /\ Arrive(r, q, jar') /\ jar' \in JarT
    BY <1>3, ArriveStep DEF TypeOK
  <2>2. Carried(r, q) BY <2>1, ArriveCarries
  <2>3. \A y \in Requests \ {r} : req'[y].status = req[y].status BY <2>2 DEF Carried, CarriedOne
  <2>4. req[r].st \in {"sent", "answered"} BY <2>1 DEF Arriving
  <2> QED BY <2>3, <2>4, <1>2
<1>4. ASSUME NEW r \in Requests, Send(r) PROVE req[x].status # "lost"
  BY <1>4, <1>2 DEF Send, TypeOK
<1>5. ASSUME NEW r \in Requests, Selected(r) PROVE req[x].status # "lost"
  BY <1>5, <1>2 DEF Selected, TypeOK
<1>6. ASSUME NEW r \in Requests, req[r].st \in {"sent", "holding"}, NEW s, NEW t, Answer(r, s, t)
      PROVE  req[x].status # "lost"
  BY <1>6, <1>2 DEF Answer, TypeOK
<1> QED
  BY <1>0, <1>1, <1>3, <1>4, <1>5, <1>6, Steps
     DEF AnsweredPlainly, LoggedIn, Exchanged, ServeLogout, OpenPage, SessionExpires, AccessExpires,
         Deactivate, vars

LEMMA SessionsArrive ==
  ASSUME Core, Sessions, [Next]_vars, NEW r \in Requests, Deliver(r) \/ Lose(r)
  PROVE  Sessions'
<1> USE DEF Core, Sessions
<1>1. PICK q \in ReqT :
        /\ Arriving(r, q) /\ Arrive(r, q, jar')
        /\ \/ q = req[r] /\ q.st = "answered" /\ jar' = Applied(q.sets)
           \/ q.status = "lost" /\ jar' = jar
  BY ArriveStep
<1>2. TypeOK' /\ UNCHANGED token BY ArriveStep
<1>3. Carried(r, q) BY <1>1, <1>2, ArriveCarries DEF TypeOK
<1>4. /\ \A x \in Requests : req'[x].session = req[x].session /\ req'[x].sets = req[x].sets
      /\ \A x \in Requests : req'[x].st = "answered" => x # r /\ req[x].st = "answered"
      /\ \A x \in Requests : x \in InFlight' => x \in InFlight /\ x # r
      /\ \A x \in Requests \ {r} : req[x].st = "answered" => req'[x].st = "answered" /\ req'[x].kind = req[x].kind
      /\ \A x \in Requests \ {r} : x \in InFlight => req'[x].tab = req[x].tab \/ LeavesPage(r, q)
  BY <1>3 DEF Carried, CarriedOne, Flying, InFlight
<1>5. q.kind = req[r].kind /\ q.tab = req[r].tab /\ q.sets = req[r].sets /\ q.session = req[r].session
      /\ q.st = req[r].st
  BY <1>1, ArrivingForm
<1>6. /\ q = req[r] => AnswerOK(q)
      /\ req[r].sets \in Tokens \cup {None, Clear}
  BY DEF Form, TypeOK, ReqT
<1>7. CASE jar' = jar /\ ~LeavesPage(r, q)
  <2>1. Attached' BY <1>7, <1>2, <1>4 DEF Attached, Used, Pending
  <2>2. ASSUME NothingLost', jar.session # None
        PROVE  token[jar.session].st = "live" \/ \E x \in Requests : Replaces(x)'
    <3>1. NothingLost BY <2>2, LostForever
    <3>2. ASSUME NEW w \in Requests, Replaces(w) PROVE Replaces(w)'
      <4>1. w # r
        <5> SUFFICES ASSUME w = r PROVE FALSE OBVIOUS
        <5>1. q.status # "lost"
          BY <1>3, <1>5, <2>2, <3>2 DEF Carried, Replaces, NothingLost
        <5>2. q = req[r] /\ q.st = "answered" /\ jar' = Applied(q.sets) BY <1>1, <5>1
        <5>3. req[r].sets \in Tokens \cup {Clear} /\ jar.session \in Tokens
          BY <3>2, <1>6, <2>2 DEF Replaces, TypeOK, JarT
        <5>4. jar'.session # jar.session
          <6>1. CASE req[r].sets = Clear BY <6>1, <5>2, <5>3, NonesApart DEF Applied
          <6>2. CASE req[r].sets \in Tokens
            <7>1. Pending(r, req[r].sets) BY <5>2 DEF Pending
            <7>2. jar.session # req[r].sets BY <6>2, <7>1 DEF Attached
            <7> QED BY <6>2, <7>2, <5>2, NonesApart DEF Applied
          <6> QED BY <6>1, <6>2, <5>3
        <5> QED BY <5>4, <1>7
      <4> QED BY <3>2, <4>1, <1>4, <1>7 DEF Replaces, InFlight
    <3> QED BY <2>2, <3>1, <3>2 DEF Jar
  <2>3. \A x \in InFlight' : req'[x].tab = None /\ jar.session # None => req'[x].session # jar.session
    BY <1>4, <1>7 DEF Jar, InFlight
  <2> QED BY <2>1, <2>2, <2>3, <1>2, <1>7 DEF Jar
<1>8. CASE jar'.session = None
  <2>1. Attached'
    BY <1>2, <1>4, <1>8, NonesApart DEF Attached, Used, Pending
  <2> QED BY <2>1, <1>8 DEF Jar
<1>9. CASE q = req[r] /\ q.st = "answered" /\ q.sets \in Tokens /\ jar' = [session |-> q.sets, access |-> TRUE]
  <2>1. Pending(r, q.sets) BY <1>9 DEF Pending
  <2>2. token[q.sets].st = "live" /\ \A x \in Requests : req[x].session # q.sets /\ (x # r => ~Pending(x, q.sets))
    BY <1>9, <2>1 DEF Attached
  <2>3. Attached'
    <3>1. Used(jar.session)' /\ \A x \in Requests : Used(req[x].session)'
      BY <1>2, <1>4, <1>9, <2>2 DEF Used, Attached
    <3>2. ASSUME NEW x \in Requests, NEW t \in Tokens, Pending(x, t)'
          PROVE  /\ token[t].st = "live" /\ q.sets # t
                 /\ \A y \in Requests : req[y].session # t /\ (y # x => ~Pending(y, t)')
      <4>1. Pending(x, t) /\ x # r BY <3>2, <1>4 DEF Pending
      <4>2. q.sets # t BY <4>1, <2>2
      <4>3. \A y \in Requests : Pending(y, t)' => Pending(y, t) BY <1>4 DEF Pending
      <4> QED BY <4>1, <4>2, <4>3 DEF Attached
    <3> QED BY <3>1, <3>2, <1>2, <1>4, <1>9 DEF Attached
  <2>4. Jar'
    <3>1. \A x \in InFlight' : req'[x].session # jar'.session
      BY <1>4, <1>9, <2>2 DEF InFlight
    <3> QED BY <3>1, <2>2, <1>2, <1>9 DEF Jar
  <2> QED BY <2>3, <2>4
<1>10. CASE q = req[r] /\ q.st = "answered" /\ jar' = Applied(q.sets)
  <2>1. CASE q.sets = None
    <3>1. ~LeavesPage(r, q) BY <2>1, <1>6, <1>10, NonesApart DEF AnswerOK, LeavesPage
    <3>2. jar' = jar BY <2>1, <1>10, NonesApart DEF Applied
    <3> QED BY <3>1, <3>2, <1>7
  <2>2. CASE q.sets = Clear BY <2>2, <1>8, <1>10, NonesApart DEF Applied
  <2>3. CASE q.sets \in Tokens BY <2>3, <1>9, <1>10, NonesApart DEF Applied
  <2> QED BY <2>1, <2>2, <2>3, <1>5, <1>6
<1>11. CASE q.status = "lost" /\ jar' = jar BY <1>7, <1>11 DEF LeavesPage
<1> QED BY <1>1, <1>10, <1>11

\* A new token n, which nobody has seen yet, goes out with the answer to r.
LEMMA SessionsIssued ==
  ASSUME Core, Core', Sessions, [Next]_vars, NEW r \in Requests, NEW n \in Tokens, token[n].st = "unused",
         Answer(r, "ok", n), req[r].st \in {"sent", "holding"}, UNCHANGED jar,
         token'[n].st = "live",
         \A t \in Tokens : token[t].st # "unused" => token'[t].st # "unused",
         \A t \in Tokens \ {n} : token'[t].st # token[t].st =>
           /\ token[t].st = "live" /\ req[r].session = t /\ req[r].kind = "refresh" /\ req[r].st = "holding"
  PROVE  Sessions'
<1> USE DEF Core, Sessions
<1>1. /\ req'[r].st = "answered" /\ req'[r].sets = n /\ req'[r].session = req[r].session
      /\ req'[r].kind = req[r].kind /\ req'[r].tab = req[r].tab
      /\ \A x \in Requests \ {r} : req'[x] = req[x]
  <2>1. TypeOK OBVIOUS
  <2>2. Answer(r, "ok", n) OBVIOUS
  <2> QED BY ONLY <2>1, <2>2, r \in Requests, AnsweredMoves
<1>2. /\ jar.session # n
      /\ \A x \in Requests : req[x].session # n /\ ~Pending(x, n)
  BY NonesApart DEF Attached, Used
<1>3. \A x \in Requests : req'[x].session = req[x].session BY <1>1
<1>4. \A t \in Tokens \cup {None} : Used(t) => Used(t)' BY NonesApart DEF Used
<1>5. Attached'
  <2>1. Used(jar.session)' /\ \A x \in Requests : Used(req[x].session)'
    <3>1. jar.session \in Tokens \cup {None} /\ \A x \in Requests : req[x].session \in Tokens \cup {None}
      BY DEF TypeOK, JarT, ReqT
    <3>2. Used(jar.session)' BY <1>4, <3>1 DEF Attached, Used
    <3>3. \A x \in Requests : Used(req[x].session)' BY <1>3, <1>4, <3>1 DEF Attached, Used
    <3> QED BY <3>2, <3>3
  <2>2. ASSUME NEW x \in Requests, NEW t \in Tokens, Pending(x, t)'
        PROVE  /\ token'[t].st = "live" /\ jar.session # t
               /\ \A y \in Requests : req[y].session # t /\ (y # x => ~Pending(y, t)')
    <3>1. CASE x = r
      <4>1. t = n BY <2>2, <3>1, <1>1 DEF Pending
      <4> QED BY <3>1, <4>1, <1>1, <1>2 DEF Pending
    <3>2. CASE x # r
      <4>1. Pending(x, t) /\ t # n BY <2>2, <3>2, <1>1, <1>2 DEF Pending
      <4>2. /\ token[t].st = "live" /\ jar.session # t
            /\ \A y \in Requests : req[y].session # t /\ (y # x => ~Pending(y, t))
        BY <4>1 DEF Attached
      <4>3. \A y \in Requests : Pending(y, t)' => Pending(y, t) BY <4>1, <1>1 DEF Pending
      <4> QED BY <4>1, <4>2, <4>3
    <3> QED BY <3>1, <3>2
  <2> QED BY <2>1, <2>2, <1>3 DEF Attached
<1>6. Jar'
  <2>1. \A x \in Requests : x \in InFlight' => x \in InFlight /\ req'[x].tab = req[x].tab
    BY <1>1 DEF InFlight
  <2>2. \A x \in InFlight' : req'[x].tab = None /\ jar.session # None => req'[x].session # jar.session
    BY <2>1, <1>3 DEF Jar, InFlight
  <2>3. ASSUME NothingLost', jar.session # None
        PROVE  token'[jar.session].st = "live" \/ \E x \in Requests : Replaces(x)'
    <3>1. NothingLost /\ jar.session \in Tokens BY <2>3, LostForever DEF TypeOK, JarT
    <3>2. \A w \in Requests : Replaces(w) => Replaces(w)'
      BY <1>1 DEF Replaces
    <3>3. CASE token'[jar.session].st # token[jar.session].st
      <4>1. req[r].session = jar.session /\ req[r].kind = "refresh" /\ req[r].st = "holding"
        BY <3>1, <3>3, <1>2
      <4>2. req[r].tab # None BY <4>1, <2>3 DEF Jar, InFlight
      <4> QED BY <4>1, <4>2, <1>1, NonesApart DEF Replaces
    <3>4. CASE token'[jar.session].st = token[jar.session].st
      BY <2>3, <3>1, <3>2, <3>4 DEF Jar
    <3> QED BY <3>3, <3>4
  <2> QED BY <2>2, <2>3 DEF Jar
<1> QED BY <1>5, <1>6

\* Requests move on; nothing is answered with a token, no row changes, or the
\* row of the request that is answered.
LEMMA SessionsMoves ==
  ASSUME Core, Sessions, [Next]_vars, NEW r \in Requests, UNCHANGED jar,
         \A x \in Requests \ {r} : req'[x] = req[x],
         req[r].st \in {"idle", "prepared", "sent", "holding"},
         req'[r].st = "answered" => req'[r].sets \in {None, Clear},
         req'[r].session \in {req[r].session, jar.session, None},
         \/ req'[r].tab # None
         \/ req'[r].tab = req[r].tab /\ req'[r].session = req[r].session /\ r \in InFlight,
         \A t \in Tokens : token[t].st # "unused" => token'[t].st # "unused",
         \A t \in Tokens : token'[t].st # token[t].st =>
           /\ token[t].st = "live" /\ req[r].session = t /\ req[r].kind = "logout" /\ req'[r].kind = "logout"
           /\ req'[r].st = "answered" /\ req'[r].sets = Clear
           /\ req'[r].tab = req[r].tab /\ req'[r].session = t /\ r \in InFlight
  PROVE  Sessions'
<1> USE DEF Core, Sessions
<1>1. \A t \in Tokens \cup {None} : Used(t) => Used(t)' BY NonesApart DEF Used
<1>2. jar.session \in Tokens \cup {None} /\ \A x \in Requests : req[x].session \in Tokens \cup {None}
  BY DEF TypeOK, JarT, ReqT
<1>3. \A x \in Requests, t \in Tokens : Pending(x, t)' => Pending(x, t)
  BY NonesApart DEF Pending
<1>4. Attached'
  <2>1. Used(jar.session)' /\ \A x \in Requests : Used(req[x].session)'
    <3>1. Used(jar.session)' BY <1>1, <1>2 DEF Attached, Used
    <3>2. \A x \in Requests : Used(req[x].session)' BY <1>1, <1>2 DEF Attached, Used
    <3> QED BY <3>1, <3>2
  <2>2. ASSUME NEW x \in Requests, NEW t \in Tokens, Pending(x, t)'
        PROVE  /\ token'[t].st = "live" /\ jar.session # t
               /\ \A y \in Requests : req'[y].session # t /\ (y # x => ~Pending(y, t)')
    <3>1. Pending(x, t) BY <2>2, <1>3
    <3>2. /\ token[t].st = "live" /\ jar.session # t
          /\ \A y \in Requests : req[y].session # t /\ (y # x => ~Pending(y, t))
      BY <3>1 DEF Attached
    <3>3. token'[t].st = "live" BY <3>2
    <3>4. \A y \in Requests : req'[y].session # t BY <3>2, NonesApart
    <3> QED BY <3>2, <3>3, <3>4, <1>3
  <2> QED BY <2>1, <2>2 DEF Attached
<1>5. Jar'
  <2>1. \A x \in InFlight' : req'[x].tab = None /\ jar.session # None => req'[x].session # jar.session
    BY DEF Jar, InFlight
  <2>2. ASSUME NothingLost', jar.session # None
        PROVE  token'[jar.session].st = "live" \/ \E x \in Requests : Replaces(x)'
    <3>1. NothingLost /\ jar.session \in Tokens BY <2>2, LostForever DEF TypeOK, JarT
    <3>2. \A w \in Requests : Replaces(w) => Replaces(w)' BY DEF Replaces
    <3>3. CASE token'[jar.session].st # token[jar.session].st
      <4>1. /\ req[r].session = jar.session /\ req'[r].kind = "logout" /\ r \in InFlight
            /\ req'[r].st = "answered" /\ req'[r].sets = Clear /\ req'[r].tab = req[r].tab
            /\ req'[r].session = jar.session
        BY <3>1, <3>3
      <4>2. req[r].tab # None BY <4>1, <2>2 DEF Jar, InFlight
      <4> QED BY <4>1, <4>2, NonesApart DEF Replaces
    <3>4. CASE token'[jar.session].st = token[jar.session].st
      BY <2>2, <3>1, <3>2, <3>4 DEF Jar
    <3> QED BY <3>3, <3>4
  <2> QED BY <2>1, <2>2 DEF Jar
<1> QED BY <1>4, <1>5

LEMMA SessionsNext == ASSUME Core, Sessions, [Next]_vars PROVE Sessions'
<1> USE DEF Core, Sessions
<1>0. Core' BY CoreNext
<1>1. ASSUME UNCHANGED <<token, req>>, jar'.session = jar.session PROVE Sessions'
  BY <1>1 DEF Attached, Jar, Used, Pending, NothingLost, InFlight, Replaces
<1>2. ASSUME NEW c \in Calls, NEW t \in Tabs, NEW k \in Kinds, Begin(c, t, k) PROVE Sessions'
  <2>1. PICK n \in ReqT :
          /\ req' = [req EXCEPT ![Own(c)] = n]
          /\ n.st = "prepared" /\ n.tab = t /\ n.session = None
    BY <1>2, BeginForm
  <2>2. req'[Own(c)] = n /\ (\A x \in Requests \ {Own(c)} : req'[x] = req[x])
    BY <2>1, RequestForms DEF TypeOK
  <2> QED BY <1>2, <2>1, <2>2, RequestForms, NonesApart, SessionsMoves DEF Begin
<1>3. ASSUME NEW r \in Requests, Send(r) PROVE Sessions'
  <2> DEFINE n == [req[r] EXCEPT !.st = "sent", !.session = jar.session, !.access = jar.access]
  <2>1. req' = [req EXCEPT ![r] = n] /\ req[r] \in ReqT BY <1>3 DEF Send, TypeOK
  <2>2. n.st = "sent" /\ n.session = jar.session /\ n.tab = req[r].tab BY <2>1 DEF ReqT
  <2> HIDE DEF n
  <2>3. req'[r] = n /\ (\A x \in Requests \ {r} : req'[x] = req[x]) BY <2>1 DEF TypeOK
  <2>4. req[r].st = "prepared" /\ UNCHANGED <<token, jar>> BY <1>3 DEF Send
  <2>5. req[r].tab # None
    BY <2>4, RequestForms, NonesApart DEF Form, OwnOK, RefreshOK
  <2> QED BY <2>2, <2>3, <2>4, <2>5, SessionsMoves
<1>4. ASSUME NEW r \in Requests, AnsweredPlainly(r) PROVE Sessions'
  <2>1. /\ \A x \in Requests \ {r} : req'[x] = req[x]
        /\ req'[r].sets = None /\ req'[r].tab = req[r].tab /\ req'[r].session = req[r].session
    <3>1. PICK status \in {"ok", "401", "403"} : Answer(r, status, None) BY <1>4 DEF AnsweredPlainly
    <3>2. TypeOK OBVIOUS
    <3> QED BY ONLY <3>1, <3>2, r \in Requests, AnsweredMoves
  <2>2. req[r].st \in {"sent", "holding"} /\ UNCHANGED <<token, jar>> BY <1>4 DEF AnsweredPlainly
  <2>3. r \in InFlight BY <2>2 DEF InFlight
  <2> QED BY <2>1, <2>2, <2>3, SessionsMoves
<1>5. ASSUME NEW r \in Requests, Selected(r) PROVE Sessions'
  <2>1. req' = [req EXCEPT ![r] = [req[r] EXCEPT !.st = "holding"]] /\ req[r] \in ReqT
    BY <1>5 DEF Selected, TypeOK
  <2>2. /\ \A x \in Requests \ {r} : req'[x] = req[x]
        /\ req'[r].tab = req[r].tab /\ req'[r].session = req[r].session /\ req'[r].st = "holding"
    BY <2>1 DEF TypeOK, ReqT
  <2>3. req[r].st = "sent" /\ UNCHANGED <<token, jar>> /\ r \in InFlight BY <1>5 DEF Selected, InFlight
  <2> QED BY <2>2, <2>3, SessionsMoves
<1>6. ASSUME NEW r \in Requests, LoggedIn(r) PROVE Sessions'
  <2> DEFINE n == NextToken
  <2>1. n \in Tokens /\ token[n].st = "unused" BY <1>6, LoggedInCore
  <2>2. /\ token' = [token EXCEPT ![n] = [st |-> "live", parent |-> None]]
        /\ Answer(r, "ok", n) /\ req[r].st = "sent" /\ UNCHANGED jar
    BY <1>6 DEF LoggedIn, Issued
  <2> HIDE DEF n
  <2>3. token'[n].st = "live" /\ \A t \in Tokens \ {n} : token'[t] = token[t] BY <2>1, <2>2 DEF TypeOK
  <2>4. \A t \in Tokens : token[t].st # "unused" => token'[t].st # "unused" BY <2>3
  <2> QED BY <1>0, <2>1, <2>2, <2>3, <2>4, SessionsIssued
<1>7. ASSUME NEW r \in Requests, Exchanged(r) PROVE Sessions'
  <2> DEFINE n == NextToken
             s == req[r].session
  <2>1. /\ n \in Tokens /\ token[n].st = "unused" /\ s \in Tokens /\ token[s].st = "live"
        /\ token' = [token EXCEPT ![n] = [st |-> "live", parent |-> s], ![s].st = "revoked"]
    BY <1>7, ExchangedCore
  <2>2. Answer(r, "ok", n) /\ req[r].st = "holding" /\ UNCHANGED jar
    BY <1>7 DEF Exchanged
  <2>3. req[r].kind = "refresh" BY <2>2, RequestForms DEF Form, OwnOK, RefreshOK
  <2> HIDE DEF n, s
  <2>4. token[s] \in TokenT /\ n # s BY <2>1 DEF TypeOK
  <2>5. token'[n].st = "live" /\ token'[s].st = "revoked" /\ \A t \in Tokens \ {n, s} : token'[t] = token[t]
    BY <2>1, <2>4 DEF TypeOK, TokenT
  <2>6. \A t \in Tokens : token[t].st # "unused" => token'[t].st # "unused" BY <2>5
  <2>7. \A t \in Tokens \ {n} : token'[t].st # token[t].st => t = s BY <2>5
  <2> QED BY <1>0, <2>1, <2>2, <2>3, <2>5, <2>6, <2>7, SessionsIssued DEF s
<1>8. ASSUME NEW r \in Requests, ServeLogout(r) PROVE Sessions'
  <2>1. /\ req[r].session \in Tokens
        /\ \A t \in Tokens :
             /\ t # req[r].session => token'[t] = token[t]
             /\ token'[t].st \in {token[t].st, "revoked"}
             /\ token'[t].st # token[t].st => token[t].st = "live"
    BY <1>8, LogoutCore
  <2>2. /\ req[r].st = "sent" /\ req[r].kind = "logout" /\ UNCHANGED jar /\ Answer(r, "ok", Clear)
        /\ r \in InFlight
    BY <1>8 DEF ServeLogout, InFlight
  <2>3. /\ \A x \in Requests \ {r} : req'[x] = req[x]
        /\ req'[r].sets = Clear /\ req'[r].tab = req[r].tab /\ req'[r].session = req[r].session
        /\ req'[r].st = "answered" /\ req'[r].kind = "logout"
    <3>1. TypeOK /\ Answer(r, "ok", Clear) BY <2>2
    <3> QED BY ONLY <3>1, <2>2, r \in Requests, AnsweredMoves
  <2>4. \A t \in Tokens : token[t].st # "unused" => token'[t].st # "unused" BY <2>1
  <2>5. \A t \in Tokens : token'[t].st # token[t].st => token[t].st = "live" /\ req[r].session = t BY <2>1
  <2> QED BY <2>2, <2>3, <2>4, <2>5, SessionsMoves
<1>9. ASSUME NEW t \in Tokens, SessionExpires(t) PROVE Sessions'
  <2>1. token'[t].st = "expired" /\ \A u \in Tokens \ {t} : token'[u] = token[u]
    BY <1>9, ExpiredCore
  <2>2. UNCHANGED req /\ InFlight = {} /\ jar'.session = IF jar.session = t THEN None ELSE jar.session
    BY <1>9 DEF SessionExpires
  <2>3. \A u \in Tokens \cup {None} : Used(u) => Used(u)' BY <2>1, NonesApart DEF Used
  <2>4. jar.session \in Tokens \cup {None} /\ \A x \in Requests : req[x].session \in Tokens \cup {None}
    BY DEF TypeOK, JarT, ReqT
  <2>5. \A x \in Requests, u \in Tokens : ~Pending(x, u)' BY <2>2 DEF Pending, InFlight
  <2>6. Used(jar.session)' BY <2>2, <2>3, <2>4 DEF Attached, Used
  <2>7. \A x \in Requests : Used(req[x].session)' BY <2>2, <2>3, <2>4 DEF Attached, Used
  <2>8. Attached' BY <2>5, <2>6, <2>7 DEF Attached
  <2>9. \A x \in Requests : ~Replaces(x) BY <2>2 DEF Replaces, InFlight
  <2>10. NothingLost' = NothingLost /\ InFlight' = {} BY <2>2 DEF NothingLost, InFlight
  <2>11. Jar' BY <2>1, <2>2, <2>4, <2>9, <2>10 DEF Jar
  <2> QED BY <2>8, <2>11
<1>10. CASE UNCHANGED vars BY <1>1, <1>10 DEF vars
<1>11. ASSUME NEW t \in Tabs, OpenPage(t) PROVE Sessions' BY <1>1, <1>11 DEF OpenPage
<1>12. CASE AccessExpires BY <1>1, <1>12 DEF AccessExpires, TypeOK, JarT
<1>13. CASE Deactivate BY <1>1, <1>13 DEF Deactivate
<1>14. ASSUME NEW r \in Requests, Deliver(r) \/ Lose(r) PROVE Sessions' BY <1>14, SessionsArrive
<1>15. Core OBVIOUS
<1> HIDE DEF Core, Sessions
<1> QED
  BY <1>2, <1>3, <1>4, <1>5, <1>6, <1>7, <1>8, <1>9, <1>10, <1>11, <1>12, <1>13, <1>14, Steps

LEMMA SessionsInit == Init => Sessions
<1> SUFFICES ASSUME Init PROVE Sessions OBVIOUS
<1>1. 1 \in Tokens
  <2>1. Cardinality(Calls) \in Nat BY ConstantsAssumption, FS_CardinalityType
  <2> QED BY <2>1 DEF Tokens
<1>2. /\ \A r \in Requests : req[r].st = "idle" /\ req[r].session = None
      /\ jar.session = 1 /\ token[1].st = "live"
  BY <1>1 DEF Init, Idle
<1>3. Attached BY <1>1, <1>2 DEF Attached, Used, Pending
<1>4. Jar BY <1>1, <1>2 DEF Jar, InFlight
<1> QED BY <1>3, <1>4 DEF Sessions

LEMMA SessionsInvariance == Spec => [](Core /\ Sessions)
<1>1. Core /\ Sessions /\ [Next]_vars => Core' /\ Sessions' BY CoreNext, SessionsNext
<1> QED BY <1>1, CoreInit, SessionsInit, PTL DEF Spec

\* In whatever order the answers reach the jar: the token in the jar is live, or the
\* answer of the request that revoked it is on its way and brings another one or
\* clears the jar.  A token whose answer is on its way is in nobody's hands yet.
THEOREM JarEndsLive == Spec => []JarHoldsLiveToken
<1>1. Sessions => JarHoldsLiveToken
  <2> SUFFICES ASSUME Sessions, InFlight = {}, NothingLost, jar.session # None
               PROVE  token[jar.session].st = "live"
    BY DEF JarHoldsLiveToken
  <2>1. \A r \in Requests : ~Replaces(r) BY DEF Replaces, InFlight
  <2> QED BY <2>1 DEF Sessions, Jar
<1> QED BY <1>1, SessionsInvariance, PTL

-----------------------------------------------------------------------------
(* One tab on its own: the invariant Alone.                                 *)

\* A call of tab t, of one of the kinds K, is under way.
Busy(c, t, K) ==
  /\ req[Own(c)].tab = t /\ req[Own(c)].kind \in K
  /\ req[Own(c)].st \notin {"idle", "done", "failed"}
\* One login and one logout at a time, a login only on its page.
Single(t) ==
  /\ \A c \in Calls : Busy(c, t, {"login"}) => page[t] = "login"
  /\ \A k \in {"login", "logout"}, c, d \in Calls : Busy(c, t, {k}) /\ Busy(d, t, {k}) => c = d
LogoutHasTab ==
  \A c \in Calls : req[Own(c)].kind = "logout" /\ Own(c) \in InFlight => req[Own(c)].tab # None
\* Something the page that is gone has asked for may still bring a token.
Leftover == \E r \in InFlight : req[r].tab = None /\ req[r].kind \in {"login", "refresh"}
\* The call does not meet a 401.
Steady(c) ==
  \/ req[Own(c)].st = "prepared"
  \/ req[Own(c)].st = "sent" /\ req[Own(c)].access
  \/ req[Own(c)].st = "answered" /\ req[Own(c)].status # "401"
Pages == {"me", "post"}
\* /login has no calls under way while the jar holds a session.
SignedOut(t) == page[t] = "login" => jar.session = None \/ \A c \in Calls : ~Busy(c, t, Pages)
\* The refresh carries the session of the jar, and is granted.
RefreshGranted(t) ==
  \A c \in Calls : LET q == req[Refresh(c)] IN
    q.tab = t /\ q.st \in Progress =>
      /\ jar.session # None
      /\ q.st # "answered" => q.header = jar.session
      /\ q.st \in {"sent", "holding"} => q.session = jar.session
      /\ q.st = "answered" => q.status = "ok"
\* Logins and refreshes of the page that is gone may still change the jar.
LeftoverHarmless(t) ==
  Leftover =>
    /\ jar.session # None => jar.access
    /\ page[t] = "login" => \A c \in Calls : ~Busy(c, t, Pages)
    /\ page[t] = "app" => jar.session # None /\ \A c \in Calls : Busy(c, t, Pages) => Steady(c)
\* A repeated call is not refused again.
RepeatGranted(t) ==
  \A c \in Calls : LET q == req[Own(c)] IN
    q.tab = t /\ q.retry =>
      /\ q.st = "prepared" => jar.access
      /\ q.st = "sent" => q.access
      /\ q.st = "answered" => q.status # "401"
AloneAt(t) == SignedOut(t) /\ RefreshGranted(t) /\ LeftoverHarmless(t) /\ RepeatGranted(t)
\* The hypotheses of LoginOnlyWhenOver, as long as the session lives.
Undisturbed(t) == OnlyTab(t) /\ NothingLost /\ active /\ ~LoggedOut(t)
Alone ==
  /\ \A t \in Tabs : Single(t)
  /\ LogoutHasTab
  /\ \A t \in Tabs : Undisturbed(t) => AloneAt(t)

\* The request r is sent, or served.
Moves(r) ==
  /\ UNCHANGED <<page, active>>
  /\ req[r].st \in {"prepared", "sent", "holding"} /\ req'[r].st \in Flying
  /\ req[r].st = "prepared" => req'[r].st = "sent"
  /\ req'[r].kind = req[r].kind /\ req'[r].tab = req[r].tab
  /\ \A x \in Requests \ {r} : req'[x] = req[x]
\* No request takes part in the step.
Aside ==
  /\ UNCHANGED req
  /\ UNCHANGED page \/ \E t \in Tabs : OpenPage(t)
\* The answer of r, or its loss, is noticed.
Arrives(r) == (Deliver(r) \/ Lose(r)) /\ \E q : Arriving(r, q) /\ Arrive(r, q, jar') /\ Carried(r, q)

LEMMA OwnTab ==
  ASSUME Form, NEW t \in Tabs, OnlyTab(t), NEW r \in Requests, req[r].st # "idle", req[r].tab # None
  PROVE  req[r].tab = t
<1>1. CASE r = Own(r[1]) BY <1>1, RequestForms DEF OnlyTab
<1>2. CASE r = Refresh(r[1])
  <2>1. req[r].tab \in {None, req[Own(r[1])].tab} BY <1>2, RequestForms DEF Form, RefreshOK
  <2> QED BY <2>1, RequestForms DEF OnlyTab
<1> QED BY <1>1, <1>2, RequestForms

\* A refresh of a tab under way is the one the tab knows of.
LEMMA UnderWay ==
  ASSUME Form, NEW t \in Tabs, NEW c \in Calls, req[Refresh(c)].tab = t, req[Refresh(c)].st \in Progress
  PROVE  /\ refreshing[t] = c /\ req[Refresh(c)].kind = "refresh"
         /\ req[Own(c)].st = "awaiting" /\ req[Own(c)].tab = t /\ Busy(c, t, Pages) /\ ~Steady(c)
<1>1. req[Refresh(c)].kind = "refresh" /\ refreshing[t] = c
  BY NonesApart DEF Form, RefreshOK, Progress
<1>2. req[Own(c)].st = "awaiting" /\ req[Own(c)].tab = t
  BY <1>1, NonesApart DEF Form, TabOK
<1>3. req[Own(c)].kind \in Pages BY <1>2 DEF Form, OwnOK, Pages
<1> QED BY <1>1, <1>2, <1>3 DEF Busy, Steady

LEMMA NoneBesidesLeftover ==
  ASSUME TypeOK, Form, NEW t \in Tabs, LeftoverHarmless(t), Leftover, NEW c \in Calls, req[Refresh(c)].tab = t
  PROVE  req[Refresh(c)].st \notin Progress
<1> SUFFICES ASSUME req[Refresh(c)].st \in Progress PROVE FALSE OBVIOUS
<1>1. Busy(c, t, Pages) /\ ~Steady(c) BY UnderWay
<1>2. page[t] \in {"app", "login"} BY DEF TypeOK
<1> QED BY <1>1, <1>2 DEF LeftoverHarmless

\* The token a refresh brings is live: who has revoked it would be the refresh
\* itself or a logout.
LEMMA TokenStillLive ==
  ASSUME Core, Sessions, NEW t \in Tabs, Undisturbed(t), RefreshGranted(t),
         NEW c \in Calls, req[Refresh(c)].tab = t, req[Refresh(c)].st \in {"sent", "holding"}
  PROVE  token[req[Refresh(c)].session].st = "live" /\ CsrfHolds(req[Refresh(c)])
<1>1. /\ jar.session # None /\ req[Refresh(c)].session = jar.session
      /\ req[Refresh(c)].header = jar.session
  BY DEF RefreshGranted, Progress
<1>2. ASSUME NEW w \in Requests, Replaces(w) PROVE FALSE
  <2>1. req[w].tab = t BY <1>2, OwnTab DEF Replaces, Core, Undisturbed
  <2>2. CASE w = Own(w[1])
    <3>1. req[w].kind = "logout" BY <1>2, <2>2, RequestForms DEF Replaces, Core, Form, OwnOK, Kinds
    <3>2. req[w].status = "ok" BY <1>2, <3>1, NonesApart DEF Replaces, Core, Form, AnswerOK
    <3> QED BY <1>2, <2>1, <2>2, <3>1, <3>2, RequestForms DEF Replaces, LoggedOut, Undisturbed
  <2>3. CASE w = Refresh(w[1])
    <3>1. w[1] \in Calls /\ req[Refresh(w[1])].st = "answered" BY <1>2, <2>3, RequestForms DEF Replaces
    <3>2. refreshing[t] = w[1] BY <2>1, <2>3, <3>1, UnderWay DEF Progress, Core
    <3>3. refreshing[t] = c BY UnderWay DEF Progress, Core
    <3> QED BY <3>1, <3>2, <3>3
  <2> QED BY <2>2, <2>3, RequestForms
<1> QED BY <1>1, <1>2 DEF Sessions, Jar, Undisturbed, CsrfHolds

\* One request moves on; the jar and the pages stay.
LEMMA AloneMoves ==
  ASSUME Core, NEW t \in Tabs, AloneAt(t), NEW r \in Requests, UNCHANGED <<jar, page>>,
         \A x \in Requests \ {r} : req'[x] = req[x],
         req'[r].kind = req[r].kind, req'[r].tab = req[r].tab, req'[r].retry = req[r].retry,
         req[r].st \in {"prepared", "sent", "holding"}, req'[r].st \in Flying,
         req[r].st = "prepared" => req[r].tab # None,
         req'[r].st = "sent" => req[r].st = "prepared" /\ req'[r].access = jar.access,
         req'[r].st = "answered" /\ req'[r].status = "401" /\ req[r].kind \in Pages =>
           ~req[r].access /\ req[r].st = "sent",
         req'[r].st = "holding" => req[r].kind = "refresh",
         req[r].kind = "refresh" /\ req[r].tab = t =>
           /\ req'[r].st # "answered" => req'[r].header = jar.session
           /\ req'[r].st \in {"sent", "holding"} => req'[r].session = jar.session
           /\ req'[r].st = "answered" => req'[r].status = "ok"
  PROVE  AloneAt(t)'
<1> USE DEF Core, Flying
<1>1. \A c \in Calls : Busy(c, t, Pages)' <=> Busy(c, t, Pages) BY RequestForms DEF Busy
<1>2. SignedOut(t)' BY <1>1 DEF AloneAt, SignedOut
<1>3. RefreshGranted(t)'
  <2> SUFFICES ASSUME NEW c \in Calls, req'[Refresh(c)].tab = t, req'[Refresh(c)].st \in Progress
               PROVE  LET q == req'[Refresh(c)] IN
                        /\ jar.session # None
                        /\ q.st # "answered" => q.header = jar.session
                        /\ q.st \in {"sent", "holding"} => q.session = jar.session
                        /\ q.st = "answered" => q.status = "ok"
    BY DEF RefreshGranted
  <2>1. Refresh(c) \in Requests BY RequestForms
  <2>2. CASE Refresh(c) = r
    <3>1. req[r].tab = t /\ req[r].st \in Progress BY <2>2 DEF Progress
    <3>2. req[r].kind = "refresh" BY <2>2, <3>1, UnderWay
    <3>3. jar.session # None BY <2>2, <3>1 DEF AloneAt, RefreshGranted
    <3> QED BY <2>2, <3>1, <3>2, <3>3
  <2>3. CASE Refresh(c) # r BY <2>1, <2>3 DEF AloneAt, RefreshGranted
  <2> QED BY <2>2, <2>3
<1>4. LeftoverHarmless(t)'
  <2>1. Leftover' => Leftover BY DEF Leftover, InFlight
  <2>2. ASSUME Leftover, jar.session # None, NEW c \in Calls, Busy(c, t, Pages), Steady(c) PROVE Steady(c)'
    <3>1. CASE Own(c) = r
      <4>1. jar.access BY <2>2 DEF AloneAt, LeftoverHarmless
      <4> QED BY <2>2, <3>1, <4>1, NonesApart DEF Steady, Busy, Pages
    <3>2. CASE Own(c) # r BY <2>2, <3>2, RequestForms DEF Steady
    <3> QED BY <3>1, <3>2
  <2> QED BY <1>1, <2>1, <2>2 DEF AloneAt, LeftoverHarmless
<1>5. RepeatGranted(t)'
  <2> SUFFICES ASSUME NEW c \in Calls, req'[Own(c)].tab = t, req'[Own(c)].retry
               PROVE  LET q == req'[Own(c)] IN
                        /\ q.st = "prepared" => jar.access
                        /\ q.st = "sent" => q.access
                        /\ q.st = "answered" => q.status # "401"
    BY DEF RepeatGranted
  <2>1. Own(c) \in Requests BY RequestForms
  <2>2. CASE Own(c) = r
    <3>0. req[r].retry /\ req[r].tab = t BY <2>2
    <3>1. req[r].kind \in Pages BY <2>2, <3>0 DEF Form, OwnOK, Pages
    <3>2. /\ req[r].st = "prepared" => jar.access
          /\ req[r].st = "sent" => req[r].access
      BY <2>2, <3>0 DEF AloneAt, RepeatGranted
    <3> QED BY <2>2, <3>1, <3>2
  <2>3. CASE Own(c) # r BY <2>1, <2>3 DEF AloneAt, RepeatGranted
  <2> QED BY <2>2, <2>3
<1> QED BY <1>2, <1>3, <1>4, <1>5 DEF AloneAt

LEMMA AloneSends ==
  ASSUME Core, NEW t \in Tabs, Undisturbed(t), AloneAt(t), NEW r \in Requests, Send(r)
  PROVE  AloneAt(t)'
<1> USE DEF Core
<1> DEFINE n == [req[r] EXCEPT !.st = "sent", !.session = jar.session, !.access = jar.access]
<1>1. req' = [req EXCEPT ![r] = n] /\ req[r] \in ReqT BY DEF Send, TypeOK
<1>2. /\ n.st = "sent" /\ n.session = jar.session /\ n.access = jar.access /\ n.tab = req[r].tab
      /\ n.kind = req[r].kind /\ n.retry = req[r].retry /\ n.header = req[r].header
  BY <1>1 DEF ReqT
<1> HIDE DEF n
<1>3. req'[r] = n /\ (\A x \in Requests \ {r} : req'[x] = req[x]) BY <1>1 DEF TypeOK
<1>4. req[r].st = "prepared" /\ UNCHANGED <<jar, page>> BY DEF Send
<1>5. req[r].tab # None BY <1>4, RequestForms, NonesApart DEF Form, OwnOK, RefreshOK
<1>6. req[r].kind = "refresh" /\ req[r].tab = t => req[r].header = jar.session
  <2> SUFFICES ASSUME req[r].kind = "refresh", req[r].tab = t PROVE req[r].header = jar.session
    OBVIOUS
  <2>1. r = Refresh(r[1]) BY RequestForms DEF Form, OwnOK, Kinds
  <2> QED BY <1>4, <2>1, RequestForms DEF AloneAt, RefreshGranted, Progress
<1> QED BY <1>2, <1>3, <1>4, <1>5, <1>6, AloneMoves DEF Flying

LEMMA AloneServed ==
  ASSUME Core, Sessions, NEW t \in Tabs, Undisturbed(t), AloneAt(t), NEW r \in Requests,
         AnsweredPlainly(r) \/ Selected(r) \/ LoggedIn(r) \/ Exchanged(r)
  PROVE  AloneAt(t)'
<1> USE DEF Core
<1>1. CASE AnsweredPlainly(r)
  <2>1. PICK status \in {"ok", "401", "403"} :
          /\ Answer(r, status, None)
          /\ req[r].kind \notin {"me", "post"} => status # "ok"
          /\ req[r].kind # "me" /\ CsrfHolds(req[r]) => status # "403"
          /\ status = "401" => ~req[r].access \/ ~active \/ req[r].kind \in {"login", "refresh"}
          /\ status = "401" /\ req[r].kind = "refresh" => ~active \/ token[req[r].session].st # "live"
    BY <1>1 DEF AnsweredPlainly
  <2>2. UNCHANGED <<jar, page>> /\ req[r].st \in {"sent", "holding"} BY <1>1 DEF AnsweredPlainly
  <2>3. /\ \A x \in Requests \ {r} : req'[x] = req[x]
        /\ req'[r].st = "answered" /\ req'[r].status = status
        /\ req'[r].kind = req[r].kind /\ req'[r].tab = req[r].tab /\ req'[r].retry = req[r].retry
    <3>1. TypeOK OBVIOUS
    <3> QED BY ONLY <2>1, <3>1, r \in Requests, AnsweredMoves
  <2>4. ~ (req[r].kind = "refresh" /\ req[r].tab = t)
    <3> SUFFICES ASSUME req[r].kind = "refresh", req[r].tab = t PROVE FALSE OBVIOUS
    <3>1. r = Refresh(r[1]) /\ r[1] \in Calls BY RequestForms DEF Form, OwnOK, Kinds
    <3>2. token[req[r].session].st = "live" /\ CsrfHolds(req[r])
      BY <2>2, <3>1, TokenStillLive DEF AloneAt
    <3> QED BY <2>1, <3>2 DEF Undisturbed
  <2>5. status = "401" /\ req[r].kind \in Pages => ~req[r].access /\ req[r].st = "sent"
    <3>1. req[r].st = "holding" => req[r].kind = "refresh"
      BY RequestForms DEF Form, OwnOK, RefreshOK
    <3> QED BY <2>1, <2>2, <3>1 DEF Undisturbed, Pages
  <2> QED BY <2>2, <2>3, <2>4, <2>5, AloneMoves DEF Flying
<1>2. CASE Selected(r)
  <2>1. req' = [req EXCEPT ![r] = [req[r] EXCEPT !.st = "holding"]] /\ req[r] \in ReqT
    BY <1>2 DEF Selected, TypeOK
  <2>2. /\ \A x \in Requests \ {r} : req'[x] = req[x]
        /\ req'[r].tab = req[r].tab /\ req'[r].session = req[r].session /\ req'[r].st = "holding"
        /\ req'[r].kind = req[r].kind /\ req'[r].retry = req[r].retry /\ req'[r].header = req[r].header
    BY <2>1 DEF TypeOK, ReqT
  <2>3. req[r].st = "sent" /\ req[r].kind = "refresh" /\ UNCHANGED <<jar, page>>
    BY <1>2 DEF Selected
  <2>4. req[r].tab = t => req[r].header = jar.session /\ req[r].session = jar.session
    <3>1. r = Refresh(r[1]) BY <2>3, RequestForms DEF Form, OwnOK, Kinds
    <3> QED BY <2>3, <3>1, RequestForms DEF AloneAt, RefreshGranted, Progress
  <2> QED BY <2>2, <2>3, <2>4, AloneMoves DEF Flying
<1>3. CASE LoggedIn(r) \/ Exchanged(r)
  <2>1. Answer(r, "ok", NextToken) /\ UNCHANGED <<jar, page>> /\ req[r].st \in {"sent", "holding"}
    BY <1>3 DEF LoggedIn, Exchanged
  <2>2. /\ \A x \in Requests \ {r} : req'[x] = req[x]
        /\ req'[r].st = "answered" /\ req'[r].status = "ok"
        /\ req'[r].kind = req[r].kind /\ req'[r].tab = req[r].tab /\ req'[r].retry = req[r].retry
    <3>1. TypeOK OBVIOUS
    <3> QED BY ONLY <2>1, <3>1, r \in Requests, AnsweredMoves
  <2> QED BY <2>1, <2>2, AloneMoves DEF Flying
<1> QED BY <1>1, <1>2, <1>3

LEMMA AloneBegins ==
  ASSUME Core, NEW t \in Tabs, OnlyTab(t)', AloneAt(t),
         NEW c \in Calls, NEW u \in Tabs, NEW k \in Kinds, Begin(c, u, k)
  PROVE  AloneAt(t)'
<1> USE DEF Core
<1>1. PICK n \in ReqT :
        /\ req' = [req EXCEPT ![Own(c)] = n]
        /\ n.st = "prepared" /\ n.tab = u /\ n.session = None /\ n.kind = k /\ n.retry = FALSE
  BY BeginForm
<1>2. req'[Own(c)] = n /\ (\A x \in Requests \ {Own(c)} : req'[x] = req[x])
  BY <1>1, RequestForms DEF TypeOK
<1>3. UNCHANGED <<jar, page>> /\ req[Own(c)].st = "idle" /\ (page[u] = "login" => k = "login")
  BY DEF Begin
<1>4. u = t BY <1>1, <1>2, NonesApart DEF OnlyTab
<1>5. \A d \in Calls : req'[Refresh(d)] = req[Refresh(d)] /\ (d # c => req'[Own(d)] = req[Own(d)])
  BY <1>2, RequestForms
<1>6. RefreshGranted(t)' BY <1>3, <1>5 DEF AloneAt, RefreshGranted
<1>7. SignedOut(t)'
  <2>1. page[t] = "login" => \A d \in Calls : Busy(d, t, Pages)' => Busy(d, t, Pages)
    BY <1>1, <1>2, <1>3, <1>4, <1>5 DEF Busy, Pages
  <2> QED BY <1>3, <2>1 DEF AloneAt, SignedOut
<1>8. LeftoverHarmless(t)'
  <2>1. Leftover' => Leftover BY <1>1, <1>2 DEF Leftover, InFlight
  <2>2. page[t] = "login" => \A d \in Calls : Busy(d, t, Pages)' => Busy(d, t, Pages)
    BY <1>1, <1>2, <1>3, <1>4, <1>5 DEF Busy, Pages
  <2>3. \A d \in Calls \ {c} : /\ Busy(d, t, Pages)' => Busy(d, t, Pages)
                               /\ Steady(d) => Steady(d)'
    BY <1>5 DEF Busy, Steady
  <2>4. Steady(c)' BY <1>1, <1>2 DEF Steady
  <2> QED BY <1>3, <2>1, <2>2, <2>3, <2>4 DEF AloneAt, LeftoverHarmless
<1>9. RepeatGranted(t)'
  BY <1>1, <1>2, <1>3, <1>5 DEF AloneAt, RepeatGranted
<1> QED BY <1>6, <1>7, <1>8, <1>9 DEF AloneAt

\* Nothing is under way when a session runs out, and no repetition when the
\* access cookie does.
LEMMA AloneAside ==
  ASSUME Core, NEW t \in Tabs, AloneAt(t),
         \/ \E u \in Tabs : OpenPage(u)
         \/ \E u \in Tokens : SessionExpires(u)
         \/ AccessExpires
         \/ UNCHANGED <<jar, page, refreshing, req>>
  PROVE  AloneAt(t)'
<1> USE DEF Core
<1>1. CASE UNCHANGED <<jar, page, refreshing, req>>
  BY <1>1 DEF AloneAt, SignedOut, RefreshGranted, LeftoverHarmless, RepeatGranted, Leftover, InFlight,
     Busy, Steady
<1>2. ASSUME NEW u \in Tabs, OpenPage(u) PROVE AloneAt(t)'
  <2>1. UNCHANGED <<jar, req>> /\ page' = [page EXCEPT ![u] = "app"] BY <1>2 DEF OpenPage
  <2>2. RefreshGranted(t)' /\ RepeatGranted(t)' BY <2>1 DEF AloneAt, RefreshGranted, RepeatGranted
  <2>3. CASE u # t
    <3>1. page'[t] = page[t] BY <2>1, <2>3 DEF TypeOK
    <3> QED BY <2>1, <2>2, <3>1
            DEF AloneAt, SignedOut, LeftoverHarmless, Leftover, InFlight, Busy, Steady
  <2>4. CASE u = t
    <3>1. page'[t] = "app" BY <2>1, <2>4 DEF TypeOK
    <3>2. \A c \in Calls : ~Busy(c, t, Pages)' BY <1>2, <2>1, <2>4 DEF OpenPage, Busy, Settled
    <3>3. jar.session # None BY <1>2 DEF OpenPage
    <3>4. Leftover' => Leftover BY <2>1 DEF Leftover, InFlight
    <3> QED BY <2>1, <2>2, <3>1, <3>2, <3>3, <3>4 DEF AloneAt, SignedOut, LeftoverHarmless
  <2> QED BY <2>3, <2>4
<1>3. ASSUME NEW u \in Tokens, SessionExpires(u) PROVE AloneAt(t)'
  <2>1. UNCHANGED <<page, req>> /\ InFlight = {} /\ jar'.session \in {None, jar.session}
    BY <1>3 DEF SessionExpires
  <2>2. \A c \in Calls : req[Own(c)].st \in {"idle", "done", "failed"}
    BY <1>3 DEF SessionExpires, Settled
  <2>3. \A c \in Calls : ~ (req[Refresh(c)].tab = t /\ req[Refresh(c)].st \in Progress)
    BY <2>2, UnderWay
  <2>4. SignedOut(t)' BY <2>1, <2>2 DEF SignedOut, Busy
  <2>5. RefreshGranted(t)' BY <2>1, <2>3 DEF RefreshGranted
  <2>6. LeftoverHarmless(t)' BY <2>1 DEF LeftoverHarmless, Leftover, InFlight
  <2>7. RepeatGranted(t)' BY <2>1, <2>2 DEF RepeatGranted
  <2> QED BY <2>4, <2>5, <2>6, <2>7 DEF AloneAt
<1>4. CASE AccessExpires
  <2>1. UNCHANGED <<page, req>> /\ jar'.session = jar.session
    BY <1>4 DEF AccessExpires, TypeOK, JarT
  <2>2. \A r \in Requests : req[r].retry \/ req[r].kind \in {"login", "refresh"} =>
          req[r].st \in {"done", "failed"}
    BY <1>4 DEF AccessExpires
  <2>3. SignedOut(t)' /\ RefreshGranted(t)'
    BY <2>1 DEF AloneAt, SignedOut, RefreshGranted, Busy
  <2>4. ~Leftover' BY <2>1, <2>2 DEF Leftover, InFlight
  <2>5. RepeatGranted(t)' BY <2>1, <2>2, RequestForms DEF RepeatGranted
  <2> QED BY <2>3, <2>4, <2>5 DEF AloneAt, LeftoverHarmless
<1> QED BY <1>1, <1>2, <1>3, <1>4

\* Nobody waits for r any more; the jar takes its answer.
LEMMA AloneGone ==
  ASSUME Core, LogoutHasTab, NEW t \in Tabs, AloneAt(t), NEW r \in InFlight, req[r].tab = None,
         req' = [req EXCEPT ![r].st = "failed"], UNCHANGED page,
         jar' = jar \/ (req[r].st = "answered" /\ jar' = Applied(req[r].sets))
  PROVE  AloneAt(t)'
<1> USE DEF Core
<1>0. r \in Requests BY DEF InFlight
<1>1. /\ req'[r].st = "failed" /\ req'[r].tab = None /\ req'[r].kind = req[r].kind
      /\ \A x \in Requests \ {r} : req'[x] = req[x]
  <2>1. req[r] \in ReqT BY <1>0 DEF TypeOK
  <2>2. req' = [req EXCEPT ![r] = [req[r] EXCEPT !.st = "failed"]] BY <1>0 DEF TypeOK
  <2> QED BY <2>1, <2>2, <1>0 DEF TypeOK, ReqT
<1>2. \A c \in Calls : (req'[Own(c)].tab = t \/ req[Own(c)].tab = t => req'[Own(c)] = req[Own(c)])
  BY <1>1, RequestForms, NonesApart
<1>3. \A c \in Calls : (req'[Refresh(c)].tab = t \/ req[Refresh(c)].tab = t => req'[Refresh(c)] = req[Refresh(c)])
  BY <1>1, RequestForms, NonesApart
<1>4. \A c \in Calls : Busy(c, t, Pages)' => Busy(c, t, Pages) /\ (Steady(c) => Steady(c)')
  BY <1>2 DEF Busy, Steady
<1>5. Leftover' => Leftover BY <1>1 DEF Leftover, InFlight
<1>6. CASE jar' = jar
  <2>1. SignedOut(t)' BY <1>4, <1>6 DEF AloneAt, SignedOut
  <2>2. RefreshGranted(t)' BY <1>3, <1>6 DEF AloneAt, RefreshGranted
  <2>3. LeftoverHarmless(t)' BY <1>4, <1>5, <1>6 DEF AloneAt, LeftoverHarmless
  <2>4. RepeatGranted(t)' BY <1>2, <1>6 DEF AloneAt, RepeatGranted
  <2> QED BY <2>1, <2>2, <2>3, <2>4 DEF AloneAt
<1>7. CASE req[r].st = "answered" /\ jar' = Applied(req[r].sets) /\ req[r].sets # None
  <2>1. req[r].kind # "logout"
    BY <1>0, <1>7, RequestForms DEF LogoutHasTab, InFlight, Form, RefreshOK
  <2>2. /\ req[r].sets \in Tokens /\ req[r].kind \in {"login", "refresh"}
    <3>1. AnswerOK(req[r]) /\ req[r].kind \in Kinds \cup {"refresh"} BY <1>0 DEF Form, TypeOK, ReqT
    <3> QED BY <3>1, <2>1, <1>7 DEF AnswerOK, Kinds
  <2>3. Leftover BY <2>2 DEF Leftover
  <2>4. jar'.session # None /\ jar'.access BY <1>7, <2>2, NonesApart DEF Applied
  <2>5. page[t] = "login" => \A c \in Calls : ~Busy(c, t, Pages)
    BY <2>3 DEF AloneAt, LeftoverHarmless
  <2>6. SignedOut(t)' BY <1>4, <2>5 DEF SignedOut
  <2>7. RefreshGranted(t)' BY <1>3, <2>3, NoneBesidesLeftover DEF AloneAt, RefreshGranted
  <2>8. LeftoverHarmless(t)' BY <1>4, <2>3, <2>4, <2>5 DEF AloneAt, LeftoverHarmless
  <2>9. RepeatGranted(t)' BY <1>2, <2>4 DEF AloneAt, RepeatGranted
  <2> QED BY <2>6, <2>7, <2>8, <2>9 DEF AloneAt
<1>8. CASE req[r].st = "answered" /\ jar' = Applied(req[r].sets) /\ req[r].sets = None
  BY <1>6, <1>8, NonesApart DEF Applied
<1> QED BY <1>6, <1>7, <1>8

LEMMA AloneCarried ==
  ASSUME Core, NEW t \in Tabs, AloneAt(t), NEW r \in Requests, NEW q, Carried(r, q), ~LeavesPage(r, q)
  PROVE  /\ Leftover' => Leftover
         /\ \A c \in Calls : Busy(c, t, Pages)' => Busy(c, t, Pages)
         /\ (\A c \in Calls : req'[Own(c)].tab = t /\ req'[Own(c)].st = "prepared" => jar'.access) =>
              RepeatGranted(t)'
<1> USE DEF Core
<1>1. \A x \in Requests : CarriedOne(x, r, q) BY DEF Carried
<1>2. Leftover' => Leftover
  <2> SUFFICES ASSUME NEW x \in Requests, req'[x].st \in Flying, req'[x].tab = None,
                      req'[x].kind \in {"login", "refresh"}
               PROVE  req[x].st \in Flying /\ req[x].tab = None /\ req[x].kind \in {"login", "refresh"}
    BY DEF Leftover, InFlight, Flying
  <2> QED BY <1>1 DEF CarriedOne, Flying
<1>3. ASSUME NEW c \in Calls, req'[Own(c)].tab = t, req'[Own(c)].st \notin {"idle", "done", "failed"}
      PROVE  /\ req[Own(c)].tab = t /\ req[Own(c)].kind = req'[Own(c)].kind
             /\ req[Own(c)].st \notin {"idle", "done", "failed"}
             /\ req'[Own(c)].st \in {"sent", "answered"} =>
                  /\ req'[Own(c)].st = req[Own(c)].st /\ req'[Own(c)].access = req[Own(c)].access
                  /\ req'[Own(c)].status = req[Own(c)].status /\ req'[Own(c)].retry = req[Own(c)].retry
  <2>1. Own(c) \in Requests /\ Own(c) # Refresh(r[1]) BY RequestForms
  <2>2. CarriedOne(Own(c), r, q) BY <1>1, <2>1
  <2> QED BY <1>3, <2>1, <2>2, NonesApart DEF CarriedOne, Flying
<1>4. \A c \in Calls : Busy(c, t, Pages)' => Busy(c, t, Pages) BY <1>3 DEF Busy
<1>5. ASSUME \A c \in Calls : req'[Own(c)].tab = t /\ req'[Own(c)].st = "prepared" => jar'.access
      PROVE  RepeatGranted(t)'
  BY <1>3, <1>5 DEF AloneAt, RepeatGranted
<1> QED BY <1>2, <1>4, <1>5

LEMMA AloneAwaits ==
  ASSUME Core, NEW t \in Tabs, AloneAt(t), NEW r \in Requests, req[r].st = "answered", req[r].tab = t,
         jar' = Applied(req[r].sets), jar' \in JarT, Refreshable(req[r], jar'), AwaitRefresh(r, req[r], jar'),
         Carried(r, req[r])
  PROVE  AloneAt(t)'
<1> USE DEF Core
<1> DEFINE q == req[r]
<1>0. q.status = "401" /\ ~q.retry /\ q.kind \notin {"login", "refresh"} /\ jar'.session # None
  BY DEF Refreshable
<1>1. PICK c \in Calls : r[1] = c /\ r = Own(c)
  <2>1. \A c \in Calls : r = Refresh(c) => q.kind = "refresh" BY DEF Form, RefreshOK
  <2> QED BY <2>1, <1>0, RequestForms
<1>2. q.kind \in Pages /\ q.sets = None
  BY <1>0, <1>1 DEF Form, OwnOK, AnswerOK, Kinds, Pages
<1>3. jar' = jar BY <1>2, NonesApart DEF Applied
<1>4. Busy(c, t, Pages) /\ ~Steady(c) BY <1>0, <1>1, <1>2 DEF Busy, Steady
<1>5. page[t] = "app" BY <1>0, <1>3, <1>4 DEF AloneAt, SignedOut, TypeOK
<1>6. ~Leftover BY <1>4, <1>5 DEF AloneAt, LeftoverHarmless
<1>7. ~LeavesPage(r, q) BY <1>0 DEF LeavesPage
<1> HIDE DEF q
<1>8. ~Leftover' /\ page'[t] = "app"
  <2>1. UNCHANGED page BY DEF AwaitRefresh
  <2> QED BY <2>1, <1>5, <1>6, <1>7, AloneCarried DEF q
<1>9. /\ req'[r].st = "awaiting"
      /\ \A x \in Requests \ {r} : x # Refresh(c) => req'[x] = req[x]
      /\ \/ req'[Refresh(c)] = req[Refresh(c)]
         \/ req'[Refresh(c)] = Prepared([Idle EXCEPT !.tab = t, !.kind = "refresh"], jar')
  <2>1. req[r] \in ReqT BY DEF TypeOK
  <2>2. req'[r].st = "awaiting" BY <2>1 DEF AwaitRefresh, ReqT
  <2>3. \A x \in Requests \ {r} : x # Refresh(c) => req'[x] = req[x] BY <1>1 DEF AwaitRefresh
  <2>4. Refresh(c) # r /\ Refresh(c) \in Requests BY <1>1, RequestForms
  <2>5. \/ req'[Refresh(c)] = req[Refresh(c)]
        \/ req'[Refresh(c)] = Prepared([Idle EXCEPT !.tab = t, !.kind = "refresh"], jar')
    BY <2>4, <1>1 DEF AwaitRefresh
  <2> QED BY <2>2, <2>3, <2>5
<1>10. RepeatGranted(t)'
  <2>1. ASSUME NEW d \in Calls, req'[Own(d)].tab = t, req'[Own(d)].retry
        PROVE  LET o == req'[Own(d)] IN
                 /\ o.st = "prepared" => jar'.access
                 /\ o.st = "sent" => o.access
                 /\ o.st = "answered" => o.status # "401"
    <3>1. CASE d = c BY <3>1, <1>1, <1>9
    <3>2. CASE d # c
      <4>1. req'[Own(d)] = req[Own(d)] BY <3>2, <1>1, <1>9, RequestForms
      <4> QED BY <2>1, <4>1, <1>3 DEF AloneAt, RepeatGranted
    <3> QED BY <3>1, <3>2
  <2> QED BY <2>1 DEF RepeatGranted
<1>11. RefreshGranted(t)'
  <2>1. ASSUME NEW d \in Calls, req'[Refresh(d)].tab = t, req'[Refresh(d)].st \in Progress
        PROVE  LET o == req'[Refresh(d)] IN
                 /\ jar'.session # None
                 /\ o.st # "answered" => o.header = jar'.session
                 /\ o.st \in {"sent", "holding"} => o.session = jar'.session
                 /\ o.st = "answered" => o.status = "ok"
    <3>1. CASE req'[Refresh(d)] = req[Refresh(d)] BY <2>1, <3>1, <1>3 DEF AloneAt, RefreshGranted
    <3>2. CASE req'[Refresh(d)] # req[Refresh(d)]
      <4> DEFINE i == [Idle EXCEPT !.tab = t, !.kind = "refresh"]
      <4>1. d = c /\ req'[Refresh(d)] = Prepared(i, jar')
        BY <3>2, <1>1, <1>9, RequestForms
      <4>2. i \in ReqT BY IdleForm
      <4>3. i.kind = "refresh" BY DEF Idle
      <4> HIDE DEF i
      <4>4. Prepared(i, jar') = [i EXCEPT !.st = "prepared", !.header = jar'.session]
        BY <1>0, <4>2, <4>3, PreparedForm
      <4>5. Prepared(i, jar').st = "prepared" /\ Prepared(i, jar').header = jar'.session
        BY <4>2, <4>4 DEF ReqT
      <4> QED BY <4>1, <4>5, <1>0
    <3> QED BY <3>1, <3>2
  <2> QED BY <2>1 DEF RefreshGranted
<1> QED BY <1>8, <1>10, <1>11 DEF AloneAt, SignedOut, LeftoverHarmless

LEMMA AloneSettlesRefresh ==
  ASSUME Core, NEW t \in Tabs, AloneAt(t), NEW r \in Requests, req[r].st = "answered", req[r].tab = t,
         jar' = Applied(req[r].sets), jar' \in JarT, req[r].kind = "refresh", SettleRefresh(r, req[r], jar'),
         Carried(r, req[r]), Core'
  PROVE  AloneAt(t)' /\ page' = page
<1> USE DEF Core
<1>1. PICK c \in Calls : r = Refresh(c)
  BY RequestForms DEF Form, OwnOK, Kinds
<1>2. /\ refreshing[t] = c /\ Busy(c, t, Pages) BY <1>1, UnderWay DEF Progress
<1>3. jar.session # None /\ req[r].status = "ok" BY <1>1 DEF AloneAt, RefreshGranted, Progress
<1>4. req[r].sets \in Tokens BY <1>3 DEF Form, AnswerOK
<1>5. jar'.session # None /\ jar'.access BY <1>4, NonesApart DEF Applied
<1>6. page' = page BY <1>3 DEF SettleRefresh
<1>7. page[t] = "app" BY <1>2, <1>3 DEF AloneAt, SignedOut, TypeOK
<1>8. ~Leftover BY <1>1, NoneBesidesLeftover DEF AloneAt, Progress
<1>9. ~LeavesPage(r, req[r]) BY DEF LeavesPage
<1>10. ~Leftover' /\ RepeatGranted(t)' BY <1>5, <1>8, <1>9, AloneCarried
<1>11. RefreshGranted(t)'
  <2>1. refreshing'[t] = None BY DEF SettleRefresh, TypeOK
  <2>2. \A d \in Calls : req'[Refresh(d)].tab = t /\ req'[Refresh(d)].st \in Progress => refreshing'[t] = d
    BY NonesApart DEF Form, RefreshOK
  <2> QED BY <2>1, <2>2, NonesApart DEF RefreshGranted
<1> QED BY <1>6, <1>7, <1>10, <1>11 DEF AloneAt, SignedOut, LeftoverHarmless

\* The page is gone, and the session with it.
LEMMA AloneLeaves ==
  ASSUME Core, NEW t \in Tabs, NEW r \in Requests, req[r].st = "answered", req[r].tab = t,
         jar' = Applied(req[r].sets), req[r].kind = "logout", req[r].status = "ok", LeavePage(r, req[r])
  PROVE  AloneAt(t)'
<1> USE DEF Core
<1>1. jar'.session = None
  <2>1. req[r].sets = Clear BY NonesApart DEF Form, AnswerOK
  <2> QED BY <2>1, NonesApart DEF Applied
<1>2. page'[t] = "login" BY DEF LeavePage, TypeOK
<1>3. ASSUME NEW x \in Requests, req'[x].tab = t PROVE req'[x].st \in {"done", "failed"}
  <2>1. req[x] \in ReqT BY DEF TypeOK
  <2>2. CASE x = r BY <2>1, <2>2 DEF LeavePage, ReqT
  <2>3. CASE x # r /\ req[x].tab # t BY <1>3, <2>3 DEF LeavePage
  <2>4. CASE x # r /\ req[x].tab = t /\ req[x].st \in {"prepared", "awaiting"}
    <3>1. req'[x] = [req[x] EXCEPT !.st = "failed"] BY <2>4 DEF LeavePage
    <3> QED BY <2>1, <3>1 DEF ReqT
  <2>5. CASE x # r /\ req[x].tab = t /\ req[x].st \notin {"prepared", "awaiting"}
    <3>1. req'[x] = [req[x] EXCEPT !.tab = None] BY <2>5 DEF LeavePage
    <3> QED BY <1>3, <2>1, <3>1, NonesApart DEF ReqT
  <2> QED BY <2>2, <2>3, <2>4, <2>5
<1>4. \A c \in Calls : /\ req'[Own(c)].tab = t => req'[Own(c)].st \in {"done", "failed"}
                       /\ req'[Refresh(c)].tab = t => req'[Refresh(c)].st \in {"done", "failed"}
  BY <1>3, RequestForms
<1>5. \A c \in Calls : ~Busy(c, t, Pages)' BY <1>4 DEF Busy
<1>6. SignedOut(t)' BY <1>1 DEF SignedOut
<1>7. RefreshGranted(t)' BY <1>4 DEF RefreshGranted, Progress
<1>8. LeftoverHarmless(t)' BY <1>1, <1>2, <1>5 DEF LeftoverHarmless
<1>9. RepeatGranted(t)' BY <1>4 DEF RepeatGranted
<1> QED BY <1>6, <1>7, <1>8, <1>9 DEF AloneAt

LEMMA AloneSettles ==
  ASSUME Core, NEW t \in Tabs, Single(t), AloneAt(t), NEW r \in Requests, req[r].st = "answered", req[r].tab = t,
         jar' = Applied(req[r].sets), jar' \in JarT, req[r].kind # "refresh", Settle(r, req[r]),
         ~Refreshable(req[r], jar'), ~ (req[r].kind = "logout" /\ req[r].status = "ok"),
         Carried(r, req[r])
  PROVE  /\ AloneAt(t)'
         /\ page'[t] = "login" => page[t] = "login" \/ jar'.session = None
<1> USE DEF Core
<1>1. PICK c \in Calls : r = Own(c)
  BY RequestForms DEF Form, RefreshOK
<1>2. /\ req'[r].st \in {"done", "failed"} /\ req'[r].tab = t
      /\ \A x \in Requests \ {r} : req'[x] = req[x]
  <2>1. req[r] \in ReqT BY DEF TypeOK
  <2>2. req' = [req EXCEPT ![r] = [req[r] EXCEPT !.st = IF req[r].status = "ok" THEN "done" ELSE "failed"]]
    BY DEF Settle
  <2> QED BY <2>1, <2>2 DEF TypeOK, ReqT
<1>3. ~LeavesPage(r, req[r]) BY DEF LeavesPage
<1>4. /\ Leftover' => Leftover
      /\ \A d \in Calls : Busy(d, t, Pages)' => Busy(d, t, Pages)
      /\ (\A d \in Calls : req'[Own(d)].tab = t /\ req'[Own(d)].st = "prepared" => jar'.access) =>
           RepeatGranted(t)'
  BY <1>3, AloneCarried
<1>5. \A d \in Calls : Refresh(d) # r /\ req'[Refresh(d)] = req[Refresh(d)] BY <1>1, <1>2, RequestForms
<1>6. \A d \in Calls : Busy(d, t, Pages)' /\ Steady(d) => Steady(d)'
  <2> SUFFICES ASSUME NEW d \in Calls, Busy(d, t, Pages)', Steady(d) PROVE Steady(d)' OBVIOUS
  <2>1. Own(d) # r BY <1>2 DEF Busy
  <2>2. req'[Own(d)] = req[Own(d)] BY <2>1, <1>2, RequestForms
  <2> QED BY <2>2 DEF Steady
<1>7. RefreshGranted(t) /\ jar' = jar => RefreshGranted(t)'
  BY <1>5 DEF RefreshGranted
<1>8. RepeatGranted(t) /\ jar' = jar => RepeatGranted(t)'
  <2> SUFFICES ASSUME RepeatGranted(t), jar' = jar, NEW d \in Calls, req'[Own(d)].tab = t, req'[Own(d)].retry
               PROVE  LET o == req'[Own(d)] IN
                        /\ o.st = "prepared" => jar'.access
                        /\ o.st = "sent" => o.access
                        /\ o.st = "answered" => o.status # "401"
    BY DEF RepeatGranted
  <2>1. CASE Own(d) = r BY <2>1, <1>2
  <2>2. CASE Own(d) # r
    <3>1. req'[Own(d)] = req[Own(d)] BY <2>2, <1>2, RequestForms
    <3> QED BY <3>1 DEF RepeatGranted
  <2> QED BY <2>1, <2>2
<1>9. CASE page'[t] = page[t] /\ jar' = jar
  <2>1. SignedOut(t)' BY <1>4, <1>9 DEF AloneAt, SignedOut
  <2>2. LeftoverHarmless(t)' BY <1>4, <1>6, <1>9 DEF AloneAt, LeftoverHarmless
  <2> QED BY <2>1, <2>2, <1>7, <1>8, <1>9 DEF AloneAt
\* /auth/me has failed: the jar holds no session, or it would have been repeated.
<1>10. CASE req[r].kind = "me" /\ req[r].status # "ok"
  <2>1. req[r].sets = None /\ req[r].status = "401" BY <1>10 DEF Form, AnswerOK
  <2>2. jar' = jar BY <2>1, NonesApart DEF Applied
  <2>3. ~req[r].retry BY <2>1, <1>1 DEF AloneAt, RepeatGranted
  <2>4. jar.session = None BY <2>1, <2>2, <2>3, <1>10 DEF Refreshable
  <2>5. page'[t] = "login" BY <1>10 DEF Settle, TypeOK
  <2>6. Busy(c, t, Pages) BY <1>1, <1>10 DEF Busy, Pages
  <2>7. ~Leftover
    <3>1. page[t] \in {"app", "login"} BY DEF TypeOK
    <3> QED BY <3>1, <2>4, <2>6 DEF AloneAt, LeftoverHarmless
  <2>8. SignedOut(t)' BY <2>2, <2>4 DEF SignedOut
  <2>9. LeftoverHarmless(t)' BY <2>7, <1>4 DEF LeftoverHarmless
  <2> QED BY <2>2, <2>4, <2>8, <2>9, <1>7, <1>8 DEF AloneAt
<1>11. CASE req[r].kind = "login" /\ req[r].status = "ok"
  <2>1. req[r].sets \in Tokens BY <1>11 DEF Form, AnswerOK
  <2>2. jar'.session # None /\ jar'.access BY <2>1, NonesApart DEF Applied
  <2>3. page'[t] = "app" BY <1>11 DEF Settle, TypeOK
  <2>4. page[t] = "login" BY <1>1, <1>11 DEF Single, Busy
  <2>5. Leftover => \A d \in Calls : ~Busy(d, t, Pages) BY <2>4 DEF AloneAt, LeftoverHarmless
  <2>6. LeftoverHarmless(t)' BY <2>2, <2>3, <2>5, <1>4 DEF LeftoverHarmless
  <2>7. \A d \in Calls : ~ (req[Refresh(d)].tab = t /\ req[Refresh(d)].st \in Progress)
    <3> SUFFICES ASSUME NEW d \in Calls, req[Refresh(d)].tab = t, req[Refresh(d)].st \in Progress PROVE FALSE
      OBVIOUS
    <3>1. Busy(d, t, Pages) BY UnderWay
    <3>2. jar.session # None BY DEF AloneAt, RefreshGranted
    <3> QED BY <2>4, <3>1, <3>2 DEF AloneAt, SignedOut
  <2>8. RefreshGranted(t)' BY <2>7, <1>5 DEF RefreshGranted
  <2> QED BY <2>2, <2>3, <2>6, <2>8, <1>4 DEF AloneAt, SignedOut
<1>12. CASE ~ (req[r].kind = "me" /\ req[r].status # "ok") /\ ~ (req[r].kind = "login" /\ req[r].status = "ok")
  <2>1. page' = page BY <1>12 DEF Settle
  <2>2. req[r].sets = None
    <3>1. AnswerOK(req[r]) /\ req[r].kind \in Kinds BY <1>1 DEF Form, OwnOK
    <3> QED BY <3>1, <1>12 DEF AnswerOK, Kinds
  <2>3. jar' = jar BY <2>2, NonesApart DEF Applied
  <2> QED BY <2>1, <2>3, <1>9
<1> QED BY <1>10, <1>11, <1>12

LEMMA StepKinds ==
  ASSUME Core, [Next]_vars
  PROVE  \/ Aside
         \/ \E c \in Calls, t \in Tabs, k \in Kinds : Begin(c, t, k)
         \/ \E r \in Requests : Moves(r) \/ Arrives(r)
<1> USE DEF Core
<1>1. ASSUME NEW r \in Requests, Send(r) PROVE Moves(r)
  <2>1. req' = [req EXCEPT ![r] = [req[r] EXCEPT !.st = "sent", !.session = jar.session, !.access = jar.access]]
    BY <1>1 DEF Send, TypeOK
  <2>2. req[r] \in ReqT BY DEF TypeOK
  <2> QED BY <1>1, <2>1, <2>2 DEF Send, Moves, Flying, TypeOK, ReqT
<1>2. ASSUME NEW r \in Requests, NEW status, NEW sets, Answer(r, status, sets),
             req[r].st \in {"sent", "holding"}, UNCHANGED <<page, active>>
      PROVE  Moves(r)
  <2>1. TypeOK OBVIOUS
  <2>2. /\ \A x \in Requests \ {r} : req'[x] = req[x]
        /\ req'[r].st = "answered" /\ req'[r].kind = req[r].kind /\ req'[r].tab = req[r].tab
    BY ONLY <2>1, <1>2, r \in Requests, AnsweredMoves
  <2> QED BY <1>2, <2>2 DEF Moves, Flying
<1>3. ASSUME NEW r \in Requests, AnsweredPlainly(r) \/ LoggedIn(r) \/ Exchanged(r) \/ ServeLogout(r)
      PROVE  Moves(r)
  <2>1. UNCHANGED <<page, active>> /\ req[r].st \in {"sent", "holding"}
    BY <1>3 DEF AnsweredPlainly, LoggedIn, Exchanged, ServeLogout
  <2>2. \E status, sets : Answer(r, status, sets)
    BY <1>3 DEF AnsweredPlainly, LoggedIn, Exchanged, ServeLogout
  <2> QED BY <2>1, <2>2, <1>2
<1>4. ASSUME NEW r \in Requests, Selected(r) PROVE Moves(r)
  <2>1. req' = [req EXCEPT ![r] = [req[r] EXCEPT !.st = "holding"]] BY <1>4 DEF Selected, TypeOK
  <2>2. req[r] \in ReqT BY DEF TypeOK
  <2> QED BY <1>4, <2>1, <2>2 DEF Selected, Moves, Flying, TypeOK, ReqT
<1>5. ASSUME NEW r \in Requests, Deliver(r) \/ Lose(r) PROVE Arrives(r)
  <2>1. jar' \in JarT BY <1>5, ArriveStep DEF TypeOK
  <2>2. PICK q : Arriving(r, q) /\ Arrive(r, q, jar') BY <1>5, ArriveStep
  <2> QED BY <1>5, <2>1, <2>2, ArriveCarries DEF Arrives
<1>6. \/ UNCHANGED vars \/ \E t \in Tabs : OpenPage(t)
      \/ \E t \in Tokens : SessionExpires(t)
      \/ AccessExpires \/ Deactivate
      => Aside
  BY DEF Aside, vars, OpenPage, SessionExpires, AccessExpires, Deactivate
<1>7. Core OBVIOUS
<1> HIDE DEF Core
<1> QED BY <1>1, <1>3, <1>4, <1>5, <1>6, <1>7, Steps

\* A tab that has the hypotheses after a step had them before, unless the step
\* delivers the answer of its logout.
LEMMA UndisturbedBefore ==
  ASSUME Core, [Next]_vars, NEW t \in Tabs, Single(t), Undisturbed(t)'
  PROVE  /\ OnlyTab(t) /\ NothingLost /\ active
         /\ \A c \in Calls :
              LET q == req[Own(c)] IN
              q.tab = t /\ q.kind = "logout" /\ q.st = "answered" /\ q.status = "ok" => Deliver(Own(c))
<1> USE DEF Core
<1>1. NothingLost BY LostForever DEF Undisturbed
<1>2. active
  <2>1. active' => active
    BY DEF TypeOK, Next, vars, Begin, Send, Serve, Deliver, Lose, OpenPage, SessionExpires, AccessExpires,
           Deactivate, Quiet, RefuseCsrf, ServeCall, RefreshSelect, RefreshCommit, ServeLogout, ServeLogin
  <2> QED BY <2>1 DEF Undisturbed
<1>3. OnlyTab(t)
  <2> SUFFICES ASSUME NEW c \in Calls PROVE req[Own(c)].tab \in {None, t} BY DEF OnlyTab
  <2>0. \A d \in Calls : req'[Own(d)].tab \in {None, t} /\ Own(d) \in Requests
    BY RequestForms DEF Undisturbed, OnlyTab
  <2>1. CASE Aside BY <2>0, <2>1 DEF Aside
  <2>2. ASSUME NEW d \in Calls, NEW u \in Tabs, NEW k \in Kinds, Begin(d, u, k)
        PROVE  req[Own(c)].tab \in {None, t}
    <3>1. req[Own(d)].tab = None BY <2>2 DEF Begin, Form, OwnOK, Idle
    <3>2. PICK n \in ReqT : req' = [req EXCEPT ![Own(d)] = n] BY <2>2, BeginForm
    <3>3. c # d => req'[Own(c)] = req[Own(c)] BY <3>2, RequestForms DEF TypeOK
    <3> QED BY <2>0, <3>1, <3>3
  <2>3. ASSUME NEW r \in Requests, Moves(r) PROVE req[Own(c)].tab \in {None, t}
    BY <2>0, <2>3 DEF Moves
  <2>4. ASSUME NEW r \in Requests, Arrives(r) PROVE req[Own(c)].tab \in {None, t}
    <3>1. PICK q : Arriving(r, q) /\ Carried(r, q) BY <2>4 DEF Arrives
    <3>2. q.tab = req[r].tab /\ q.kind = req[r].kind /\ req'[r].tab = req[r].tab
      BY <3>1, ArrivingForm DEF Carried
    <3>3. CarriedOne(Own(c), r, q) BY <3>1, <2>0 DEF Carried
    <3>4. LeavesPage(r, q) => req[r].tab \in {None, t}
      <4>1. r = Refresh(r[1]) /\ req[r].kind = "logout" => FALSE
        BY <3>1, RequestForms DEF Form, RefreshOK, Arriving
      <4> QED BY <4>1, <3>2, <2>0, RequestForms DEF LeavesPage
    <3>5. CASE req'[Own(c)].tab = req[Own(c)].tab BY <3>5, <2>0
    <3>6. CASE req[Own(c)].st = "idle" BY <3>6 DEF Form, OwnOK, Idle
    <3>7. CASE req'[Own(c)].tab # req[Own(c)].tab /\ req[Own(c)].st # "idle"
      BY <3>2, <3>3, <3>4, <3>7 DEF CarriedOne
    <3> QED BY <3>5, <3>6, <3>7
  <2> QED BY <2>1, <2>2, <2>3, <2>4, StepKinds
<1>4. ASSUME NEW c \in Calls, req[Own(c)].tab = t, req[Own(c)].kind = "logout", req[Own(c)].st = "answered",
             req[Own(c)].status = "ok"
      PROVE  Deliver(Own(c))
  <2> DEFINE o == Own(c)
  <2>0. o \in Requests BY RequestForms
  <2>1. req'[o].tab # t \/ req'[o].kind # "logout" \/ req'[o].st # "answered" \/ req'[o].status # "ok"
    BY DEF Undisturbed, LoggedOut
  <2>2. req'[o] # req[o] BY <2>1, <1>4
  <2>3. ~Aside BY <2>2 DEF Aside
  <2>4. ASSUME NEW d \in Calls, NEW u \in Tabs, NEW k \in Kinds, Begin(d, u, k) PROVE FALSE
    <3>1. PICK n \in ReqT : req' = [req EXCEPT ![Own(d)] = n] BY <2>4, BeginForm
    <3>2. Own(d) # o BY <2>4, <1>4 DEF Begin
    <3> QED BY <2>0, <2>2, <3>1, <3>2 DEF TypeOK
  <2>5. ASSUME NEW r \in Requests, Moves(r) PROVE FALSE
    BY <2>0, <2>2, <2>5, <1>4 DEF Moves
  <2>6. ASSUME NEW r \in Requests, Arrives(r) PROVE Deliver(o)
    <3>1. PICK q : Arriving(r, q) /\ Carried(r, q) BY <2>6 DEF Arrives
    <3>2. CarriedOne(o, r, q) BY <2>0, <3>1 DEF Carried
    <3>3. CASE r # o
      <4>1. LeavesPage(r, q) /\ q.tab = t
        BY <2>1, <3>2, <3>3, <1>4 DEF CarriedOne, Flying
      <4>2. /\ req[r].kind = "logout" /\ req[r].tab = t /\ req[r].st \in {"sent", "answered"}
        BY <3>1, <4>1, ArrivingForm DEF LeavesPage, Arriving
      <4>3. r = Own(r[1]) /\ r[1] \in Calls BY <4>2, RequestForms DEF Form, RefreshOK
      <4>4. Busy(r[1], t, {"logout"}) BY <4>2, <4>3 DEF Busy
      <4>5. Busy(c, t, {"logout"}) BY <1>4 DEF Busy
      <4> QED BY <3>3, <4>3, <4>4, <4>5 DEF Single
    <3>4. CASE r = o
      <4>1. q.tab = t /\ req'[o].status = q.status
        BY <3>1, <3>4, <1>4, ArrivingForm, NonesApart DEF Carried
      <4>2. q.status # "lost" BY <2>0, <4>1 DEF Undisturbed, NothingLost
      <4>3. ~Lose(o)
        <5> SUFFICES ASSUME Lose(o) PROVE FALSE OBVIOUS
        <5>1. PICK p \in ReqT : Arriving(o, p) /\ Arrive(o, p, jar') /\ p.status = "lost"
          <6>1. [req[o] EXCEPT !.status = "lost"] \in ReqT BY <2>0 DEF TypeOK, ReqT
          <6>2. [req[o] EXCEPT !.status = "lost"].status = "lost" BY <2>0 DEF TypeOK, ReqT
          <6>3. jar' = jar BY DEF Lose
          <6>4. Arriving(o, [req[o] EXCEPT !.status = "lost"]) BY DEF Lose, Arriving
          <6>5. Arrive(o, [req[o] EXCEPT !.status = "lost"], jar') BY <6>3 DEF Lose
          <6> QED BY <6>1, <6>2, <6>4, <6>5
        <5>2. jar' \in JarT BY <2>0, ArriveStep DEF TypeOK
        <5>3. Carried(o, p) BY <2>0, <5>1, <5>2, ArriveCarries
        <5>4. p.tab = t BY <2>0, <5>1, <1>4, ArrivingForm
        <5>5. req'[o].status = "lost" BY <5>1, <5>3, <5>4, NonesApart DEF Carried
        <5> QED BY <2>0, <5>5 DEF Undisturbed, NothingLost
      <4> QED BY <2>6, <3>4, <4>3 DEF Arrives
    <3> QED BY <3>3, <3>4
  <2> QED BY <2>3, <2>4, <2>5, <2>6, StepKinds
<1> QED BY <1>1, <1>2, <1>3, <1>4

Singles == (\A t \in Tabs : Single(t)) /\ LogoutHasTab

\* The login and logout buttons are disabled while their request is under way, and
\* only an answered login brings the application back.
LEMMA SinglesNext == ASSUME Core, Singles, [Next]_vars PROVE Singles'
<1> USE DEF Core
<1>1. ASSUME NEW c \in Calls, NEW u \in Tabs, NEW k \in Kinds, Begin(c, u, k) PROVE Singles'
  <2>1. PICK n \in ReqT :
          /\ req' = [req EXCEPT ![Own(c)] = n]
          /\ n.st = "prepared" /\ n.tab = u /\ n.kind = k
    BY <1>1, BeginForm
  <2>2. req'[Own(c)] = n /\ (\A x \in Requests \ {Own(c)} : req'[x] = req[x])
    BY <2>1, RequestForms DEF TypeOK
  <2>3. /\ UNCHANGED page
        /\ k = "login" => page[u] = "login"
        /\ k \in {"login", "logout"} =>
             \A d \in Calls : req[Own(d)].tab = u /\ req[Own(d)].kind = k => req[Own(d)].st \in {"done", "failed"}
    BY <1>1 DEF Begin, Settled, TypeOK
  <2>4. \A d \in Calls : d # c => req'[Own(d)] = req[Own(d)] BY <2>2, RequestForms
  <2>5. ASSUME NEW t \in Tabs PROVE Single(t)'
    <3>1. \A d \in Calls : Busy(d, t, {"login"})' => page'[t] = "login"
      BY <2>1, <2>2, <2>3, <2>4 DEF Singles, Single, Busy
    <3>2. ASSUME NEW j \in {"login", "logout"}, NEW d \in Calls, NEW e \in Calls,
                 Busy(d, t, {j})', Busy(e, t, {j})'
          PROVE  d = e
      <4>1. CASE d # c /\ e # c BY <4>1, <3>2, <2>4 DEF Singles, Single, Busy
      <4>2. CASE d = c /\ e # c
        <5>1. u = t /\ k = j BY <4>2, <3>2, <2>1, <2>2 DEF Busy
        <5> QED BY <4>2, <5>1, <3>2, <2>3, <2>4 DEF Busy
      <4>3. CASE d # c /\ e = c
        <5>1. u = t /\ k = j BY <4>3, <3>2, <2>1, <2>2 DEF Busy
        <5> QED BY <4>3, <5>1, <3>2, <2>3, <2>4 DEF Busy
      <4> QED BY <4>1, <4>2, <4>3
    <3> QED BY <3>1, <3>2 DEF Single
  <2>6. LogoutHasTab'
    BY <2>1, <2>2, <2>4, RequestForms DEF Singles, LogoutHasTab, InFlight
  <2> QED BY <2>5, <2>6 DEF Singles
<1>2. ASSUME NEW r \in Requests, Moves(r) PROVE Singles'
  <2>1. \A d \in Calls, t \in Tabs, j \in {"login", "logout"} : Busy(d, t, {j})' => Busy(d, t, {j})
    BY <1>2, RequestForms DEF Moves, Busy, Flying
  <2>2. UNCHANGED page BY <1>2 DEF Moves
  <2>3. \A t \in Tabs : Single(t)' BY <2>1, <2>2 DEF Singles, Single
  <2>4. ASSUME NEW d \in Calls, req'[Own(d)].kind = "logout", Own(d) \in InFlight' PROVE req'[Own(d)].tab # None
    <3>1. Own(d) \in Requests BY RequestForms
    <3>2. req[Own(d)].kind = "logout" /\ req'[Own(d)].tab = req[Own(d)].tab
          /\ (req[Own(d)].st = "prepared" \/ Own(d) \in InFlight)
      BY <1>2, <2>4, <3>1 DEF Moves, InFlight, Flying
    <3>3. req[Own(d)].st = "prepared" => req[Own(d)].tab # None BY NonesApart DEF Form, OwnOK
    <3> QED BY <3>2, <3>3 DEF Singles, LogoutHasTab
  <2> QED BY <2>3, <2>4 DEF Singles, LogoutHasTab
<1>3. ASSUME Aside PROVE Singles'
  <2>1. \A d \in Calls, t \in Tabs, j \in {"login", "logout"} : Busy(d, t, {j})' <=> Busy(d, t, {j})
    BY <1>3 DEF Aside, Busy
  <2>2. LogoutHasTab' BY <1>3 DEF Aside, Singles, LogoutHasTab, InFlight
  <2>3. \A t \in Tabs : page'[t] = "login" \/ page'[t] = page[t] \/ \A d \in Calls : ~Busy(d, t, {"login"})
    BY <1>3 DEF Aside, OpenPage, Busy, Settled, TypeOK
  <2>4. \A t \in Tabs : Single(t)' BY <2>1, <2>3 DEF Singles, Single
  <2> QED BY <2>2, <2>4 DEF Singles
<1>4. ASSUME NEW r \in Requests, Arrives(r) PROVE Singles'
  <2>1. PICK q : Arriving(r, q) /\ Arrive(r, q, jar') /\ Carried(r, q) BY <1>4 DEF Arrives
  <2>2. /\ q.tab = req[r].tab /\ q.kind = req[r].kind /\ q.st = req[r].st /\ q.st \in {"sent", "answered"}
        /\ q \in ReqT
    BY <2>1, ArrivingForm DEF Arriving
  <2>3. ASSUME NEW d \in Calls, NEW t \in Tabs, NEW j \in {"login", "logout"}, Busy(d, t, {j})'
        PROVE  Busy(d, t, {j}) /\ Own(d) # r
    <3>1. CarriedOne(Own(d), r, q) /\ Own(d) \in Requests /\ Own(d) # Refresh(r[1])
      BY <2>1, RequestForms DEF Carried
    <3>2. Own(d) # r BY <2>1, <2>3 DEF Carried, Busy
    <3> QED BY <2>3, <3>1, <3>2, NonesApart DEF CarriedOne, Busy, Flying
  <2>4. \A t \in Tabs : page'[t] = "login" \/ page'[t] = page[t] \/
                        (q.kind = "login" /\ q.tab = t)
    <3>1. CASE q.tab = None BY <3>1, <2>1 DEF Arrive
    <3>2. CASE q.tab # None /\ Refreshable(q, jar') BY <3>2, <2>1 DEF Arrive, AwaitRefresh
    <3>3. CASE q.tab # None /\ ~Refreshable(q, jar') /\ q.kind = "refresh"
      BY <3>3, <2>1 DEF Arrive, SettleRefresh, TypeOK
    <3>4. CASE q.tab # None /\ ~Refreshable(q, jar') /\ q.kind = "logout" /\ q.status = "ok"
      BY <3>4, <2>1 DEF Arrive, LeavePage, TypeOK
    <3>5. CASE q.tab # None /\ ~Refreshable(q, jar') /\ q.kind # "refresh" /\ ~ (q.kind = "logout" /\ q.status = "ok")
      <4>1. Settle(r, q) BY <3>5, <2>1 DEF Arrive
      <4> QED BY <4>1 DEF Settle, TypeOK
    <3> QED BY <3>1, <3>2, <3>3, <3>4, <3>5
  <2>5. ASSUME NEW t \in Tabs PROVE Single(t)'
    <3>1. ASSUME NEW d \in Calls, Busy(d, t, {"login"})' PROVE page'[t] = "login"
      <4>1. Busy(d, t, {"login"}) /\ Own(d) # r BY <3>1, <2>3
      <4>2. page[t] = "login" BY <4>1 DEF Singles, Single
      <4>3. CASE q.kind = "login" /\ q.tab = t
        <5>1. r = Own(r[1]) /\ r[1] \in Calls BY <4>3, <2>2, RequestForms DEF Form, RefreshOK
        <5>2. Busy(r[1], t, {"login"}) BY <4>3, <2>2, <5>1 DEF Busy
        <5> QED BY <4>1, <5>1, <5>2 DEF Singles, Single
      <4> QED BY <4>2, <4>3, <2>4
    <3>2. \A k \in {"login", "logout"}, d, e \in Calls : Busy(d, t, {k})' /\ Busy(e, t, {k})' => d = e
      BY <2>3 DEF Singles, Single
    <3> QED BY <3>1, <3>2 DEF Single
  <2>6. ASSUME NEW d \in Calls, req'[Own(d)].kind = "logout", Own(d) \in InFlight' PROVE req'[Own(d)].tab # None
    <3>1. CarriedOne(Own(d), r, q) /\ Own(d) \in Requests /\ Own(d) # Refresh(r[1])
      BY <2>1, RequestForms DEF Carried
    <3>2. Own(d) # r /\ req[Own(d)].st = req'[Own(d)].st /\ req[Own(d)].kind = "logout"
      BY <2>6, <3>1 DEF CarriedOne, InFlight, Flying
    <3>3. req[Own(d)].tab # None
      BY <2>6, <3>1, <3>2 DEF Singles, LogoutHasTab, InFlight
    <3>4. CASE req'[Own(d)].tab # req[Own(d)].tab
      <4>1. req[Own(d)].tab = q.tab /\ LeavesPage(r, q)
        BY <3>1, <3>2, <3>4, <2>6 DEF CarriedOne, InFlight
      <4>2. r = Own(r[1]) /\ r[1] \in Calls BY <4>1, <2>2, RequestForms DEF Form, RefreshOK, LeavesPage
      <4>3. q.tab \in Tabs BY <4>1, <2>2 DEF LeavesPage, ReqT
      <4>4. Busy(r[1], q.tab, {"logout"}) BY <4>1, <4>2, <2>2 DEF Busy, LeavesPage
      <4>5. Busy(d, q.tab, {"logout"}) BY <4>1, <3>2, <2>6 DEF Busy, InFlight
      <4> QED BY <3>2, <4>2, <4>3, <4>4, <4>5 DEF Singles, Single
    <3> QED BY <3>3, <3>4
  <2> QED BY <2>5, <2>6 DEF Singles, LogoutHasTab
<1> QED BY <1>1, <1>2, <1>3, <1>4, StepKinds

\* An answer reaches the tab.
LEMMA AloneArrives ==
  ASSUME Core, Alone, NEW t \in Tabs, OnlyTab(t), NothingLost, active, NothingLost',
         \A c \in Calls :
           LET q == req[Own(c)] IN
           q.tab = t /\ q.kind = "logout" /\ q.st = "answered" /\ q.status = "ok" => Deliver(Own(c)),
         NEW r \in Requests, Deliver(r) \/ Lose(r), Core'
  PROVE  /\ AloneAt(t)'
         /\ Undisturbed(t) /\ page[t] = "app" /\ page'[t] = "login" => jar'.session = None
<1> USE DEF Core
<1>1. PICK q \in ReqT :
        /\ Arriving(r, q) /\ Arrive(r, q, jar')
        /\ \/ q = req[r] /\ q.st = "answered" /\ jar' = Applied(q.sets)
           \/ q.status = "lost" /\ jar' = jar
  BY ArriveStep
<1>2. /\ jar' \in JarT /\ Carried(r, q) /\ q.tab = req[r].tab /\ q.kind = req[r].kind
      /\ req[r].st \in {"sent", "answered"}
  <2>1. jar' \in JarT BY DEF TypeOK
  <2> QED BY <1>1, <2>1, ArriveCarries, ArrivingForm DEF Arriving
<1>3. Undisturbed(t) => AloneAt(t) BY DEF Alone
<1>4. CASE q.tab = None
  <2>1. req' = [req EXCEPT ![r].st = "failed"] /\ UNCHANGED page BY <1>1, <1>4 DEF Arrive
  <2>2. Undisturbed(t)
    <3> SUFFICES ASSUME NEW c \in Calls, req[Own(c)].tab = t, req[Own(c)].kind = "logout",
                        req[Own(c)].st = "answered", req[Own(c)].status = "ok"
                 PROVE  FALSE
      BY DEF Undisturbed, LoggedOut
    <3>1. Deliver(Own(c)) /\ Own(c) \in Requests BY RequestForms
    <3>2. \E p : Arrive(Own(c), p, jar') /\ Carried(Own(c), p)
      <4>1. jar' \in JarT BY DEF TypeOK
      <4>2. Arriving(Own(c), req[Own(c)]) /\ Arrive(Own(c), req[Own(c)], jar')
        BY <3>1 DEF Deliver, Arriving
      <4> QED BY <3>1, <4>1, <4>2, ArriveCarries
    <3>3. req'[Own(c)].st \in {"awaiting", "done", "failed"} BY <3>2 DEF Carried
    <3>4. Own(c) # r BY <1>2, <1>4, NonesApart
    <3> QED BY <2>1, <3>1, <3>3, <3>4
  <2>3. r \in InFlight BY <1>2 DEF InFlight
  <2>4. jar' = jar \/ (req[r].st = "answered" /\ jar' = Applied(req[r].sets)) BY <1>1
  <2>5. LogoutHasTab /\ req[r].tab = None BY <1>2, <1>4 DEF Alone
  <2>6. AloneAt(t)' BY <1>3, <2>1, <2>2, <2>3, <2>4, <2>5, AloneGone
  <2> QED BY <2>1, <2>6
<1>5. CASE q.tab # None
  <2>1. q.status # "lost" BY <1>2, <1>5 DEF Carried, NothingLost
  <2>2. q = req[r] /\ req[r].st = "answered" /\ jar' = Applied(req[r].sets) BY <1>1, <2>1
  <2>3. req[r].tab = t BY <1>5, <2>2, OwnTab
  <2>4. Carried(r, req[r]) /\ Arrive(r, req[r], jar') BY <1>1, <1>2, <2>2
  <2>5. req[r].tab # None BY <1>5, <2>2
  <2>6. CASE req[r].kind = "logout" /\ req[r].status = "ok"
    <3>1. ~Refreshable(req[r], jar') /\ req[r].kind # "refresh" BY <2>6 DEF Refreshable
    <3>2. LeavePage(r, req[r]) BY <3>1, <2>4, <2>5, <2>6 DEF Arrive
    <3>3. AloneAt(t)' BY <2>2, <2>3, <2>6, <3>2, AloneLeaves
    <3>4. LoggedOut(t)
      <4>1. r = Own(r[1]) /\ r[1] \in Calls BY <2>2, <2>6, RequestForms DEF Form, RefreshOK
      <4> QED BY <2>2, <2>3, <2>6, <4>1 DEF LoggedOut
    <3> QED BY <3>3, <3>4 DEF Undisturbed
  <2>7. CASE ~ (req[r].kind = "logout" /\ req[r].status = "ok")
    <3>1. Undisturbed(t) /\ AloneAt(t)
      <4> SUFFICES ASSUME NEW c \in Calls, req[Own(c)].tab = t, req[Own(c)].kind = "logout",
                          req[Own(c)].st = "answered", req[Own(c)].status = "ok"
                   PROVE  FALSE
        BY <1>3 DEF Undisturbed, LoggedOut
      <4>1. Own(c) # r BY <2>7
      <4>2. Deliver(Own(c)) /\ Own(c) \in Requests BY RequestForms
      <4>3. jar' \in JarT BY DEF TypeOK
      <4>4. Arriving(Own(c), req[Own(c)]) /\ Arrive(Own(c), req[Own(c)], jar')
        BY <4>2 DEF Deliver, Arriving
      <4>5. Carried(Own(c), req[Own(c)]) BY <4>2, <4>3, <4>4, ArriveCarries
      <4>6. req'[Own(c)].st \in {"awaiting", "done", "failed"} BY <4>5 DEF Carried
      <4>7. CarriedOne(Own(c), r, req[r]) BY <2>4, <4>2 DEF Carried
      <4> QED BY <4>1, <4>6, <4>7 DEF CarriedOne, Flying
    <3>2. Single(t) BY DEF Alone
    <3>3. CASE Refreshable(req[r], jar')
      <4>1. AwaitRefresh(r, req[r], jar') BY <2>4, <2>5, <3>3 DEF Arrive
      <4>2. AloneAt(t)' BY <1>2, <2>2, <2>3, <2>4, <3>1, <3>3, <4>1, AloneAwaits
      <4> QED BY <4>1, <4>2 DEF AwaitRefresh
    <3>4. CASE ~Refreshable(req[r], jar') /\ req[r].kind = "refresh"
      <4>1. SettleRefresh(r, req[r], jar') BY <2>4, <2>5, <3>4 DEF Arrive
      <4> QED BY <1>2, <2>2, <2>3, <2>4, <3>1, <3>4, <4>1, AloneSettlesRefresh
    <3>5. CASE ~Refreshable(req[r], jar') /\ req[r].kind # "refresh"
      <4>1. Settle(r, req[r]) BY <2>4, <2>5, <2>7, <3>5 DEF Arrive
      <4> QED BY <1>2, <2>2, <2>3, <2>4, <2>7, <3>1, <3>2, <3>5, <4>1, AloneSettles
    <3> QED BY <3>3, <3>4, <3>5
  <2> QED BY <2>6, <2>7
<1> QED BY <1>4, <1>5

LEMMA AloneNext == ASSUME Core, Sessions, Alone, [Next]_vars PROVE Alone'
<1>1. Core' BY CoreNext
<1>2. Singles' BY SinglesNext DEF Alone, Singles
<1>3. ASSUME NEW t \in Tabs, Undisturbed(t)' PROVE AloneAt(t)'
  <2>1. /\ OnlyTab(t) /\ NothingLost /\ active
        /\ \A c \in Calls :
             LET q == req[Own(c)] IN
             q.tab = t /\ q.kind = "logout" /\ q.st = "answered" /\ q.status = "ok" => Deliver(Own(c))
    BY <1>3, UndisturbedBefore DEF Alone
  <2>2. ASSUME NEW r \in Requests, Deliver(r) \/ Lose(r) PROVE AloneAt(t)'
    BY <1>1, <1>3, <2>1, <2>2, AloneArrives DEF Undisturbed
  <2>3. CASE \A r \in Requests : ~Deliver(r)
    <3>1. Undisturbed(t) /\ AloneAt(t)
      BY <2>1, <2>3, RequestForms DEF Undisturbed, LoggedOut, Alone
    <3>2. ASSUME NEW c \in Calls, NEW u \in Tabs, NEW k \in Kinds, Begin(c, u, k) PROVE AloneAt(t)'
      BY <1>3, <3>1, <3>2, AloneBegins DEF Undisturbed
    <3>3. ASSUME NEW r \in Requests, Send(r) PROVE AloneAt(t)' BY <3>1, <3>3, AloneSends
    <3>4. ASSUME NEW r \in Requests, AnsweredPlainly(r) \/ Selected(r) \/ LoggedIn(r) \/ Exchanged(r)
          PROVE  AloneAt(t)'
      BY <3>1, <3>4, AloneServed
    <3>5. ASSUME NEW r \in Requests PROVE ~ServeLogout(r)
      <4> SUFFICES ASSUME ServeLogout(r) PROVE FALSE OBVIOUS
      <4>1. /\ TypeOK /\ req[r].st = "sent" /\ req[r].kind = "logout" /\ Answer(r, "ok", Clear)
        BY DEF ServeLogout, Core
      <4>2. /\ req'[r].st = "answered" /\ req'[r].status = "ok" /\ req'[r].kind = "logout"
            /\ req'[r].tab = req[r].tab
        BY ONLY <4>1, r \in Requests, AnsweredMoves
      <4>3. r = Own(r[1]) /\ r[1] \in Calls BY <4>1, RequestForms DEF Core, Form, RefreshOK
      <4>4. req[r].tab = t
        BY <4>1, <4>3, <3>1 DEF Alone, LogoutHasTab, InFlight, Undisturbed, OnlyTab
      <4> QED BY <1>3, <4>2, <4>3, <4>4 DEF Undisturbed, LoggedOut
    <3>6. /\ (\E u \in Tabs : OpenPage(u)) => AloneAt(t)'
          /\ (\E u \in Tokens : SessionExpires(u)) => AloneAt(t)'
          /\ AccessExpires => AloneAt(t)'
          /\ UNCHANGED <<jar, page, refreshing, req>> => AloneAt(t)'
      BY <3>1, AloneAside
    <3>7. UNCHANGED vars \/ Deactivate => UNCHANGED <<jar, page, refreshing, req>>
      BY DEF vars, Deactivate
    <3> QED BY <2>2, <3>2, <3>3, <3>4, <3>5, <3>6, <3>7, Steps
  <2> QED BY <2>2, <2>3
<1> QED BY <1>2, <1>3 DEF Alone, Singles

LEMMA AloneInit == Init => Alone
<1> SUFFICES ASSUME Init PROVE Alone OBVIOUS
<1>1. \A r \in Requests : req[r].st = "idle" /\ req[r].retry = FALSE BY DEF Init, Idle
<1>2. \A c \in Calls : /\ req[Own(c)].st = "idle" /\ req[Own(c)].retry = FALSE
                       /\ req[Refresh(c)].st = "idle"
  BY <1>1, RequestForms
<1>3. InFlight = {} BY <1>1 DEF InFlight
<1>4. LogoutHasTab BY <1>3 DEF LogoutHasTab
<1>5. \A t \in Tabs : Single(t) BY <1>2 DEF Single, Busy
<1>6. \A t \in Tabs : AloneAt(t)
  BY <1>2, <1>3 DEF AloneAt, SignedOut, RefreshGranted, LeftoverHarmless, RepeatGranted, Leftover, Busy, Progress
<1> QED BY <1>4, <1>5, <1>6 DEF Alone

\* While one tab makes all the calls, nothing is lost and nobody has logged out, a
\* refresh carries the session of the jar and is granted, and the calls repeated
\* after it are not refused again: a page leaves for /login only without a session.
THEOREM LeavesWhenOver == Spec => LoginOnlyWhenOver
<1>1. ASSUME Core, Sessions, Alone, [Next]_vars
      PROVE  [\A t \in Tabs :
                page[t] = "app" /\ page'[t] = "login" /\ OnlyTab(t) /\ NothingLost' =>
                  ~SessionLives' \/ LoggedOut(t)]_vars
  <2> SUFFICES ASSUME NEW t \in Tabs, page[t] = "app", page'[t] = "login", OnlyTab(t), NothingLost',
                      SessionLives', ~LoggedOut(t)
               PROVE  FALSE
    OBVIOUS
  <2>1. Core' BY <1>1, CoreNext
  <2>2. NothingLost BY <1>1, LostForever DEF Core
  <2>3. active' /\ jar'.session # None BY DEF SessionLives
  <2>4. active
    BY <1>1, <2>3 DEF Core, TypeOK, Next, vars, Begin, Send, Serve, Deliver, Lose, OpenPage, SessionExpires,
       AccessExpires, Deactivate, Quiet, RefuseCsrf, ServeCall, RefreshSelect, RefreshCommit, ServeLogout,
       ServeLogin
  <2>5. Undisturbed(t) BY <2>2, <2>4 DEF Undisturbed
  <2>6. \E r \in Requests : Deliver(r) \/ Lose(r)
    <3>1. ASSUME NEW u \in Tabs, OpenPage(u) PROVE page'[t] # "login"
      BY <1>1, <3>1 DEF OpenPage, Core, TypeOK
    <3>2. page' # page OBVIOUS
    <3> QED
      BY <1>1, <3>1, <3>2 DEF Next, vars, Begin, Send, Serve, SessionExpires, AccessExpires, Deactivate, Quiet,
         RefuseCsrf, ServeCall, RefreshSelect, RefreshCommit, ServeLogout, ServeLogin
  <2>7. \A c \in Calls :
          LET q == req[Own(c)] IN
          q.tab = t /\ q.kind = "logout" /\ q.st = "answered" /\ q.status = "ok" => Deliver(Own(c))
    BY DEF LoggedOut
  <2> QED BY <1>1, <2>1, <2>2, <2>3, <2>4, <2>5, <2>6, <2>7, AloneArrives
<1> QED
  BY <1>1, CoreInit, CoreNext, SessionsInit, SessionsNext, AloneInit, AloneNext, PTL DEF Spec, LoginOnlyWhenOver

=============================================================================
