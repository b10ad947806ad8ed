--------------------------- MODULE OrgAdminProofs ---------------------------
(***************************************************************************)
(* Proof that an organisation loses its last superadmin in one way only,   *)
(* for any number of users and requests: to a request that loaded the row  *)
(* before it became a superadmin, and so did not count.                    *)
(*                                                                         *)
(* The argument: a request that takes away a superadmin it has loaded as   *)
(* one holds, from its count to its commit, the lock of another one, whom  *)
(* nobody can take away meanwhile.                                         *)
(***************************************************************************)
EXTENDS OrgAdmin, TLAPS

Deciding == {"select", "locking", "write"}
TxT == [pc : {"idle", "insert"} \cup Deciding, via : {"admin", "org"}, u : Users \cup {None},
        seen : UserT \cup {Absent}, role : Roles \cup {Unset}, active : BOOLEAN \cup {Unset},
        todo : SUBSET Users, counted : SUBSET Users]

TypeOK ==
  /\ user \in [Users -> UserT \cup {Absent}]
  /\ lock \in [Users -> Clients \cup {None}]
  /\ tx \in [Clients -> TxT]

\* A PATCH has loaded a row, and the row is still there.
SeenInv ==
  \A c \in Clients : tx[c].pc \in Deciding =>
    tx[c].u \in Users /\ user[tx[c].u] \in UserT /\ tx[c].seen \in UserT

\* A user that is to be created has a role.
InsertInv ==
  \A c \in Clients : tx[c].pc = "insert" =>
    tx[c].role \in Roles /\ tx[c].active \in BOOLEAN

\* What a request has counted it has locked, and nobody changes it; a request
\* that is to take a superadmin away keeps another one locked.
Keeps(c, v) == v \in Users /\ lock[v] = c /\ v \in ActiveSuperadmins
CountInv ==
  \A c \in Clients :
    /\ tx[c].pc = "locking" => \A v \in tx[c].counted : Keeps(c, v)
    /\ tx[c].pc = "select" => tx[c].counted = {}
    /\ tx[c].pc = "write" /\ AtStake(tx[c].seen, tx[c].role, tx[c].active) =>
         \E v \in Users : v # tx[c].u /\ Keeps(c, v)

Inv == TypeOK /\ SeenInv /\ InsertInv /\ CountInv

-----------------------------------------------------------------------------
(* The steps of one request.                                                *)

\* The steps of request c that change no user: another request keeps what it
\* has locked.
Undisturbed(c) ==
  /\ UNCHANGED user
  /\ \A e \in Clients \ {c} : tx'[e] = tx[e]
  /\ \A e \in Clients \ {c}, v \in Users : lock[v] = e => lock'[v] = e

LEMMA OthersKeep ==
  ASSUME Inv, NEW c \in Clients, Undisturbed(c), NEW e \in Clients \ {c}
  PROVE  /\ tx[e].pc = "locking" => \A v \in tx[e].counted : Keeps(e, v)'
         /\ tx[e].pc = "write" /\ AtStake(tx[e].seen, tx[e].role, tx[e].active) =>
              \E v \in Users : v # tx[e].u /\ Keeps(e, v)'
BY DEF Inv, CountInv, Keeps, Undisturbed, ActiveSuperadmins, Present

\* A request that starts has an own row to write, or a row it has just loaded.
LEMMA InvOpen ==
  ASSUME ValuesApart, Inv, NEW c \in Clients, NEW t \in TxT, Open(c, t), t.counted = {},
         t.pc \in {"select", "write", "insert"},
         t.pc # "insert" =>
           /\ t.u \in Present /\ t.seen = user[t.u]
           /\ t.pc = "write" => ~AtStake(t.seen, t.role, t.active),
         t.pc = "insert" => t.role \in Roles /\ t.active \in BOOLEAN
  PROVE  Inv'
<1>1. /\ tx' = [tx EXCEPT ![c] = t] /\ UNCHANGED <<user, lock>>
      /\ tx \in [Clients -> TxT] /\ user \in [Users -> UserT \cup {Absent}]
  BY DEF Open, Inv, TypeOK
<1>2. tx'[c] = t /\ \A e \in Clients \ {c} : tx'[e] = tx[e]
  BY <1>1
<1>3. TypeOK'
  BY <1>1 DEF Inv, TypeOK
<1>4. t.pc # "insert" => t.u \in Users /\ user[t.u] \in UserT
  BY <1>1 DEF Present
<1>5. SeenInv'
  BY <1>1, <1>2, <1>4 DEF Inv, SeenInv, Deciding
<1>6. InsertInv'
  BY <1>2 DEF Inv, InsertInv
<1>7. Undisturbed(c) BY <1>1, <1>2 DEF Undisturbed
<1>8. CountInv'
  BY <1>2, <1>7, OthersKeep DEF CountInv, Inv
<1> QED BY <1>3, <1>5, <1>6, <1>8 DEF Inv

LEMMA InvBegin ==
  ASSUME ValuesApart, Inv, NEW c \in Clients, Begin(c)
  PROVE  Inv'
<1>0. Idle \in TxT /\ user \in [Users -> UserT \cup {Absent}]
  BY DEF Idle, TxT, Inv, TypeOK
<1>1. ASSUME NEW u \in Present, NEW role \in Roles \cup {Unset}, NEW active \in BOOLEAN \cup {Unset},
             NEW via \in {"admin", "org"},
             Open(c, PatchOf(u, via, role, active))
      PROVE  Inv'
  <2> DEFINE t == PatchOf(u, via, role, active)
  <2>1. u \in Users /\ user[u] \in UserT BY <1>0 DEF Present
  <2>2. /\ t.u = u /\ t.via = via /\ t.seen = user[u] /\ t.role = role /\ t.active = active
        /\ t.counted = {} /\ t.todo = {}
        /\ t.pc = IF AtStake(user[u], role, active) THEN "select" ELSE "write"
        /\ t \in TxT
    BY <1>0, <2>1 DEF PatchOf, Idle, TxT, Deciding
  <2> HIDE DEF t
  <2>3. Open(c, t) BY <1>1 DEF t
  <2> QED BY <1>0, <1>1, <2>1, <2>2, <2>3, InvOpen
<1>2. ASSUME NEW via \in {"admin", "org"}, NEW role \in Roles, NEW active \in BOOLEAN,
             NEW t \in TxT, Open(c, t),
             t.counted = {}, t.pc = "insert", t.via = via, t.role = role, t.active = active
      PROVE  Inv'
  BY <1>2, InvOpen
<1>3. ASSUME NEW u \in Users, NEW role \in Roles \cup {Unset}, NEW active \in BOOLEAN \cup {Unset},
             StartAdminPatch(c, u, role, active)
      PROVE  Inv'
  BY <1>1, <1>3 DEF StartAdminPatch
<1>4. ASSUME NEW u \in Users, NEW role \in Roles \cup {Unset}, NEW active \in BOOLEAN \cup {Unset},
             NEW a \in Users, StartOrgPatch(c, a, u, role, active)
      PROVE  Inv'
  <2>1. u \in Present /\ Open(c, PatchOf(u, "org", role, active))
    BY <1>4 DEF StartOrgPatch
  <2> QED BY <1>1, <2>1
<1>5. ASSUME NEW role \in Roles, NEW active \in BOOLEAN, StartAdminCreate(c, role, active)
      PROVE  Inv'
  <2> DEFINE role1 == IF Present = {} THEN "superadmin" ELSE role
             t == [Idle EXCEPT !.pc = "insert", !.active = active, !.role = role1]
  <2>1. role1 \in Roles BY DEF Roles
  <2>2. Open(c, t) BY <1>5 DEF StartAdminCreate
  <2>3. /\ t \in TxT /\ t.counted = {} /\ t.pc = "insert" /\ t.via = "admin"
        /\ t.role = role1 /\ t.active = active
    BY <1>0, <2>1 DEF Idle, TxT
  <2> HIDE DEF t, role1
  <2> QED BY <1>2, <2>1, <2>2, <2>3
<1>6. ASSUME NEW a \in Users, NEW role \in Roles, StartOrgCreate(c, a, role)
      PROVE  Inv'
  <2> DEFINE t == [Idle EXCEPT !.pc = "insert", !.via = "org", !.role = role, !.active = TRUE]
  <2>1. Open(c, t) BY <1>6 DEF StartOrgCreate
  <2>2. /\ t \in TxT /\ t.counted = {} /\ t.pc = "insert" /\ t.via = "org"
        /\ t.role = role /\ t.active = TRUE
    BY <1>0 DEF Idle, TxT
  <2> HIDE DEF t
  <2> QED BY <1>2, <2>1, <2>2
<1> QED BY <1>3, <1>4, <1>5, <1>6 DEF Begin

\* A request that ends lets its locks go.
LEMMA InvClose ==
  ASSUME ValuesApart, Inv, NEW c \in Clients, Close(c),
         user' \in [Users -> UserT \cup {Absent}],
         \A u \in Users : user[u] \in UserT => user'[u] \in UserT,
         \A e \in Clients \ {c}, v \in Users : Keeps(e, v) => v \in ActiveSuperadmins'
  PROVE  Inv'
<1>1. /\ tx' = [tx EXCEPT ![c] = Idle] /\ Idle.pc = "idle" /\ Idle \in TxT
      /\ \A v \in Users : lock'[v] = IF lock[v] = c THEN None ELSE lock[v]
  BY DEF Close, Idle, TxT
<1>2. /\ tx \in [Clients -> TxT] /\ tx'[c] = Idle /\ \A e \in Clients \ {c} : tx'[e] = tx[e]
  BY <1>1 DEF Inv, TypeOK
<1>3. TypeOK' BY <1>1, <1>2 DEF Close, Inv, TypeOK
<1>4. SeenInv' BY <1>1, <1>2 DEF Inv, SeenInv, Deciding
<1>5. InsertInv' BY <1>1, <1>2 DEF Inv, InsertInv
<1>6. \A e \in Clients \ {c}, v \in Users : Keeps(e, v) => Keeps(e, v)'
  BY <1>1 DEF Keeps
<1>7. \A e \in Clients \ {c} : \A v : Keeps(e, v) => v \in Users
  BY DEF Keeps
<1>8. CountInv' BY <1>1, <1>2, <1>6, <1>7 DEF Inv, CountInv
<1> QED BY <1>3, <1>4, <1>5, <1>8 DEF Inv

\* What a PATCH writes: one row, and an active superadmin that was loaded as a
\* superadmin is changed only by a request that is at stake.
LEMMA WriteEffect ==
  ASSUME ValuesApart, Inv, NEW c \in Clients, Write(c)
  PROVE  LET u == tx[c].u IN
         /\ u \in Users /\ user[u] \in UserT /\ user' = [user EXCEPT ![u] = user'[u]]
         /\ user'[u] \in UserT
         /\ u \in ActiveSuperadmins /\ user'[u] # user[u] /\ tx[c].seen.role = "superadmin" =>
              AtStake(tx[c].seen, tx[c].role, tx[c].active)
         /\ lock[u] \in {None, c}
<1> DEFINE u == tx[c].u
           seen == tx[c].seen
           role == tx[c].role
           active == tx[c].active
<1>1. /\ u \in Users /\ user[u] \in UserT /\ seen \in UserT
      /\ lock[u] \in {None, c}
  BY DEF Inv, SeenInv, Deciding, Write
<1>2. role \in Roles \cup {Unset} /\ active \in BOOLEAN \cup {Unset}
  BY DEF Inv, TypeOK, TxT
<1>3. user \in [Users -> UserT \cup {Absent}] BY DEF Inv, TypeOK
<1>4. /\ user' = [user EXCEPT ![u] = Written(user[u], seen, tx[c])]
      /\ user'[u] = Written(user[u], seen, tx[c])
  BY <1>1, <1>3 DEF Write
<1>5. /\ user'[u] \in UserT
      /\ user'[u].role = IF role \in {Unset, seen.role} THEN user[u].role ELSE role
      /\ user'[u].active = IF active \in {Unset, seen.active} THEN user[u].active ELSE active
  BY <1>1, <1>2, <1>4 DEF Written, UserT
<1> HIDE DEF u, seen, role, active
<1>6. ASSUME u \in ActiveSuperadmins, user'[u] # user[u], seen.role = "superadmin"
      PROVE  AtStake(seen, role, active)
  <2>1. user[u].role = "superadmin" /\ user[u].active BY <1>6 DEF ActiveSuperadmins
  <2>2. seen.role = "superadmin" /\ seen.active \in BOOLEAN BY <1>1, <1>6 DEF UserT
  <2>3. user'[u].role # user[u].role \/ user'[u].active # user[u].active
    BY <1>1, <1>5, <1>6 DEF UserT
  <2>4. CASE user'[u].role # user[u].role
    BY <1>1, <1>5, <2>2, <2>4 DEF AtStake
  <2>5. CASE user'[u].active # user[u].active
    <3>1. active # Unset /\ active # seen.active /\ user'[u].active = active
      BY <1>5, <2>5
    <3>2. active \in BOOLEAN /\ user[u].active \in BOOLEAN BY <1>1, <1>2, <3>1 DEF UserT
    <3>3. active = FALSE /\ seen.active = TRUE BY <2>1, <2>2, <2>5, <3>1, <3>2
    <3> QED BY <2>2, <3>3 DEF AtStake
  <2> QED BY <2>3, <2>4, <2>5
<1> QED BY <1>1, <1>4, <1>5, <1>6 DEF u, seen, role, active

LEMMA InvStep ==
  ASSUME ValuesApart, Inv, NEW c \in Clients, Step(c)
  PROVE  Inv'
<1>0. /\ tx \in [Clients -> TxT] /\ lock \in [Users -> Clients \cup {None}]
      /\ user \in [Users -> UserT \cup {Absent}] /\ None \notin Clients
      /\ ActiveSuperadmins \subseteq Users
  BY DEF Inv, TypeOK, ValuesApart, ActiveSuperadmins, Present
<1>1. ASSUME UNCHANGED user, Close(c) PROVE Inv'
  BY <1>0, <1>1, InvClose DEF Keeps, ActiveSuperadmins, Present
<1>2. ASSUME UNCHANGED user, NEW t \in TxT, tx' = [tx EXCEPT ![c] = t],
             tx[c].pc \in Deciding, t.pc \in Deciding, t.via = tx[c].via, t.u = tx[c].u,
             t.seen = tx[c].seen, t.role = tx[c].role, t.active = tx[c].active,
             lock' \in [Users -> Clients \cup {None}],
             \A v \in Users : lock[v] # None => lock'[v] = lock[v],
             t.pc = "select" => t.counted = {},
             t.pc = "locking" => \A v \in t.counted : Keeps(c, v)',
             t.pc = "write" => \E v \in Users : v # t.u /\ Keeps(c, v)'
      PROVE  Inv'
  <2>1. tx'[c] = t /\ \A e \in Clients \ {c} : tx'[e] = tx[e] BY <1>0, <1>2
  <2>2. TypeOK' BY <1>0, <1>2 DEF Inv, TypeOK
  <2>3. SeenInv' BY <1>2, <2>1 DEF Inv, SeenInv
  <2>4. InsertInv' BY <1>2, <2>1 DEF Inv, InsertInv, Deciding
  <2>5. Undisturbed(c) BY <1>0, <1>2, <2>1 DEF Undisturbed
  <2>6. CountInv' BY <1>2, <2>1, <2>5, OthersKeep DEF Inv, CountInv
  <2> QED BY <2>2, <2>3, <2>4, <2>6 DEF Inv
<1>3. CASE Select(c)
  <2> DEFINE t == [tx[c] EXCEPT !.pc = "locking", !.todo = ActiveSuperadmins]
  <2>1. /\ tx' = [tx EXCEPT ![c] = t] /\ UNCHANGED <<user, lock>> /\ tx[c].pc = "select"
    BY <1>0, <1>3 DEF Select, TxT
  <2>2. /\ t \in TxT /\ t.pc = "locking" /\ t.counted = tx[c].counted /\ t.via = tx[c].via
        /\ t.u = tx[c].u /\ t.seen = tx[c].seen /\ t.role = tx[c].role /\ t.active = tx[c].active
    BY <1>0 DEF TxT, Deciding
  <2>3. t.counted = {} BY <2>1, <2>2 DEF Inv, CountInv
  <2> HIDE DEF t
  <2> QED BY <1>0, <1>2, <2>1, <2>2, <2>3 DEF Deciding
<1>4. CASE LockNext(c)
  <2> DEFINE u == Lowest(tx[c].todo)
             t == [tx[c] EXCEPT !.todo = @ \ {u}, !.counted = @ \cup (ActiveSuperadmins \cap {u})]
  <2>1. /\ tx[c].pc = "locking" /\ UNCHANGED user /\ lock[u] = None
        /\ lock' = [lock EXCEPT ![u] = c] /\ tx' = [tx EXCEPT ![c] = t]
    BY <1>0, <1>4 DEF LockNext, TxT
  <2>2. /\ t \in TxT /\ t.pc = tx[c].pc /\ t.via = tx[c].via
        /\ t.counted = tx[c].counted \cup (ActiveSuperadmins \cap {u})
        /\ t.u = tx[c].u /\ t.seen = tx[c].seen /\ t.role = tx[c].role /\ t.active = tx[c].active
    BY <1>0 DEF TxT
  <2> HIDE DEF t, u
  <2>3. ASSUME NEW v \in t.counted PROVE Keeps(c, v)'
    <3>1. v \in tx[c].counted => Keeps(c, v) BY <2>1 DEF Inv, CountInv
    <3>2. v \in Users /\ v \in ActiveSuperadmins /\ (v = u \/ lock[v] = c)
      BY <1>0, <2>2, <3>1 DEF Keeps
    <3>3. lock'[v] = c BY <1>0, <2>1, <3>2
    <3> QED BY <2>1, <3>2, <3>3 DEF Keeps, ActiveSuperadmins, Present
  <2> QED BY <1>0, <1>2, <2>1, <2>2, <2>3 DEF Deciding
<1>5. CASE Decide(c)
  <2>1. tx[c].pc = "locking" /\ UNCHANGED user BY <1>5 DEF Decide
  <2>2. CASE tx[c].counted \ {tx[c].u} = {} BY <1>1, <1>5, <2>2 DEF Decide
  <2>3. CASE tx[c].counted \ {tx[c].u} # {}
    <3> DEFINE t == [tx[c] EXCEPT !.pc = "write", !.counted = {}]
    <3>1. tx' = [tx EXCEPT ![c] = t] /\ UNCHANGED lock
      BY <1>0, <1>5, <2>3 DEF Decide, TxT
    <3>2. /\ t \in TxT /\ t.pc = "write" /\ t.via = tx[c].via
          /\ t.u = tx[c].u /\ t.seen = tx[c].seen /\ t.role = tx[c].role /\ t.active = tx[c].active
      BY <1>0 DEF TxT, Deciding
    <3> HIDE DEF t
    <3>3. PICK v \in tx[c].counted : v # tx[c].u BY <2>3
    <3>4. Keeps(c, v) BY <2>1 DEF Inv, CountInv
    <3>5. v \in Users /\ v # t.u /\ Keeps(c, v)'
      BY <2>1, <3>1, <3>2, <3>3, <3>4 DEF Keeps, ActiveSuperadmins, Present
    <3> QED BY <1>0, <1>2, <2>1, <3>1, <3>2, <3>5 DEF Deciding
  <2> QED BY <2>2, <2>3
<1>6. CASE Write(c)
  <2> DEFINE u == tx[c].u
  <2>1. /\ u \in Users /\ user[u] \in UserT /\ user'[u] \in UserT
        /\ user' = [user EXCEPT ![u] = user'[u]]
        /\ lock[u] \in {None, c}
    BY <1>6, WriteEffect
  <2> HIDE DEF u
  <2>2. \A x \in Users \ {u} : user'[x] = user[x] BY <1>0, <2>1
  <2>3. user' \in [Users -> UserT \cup {Absent}] BY <1>0, <2>1
  <2>4. \A e \in Clients \ {c}, v \in Users : Keeps(e, v) => v \in ActiveSuperadmins'
    BY <1>0, <2>1, <2>2 DEF Keeps, ActiveSuperadmins, Present
  <2> QED BY <1>6, <2>1, <2>2, <2>3, <2>4, InvClose DEF Write
<1>7. CASE InsertUser(c)
  <2>1. PICK u \in Users \ Present :
          user' = [user EXCEPT ![u] = [role |-> tx[c].role, active |-> tx[c].active]]
    BY <1>7 DEF InsertUser
  <2>2. user[u] = Absent /\ Absent \notin UserT BY <2>1 DEF Present, ValuesApart
  <2>3. [role |-> tx[c].role, active |-> tx[c].active] \in UserT
    BY <1>7 DEF InsertUser, Inv, InsertInv, UserT
  <2>4. \A x \in Users \ {u} : user'[x] = user[x] BY <1>0, <2>1
  <2>5. user' \in [Users -> UserT \cup {Absent}] BY <1>0, <2>1, <2>3
  <2>6. \A e \in Clients \ {c}, v \in Users : Keeps(e, v) => v \in ActiveSuperadmins'
    BY <2>2, <2>4 DEF Keeps, ActiveSuperadmins, Present
  <2> QED BY <1>7, <2>2, <2>4, <2>5, <2>6, InvClose DEF InsertUser
<1>8. CASE Abort(c) BY <1>1, <1>8 DEF Abort
<1> QED BY <1>3, <1>4, <1>5, <1>6, <1>7, <1>8 DEF Step

LEMMA Invariance == ASSUME ValuesApart PROVE Spec => []Inv
<1>1. Init => Inv
  BY DEF Init, Inv, TypeOK, TxT, Idle, SeenInv, InsertInv, CountInv, Deciding
<1>2. Inv /\ [Next]_vars => Inv'
  <2> SUFFICES ASSUME Inv, [Next]_vars PROVE Inv'
    OBVIOUS
  <2>1. ASSUME NEW c \in Clients, Begin(c) \/ Step(c) PROVE Inv'
    BY <2>1, InvBegin, InvStep
  <2>2. CASE UNCHANGED vars
    BY <2>2 DEF vars, Inv, TypeOK, SeenInv, InsertInv, CountInv, Keeps, ActiveSuperadmins, Present
  <2> QED BY <2>1, <2>2 DEF Next
<1> QED BY <1>1, <1>2, PTL DEF Spec

-----------------------------------------------------------------------------
(* The rules.                                                               *)

\* However requests interleave, an organisation that has an active superadmin
\* loses the last one only to a request that had loaded the row before it was
\* made a superadmin (set_user_role_and_active with
\* _count_other_active_superadmins_locked).
THEOREM SuperadminKept == ASSUME ValuesApart PROVE Spec => LostOnlyToPromotion
<1> DEFINE Stale(c) == /\ tx[c].pc = "write" /\ tx'[c] = Idle
                       /\ user[tx[c].u].role = "superadmin" /\ tx[c].seen.role # "superadmin"
           A == ActiveSuperadmins # {} /\ ActiveSuperadmins' = {} => \E c \in Clients : Stale(c)
<1>1. Inv /\ [Next]_vars => A
  <2> SUFFICES ASSUME Inv, [Next]_vars, ActiveSuperadmins' = {}, NEW x \in ActiveSuperadmins
               PROVE  \E c \in Clients : Stale(c)
    OBVIOUS
  <2>0. /\ x \in Users /\ user[x] # Absent /\ user \in [Users -> UserT \cup {Absent}]
        /\ user[x].role = "superadmin" /\ tx \in [Clients -> TxT]
    BY DEF ActiveSuperadmins, Present, Inv, TypeOK
  <2>1. user'[x] # user[x]
    BY <2>0 DEF ActiveSuperadmins, Present
  <2>2. PICK c \in Clients : Write(c) \/ InsertUser(c)
    BY <2>1 DEF Next, Begin, Step, StartAdminPatch, StartOrgPatch, StartAdminCreate,
         StartOrgCreate, Open, Select, LockNext, Decide, Abort, vars
  <2>3. Write(c)
    BY <2>0, <2>1, <2>2 DEF InsertUser, Present
  <2>4. user' = [user EXCEPT ![tx[c].u] = user'[tx[c].u]]
    BY <2>3, WriteEffect
  <2>5. x = tx[c].u BY <2>0, <2>1, <2>4
  <2>6. tx[c].pc = "write" /\ tx'[c] = Idle BY <2>0, <2>3 DEF Write, Close
  <2>7. tx[c].seen.role # "superadmin"
    <3> SUFFICES ASSUME tx[c].seen.role = "superadmin" PROVE FALSE
      OBVIOUS
    <3>1. AtStake(tx[c].seen, tx[c].role, tx[c].active)
      BY <2>1, <2>3, <2>5, WriteEffect
    <3>2. PICK v \in Users : v # x /\ Keeps(c, v)
      BY <2>3, <2>5, <3>1 DEF Write, Inv, CountInv
    <3>3. user'[v] = user[v] BY <2>0, <2>4, <2>5, <3>2
    <3> QED BY <3>2, <3>3 DEF Keeps, ActiveSuperadmins, Present
  <2> QED BY <2>0, <2>5, <2>6, <2>7
<1> HIDE DEF A
<1>2. Inv /\ [Next]_vars => [A]_vars
  BY <1>1
<1>3. Spec => [][A]_vars
  BY <1>2, Invariance, PTL DEF Spec
<1> QED BY <1>3 DEF A, LostOnlyToPromotion
=============================================================================
