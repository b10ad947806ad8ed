------------------------------ MODULE OrgAdmin ------------------------------
(***************************************************************************)
(* The users of one organisation and the rule that its last active         *)
(* superadmin is neither deactivated nor demoted: crud/admin.py,           *)
(* routers/admin.py (platform) and routers/orgs.py (self-service).         *)
(*                                                                         *)
(* A PATCH reads the user, decides from what it read whether the rule is   *)
(* at stake, if so locks all active superadmins in the order of their ids  *)
(* and counts them, and writes at commit the attributes it has changed.    *)
(***************************************************************************)
EXTENDS Integers, FiniteSets

CONSTANTS
  Users,        \* identities of user rows, numbered
  Clients,      \* requests that may be open at a time
  None, Absent, Unset

Roles == {"superadmin", "admin", "member"}
UserT == [role : Roles, active : BOOLEAN]

\* What stands for a missing row, a missing field or nobody is none of them.
ValuesApart ==
  /\ None \notin Clients \cup Users
  /\ Unset \notin Roles /\ Unset \notin BOOLEAN
  /\ Absent \notin UserT

VARIABLES
  user,     \* table users as committed
  lock,     \* who has locked the row of a user
  tx        \* the request of each client

vars == <<user, lock, tx>>

\* seen: the row when the request loaded it; role, active: the payload;
\* todo: rows the SELECT FOR UPDATE has still to lock; counted: rows it returns.
Idle == [pc |-> "idle", via |-> "admin", u |-> None, seen |-> Absent, role |-> Unset,
         active |-> Unset, todo |-> {}, counted |-> {}]
Init ==
  /\ user = [u \in Users |-> Absent]
  /\ lock = [u \in Users |-> None]
  /\ tx = [c \in Clients |-> Idle]

Present == {u \in Users : user[u] # Absent}

ActiveSuperadmins == {u \in Present : user[u].role = "superadmin" /\ user[u].active}

-----------------------------------------------------------------------------
(* The matrix of self-service.                                              *)

\* can_manage_target
CanManage(actor, target) ==
  \/ actor = "superadmin" /\ target \in {"admin", "member"}
  \/ actor = "admin" /\ target = "member"

\* can_set_role: the same matrix
CanSetRole(actor, new) ==
  \/ actor = "superadmin" /\ new \in {"admin", "member"}
  \/ actor = "admin" /\ new = "member"

\* require_org_admin_with_org
OrgAdmins == {a \in Present : user[a].active /\ user[a].role \in {"superadmin", "admin"}}

-----------------------------------------------------------------------------
Open(c, t) == tx[c] = Idle /\ tx' = [tx EXCEPT ![c] = t] /\ UNCHANGED <<user, lock>>

Close(c) ==
  /\ tx' = [tx EXCEPT ![c] = Idle]
  /\ lock' = [u \in Users |-> IF lock[u] = c THEN None ELSE lock[u]]

\* Demotion of a superadmin, or deactivation of an active one, as the loaded
\* row tells.
AtStake(seen, role, active) ==
  \/ role # Unset /\ seen.role = "superadmin" /\ role # "superadmin"
  \/ active = FALSE /\ seen.role = "superadmin" /\ seen.active

PatchOf(u, via, role, active) ==
  [Idle EXCEPT !.pc = IF AtStake(user[u], role, active) THEN "select" ELSE "write",
               !.via = via, !.u = u, !.seen = user[u], !.role = role, !.active = active]

\* PATCH /api/admin/users/{id}
StartAdminPatch(c, u, role, active) ==
  /\ u \in Present
  /\ Open(c, PatchOf(u, "admin", role, active))

\* PATCH /api/orgs/users/{id}
StartOrgPatch(c, a, u, role, active) ==
  /\ a \in OrgAdmins /\ u \in Present \ {a}
  /\ CanManage(user[a].role, user[u].role)
  /\ role = Unset \/ CanSetRole(user[a].role, role)
  /\ Open(c, PatchOf(u, "org", role, active))

\* POST /api/admin/organizations/{id}/users: the first user of the
\* organisation becomes a superadmin, whatever was asked for.
StartAdminCreate(c, role, active) ==
  Open(c, [Idle EXCEPT !.pc = "insert", !.active = active,
                       !.role = IF Present = {} THEN "superadmin" ELSE role])

\* POST /api/orgs/users
StartOrgCreate(c, a, role) ==
  /\ a \in OrgAdmins /\ CanSetRole(user[a].role, role)
  /\ Open(c, [Idle EXCEPT !.pc = "insert", !.via = "org", !.role = role, !.active = TRUE])

\* The snapshot of SELECT ... FOR UPDATE in _count_other_active_superadmins_locked.
Select(c) ==
  /\ tx[c].pc = "select"
  /\ tx' = [tx EXCEPT ![c].pc = "locking", ![c].todo = ActiveSuperadmins]
  /\ UNCHANGED <<user, lock>>

Lowest(S) == CHOOSE u \in S : \A v \in S : u <= v

\* Bug: the rows are counted without being locked.
LockNext_NoLock(c) ==
  /\ tx[c].pc = "locking" /\ tx[c].todo # {}
  /\ tx' = [tx EXCEPT ![c].todo = {}, ![c].counted = ActiveSuperadmins]
  /\ UNCHANGED <<user, lock>>

\* One row after the other; a row that was changed while the request waited
\* is evaluated again, and locked all the same.
LockNext(c) ==
  /\ tx[c].pc = "locking" /\ tx[c].todo # {}
  /\ LET u == Lowest(tx[c].todo) IN
       /\ lock[u] = None
       /\ lock' = [lock EXCEPT ![u] = c]
       /\ tx' = [tx EXCEPT ![c].todo = @ \ {u},
                           ![c].counted = @ \cup (ActiveSuperadmins \cap {u})]
  /\ UNCHANGED user

Decide(c) ==
  /\ tx[c].pc = "locking" /\ tx[c].todo = {}
  /\ IF tx[c].counted \ {tx[c].u} = {}
       THEN Close(c)
       ELSE tx' = [tx EXCEPT ![c].pc = "write", ![c].counted = {}] /\ UNCHANGED lock
  /\ UNCHANGED user

\* Attributes that are in the payload and differ from what was loaded.
Written(now, seen, t) ==
  [role   |-> IF t.role   \in {Unset, seen.role}   THEN now.role   ELSE t.role,
   active |-> IF t.active \in {Unset, seen.active} THEN now.active ELSE t.active]

Write(c) ==
  /\ tx[c].pc = "write"
  /\ lock[tx[c].u] \in {None, c}
  /\ user' = [user EXCEPT ![tx[c].u] = Written(@, tx[c].seen, tx[c])]
  /\ Close(c)

InsertUser(c) ==
  /\ tx[c].pc = "insert"
  /\ \E u \in Users \ Present :
       user' = [user EXCEPT ![u] = [role |-> tx[c].role, active |-> tx[c].active]]
  /\ Close(c)

\* The e-mail is taken, the connection is lost, the server breaks a deadlock.
Abort(c) == tx[c] # Idle /\ Close(c) /\ UNCHANGED user

Begin(c) ==
  \/ \E u \in Users, role \in Roles \cup {Unset}, active \in BOOLEAN \cup {Unset} :
       \/ StartAdminPatch(c, u, role, active)
       \/ \E a \in Users : StartOrgPatch(c, a, u, role, active)
  \/ \E role \in Roles, active \in BOOLEAN : StartAdminCreate(c, role, active)
  \/ \E a \in Users, role \in Roles : StartOrgCreate(c, a, role)

Step(c) ==
  Select(c) \/ LockNext(c) \/ Decide(c) \/ Write(c) \/ InsertUser(c) \/ Abort(c)

Next == \E c \in Clients : Begin(c) \/ Step(c)

Spec == Init /\ [][Next]_vars

-----------------------------------------------------------------------------
(* Properties.                                                              *)

\* An organisation that has an active superadmin loses the last one only to a
\* request that loaded the row before another one made it a superadmin: the
\* rows that set_user_role_and_active counts under their locks are enough
\* against every other interleaving.
LostOnlyToPromotion ==
  [][ActiveSuperadmins # {} /\ ActiveSuperadmins' = {} =>
       \E c \in Clients :
         /\ tx[c].pc = "write" /\ tx'[c] = Idle
         /\ user[tx[c].u].role = "superadmin" /\ tx[c].seen.role # "superadmin"]_vars

\* As the code states it twice: the last active superadmin is neither deactivated
\* nor demoted (crud/admin.py:9), and self-service changes no superadmin at all
\* (routers/orgs.py:5-9).  So self-service never takes the last active one away.
SelfServiceKeepsSuperadmin ==
  [][\A c \in Clients :
       tx[c].via = "org" /\ tx[c].pc = "write" /\ tx'[c] = Idle =>
         ~(ActiveSuperadmins # {} /\ ActiveSuperadmins' = {})]_vars
=============================================================================
