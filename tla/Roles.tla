------------------------------- MODULE Roles -------------------------------
(***************************************************************************)
(* Administrators: the role column of users, the role_permissions table    *)
(* that overrides the static registry, and the operations on an account    *)
(* that leave its sessions alone.  An administrator's request loads the    *)
(* caller, the permissions of his role and the target; the checks are made *)
(* on what was loaded, and the flush writes the columns that changed.      *)
(***************************************************************************)
EXTENDS Requests, AccountStatus

CONSTANTS
  User,       \* users, one e-mail address each
  Given,      \* the roles that are given in a behaviour
  Edits,      \* the permission sets that set_permissions may be given
  DevAdmin    \* the address in DEV_ADMIN_EMAIL

Role == {"USER", "MODERATOR", "VERIFIER", "SUPPORT", "FINANCE", "ANALYST",
         "ADMIN", "SUPER_ADMIN"}
AdminRole == Role \ {"USER"}

\* The permissions that gate what is modelled; "other" stands for the rest.
Permission == {"admin_users.manage", "users.suspend", "users.ban",
               "users.delete", "users.update", "photos.moderate", "reports.resolve",
              "notifications.send", "other"}

ASSUME RolesAssumption ==
  /\ \A m \in Mixes : m.roles \in [User -> Role \cup {"NONE"}]
  /\ Given \subseteq Role
  /\ Edits \subseteq SUBSET Permission
  /\ DevAdmin \in User

VARIABLES
  account,  \* status columns of each user
  role,     \* his role, or "NONE" when the address has no row
  grants    \* rows <<role, permission, creating request>> of role_permissions

staff == <<account, role, grants>>

\* ROLE_PERMISSIONS
Default ==
  [x \in Role |->
     CASE x \in {"SUPER_ADMIN", "ADMIN"} -> Permission
       [] x = "MODERATOR" -> {"users.update", "users.suspend", "users.ban",
                              "photos.moderate", "reports.resolve", "other"}
       [] x = "VERIFIER"  -> {"photos.moderate", "other"}
       [] x = "SUPPORT"   -> {"users.update", "reports.resolve", "notifications.send", "other"}
       [] x = "USER"      -> {}
       [] OTHER           -> {"other"}]

Rows(x) == {g \in grants : g[1] = x}

\* permissions_for_role: the table, or the registry when it has no row.
Effective(x) == IF Rows(x) # {} THEN {g[2] : g \in Rows(x)} ELSE Default[x]

\* get_current_user and require_permission.
Permitted(a, p) ==
  role[a] # "NONE" /\ CanCall(account[a]) /\ p \in Effective(role[a])

RolesInit ==
  /\ RequestsInit
  /\ role = mix.roles
  /\ grants = {}
  /\ account = [u \in User |-> ActiveAccount]

-----------------------------------------------------------------------------
(***************************************************************************)
(* Roles.  The caller and the target may be one row, then one object.      *)
(***************************************************************************)

\* Fault: any administrator may change a SUPER_ADMIN.
FaultMayChangeRole(a, u, new) == new = "SUPER_ADMIN" => role[a] = "SUPER_ADMIN"

\* AdminUserService.change_role
MayChangeRole(a, u, new) ==
  /\ ~(a = u /\ role[u] = "SUPER_ADMIN" /\ new # "SUPER_ADMIN")
  /\ "SUPER_ADMIN" \in {role[u], new} => role[a] = "SUPER_ADMIN"

\* The second branch of create_admin makes one check less.
MayPromote(a, u, new) == "SUPER_ADMIN" \in {role[u], new} => role[a] = "SUPER_ADMIN"

\* get_by_email does not find a deleted account.
Found(u) == role[u] # "NONE" /\ ~account[u].deleted

RoleRead(r, a, u, new) ==
  /\ role[u] # "NONE"
  /\ Permitted(a, "admin_users.manage")
  /\ MayChangeRole(a, u, new)
  /\ Arrives(r, [op |-> "change_role", by |-> a, row |-> u, role |-> new],
             [role |-> role[u], by |-> role[a]], "read")
  /\ UNCHANGED staff

\* A role for an address without account is not compared with the caller's.
CreateRead(r, a, u, new) ==
  /\ new \in AdminRole
  /\ Permitted(a, "admin_users.manage")
  /\ Found(u) => MayPromote(a, u, new)
  /\ Arrives(r, [op |-> "create_admin", by |-> a, row |-> u, role |-> new],
             [role |-> IF Found(u) THEN role[u] ELSE "NONE", by |-> role[a]], "read")
  /\ UNCHANGED staff

\* Another transaction, a registration, has inserted that address.
AddressLocked(r, u) ==
  \E o \in Req \ {r} : At(o, "flushed", {"register"}) /\ req[o].row = u

\* INSERT of a new row, which the unique address may refuse, or UPDATE.
RoleCommit(r) ==
  LET q == req[r] IN
  /\ At(r, "read", {"change_role", "create_admin"})
  /\ ~RowLocked(r, q.row)
  /\ loaded[r].role = "NONE" => ~AddressLocked(r, q.row)
  /\ \/ /\ loaded[r].role = "NONE" /\ role[q.row] # "NONE"
        /\ Fails(r, "integrity")
        /\ UNCHANGED staff
     \/ /\ loaded[r].role # "NONE" \/ role[q.row] = "NONE"
        /\ Goes(r, "committed")
        /\ role' = [role EXCEPT ![q.row] = IF loaded[r].role = q.role THEN @ ELSE q.role]
        /\ account' = IF loaded[r].role = "NONE"
                      THEN [account EXCEPT ![q.row] = ActiveAccount] ELSE account
        /\ UNCHANGED grants

-----------------------------------------------------------------------------
(***************************************************************************)
(* unban, restore and the administrators' enable.                          *)
(***************************************************************************)
ReviveOps == {"unban", "restore", "enable"}

Needs(op) ==
  CASE op \in {"ban", "unban"}       -> "users.ban"
    [] op \in {"delete", "restore"}  -> "users.delete"
    [] op = "suspend"                -> "users.suspend"
    [] op = "verify_user"            -> "users.update"
    [] OTHER                         -> "admin_users.manage"

\* Fault: writes a status that is not one of the column's.
FaultAfterOp(op, a) ==
  IF op \in {"enable", "disable"} THEN [a EXCEPT !.status = op] ELSE After(op, a)

AfterOp(op, a) ==
  CASE op = "enable"  -> [a EXCEPT !.status = "ACTIVE"]
    [] op = "disable" -> [a EXCEPT !.status = "SUSPENDED"]
    [] OTHER          -> After(op, a)

\* Fault: the whole row is written.
FaultWritten(op, old, cur) == AfterOp(op, old)

\* The columns op changes in the row it loaded, written over the current row.
Written(op, old, cur) ==
  [c \in DOMAIN cur |->
     IF AfterOp(op, old)[c] = old[c] THEN cur[c] ELSE AfterOp(op, old)[c]]

ReviveRead(r, op, a, u) ==
  /\ role[u] # "NONE"
  /\ Permitted(a, Needs(op))
  /\ Arrives(r, [op |-> op, by |-> a, row |-> u], [account |-> account[u]], "read")
  /\ UNCHANGED staff

ReviveCommit(r) ==
  LET q == req[r] IN
  /\ At(r, "read", ReviveOps)
  /\ ~RowLocked(r, q.row)
  /\ account' = [account EXCEPT ![q.row] = Written(q.op, loaded[r].account, @)]
  /\ Goes(r, "committed")
  /\ UNCHANGED <<role, grants>>

-----------------------------------------------------------------------------
(***************************************************************************)
(* PUT /roles/{role}/permissions: DELETE the rows of the role, INSERT the  *)
(* new ones.  The DELETE sees what is committed when it starts, here when  *)
(* the request arrives, and waits for another that has those rows.         *)
(***************************************************************************)

\* SUPER_ADMIN cannot be stripped of anything (invariant).
Wanted(x, P) == IF x = "SUPER_ADMIN" THEN Permission ELSE P

EditRead(r, a, x, P) ==
  /\ x \in AdminRole
  /\ Permitted(a, "admin_users.manage")
  /\ Arrives(r, [op |-> "set_permissions", by |-> a, row |-> x, wanted |-> Wanted(x, P)],
             [rows |-> Rows(x)], "read")
  /\ UNCHANGED staff

\* Two DELETEs that found no row do not wait for each other.
EditLock(r) ==
  /\ At(r, "read", {"set_permissions"})
  /\ \A o \in Req \ {r} :
       At(o, "locked", {"set_permissions"}) /\ req[o].row = req[r].row
         => loaded[o].rows \cap loaded[r].rows = {}
  /\ Goes(r, "locked")
  /\ UNCHANGED staff

\* Fault: adds to what the role has.
FaultEditCommit(r) ==
  /\ At(r, "locked", {"set_permissions"})
  /\ grants' = grants \cup {<<req[r].row, p, r>> : p \in req[r].wanted}
  /\ Goes(r, "committed")
  /\ UNCHANGED <<account, role>>

EditCommit(r) ==
  LET q    == req[r]
      kept == grants \ loaded[r].rows
  IN
  /\ At(r, "locked", {"set_permissions"})
  /\ IF \E g \in kept : g[1] = q.row /\ g[2] \in q.wanted
     THEN Fails(r, "integrity") /\ UNCHANGED grants
     ELSE Goes(r, "committed") /\ grants' = kept \cup {<<q.row, p, r>> : p \in q.wanted}
  /\ UNCHANGED <<account, role>>

-----------------------------------------------------------------------------
(***************************************************************************)
(* The seed script, one transaction.  It adds to role_permissions what the *)
(* registry has and the table has not, and creates the development admin;  *)
(* it looks his address up as it was spelled and stores it in lower case.  *)
(***************************************************************************)
SeedRead(r, mixedCase) ==
  /\ Arrives(r, [op |-> "seed", row |-> DevAdmin, mixedCase |-> mixedCase],
             [pairs |-> {<<g[1], g[2]>> : g \in grants},
              found |-> role[DevAdmin] # "NONE" /\ ~mixedCase], "read")
  /\ UNCHANGED staff

ToAdd(pairs) == {xp \in Role \X Permission : xp[2] \in Default[xp[1]]} \ pairs

SeedCommit(r) ==
  LET new == ToAdd(loaded[r].pairs)
      dup == \/ \E g \in grants : <<g[1], g[2]>> \in new
             \/ ~loaded[r].found /\ role[DevAdmin] # "NONE"
  IN
  /\ At(r, "read", {"seed"})
  /\ ~loaded[r].found => ~AddressLocked(r, DevAdmin)
  /\ IF dup
     THEN Fails(r, "integrity") /\ UNCHANGED staff
     ELSE /\ Goes(r, "committed")
          /\ grants' = grants \cup {<<xp[1], xp[2], r>> : xp \in new}
          /\ role' = IF loaded[r].found THEN role
                     ELSE [role EXCEPT ![DevAdmin] = "SUPER_ADMIN"]
          /\ account' = IF loaded[r].found THEN account
                        ELSE [account EXCEPT ![DevAdmin] = ActiveAccount]

-----------------------------------------------------------------------------
RolesArrive(r) ==
  \/ \E a, u \in User, x \in Given : RoleRead(r, a, u, x) \/ CreateRead(r, a, u, x)
  \/ \E a, u \in User, op \in ReviveOps \cap mix.ops : ReviveRead(r, op, a, u)
  \/ \E a \in User, x \in Given, P \in Edits : EditRead(r, a, x, P)
  \/ \E mixedCase \in BOOLEAN : SeedRead(r, mixedCase)

RolesContinue(r) ==
  RoleCommit(r) \/ ReviveCommit(r) \/ EditLock(r) \/ EditCommit(r) \/ SeedCommit(r)

RolesStep(r) == RolesArrive(r) \/ RolesContinue(r)

-----------------------------------------------------------------------------
\* A SUPER_ADMIN loses the role only through a SUPER_ADMIN: the check is
\* made on the role that was loaded, so the one exception is a promotion
\* that committed while the request was on its way.
SuperChangedBySuper ==
  [][\A u \in User :
       role[u] = "SUPER_ADMIN" /\ role'[u] # "SUPER_ADMIN" =>
         \E r \in Req :
           /\ pc[r] = "read" /\ pc'[r] = "committed" /\ req[r].row = u
           /\ \/ loaded[r].by = "SUPER_ADMIN"
              \/ \E q \in Req : /\ Overlap(q, r) /\ Committed(q)
                                /\ req[q].op \in {"change_role", "create_admin"}
    ]_<<requests, staff>>

\* A ban holds until somebody lifts it: restoring or enabling the account,
\* whatever state of it they had loaded, does not.
BanHolds ==
  \A r \in Req :
    /\ Committed(r) /\ req[r].op = "ban"
    /\ \A q \in Req : Committed(q) /\ req[q].op = "unban" /\ req[q].row = req[r].row
         => q \in before[r]
    => IsBanned(account[req[r].row])

\* The last edit of a role's permissions decides what they are, if no other
\* edit of the role and no seed came after it or overlapped it.  An edit to
\* nothing is left out: it makes the role fall back to the registry.
LastEditDecides ==
  \A r \in Req :
    LET Writes(q) ==
          /\ Committed(q)
          /\ \/ req[q].op = "seed"
             \/ req[q].op = "set_permissions" /\ req[q].row = req[r].row
    IN
    /\ Committed(r) /\ req[r].op = "set_permissions" /\ req[r].wanted # {}
    /\ \A q \in Req \ {r} : Writes(q) => q \in before[r]
    => Effective(req[r].row) = req[r].wanted

\* "runtime overrides survive re-runs": a seed leaves the permissions of a
\* role that has rows of its own as they are.
OverridesSurviveSeed ==
  [][\A r \in Req, x \in AdminRole :
       /\ pc[r] = "read" /\ pc'[r] = "committed" /\ req[r].op = "seed"
       /\ Rows(x) # {}
       => Effective(x)' = Effective(x)]_<<requests, staff>>
=============================================================================
