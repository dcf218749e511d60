---------------------------- MODULE RolesProofs ----------------------------
(***************************************************************************)
(* Theorems about Backend, for every set of users, roles that are given    *)
(* and requests: accounts and roles, second factors, and the types of what *)
(* Roles and Sessions keep.                                                *)
(***************************************************************************)
EXTENDS AccessProofs

-----------------------------------------------------------------------------
(***************************************************************************)
(* The invariant.  What an open request has found, a role or a ban, is     *)
(* still so, or somebody has changed it since the request arrived, and an  *)
(* address that an open registration has inserted has no other row.        *)
(***************************************************************************)
GivesRole    == {"change_role", "create_admin"}
WritesStatus == ReviveOps \cup StatusOps

\* The row that an open request on an account has loaded.
Saw(r) == IF pc[r] = "locked" THEN loaded[r].was.account ELSE loaded[r].account

StaffTyped ==
  /\ role \in [User -> Role \cup {"NONE"}]
  /\ account \in [User -> Account]
  /\ \A r \in Req : req[r].op \in WritesStatus \cup GivesRole \cup {"register"} => req[r].row \in User
  /\ \A r \in Req : req[r].op \in GivesRole => req[r].role \in Role
  /\ \A r \in Req : req[r].op \in WritesStatus /\ pc[r] \in {"read", "locked"} => Saw(r) \in Account

Inserted(r) == pc[r] = "flushed" /\ req[r].op = "register"

RegistersAlone ==
  \A r \in Req : Inserted(r) =>
    /\ role[req[r].row] = "NONE"
    /\ \A o \in Req \ {r} : Inserted(o) => req[o].row # req[r].row

Promoted(r) ==
  \E q \in Req : Overlap(q, r) /\ Committed(q) /\ req[q].op \in GivesRole

RoleSaw ==
  \A r \in Req : pc[r] = "read" /\ req[r].op \in GivesRole /\ loaded[r].role # "NONE" =>
    /\ role[req[r].row] # "NONE"
    /\ loaded[r].role = "SUPER_ADMIN" => loaded[r].by = "SUPER_ADMIN"
    /\ loaded[r].role # "SUPER_ADMIN" /\ role[req[r].row] = "SUPER_ADMIN" => Promoted(r)

Lifted(r) ==
  \E q \in Req : /\ Committed(q) /\ req[q].op = "unban" /\ req[q].row = req[r].row
                 /\ q \notin before[r]

BanSaw ==
  \A r \in Req : req[r].op = "ban" /\ pc[r] \in {"read", "locked", "committed"} =>
    /\ role[req[r].row] # "NONE"
    /\ pc[r] = "committed" \/ Saw(r).banned => account[req[r].row].banned \/ Lifted(r)

ReportsOfPeople == \A x \in reports : role[x.user] # "NONE"

PInv == UInv /\ StaffTyped /\ RegistersAlone /\ RoleSaw /\ BanSaw /\ ReportsOfPeople

LEMMA PInvInit == Init => PInv
<1> SUFFICES ASSUME Init
             PROVE  PInv
  OBVIOUS
<1>1. \A r \in Req : pc[r] = "new" /\ req[r].op = "none"
  BY DEF Init, SessionsInit, RolesInit, RequestsInit, NoRequest
<1>2. role \in [User -> Role \cup {"NONE"}] /\ account \in [User -> Account]
  BY RolesAssumption
     DEF Init, SessionsInit, RolesInit, RequestsInit, ActiveAccount, Account, Status
<1>3. UInv
  BY RInvInit DEF RInv
<1>4. ReportsOfPeople
  BY DEF Init, SessionsInit, RolesInit, ModerationInit, People, ReportsOfPeople
<1> QED
  BY <1>1, <1>2, <1>3, <1>4
     DEF PInv, StaffTyped, RegistersAlone, Inserted, RoleSaw, BanSaw, WritesStatus, GivesRole,
         ReviveOps, StatusOps

-----------------------------------------------------------------------------
(***************************************************************************)
(* What an operation writes to an account.                                 *)
(***************************************************************************)
LEMMA WrittenFacts ==
  ASSUME NEW op \in WritesStatus, NEW old \in Account, NEW cur \in Account
  PROVE  /\ Written(op, old, cur) \in Account
         /\ op # "unban" /\ cur.banned => Written(op, old, cur).banned
         /\ op = "ban" /\ ~old.banned => Written(op, old, cur).banned
<1>1. /\ AfterOp(op, old) \in Account
      /\ op # "unban" => AfterOp(op, old).banned = old.banned \/ AfterOp(op, old).banned
      /\ op = "ban" => AfterOp(op, old).banned
  BY DEF WritesStatus, ReviveOps, StatusOps, AfterOp, After, Account, Status
<1>2. DOMAIN cur = {"status", "banned", "deleted"}
  BY DEF Account
<1>3. Written(op, old, cur) =
        [c \in {"status", "banned", "deleted"} |->
           IF AfterOp(op, old)[c] = old[c] THEN cur[c] ELSE AfterOp(op, old)[c]]
  BY <1>2 DEF Written
<1> DEFINE W == Written(op, old, cur)
<1>4. /\ W.status = IF AfterOp(op, old).status = old.status THEN cur.status ELSE AfterOp(op, old).status
      /\ W.banned = IF AfterOp(op, old).banned = old.banned THEN cur.banned ELSE AfterOp(op, old).banned
      /\ W.deleted = IF AfterOp(op, old).deleted = old.deleted THEN cur.deleted ELSE AfterOp(op, old).deleted
  BY <1>3
<1>5. W = [status |-> W.status, banned |-> W.banned, deleted |-> W.deleted]
  BY <1>3
<1>6. W.status \in Status /\ W.banned \in BOOLEAN /\ W.deleted \in BOOLEAN
  BY <1>1, <1>4 DEF Account
<1>7. W \in Account
  BY <1>5, <1>6 DEF Account
<1>8. /\ op # "unban" /\ cur.banned => W.banned
      /\ op = "ban" /\ ~old.banned => W.banned
  BY <1>1, <1>4
<1> QED
  BY <1>7, <1>8

-----------------------------------------------------------------------------
(***************************************************************************)
(* Every step that advances a request prepares a change of the two tables, *)
(* inserts a row, changes a role or writes a status.                       *)
(***************************************************************************)
StaffOps == GivesRole \cup WritesStatus \cup {"register"}

\* What a request finds as it arrives ...
Loads(r) ==
  LET q == req'[r] IN
  /\ q.op \in StaffOps => pc'[r] = "read" /\ q.row \in User
  /\ q.op \in WritesStatus => loaded'[r].account = account[q.row] /\ role[q.row] # "NONE"
  /\ q.op \in GivesRole =>
       /\ q.role \in Role
       /\ loaded'[r].role # "NONE" =>
            /\ loaded'[r].role = role[q.row]
            /\ role[q.row] = "SUPER_ADMIN" => loaded'[r].by = "SUPER_ADMIN"

\* ... and keeps on its way.
Prepares(r) ==
  /\ UNCHANGED <<account, role>>
  /\ Comes(r) => Loads(r)
  /\ GoesOn(r) /\ req[r].op \in StaffOps =>
       \/ /\ req[r].op \in WritesStatus /\ pc[r] = "read" /\ pc'[r] = "locked"
          /\ loaded'[r].was = loaded[r]
       \/ /\ req[r].op = "register" /\ pc'[r] = "flushed"
          /\ role[req[r].row] = "NONE" /\ ~AddressLocked(r, req[r].row)

Ends(r) == GoesOn(r) /\ pc'[r] = "committed"

Creates(r) ==
  /\ Ends(r) /\ req[r].op \notin WritesStatus
  /\ \E u \in User, x \in Role :
       /\ role[u] = "NONE" /\ \A o \in Req \ {r} : Inserted(o) => req[o].row # u
       /\ role' = [role EXCEPT ![u] = x]
       /\ account' = [account EXCEPT ![u] = ActiveAccount]

Regrades(r) ==
  /\ Ends(r) /\ req[r].op \in GivesRole /\ pc[r] = "read" /\ loaded[r].role # "NONE"
  /\ role' \in {role, [role EXCEPT ![req[r].row] = req[r].role]}
  /\ UNCHANGED account

Rewrites(r) ==
  /\ Ends(r) /\ req[r].op \in WritesStatus /\ pc[r] \in {"read", "locked"}
  /\ account' = [account EXCEPT ![req[r].row] = Written(req[r].op, Saw(r), @)]
  /\ UNCHANGED role

StaffStep(r) == Advances(r) /\ (Prepares(r) \/ Creates(r) \/ Regrades(r) \/ Rewrites(r))

LEMMA StaffElsewhere ==
  ASSUME NEW r \in Req, NEW ops, ops \cap StaffOps = {}, Belongs(r, ops), UNCHANGED <<account, role>>
  PROVE  StaffStep(r)
<1>1. ~(Comes(r) /\ GoesOn(r)) /\ ~(Comes(r) /\ IsLost(r))
  BY DEF Comes, GoesOn, IsLost, Open
<1>2. IsLost(r) /\ GoesOn(r) => req[r].op = "none"
  BY DEF IsLost, GoesOn, NoRequest
<1>3. "none" \notin StaffOps
  BY DEF StaffOps, GivesRole, WritesStatus, ReviveOps, StatusOps
<1>4. Comes(r) => Loads(r)
  BY <1>1 DEF Belongs, Loads, StaffOps
<1>5. GoesOn(r) => req[r].op \notin StaffOps
  BY <1>1, <1>2, <1>3 DEF Belongs
<1> QED
  BY <1>4, <1>5 DEF StaffStep, Prepares, Advances, Belongs

LEMMA SeedBelongs ==
  ASSUME HInv, NEW r \in Req, SeedCommit(r)
  PROVE  Belongs(r, {"set_permissions", "seed"})
  BY GoesFacts, FailsFacts DEF SeedCommit, At, Belongs, Open, Answered

LEMMA RolesStaff ==
  ASSUME PInv, NEW r \in Req, RolesStep(r)
  PROVE  StaffStep(r)
<1> USE DEF PInv, UInv, Open, Answered
<1>0. Advances(r)
  BY RolesBelong DEF Belongs, Advances
<1> USE <1>0
<1> HIDE DEF PInv, UInv
<1>a. HInv
  BY DEF PInv, UInv
<1>1. ASSUME NEW a \in User, NEW u \in User, NEW x \in Given,
             RoleRead(r, a, u, x) \/ CreateRead(r, a, u, x)
      PROVE  StaffStep(r)
  <2>1. CASE RoleRead(r, a, u, x)
    <3>1. /\ Comes(r) /\ pc'[r] = "read"
          /\ req'[r] = [op |-> "change_role", by |-> a, row |-> u, role |-> x]
          /\ loaded'[r] = [role |-> role[u], by |-> role[a]]
      BY <1>a, <2>1, ArrivesFacts DEF RoleRead
    <3>2. role[u] = "SUPER_ADMIN" => role[a] = "SUPER_ADMIN"
      BY <2>1 DEF RoleRead, MayChangeRole
    <3>3. Loads(r)
      BY <3>1, <3>2, RolesAssumption DEF Loads, StaffOps, GivesRole, WritesStatus, ReviveOps, StatusOps
    <3> QED
      BY <2>1, <3>1, <3>3 DEF RoleRead, staff, StaffStep, Prepares, Comes, GoesOn
  <2>2. CASE CreateRead(r, a, u, x)
    <3>1. /\ Comes(r) /\ pc'[r] = "read"
          /\ req'[r] = [op |-> "create_admin", by |-> a, row |-> u, role |-> x]
          /\ loaded'[r] = [role |-> IF Found(u) THEN role[u] ELSE "NONE", by |-> role[a]]
      BY <1>a, <2>2, ArrivesFacts DEF CreateRead
    <3>2. Found(u) /\ role[u] = "SUPER_ADMIN" => role[a] = "SUPER_ADMIN"
      BY <2>2 DEF CreateRead, MayPromote
    <3>3. Loads(r)
      BY <3>1, <3>2, RolesAssumption DEF Loads, StaffOps, GivesRole, WritesStatus, ReviveOps, StatusOps
    <3> QED
      BY <2>2, <3>1, <3>3 DEF CreateRead, staff, StaffStep, Prepares, Comes, GoesOn
  <2> QED
    BY <1>1, <2>1, <2>2
<1>2. ASSUME NEW a \in User, NEW u \in User, NEW op \in ReviveOps, ReviveRead(r, op, a, u)
      PROVE  StaffStep(r)
  <2>1. /\ Comes(r) /\ pc'[r] = "read" /\ req'[r] = [op |-> op, by |-> a, row |-> u]
        /\ loaded'[r] = [account |-> account[u]]
    BY <1>a, <1>2, ArrivesFacts DEF ReviveRead
  <2>2. role[u] # "NONE" /\ UNCHANGED <<account, role>>
    BY <1>2 DEF ReviveRead, staff
  <2>3. Loads(r)
    BY <2>1, <2>2 DEF Loads, StaffOps, GivesRole, WritesStatus, ReviveOps, StatusOps
  <2> QED
    BY <2>1, <2>2, <2>3 DEF StaffStep, Prepares, Comes, GoesOn
<1>3. ASSUME Belongs(r, {"set_permissions", "seed"}), UNCHANGED <<account, role>>
      PROVE  StaffStep(r)
  BY <1>3, StaffElsewhere DEF StaffOps, GivesRole, WritesStatus, ReviveOps, StatusOps
<1>4. ASSUME NEW a \in User, NEW x \in Given, NEW P \in Edits, EditRead(r, a, x, P)
      PROVE  StaffStep(r)
  BY <1>a, <1>3, <1>4, ArrivesFacts DEF EditRead, Belongs, staff
<1>5. ASSUME NEW m \in BOOLEAN, SeedRead(r, m)
      PROVE  StaffStep(r)
  BY <1>a, <1>3, <1>5, ArrivesFacts DEF SeedRead, Belongs, staff
<1>6. CASE EditLock(r)
  BY <1>a, <1>3, <1>6, GoesFacts DEF EditLock, At, Belongs, staff
<1>7. CASE EditCommit(r)
  BY <1>a, <1>3, <1>7, GoesFacts, FailsFacts DEF EditCommit, At, Belongs
<1>8. ASSUME NEW u \in User, NEW x \in Role, Ends(r), req[r].op \notin WritesStatus,
             role[u] = "NONE", ~AddressLocked(r, u), role' = [role EXCEPT ![u] = x],
             account' = [account EXCEPT ![u] = ActiveAccount]
      PROVE  StaffStep(r)
  <2>1. \A o \in Req \ {r} : Inserted(o) => req[o].row # u
    BY <1>8 DEF AddressLocked, Inserted, At
  <2> QED
    BY <1>8, <2>1 DEF StaffStep, Creates
<1>9. CASE RoleCommit(r)
  <2>0. /\ pc[r] = "read" /\ req[r].op \in GivesRole
        /\ req[r].row \in User /\ req[r].role \in Role /\ req[r].op \notin WritesStatus
    BY <1>9 DEF RoleCommit, At, GivesRole, PInv, StaffTyped, WritesStatus, ReviveOps, StatusOps
  <2>1. CASE Fails(r, "integrity") /\ UNCHANGED staff
    <3>1. IsLost(r)
      BY <1>a, <2>0, <2>1, FailsFacts
    <3> QED
      BY <2>0, <2>1, <3>1, NoneOfThem
         DEF staff, StaffStep, Prepares, Comes, GoesOn, IsLost, NoRequest, GivesRole
  <2>2. CASE Goes(r, "committed") /\ loaded[r].role # "NONE"
    <3>1. Ends(r)
      BY <1>a, <2>0, <2>2, GoesFacts DEF Ends
    <3>2. role' = [role EXCEPT ![req[r].row] = IF loaded[r].role = req[r].role THEN @ ELSE req[r].role]
      BY <1>a, <1>9, <2>2, <3>1, FailsFacts DEF RoleCommit, Ends
    <3>3. account' = account
      BY <1>a, <1>9, <2>2, <3>1, FailsFacts DEF RoleCommit, Ends
    <3>4. role' \in {role, [role EXCEPT ![req[r].row] = req[r].role]}
      BY <3>2 DEF PInv, StaffTyped
    <3> QED
      BY <2>0, <2>2, <3>1, <3>3, <3>4 DEF StaffStep, Regrades
  <2>3. CASE Goes(r, "committed") /\ loaded[r].role = "NONE"
    <3>1. Ends(r)
      BY <1>a, <2>0, <2>3, GoesFacts DEF Ends
    <3>2. role[req[r].row] = "NONE" /\ ~AddressLocked(r, req[r].row)
      BY <1>a, <1>9, <2>0, <2>3, <3>1, FailsFacts DEF RoleCommit, Ends
    <3>3. /\ role' = [role EXCEPT ![req[r].row] = req[r].role]
          /\ account' = [account EXCEPT ![req[r].row] = ActiveAccount]
      BY <1>a, <1>9, <2>0, <2>3, <3>1, FailsFacts DEF RoleCommit, Ends, Role
    <3> QED
      BY <1>8, <2>0, <3>1, <3>2, <3>3
  <2> QED
    BY <1>9, <2>1, <2>2, <2>3 DEF RoleCommit
<1>10. CASE SeedCommit(r)
  <2>1. pc[r] = "read" /\ req[r].op = "seed"
    BY <1>10 DEF SeedCommit, At
  <2>2. CASE UNCHANGED <<account, role>>
    BY <1>a, <1>3, <1>10, <2>2, SeedBelongs
  <2>3. CASE ~UNCHANGED <<account, role>>
    <3>1. /\ Goes(r, "committed") /\ role' = [role EXCEPT ![DevAdmin] = "SUPER_ADMIN"]
          /\ account' = [account EXCEPT ![DevAdmin] = ActiveAccount]
          /\ ~loaded[r].found
      BY <1>10, <2>3 DEF SeedCommit, staff
    <3>2. role[DevAdmin] = "NONE" /\ ~AddressLocked(r, DevAdmin)
      BY <1>10, <2>3, <3>1 DEF SeedCommit, staff
    <3>3. Ends(r) /\ "SUPER_ADMIN" \in Role /\ DevAdmin \in User
      BY <1>a, <2>1, <3>1, GoesFacts, RolesAssumption DEF Ends, Role
    <3>4. req[r].op \notin WritesStatus
      BY <2>1 DEF WritesStatus, ReviveOps, StatusOps
    <3> QED
      BY <1>8, <3>1, <3>2, <3>3, <3>4
  <2> QED
    BY <2>2, <2>3
<1>11. CASE ReviveCommit(r)
  <2>1. pc[r] = "read" /\ req[r].op \in WritesStatus /\ Goes(r, "committed")
    BY <1>11 DEF ReviveCommit, At, WritesStatus
  <2>2. Ends(r)
    BY <1>a, <2>1, GoesFacts DEF Ends
  <2> QED
    BY <1>11, <2>1, <2>2 DEF ReviveCommit, StaffStep, Rewrites, Saw
<1> QED
  BY <1>1, <1>2, <1>4, <1>5, <1>6, <1>7, <1>9, <1>10, <1>11 DEF RolesStep, RolesArrive, RolesContinue

LEMMA SessionsStaff ==
  ASSUME PInv, NEW r \in Req, SessionsWithReport(r)
  PROVE  StaffStep(r)
<1>a. UInv /\ HInv
  BY DEF PInv, UInv
<1>b. Advances(r)
  BY <1>a, SessionBelong DEF Belongs, Advances
<1> USE DEF Open, Answered
<1>1. CASE SessionArrive(r)
  <2>1. UNCHANGED <<account, role>>
    BY <1>1 DEF SessionArrive, RegisterCheck, LoginRead, MfaRead, RefreshRead, TargetRead,
                SendSecret, UseGet, VerifyRead, TotpRead, staff
  <2>2. Comes(r) /\ Finds(r)
    <3>1. (\A t \in tokens : t.user \in User) /\ \A m \in MfaTokens : req[m].row \in User
      BY <1>a DEF UInv, Token, MfaTokens, SessionOps
    <3> QED
      BY <1>a, <1>1, <3>1, SessionArriveFacts
  <2>3. Loads(r)
    BY <2>2 DEF Finds, Loads, StaffOps, GivesRole, WritesStatus, ReviveOps, SessionOps, RevokeOps,
                StatusOps, TotpOps
  <2> QED
    BY <1>b, <2>1, <2>2, <2>3 DEF StaffStep, Prepares, Comes, GoesOn
<1>2. ASSUME Belongs(r, SessionOps), UNCHANGED <<account, role>>,
             IsLost(r) \/ req[r].op \notin StaffOps
      PROVE  SessionContinue(r) => StaffStep(r)
  <2>1. SessionContinue(r) => pc[r] \in Open
    BY DEF SessionContinue, RegisterInsert, RegisterCommit, LoginCommit, MfaCommit, RefreshCommit,
           RevokeList, RevokeCommit, UseDelete, VerifyCommit, SetupCommit, TotpCommit, At
  <2>2. IsLost(r) /\ GoesOn(r) => req[r].op \notin StaffOps
    BY DEF IsLost, GoesOn, NoRequest, StaffOps, GivesRole, WritesStatus, ReviveOps, StatusOps
  <2> QED
    BY <1>b, <1>2, <2>1, <2>2 DEF StaffStep, Prepares, Comes
<1>3. CASE RegisterInsert(r)
  <2>1. CASE Fails(r, "integrity")
    BY <1>a, <1>2, <1>3, <2>1, SessionBelong, FailsFacts DEF RegisterInsert, At, staff, SessionContinue
  <2>2. CASE Goes(r, "flushed") /\ role[req[r].row] = "NONE"
    <3>1. GoesOn(r) /\ pc'[r] = "flushed" /\ pc[r] = "read"
      BY <1>a, <1>3, <2>2, GoesFacts DEF RegisterInsert, At
    <3> QED
      BY <1>b, <1>3, <2>2, <3>1 DEF RegisterInsert, At, staff, StaffStep, Prepares, Comes
  <2> QED
    BY <1>3, <2>1, <2>2 DEF RegisterInsert
<1>4. CASE RegisterCommit(r)
  <2>1. Ends(r) /\ Inserted(r) /\ req[r].op = "register"
    BY <1>a, <1>4, GoesFacts DEF RegisterCommit, At, Ends, Inserted
  <2>2. /\ req[r].row \in User /\ role[req[r].row] = "NONE"
        /\ \A o \in Req \ {r} : Inserted(o) => req[o].row # req[r].row
    BY <2>1 DEF PInv, StaffTyped, RegistersAlone
  <2>3. req[r].op \notin WritesStatus /\ "USER" \in Role
    BY <2>1 DEF WritesStatus, ReviveOps, StatusOps, Role
  <2> QED
    BY <1>b, <1>4, <2>1, <2>2, <2>3 DEF RegisterCommit, StaffStep, Creates
<1>5. CASE RevokeList(r)
  <2>1. /\ GoesOn(r) /\ pc'[r] = "locked"
        /\ loaded'[r] = [list |-> Listed(r), was |-> loaded[r]]
    BY <1>a, <1>5, KeepsFacts DEF RevokeList, At
  <2>2. UNCHANGED <<account, role>>
    BY <1>5 DEF RevokeList, staff
  <2>3. req[r].op \in StaffOps => req[r].op \in StatusOps /\ pc[r] = "read"
    BY <1>5 DEF RevokeList, At, StaffOps, GivesRole, WritesStatus, ReviveOps, StatusOps
  <2> QED
    BY <1>b, <2>1, <2>2, <2>3 DEF StaffStep, Prepares, Comes, GoesOn, WritesStatus
<1>6. CASE RevokeCommit(r)
  <2>1. Ends(r) /\ pc[r] = "locked" /\ req[r].op \in RevokeOps /\ UNCHANGED role
    BY <1>a, <1>6, GoesFacts DEF RevokeCommit, At, Ends
  <2>2. CASE req[r].op \in StatusOps
    BY <1>b, <1>6, <2>1, <2>2 DEF RevokeCommit, StaffStep, Rewrites, Saw, WritesStatus
  <2>3. CASE req[r].op \notin StatusOps
    <3>1. req[r].op \notin StaffOps
      BY <2>1, <2>3 DEF RevokeOps, StaffOps, GivesRole, WritesStatus, ReviveOps, StatusOps
    <3> QED
      BY <1>a, <1>2, <1>6, <2>1, <2>3, <3>1, SessionBelong DEF RevokeCommit, SessionContinue
  <2> QED
    BY <2>2, <2>3
<1>7. CASE \/ LoginCommit(r) \/ MfaCommit(r) \/ RefreshCommit(r) \/ UseDelete(r) \/ VerifyCommit(r)
           \/ SetupCommit(r) \/ TotpCommit(r)
  <2>1. UNCHANGED <<account, role>>
    BY <1>7 DEF LoginCommit, MfaCommit, RefreshCommit, UseDelete, VerifyCommit, SetupCommit,
                TotpCommit, staff
  <2>2. req[r].op \in {"login", "mfa", "refresh", "logout", "reset", "verify", "verify_user"} \cup TotpOps
    BY <1>7 DEF LoginCommit, MfaCommit, RefreshCommit, UseDelete, VerifyCommit, SetupCommit,
                TotpCommit, At, TotpOps
  <2>3. req[r].op \notin StaffOps
    BY <2>2 DEF TotpOps, StaffOps, GivesRole, WritesStatus, ReviveOps, StatusOps
  <2> QED
    BY <1>a, <1>2, <1>7, <2>1, <2>3, SessionBelong DEF SessionContinue
<1> QED
  BY <1>1, <1>3, <1>4, <1>5, <1>6, <1>7 DEF SessionsWithReport, SessionContinue

LEMMA ModerationStaff ==
  ASSUME PInv, NEW r \in Req, ModerationStep(r), UNCHANGED staff
  PROVE  StaffStep(r)
<1>1. Moderates(r)
  BY ModerationFacts DEF PInv, UInv, HasUser
<1>2. CASE Belongs(r, FilesOps)
  <2>1. FilesOps \cap StaffOps = {}
    BY DEF FilesOps, PhotoOps, ReportOps, StaffOps, GivesRole, WritesStatus, ReviveOps, StatusOps
  <2> QED
    BY <1>2, <2>1, StaffElsewhere DEF staff
<1>3. CASE ~Belongs(r, FilesOps)
  <2>1. /\ Comes(r) /\ req'[r].op \in {"suspend", "ban"} /\ pc'[r] = "read" /\ req'[r].row \in User
        /\ loaded'[r].account = account[req'[r].row] /\ role[req'[r].row] # "NONE"
    BY <1>1, <1>3 DEF Moderates, Belongs, PInv, ReportsOfPeople
  <2>2. Loads(r)
    BY <2>1 DEF Loads, GivesRole, WritesStatus, StatusOps
  <2> QED
    BY <1>1, <2>1, <2>2 DEF Moderates, staff, StaffStep, Prepares, Advances, Comes, GoesOn, Open
<1> QED
  BY <1>2, <1>3

LEMMA StaffKinds ==
  ASSUME PInv, [Next]_bvars
  PROVE  UNCHANGED <<requests, staff>> \/ \E r \in Req : StaffStep(r)
<1>a. UInv /\ HInv
  BY DEF PInv, UInv
<1> USE DEF StaffOps, GivesRole, WritesStatus, ReviveOps, StatusOps
<1>1. ASSUME NEW r \in Req, SettingsStep(r), UNCHANGED staff
      PROVE  StaffStep(r)
  BY <1>a, <1>1, SettingsBelong, StaffElsewhere DEF SettingsOps, ConfigOps, staff
<1>2. ASSUME NEW r \in Req, CampaignStep(r), UNCHANGED staff
      PROVE  StaffStep(r)
  BY <1>a, <1>2, CampaignBelong, StaffElsewhere DEF CampaignOps, staff
<1>3. ASSUME NEW r \in Req, Rollback(r), UNCHANGED staff
      PROVE  StaffStep(r)
  <2>1. Belongs(r, {})
    BY <1>a, <1>3, RollbackBelongs
  <2> QED
    BY <1>3, <2>1, StaffElsewhere DEF staff
<1>4. CASE Next
  BY <1>1, <1>2, <1>3, <1>4, RolesStaff, SessionsStaff, ModerationStaff DEF Next
<1>5. CASE UNCHANGED bvars
  BY <1>5 DEF bvars
<1> QED
  BY <1>4, <1>5

-----------------------------------------------------------------------------
(***************************************************************************)
(* The invariant is kept.                                                  *)
(***************************************************************************)

\* What a step of r does to a row that is there, and to one that is not.
LEMMA StaffChanges ==
  ASSUME PInv, NEW r \in Req, StaffStep(r)
  PROVE  /\ role' \in [User -> Role \cup {"NONE"}] /\ account' \in [User -> Account]
         /\ \A u \in User : role[u] # "NONE" =>
              /\ role'[u] # "NONE"
              /\ role'[u] = "SUPER_ADMIN" /\ role[u] # "SUPER_ADMIN" =>
                   Ends(r) /\ req[r].op \in GivesRole
              /\ account[u].banned =>
                   \/ account'[u].banned
                   \/ Ends(r) /\ req[r].op = "unban" /\ req[r].row = u
         /\ \A o \in Req \ {r} : Inserted(o) => role'[req[o].row] = "NONE"
<1> USE DEF PInv, StaffTyped
<1>a. \A o \in Req : Inserted(o) => req[o].row \in User /\ role[req[o].row] = "NONE"
  BY DEF RegistersAlone, Inserted
<1>b. "NONE" \notin Role
  BY DEF Role
<1>1. CASE Prepares(r)
  BY <1>1, <1>a DEF Prepares
<1>2. CASE Creates(r)
  <2>1. PICK u \in User, x \in Role :
          /\ role[u] = "NONE" /\ \A o \in Req \ {r} : Inserted(o) => req[o].row # u
          /\ role' = [role EXCEPT ![u] = x]
          /\ account' = [account EXCEPT ![u] = ActiveAccount]
    BY <1>2 DEF Creates
  <2>2. ActiveAccount \in Account
    BY DEF ActiveAccount, Account, Status
  <2> QED
    BY <1>a, <2>1, <2>2
<1>3. CASE Regrades(r)
  <2>1. /\ role[req[r].row] # "NONE" /\ req[r].row \in User /\ req[r].role \in Role
        /\ Ends(r) /\ req[r].op \in GivesRole
        /\ role' \in {role, [role EXCEPT ![req[r].row] = req[r].role]} /\ account' = account
    BY <1>3 DEF Regrades, RoleSaw
  <2> QED
    BY <1>a, <1>b, <2>1
<1>4. CASE Rewrites(r)
  <2> DEFINE u == req[r].row
             W == Written(req[r].op, Saw(r), account[u])
  <2>1. /\ u \in User /\ Ends(r) /\ req[r].op \in WritesStatus /\ role' = role
        /\ Saw(r) \in Account /\ account[u] \in Account
        /\ account' = [account EXCEPT ![u] = W]
    BY <1>4 DEF Rewrites
  <2>2. W \in Account /\ (req[r].op # "unban" /\ account[u].banned => W.banned)
    BY <2>1, WrittenFacts
  <2> QED
    BY <1>a, <2>1, <2>2
<1> QED
  BY <1>1, <1>2, <1>3, <1>4 DEF StaffStep

\* What r holds while it is open, and what it leaves behind.
LEMMA OwnState ==
  ASSUME PInv, NEW r \in Req, StaffStep(r), req'[r].op \in StaffOps
  PROVE  \/ Comes(r) /\ Loads(r) /\ UNCHANGED <<account, role>>
         \/ /\ GoesOn(r) /\ UNCHANGED <<account, role>>
            /\ \/ /\ req[r].op \in WritesStatus /\ pc[r] = "read" /\ pc'[r] = "locked"
                  /\ loaded'[r].was = loaded[r]
               \/ /\ req[r].op = "register" /\ pc'[r] = "flushed"
                  /\ role[req[r].row] = "NONE" /\ ~AddressLocked(r, req[r].row)
         \/ Creates(r) \/ Regrades(r) \/ Rewrites(r)
<1>1. ~IsLost(r)
  BY DEF IsLost, NoRequest, StaffOps, GivesRole, WritesStatus, ReviveOps, StatusOps
<1>2. GoesOn(r) => req'[r] = req[r]
  BY DEF GoesOn
<1> QED
  BY <1>1, <1>2 DEF StaffStep, Advances, Prepares

LEMMA OthersStay ==
  ASSUME NEW r \in Req, StaffStep(r), NEW o \in Req \ {r}
  PROVE  /\ pc'[o] = pc[o] /\ req'[o] = req[o] /\ loaded'[o] = loaded[o] /\ before'[o] = before[o]
         /\ Saw(o)' = Saw(o)
  BY DEF StaffStep, Advances, Takes, Saw

LEMMA TypedKept ==
  ASSUME PInv, NEW r \in Req, StaffStep(r)
  PROVE  StaffTyped'
<1> USE DEF PInv
<1>1. role' \in [User -> Role \cup {"NONE"}] /\ account' \in [User -> Account]
  BY StaffChanges
<1>2. ASSUME req'[r].op \in StaffOps
      PROVE  /\ req'[r].row \in User
             /\ req'[r].op \in GivesRole => req'[r].role \in Role
             /\ req'[r].op \in WritesStatus /\ pc'[r] \in {"read", "locked"} => Saw(r)' \in Account
  <2>1. CASE Comes(r) /\ Loads(r)
    BY <1>2, <2>1 DEF Loads, Saw, StaffTyped
  <2>2. CASE GoesOn(r)
    <3>1. req'[r] = req[r] /\ pc[r] \in Open /\ pc'[r] # "read"
      BY <2>2 DEF GoesOn, Answered
    <3>2. pc'[r] = "locked" /\ req[r].op \in WritesStatus =>
            pc[r] = "read" /\ loaded'[r].was = loaded[r]
      BY <1>2, <2>2, <3>1, OwnState
         DEF Comes, Open, Creates, Regrades, Rewrites, Ends, WritesStatus, ReviveOps, StatusOps
    <3>3. pc'[r] = "locked" /\ req[r].op \in WritesStatus => Saw(r)' = Saw(r) /\ pc[r] = "read"
      BY <3>2 DEF Saw
    <3> QED
      BY <1>2, <3>1, <3>3 DEF StaffTyped, StaffOps
  <2> QED
    BY <1>2, <2>1, <2>2, OwnState DEF Creates, Regrades, Rewrites, Ends
<1>3. ASSUME NEW o \in Req \ {r}, req'[o].op \in StaffOps
      PROVE  /\ req'[o].row \in User
             /\ req'[o].op \in GivesRole => req'[o].role \in Role
             /\ req'[o].op \in WritesStatus /\ pc'[o] \in {"read", "locked"} => Saw(o)' \in Account
  BY <1>3, OthersStay DEF StaffTyped, StaffOps
<1> QED
  BY <1>1, <1>2, <1>3 DEF StaffTyped, StaffOps

LEMMA RegistersKept ==
  ASSUME PInv, NEW r \in Req, StaffStep(r)
  PROVE  RegistersAlone'
<1>1. ASSUME NEW o \in Req \ {r}
      PROVE  Inserted(o)' = Inserted(o) /\ req'[o] = req[o]
  BY OthersStay DEF Inserted
<1>2. ASSUME Inserted(r)'
      PROVE  /\ role'[req'[r].row] = "NONE" /\ req'[r].row = req[r].row
             /\ \A o \in Req \ {r} : Inserted(o) => req[o].row # req[r].row
  <2>1. req'[r].op = "register" /\ pc'[r] = "flushed"
    BY <1>2 DEF Inserted
  <2>2. /\ GoesOn(r) /\ UNCHANGED <<account, role>>
        /\ role[req[r].row] = "NONE" /\ ~AddressLocked(r, req[r].row)
    BY <2>1, OwnState DEF StaffOps, Loads, Creates, Regrades, Rewrites, Ends,
                          WritesStatus, ReviveOps, StatusOps
  <2> QED
    BY <2>2 DEF GoesOn, AddressLocked, Inserted, At
<1>3. ASSUME NEW q \in Req, Inserted(q)'
      PROVE  /\ role'[req'[q].row] = "NONE"
             /\ \A o \in Req \ {q} : Inserted(o)' => req'[o].row # req'[q].row
  <2>1. CASE q = r
    BY <1>1, <1>2, <1>3, <2>1
  <2>2. CASE q # r
    BY <1>1, <1>2, <1>3, <2>2, StaffChanges DEF PInv, RegistersAlone
  <2> QED
    BY <2>1, <2>2
<1> QED
  BY <1>3 DEF RegistersAlone

\* A committed request and what came before it stay as they are.
LEMMA AnsweredStays ==
  ASSUME HInv, NEW r \in Req, StaffStep(r), NEW q \in Req, Committed(q)
  PROVE  q # r /\ Committed(q)' /\ req'[q] = req[q] /\ before'[q] = before[q]
<1>1. q # r
  BY DEF StaffStep, Advances, Comes, GoesOn, IsLost, Open, Committed
<1> QED
  BY <1>1, OthersStay DEF Committed

LEMMA RoleSawKept ==
  ASSUME PInv, NEW r \in Req, StaffStep(r)
  PROVE  RoleSaw'
<1>a. HInv
  BY DEF PInv, UInv
<1> SUFFICES ASSUME NEW q \in Req, pc'[q] = "read", req'[q].op \in GivesRole,
                    loaded'[q].role # "NONE"
             PROVE  /\ role'[req'[q].row] # "NONE"
                    /\ loaded'[q].role = "SUPER_ADMIN" => loaded'[q].by = "SUPER_ADMIN"
                    /\ loaded'[q].role # "SUPER_ADMIN" /\ role'[req'[q].row] = "SUPER_ADMIN"
                         => Promoted(q)'
  BY DEF RoleSaw
<1>1. CASE q = r
  BY <1>1, OwnState DEF StaffOps, Loads, Creates, Regrades, Rewrites, Ends, GoesOn
<1>2. CASE q # r
  <2>1. /\ pc[q] = "read" /\ req[q].op \in GivesRole /\ loaded[q].role # "NONE"
        /\ req'[q] = req[q] /\ loaded'[q] = loaded[q] /\ req[q].row \in User
    BY <1>2, OthersStay DEF PInv, StaffTyped
  <2>2. /\ role[req[q].row] # "NONE"
        /\ loaded[q].role = "SUPER_ADMIN" => loaded[q].by = "SUPER_ADMIN"
        /\ loaded[q].role # "SUPER_ADMIN" /\ role[req[q].row] = "SUPER_ADMIN" => Promoted(q)
    BY <2>1 DEF PInv, RoleSaw
  <2>3. Promoted(q) => Promoted(q)'
    <3> SUFFICES ASSUME NEW o \in Req, Overlap(o, q), Committed(o), req[o].op \in GivesRole
                 PROVE  Promoted(q)'
      BY DEF Promoted
    <3>1. Overlap(o, q)'
      BY <1>a, OverlapStays DEF StaffStep, Advances
    <3> QED
      BY <1>a, <3>1, AnsweredStays DEF Promoted
  <2>4. Ends(r) /\ req[r].op \in GivesRole => Promoted(q)'
    <3> SUFFICES ASSUME Ends(r), req[r].op \in GivesRole
                 PROVE  Promoted(q)'
      OBVIOUS
    <3>1. pc[r] \in Open /\ pc'[r] = "committed" /\ req'[r] = req[r]
      BY DEF Ends, GoesOn
    <3>2. r \notin before[q] /\ pc[r] # "new"
      BY <1>a, <3>1 DEF HInv, Open, Answered
    <3>3. Overlap(r, q)
      BY <1>a, <1>2, <2>1, <3>2, OpenOverlaps DEF Open
    <3>4. Overlap(r, q)'
      BY <1>a, <3>3, OverlapStays DEF StaffStep, Advances
    <3> QED
      BY <3>1, <3>4 DEF Promoted, Committed
  <2> QED
    BY <2>1, <2>2, <2>3, <2>4, StaffChanges
<1> QED
  BY <1>1, <1>2

LEMMA BanSawKept ==
  ASSUME PInv, NEW r \in Req, StaffStep(r)
  PROVE  BanSaw'
<1>a. HInv
  BY DEF PInv, UInv
<1> SUFFICES ASSUME NEW q \in Req, req'[q].op = "ban", pc'[q] \in {"read", "locked", "committed"}
             PROVE  /\ role'[req'[q].row] # "NONE"
                    /\ pc'[q] = "committed" \/ Saw(q)'.banned =>
                         account'[req'[q].row].banned \/ Lifted(q)'
  BY DEF BanSaw
<1>b. "ban" \in WritesStatus /\ "ban" \in StaffOps /\ "ban" \notin GivesRole
  BY DEF WritesStatus, StatusOps, ReviveOps, StaffOps, GivesRole
<1>1. ASSUME pc[q] # "new", req'[q] = req[q], before'[q] = before[q], Lifted(q)
      PROVE  Lifted(q)'
  <2> PICK o \in Req : /\ Committed(o) /\ req[o].op = "unban" /\ req[o].row = req[q].row
                       /\ o \notin before[q]
    BY <1>1 DEF Lifted
  <2> QED
    BY <1>a, <1>1, AnsweredStays DEF Lifted
<1>2. ASSUME q # r
      PROVE  /\ role'[req'[q].row] # "NONE"
             /\ pc'[q] = "committed" \/ Saw(q)'.banned =>
                  account'[req'[q].row].banned \/ Lifted(q)'
  <2>1. /\ pc'[q] = pc[q] /\ req'[q] = req[q] /\ before'[q] = before[q] /\ Saw(q)' = Saw(q)
    BY <1>2, OthersStay
  <2>2. /\ role[req[q].row] # "NONE" /\ req[q].row \in User
        /\ pc[q] = "committed" \/ Saw(q).banned => account[req[q].row].banned \/ Lifted(q)
    BY <1>b, <2>1 DEF PInv, BanSaw, StaffTyped
  <2>3. Ends(r) /\ req[r].op = "unban" /\ req[r].row = req[q].row => Lifted(q)'
    <3> SUFFICES ASSUME Ends(r), req[r].op = "unban", req[r].row = req[q].row
                 PROVE  Lifted(q)'
      OBVIOUS
    <3>1. pc[r] \in Open /\ pc'[r] = "committed" /\ req'[r] = req[r]
      BY DEF Ends, GoesOn
    <3>2. r \notin before[q]
      BY <1>a, <3>1 DEF HInv, Open, Answered
    <3> QED
      BY <2>1, <3>1, <3>2 DEF Lifted, Committed
  <2> QED
    BY <1>1, <2>1, <2>2, <2>3, StaffChanges
<1>3. ASSUME q = r
      PROVE  /\ role'[req'[q].row] # "NONE"
             /\ pc'[q] = "committed" \/ Saw(q)'.banned =>
                  account'[req'[q].row].banned \/ Lifted(q)'
  <2>1. CASE Comes(r) /\ Loads(r) /\ UNCHANGED <<account, role>>
    BY <1>3, <1>b, <2>1 DEF Loads, Saw
  <2>2. CASE /\ GoesOn(r) /\ UNCHANGED <<account, role>>
             /\ pc[r] = "read" /\ pc'[r] = "locked" /\ loaded'[r].was = loaded[r]
    <3>1. req'[r] = req[r] /\ before'[r] = before[r] /\ Saw(r)' = Saw(r)
      BY <2>2 DEF GoesOn, Saw
    <3> QED
      BY <1>1, <1>3, <2>2, <3>1 DEF PInv, BanSaw
  <2>3. CASE Rewrites(r)
    <3> DEFINE u == req[r].row
               W == Written("ban", Saw(r), account[u])
    <3>1. /\ req'[r] = req[r] /\ before'[r] = before[r] /\ pc'[r] = "committed"
          /\ pc[r] \in {"read", "locked"} /\ role' = role
          /\ account' = [account EXCEPT ![u] = Written(req[r].op, Saw(r), account[u])]
      BY <2>3 DEF Rewrites, Ends, GoesOn
    <3>2. /\ req[r].op = "ban" /\ u \in User
          /\ Saw(r) \in Account /\ account \in [User -> Account]
      BY <1>3, <1>b, <3>1 DEF PInv, StaffTyped
    <3>3. /\ role[u] # "NONE"
          /\ Saw(r).banned => account[u].banned \/ Lifted(r)
      BY <3>1, <3>2 DEF PInv, BanSaw
    <3>4. (account[u].banned => W.banned) /\ (~Saw(r).banned => W.banned)
      BY <1>b, <3>2, WrittenFacts
    <3>5. account'[u] = W
      BY <3>1, <3>2
    <3> QED
      BY <1>1, <1>3, <3>1, <3>3, <3>4, <3>5
  <2> QED
    BY <1>3, <1>b, <2>1, <2>2, <2>3, OwnState DEF Creates, Regrades, Ends, GoesOn
<1> QED
  BY <1>2, <1>3

LEMMA PInvKept ==
  ASSUME PInv, [Next]_bvars
  PROVE  PInv'
<1>1. UInv'
  BY UKeeps DEF PInv
<1>2. CASE UNCHANGED <<requests, staff>>
  <2>1. ReportsOfPeople'
    BY <1>2, ReportsFrom DEF PInv, ReportsOfPeople, Reported, staff
  <2> QED
    BY <1>1, <1>2, <2>1
       DEF PInv, StaffTyped, RegistersAlone, Inserted, RoleSaw, Promoted, BanSaw, Lifted, Saw,
           Overlap, Committed, requests, staff
<1>3. ASSUME NEW r \in Req, StaffStep(r)
      PROVE  PInv'
  <2>1. ReportsOfPeople'
    <3>1. \A y \in reports : y.user \in User
      BY DEF PInv, UInv, HasUser
    <3>2. \A u \in User : role[u] # "NONE" => role'[u] # "NONE"
      BY <1>3, StaffChanges
    <3> QED
      BY <3>1, <3>2, ReportsFrom DEF PInv, ReportsOfPeople, Reported
  <2> QED
    BY <1>1, <1>3, <2>1, TypedKept, RegistersKept, RoleSawKept, BanSawKept DEF PInv
<1> QED
  BY <1>2, <1>3, StaffKinds

(***************************************************************************)
(* A ban that committed holds until an unban that was not answered before  *)
(* the ban came has committed: suspending, deleting, restoring, disabling  *)
(* and enabling write what they changed in the row they loaded, however    *)
(* old it is, and do not undo it.                                          *)
(***************************************************************************)
THEOREM BansHold == Spec => []BanHolds
<1>1. PInv => BanHolds
  <2> SUFFICES ASSUME PInv, NEW r \in Req, Committed(r), req[r].op = "ban", ~Lifted(r)
               PROVE  IsBanned(account[req[r].row])
    BY DEF BanHolds, Lifted
  <2> QED
    BY DEF PInv, BanSaw, Committed, IsBanned
<1> QED
  BY <1>1, PInvInit, PInvKept, PTL DEF Spec

(***************************************************************************)
(* Only a SUPER_ADMIN takes the role from a SUPER_ADMIN, unless the        *)
(* promotion committed while the request was on its way.                   *)
(***************************************************************************)
THEOREM SuperRoleHolds == Spec => SuperChangedBySuper
<1>1. ASSUME PInv, [Next]_bvars
      PROVE  [\A u \in User :
                role[u] = "SUPER_ADMIN" /\ role'[u] # "SUPER_ADMIN" =>
                  \E r \in Req :
                    /\ pc[r] = "read" /\ pc'[r] = "committed" /\ req[r].row = u
                    /\ \/ loaded[r].by = "SUPER_ADMIN"
                       \/ \E q \in Req : /\ Overlap(q, r) /\ Committed(q)
                                         /\ req[q].op \in {"change_role", "create_admin"}
             ]_<<requests, staff>>
  <2>1. CASE UNCHANGED <<requests, staff>>
    BY <2>1
  <2>2. ASSUME NEW r \in Req, StaffStep(r), NEW u \in User,
               role[u] = "SUPER_ADMIN", role'[u] # "SUPER_ADMIN"
        PROVE  /\ pc[r] = "read" /\ pc'[r] = "committed" /\ req[r].row = u
               /\ loaded[r].by = "SUPER_ADMIN" \/ Promoted(r)
    <3>1. role \in [User -> Role \cup {"NONE"}]
      BY <1>1 DEF PInv, StaffTyped
    <3>2. Regrades(r)
      BY <2>2, <3>1 DEF StaffStep, Prepares, Creates, Rewrites
    <3>3. req[r].row = u
      BY <2>2, <3>1, <3>2 DEF Regrades
    <3>4. loaded[r].by = "SUPER_ADMIN" \/ Promoted(r)
      BY <1>1, <2>2, <3>2, <3>3 DEF Regrades, PInv, RoleSaw
    <3> QED
      BY <3>2, <3>3, <3>4 DEF Regrades, Ends
  <2> QED
    BY <1>1, <2>1, <2>2, StaffKinds DEF Promoted, GivesRole
<1> QED
  BY <1>1, PInvInit, PInvKept, PTL DEF Spec, SuperChangedBySuper
-----------------------------------------------------------------------------
(***************************************************************************)
(* Permissions.  Every row was made by an edit of its role or by the seed, *)
(* and an open edit has all the rows of its role that were there when it   *)
(* came: the others were made since.                                       *)
(***************************************************************************)
IsEdit(r) == req[r].op = "set_permissions"

MadeBy(g, q) ==
  /\ g[3] = q /\ Committed(q)
  /\ req[q].op = "seed" \/ (IsEdit(q) /\ req[q].row = g[1])

GrantsMade == \A g \in grants : \E q \in Req : MadeBy(g, q)

EditOk(r) ==
  IsEdit(r) /\ pc[r] \in {"read", "locked"} =>
    /\ \A g \in loaded[r].rows : g[1] = req[r].row
    /\ \A g \in grants : g[1] = req[r].row => g \in loaded[r].rows \/ g[3] \notin before[r]

EditSaw == \A r \in Req : EditOk(r)

RowsTyped ==
  /\ grants \subseteq AdminRole \X Permission \X Req
  /\ \A r \in Req : IsEdit(r) => req[r].row \in AdminRole /\ req[r].wanted \subseteq Permission

GInv == UInv /\ RowsTyped /\ GrantsMade /\ EditSaw /\ LastEditDecides

LEMMA GInvInit == Init => GInv
<1> SUFFICES ASSUME Init
             PROVE  GInv
  OBVIOUS
<1>1. grants = {} /\ \A r \in Req : pc[r] = "new" /\ ~IsEdit(r)
  BY DEF Init, SessionsInit, RolesInit, RequestsInit, NoRequest, IsEdit
<1> QED
  BY <1>1, RInvInit
     DEF RInv, GInv, RowsTyped, GrantsMade, EditSaw, EditOk, LastEditDecides, Committed

\* The steps: an edit loads the rows of its role, waits, and writes; the
\* seed writes; the others leave the table alone.
LoadsRows(r) ==
  /\ Advances(r) /\ UNCHANGED grants
  /\ IsEdit(r)' /\ pc'[r] = "read"
  /\ req'[r].row \in AdminRole /\ req'[r].wanted \subseteq Permission
  /\ loaded'[r].rows = Rows(req'[r].row)

LeavesRows(r) ==
  /\ Advances(r) /\ UNCHANGED grants
  /\ IsEdit(r)' => /\ pc[r] = "read" /\ pc'[r] = "locked" /\ IsEdit(r)
                   /\ req'[r] = req[r] /\ before'[r] = before[r] /\ loaded'[r] = loaded[r]

WritesRows(r) ==
  /\ Advances(r) /\ GoesOn(r) /\ pc'[r] = "committed" /\ loaded'[r] = loaded[r]
  /\ EditCommit(r) \/ SeedCommit(r)

RowsStep(r) == LoadsRows(r) \/ LeavesRows(r) \/ WritesRows(r)

LEMMA RowsElsewhere ==
  ASSUME NEW r \in Req, NEW ops, Belongs(r, ops), "set_permissions" \notin ops, UNCHANGED grants
  PROVE  LeavesRows(r)
  BY DEF Belongs, LeavesRows, Advances, IsEdit, Comes, GoesOn, IsLost, NoRequest

LEMMA RolesRows ==
  ASSUME UInv, NEW r \in Req, RolesStep(r)
  PROVE  RowsStep(r)
<1>a. HInv /\ Advances(r)
  BY RolesBelong DEF UInv, Belongs, Advances
<1> USE <1>a DEF RowsStep, Open, Answered
<1>1. ASSUME NEW a \in User, NEW u \in User, NEW x \in Given,
             RoleRead(r, a, u, x) \/ CreateRead(r, a, u, x)
      PROVE  LeavesRows(r)
  <2>1. Belongs(r, GivesRole)
    BY <1>1, ArrivesFacts DEF RoleRead, CreateRead, Belongs, GivesRole
  <2> QED
    BY <1>1, <2>1, RowsElsewhere DEF RoleRead, CreateRead, staff, GivesRole
<1>2. ASSUME NEW a \in User, NEW u \in User, NEW op \in ReviveOps, ReviveRead(r, op, a, u)
      PROVE  LeavesRows(r)
  <2>1. Belongs(r, ReviveOps)
    BY <1>2, ArrivesFacts DEF ReviveRead, Belongs
  <2> QED
    BY <1>2, <2>1, RowsElsewhere DEF ReviveRead, staff, ReviveOps
<1>3. ASSUME NEW a \in User, NEW x \in Given, NEW P \in Edits, EditRead(r, a, x, P)
      PROVE  LoadsRows(r)
  <2>1. Wanted(x, P) \subseteq Permission
    BY RolesAssumption DEF Wanted
  <2> QED
    BY <1>3, <2>1, ArrivesFacts DEF EditRead, LoadsRows, IsEdit, staff
<1>4. ASSUME NEW m \in BOOLEAN, SeedRead(r, m)
      PROVE  LeavesRows(r)
  <2>1. Belongs(r, {"seed"})
    BY <1>4, ArrivesFacts DEF SeedRead, Belongs
  <2> QED
    BY <1>4, <2>1, RowsElsewhere DEF SeedRead, staff
<1>5. CASE RoleCommit(r)
  <2>1. Belongs(r, GivesRole)
    BY <1>5, GoesFacts, FailsFacts DEF RoleCommit, At, Belongs, GivesRole
  <2> QED
    BY <1>5, <2>1, RowsElsewhere DEF RoleCommit, staff, GivesRole
<1>6. CASE ReviveCommit(r)
  <2>1. Belongs(r, ReviveOps)
    BY <1>6, GoesFacts DEF ReviveCommit, At, Belongs
  <2> QED
    BY <1>6, <2>1, RowsElsewhere DEF ReviveCommit, ReviveOps
<1>7. CASE EditLock(r)
  BY <1>7, GoesFacts DEF EditLock, At, GoesOn, LeavesRows, IsEdit, staff
<1>8. CASE EditCommit(r)
  <2>1. pc[r] \in Open
    BY <1>8 DEF EditCommit, At
  <2>2. CASE Fails(r, "integrity") /\ UNCHANGED grants
    BY <2>1, <2>2, FailsFacts DEF IsLost, LeavesRows, IsEdit, NoRequest
  <2>3. CASE Goes(r, "committed")
    BY <1>8, <2>1, <2>3, GoesFacts DEF WritesRows
  <2> QED
    BY <1>8, <2>2, <2>3 DEF EditCommit
<1>9. CASE SeedCommit(r)
  <2>1. pc[r] \in Open
    BY <1>9 DEF SeedCommit, At
  <2>2. CASE Fails(r, "integrity") /\ UNCHANGED staff
    BY <2>1, <2>2, FailsFacts DEF IsLost, LeavesRows, IsEdit, NoRequest, staff
  <2>3. CASE Goes(r, "committed")
    BY <1>9, <2>1, <2>3, GoesFacts DEF WritesRows
  <2> QED
    BY <1>9, <2>2, <2>3 DEF SeedCommit
<1> QED
  BY <1>1, <1>2, <1>3, <1>4, <1>5, <1>6, <1>7, <1>8, <1>9 DEF RolesStep, RolesArrive, RolesContinue

LEMMA SessionsRows ==
  ASSUME UInv, NEW r \in Req, SessionsWithReport(r)
  PROVE  LeavesRows(r)
<1>1. SessionArrive(r) => UNCHANGED grants
  BY DEF SessionArrive, RegisterCheck, LoginRead, MfaRead, RefreshRead, TargetRead,
         SendSecret, UseGet, VerifyRead, TotpRead, staff
<1>2. SessionContinue(r) => UNCHANGED grants
  BY DEF SessionContinue, RegisterInsert, RegisterCommit, LoginCommit, MfaCommit, RefreshCommit,
         RevokeList, RevokeCommit, UseDelete, VerifyCommit, SetupCommit, TotpCommit, staff
<1>3. "set_permissions" \notin SessionOps
  BY DEF SessionOps, RevokeOps, StatusOps, TotpOps
<1> QED
  BY <1>1, <1>2, <1>3, SessionBelong, RowsElsewhere DEF SessionsWithReport

LEMMA RowsKinds ==
  ASSUME UInv, [Next]_bvars
  PROVE  UNCHANGED <<requests, staff>> \/ \E r \in Req : RowsStep(r)
<1>a. HInv
  BY DEF UInv
<1>1. ASSUME NEW r \in Req, SettingsStep(r), UNCHANGED staff
      PROVE  LeavesRows(r)
  BY <1>a, <1>1, SettingsBelong, RowsElsewhere DEF SettingsOps, ConfigOps, staff
<1>2. ASSUME NEW r \in Req, CampaignStep(r), UNCHANGED staff
      PROVE  LeavesRows(r)
  BY <1>a, <1>2, CampaignBelong, RowsElsewhere DEF CampaignOps, staff
<1>3. ASSUME NEW r \in Req, Rollback(r), UNCHANGED staff
      PROVE  LeavesRows(r)
  <2>1. Belongs(r, {})
    BY <1>a, <1>3, RollbackBelongs
  <2> QED
    BY <1>3, <2>1, RowsElsewhere DEF staff
<1>4. ASSUME NEW r \in Req, ModerationStep(r), UNCHANGED staff
      PROVE  LeavesRows(r)
  <2>1. Belongs(r, FilesOps \cup {"suspend", "ban"})
    BY <1>a, <1>4, ModerationFacts DEF Moderates, Belongs, UInv, HasUser
  <2> QED
    BY <1>4, <2>1, RowsElsewhere DEF FilesOps, PhotoOps, ReportOps, staff
<1>5. CASE Next
  BY <1>1, <1>2, <1>3, <1>4, <1>5, RolesRows, SessionsRows DEF Next, RowsStep
<1>6. CASE UNCHANGED bvars
  BY <1>6 DEF bvars
<1> QED
  BY <1>5, <1>6

-----------------------------------------------------------------------------
\* Who has committed stays so, with what he asked for.
LEMMA MakersStay ==
  ASSUME UInv, NEW r \in Req, Advances(r), NEW q \in Req, Committed(q)
  PROVE  /\ q # r /\ Committed(q)' /\ req'[q] = req[q] /\ before'[q] = before[q]
         /\ pc[r] \in Open \cup {"new"} /\ r \notin before[q]
<1>1. q # r /\ pc[r] \in Open \cup {"new"}
  BY DEF Advances, Committed, Comes, GoesOn, IsLost, Open
<1> QED
  BY <1>1 DEF UInv, HInv, Advances, Takes, Committed, Open, Answered

\* An edit that is not r has what it found, if the new rows are r's.
LEMMA EditsStay ==
  ASSUME GInv, NEW r \in Req, Advances(r), NEW q \in Req \ {r},
         \A g \in grants' : g[1] = req[q].row => g \in grants \/ g[3] = r
  PROVE  EditOk(q)'
<1> SUFFICES ASSUME IsEdit(q), pc[q] \in {"read", "locked"}
             PROVE  EditOk(q)'
  BY DEF EditOk, IsEdit, Advances, Takes
<1>1. /\ pc'[q] = pc[q] /\ req'[q] = req[q] /\ loaded'[q] = loaded[q] /\ before'[q] = before[q]
      /\ EditOk(q)
  BY DEF Advances, Takes, GInv, EditSaw
<1>2. r \notin before[q]
  BY DEF GInv, UInv, HInv, Advances, Comes, GoesOn, IsLost, Open, Answered
<1> QED
  BY <1>1, <1>2 DEF EditOk, IsEdit

LEMMA MakesStay ==
  ASSUME GInv, NEW r \in Req, Advances(r)
  PROVE  \A g \in grants : \E q \in Req : MadeBy(g, q)'
  BY MakersStay DEF GInv, GrantsMade, MadeBy, IsEdit

\* LastEditDecides, for one edit.
Touches(q, x) == Committed(q) /\ (req[q].op = "seed" \/ (IsEdit(q) /\ req[q].row = x))

EditDecides(r) ==
  /\ Committed(r) /\ IsEdit(r) /\ req[r].wanted # {}
  /\ \A q \in Req \ {r} : Touches(q, req[r].row) => q \in before[r]
  => Effective(req[r].row) = req[r].wanted

LEMMA DecidesAll == LastEditDecides <=> \A r \in Req : EditDecides(r)
  BY DEF LastEditDecides, EditDecides, Touches, IsEdit

\* It stays so if r leaves the rows of the role alone, or touches them and
\* so is the later one.
LEMMA DecisionStays ==
  ASSUME GInv, NEW r \in Req, Advances(r), NEW q \in Req, Committed(q),
         \/ Rows(req[q].row)' = Rows(req[q].row)
         \/ IsEdit(q) => Touches(r, req[q].row)'
  PROVE  EditDecides(q)'
<1>1. /\ q # r /\ Committed(q)' /\ req'[q] = req[q] /\ before'[q] = before[q] /\ r \notin before[q]
  BY MakersStay DEF GInv
<1>2. \A o \in Req \ {q} : Touches(o, req[q].row) => Touches(o, req[q].row)'
  BY MakersStay DEF GInv, Touches, IsEdit
<1>3. EditDecides(q)
  BY DecidesAll DEF GInv
<1>4. CASE Rows(req[q].row)' = Rows(req[q].row)
  <2>1. Effective(req[q].row)' = Effective(req[q].row)
    BY <1>1, <1>4 DEF Effective
  <2> QED
    BY <1>1, <1>2, <1>3, <2>1 DEF EditDecides, IsEdit
<1>5. CASE IsEdit(q) => Touches(r, req[q].row)'
  BY <1>1, <1>5 DEF EditDecides, IsEdit
<1> QED
  BY <1>4, <1>5

LEMMA UnwrittenKept ==
  ASSUME GInv, NEW r \in Req, LoadsRows(r) \/ LeavesRows(r)
  PROVE  GrantsMade' /\ EditSaw' /\ LastEditDecides'
<1>1. Advances(r) /\ grants' = grants
  BY DEF LoadsRows, LeavesRows
<1>2. GrantsMade'
  BY <1>1, MakesStay DEF GrantsMade
<1>3. EditOk(r)'
  BY DEF LoadsRows, LeavesRows, EditOk, Rows, IsEdit, GInv, EditSaw
<1>4. EditSaw'
  BY <1>1, <1>3, EditsStay DEF EditSaw
<1>5. IsEdit(r)' => ~Committed(r)'
  BY DEF LoadsRows, LeavesRows, Committed
<1>6. ASSUME NEW q \in Req
      PROVE  EditDecides(q)'
  <2>1. CASE Committed(q)
    <3>1. req'[q] = req[q]
      BY <1>1, <2>1, MakersStay DEF GInv
    <3> QED
      BY <1>1, <2>1, <3>1, DecisionStays DEF Rows
  <2>2. CASE ~Committed(q) /\ Committed(q)'
    <3>1. q = r
      BY <1>1, <2>2 DEF Advances, Takes, Committed
    <3> QED
      BY <1>5, <2>2, <3>1 DEF EditDecides
  <2> QED
    BY <2>1, <2>2 DEF EditDecides
<1> QED
  BY <1>2, <1>4, <1>6 DEF LastEditDecides, EditDecides, Touches, IsEdit

\* A successful seed adds rows of its own.
LEMMA SeedKept ==
  ASSUME GInv, NEW r \in Req, WritesRows(r), SeedCommit(r)
  PROVE  GrantsMade' /\ EditSaw' /\ LastEditDecides'
<1>1. /\ Advances(r) /\ Committed(r)' /\ req'[r] = req[r] /\ req[r].op = "seed"
  BY DEF WritesRows, GoesOn, Committed, SeedCommit, At
<1>2. grants' = grants \cup {<<xp[1], xp[2], r>> : xp \in ToAdd(loaded[r].pairs)}
  <2>1. ~Fails(r, "integrity")
    BY DEF WritesRows, GoesOn, Fails, GInv, UInv, HInv
  <2> QED
    BY <2>1 DEF SeedCommit
<1>3. \A g \in grants' : g \in grants \/ g[3] = r
  BY <1>2
<1>4. GrantsMade'
  BY <1>1, <1>3, MakesStay DEF GrantsMade, MadeBy
<1>5. EditSaw'
  BY <1>1, <1>3, EditsStay DEF EditSaw, EditOk, IsEdit
<1>6. ASSUME NEW q \in Req
      PROVE  EditDecides(q)'
  <2>1. CASE Committed(q)
    BY <1>1, <2>1, DecisionStays DEF Touches
  <2>2. CASE ~Committed(q) /\ Committed(q)'
    <3>1. q = r
      BY <1>1, <2>2 DEF Advances, Takes, Committed
    <3> QED
      BY <1>1, <3>1 DEF EditDecides, IsEdit
  <2> QED
    BY <2>1, <2>2 DEF EditDecides
<1> QED
  BY <1>4, <1>5, <1>6 DEF LastEditDecides, EditDecides, Touches, IsEdit

\* A successful edit leaves its role with what it asked for, or with more
\* if somebody has touched the role since it came.
LEMMA EditKept ==
  ASSUME GInv, NEW r \in Req, WritesRows(r), EditCommit(r)
  PROVE  GrantsMade' /\ EditSaw' /\ LastEditDecides'
<1> DEFINE new == {<<req[r].row, p, r>> : p \in req[r].wanted}
<1>1. /\ Advances(r) /\ Committed(r)' /\ req'[r] = req[r] /\ before'[r] = before[r]
      /\ IsEdit(r) /\ pc[r] = "locked"
  BY DEF WritesRows, GoesOn, Committed, EditCommit, At, IsEdit
<1>2. grants' = (grants \ loaded[r].rows) \cup new
  <2>1. ~Fails(r, "integrity")
    BY DEF WritesRows, GoesOn, Fails, GInv, UInv, HInv
  <2> QED
    BY <2>1 DEF EditCommit
<1>3. EditOk(r)
  BY DEF GInv, EditSaw
<1>4. \A g \in grants' : g \in grants \/ (g[3] = r /\ g[1] = req[r].row)
  BY <1>2
<1>5. GrantsMade'
  BY <1>1, <1>4, MakesStay DEF GrantsMade, MadeBy, IsEdit
<1>6. EditOk(r)'
  BY <1>1 DEF EditOk, Committed
<1>7. EditSaw'
  BY <1>1, <1>4, <1>6, EditsStay DEF EditSaw
<1>8. EditDecides(r)'
  <2> SUFFICES ASSUME req[r].wanted # {},
                      \A q \in Req \ {r} : Touches(q, req[r].row)' => q \in before[r]
               PROVE  Effective(req[r].row)' = req[r].wanted
    BY <1>1 DEF EditDecides
  <2>1. \A g \in grants \ loaded[r].rows : g[1] # req[r].row
    <3> SUFFICES ASSUME NEW g \in grants \ loaded[r].rows, g[1] = req[r].row
                 PROVE  FALSE
      OBVIOUS
    <3>1. PICK q \in Req : MadeBy(g, q)
      BY DEF GInv, GrantsMade
    <3>2. q # r /\ Committed(q)' /\ req'[q] = req[q]
      BY <1>1, <3>1, MakersStay DEF GInv, MadeBy
    <3>3. Touches(q, req[r].row)'
      BY <1>1, <3>1, <3>2 DEF MadeBy, Touches, IsEdit
    <3> QED
      BY <1>1, <1>3, <3>1, <3>2, <3>3 DEF EditOk, MadeBy
  <2>2. Rows(req[r].row)' = new
    BY <1>1, <1>2, <2>1 DEF Rows
  <2>3. \A p \in req[r].wanted : <<req[r].row, p, r>> \in new /\ <<req[r].row, p, r>>[2] = p
    OBVIOUS
  <2>4. \A g \in new : g[2] \in req[r].wanted
    OBVIOUS
  <2>5. new # {} /\ {g[2] : g \in new} = req[r].wanted
    <3> HIDE DEF new
    <3> QED
      BY <2>3, <2>4
  <2> QED
    BY <2>2, <2>5 DEF Effective
<1>9. ASSUME NEW q \in Req, Committed(q)
      PROVE  EditDecides(q)'
  <2>1. req'[q] = req[q]
    BY <1>1, <1>9, MakersStay DEF GInv
  <2>2. CASE req[q].row = req[r].row
    BY <1>1, <1>9, <2>1, <2>2, DecisionStays DEF Touches, IsEdit
  <2>3. CASE req[q].row # req[r].row
    <3>1. Rows(req[q].row)' = Rows(req[q].row)
      BY <1>1, <1>2, <1>3, <2>1, <2>3 DEF Rows, EditOk
    <3> QED
      BY <1>1, <1>9, <3>1, DecisionStays
  <2> QED
    BY <2>2, <2>3
<1>10. ASSUME NEW q \in Req
       PROVE  EditDecides(q)'
  <2>1. CASE ~Committed(q) /\ Committed(q)'
    BY <1>1, <1>8, <2>1 DEF Advances, Takes, Committed
  <2> QED
    BY <1>9, <2>1 DEF EditDecides
<1> QED
  BY <1>5, <1>7, <1>10 DEF LastEditDecides, EditDecides, Touches, IsEdit

LEMMA RowsTypedKept ==
  ASSUME GInv, NEW r \in Req, RowsStep(r)
  PROVE  RowsTyped'
<1>1. Advances(r)
  BY DEF RowsStep, LoadsRows, LeavesRows, WritesRows
<1>2. ASSUME NEW q \in Req, IsEdit(q)'
      PROVE  req'[q].row \in AdminRole /\ req'[q].wanted \subseteq Permission
  <2>1. CASE q = r
    BY <1>2, <2>1 DEF RowsStep, LoadsRows, LeavesRows, WritesRows, GoesOn, IsEdit, GInv, RowsTyped
  <2>2. CASE q # r
    BY <1>1, <1>2, <2>2 DEF Advances, Takes, IsEdit, GInv, RowsTyped
  <2> QED
    BY <2>1, <2>2
<1>3. grants' \subseteq AdminRole \X Permission \X Req
  <2>1. CASE LoadsRows(r) \/ LeavesRows(r)
    BY <2>1 DEF LoadsRows, LeavesRows, GInv, RowsTyped
  <2>2. CASE EditCommit(r)
    <3>1. grants' \subseteq grants \cup {<<req[r].row, p, r>> : p \in req[r].wanted}
      BY <2>2 DEF EditCommit
    <3>2. IsEdit(r)
      BY <2>2 DEF EditCommit, At, IsEdit
    <3> QED
      BY <3>1, <3>2 DEF GInv, RowsTyped
  <2>3. CASE SeedCommit(r)
    <3>1. grants' \subseteq grants \cup {<<xp[1], xp[2], r>> : xp \in ToAdd(loaded[r].pairs)}
      BY <2>3 DEF SeedCommit, staff
    <3>2. Default["USER"] = {}
      BY DEF Default, Role
    <3>3. ToAdd(loaded[r].pairs) \subseteq AdminRole \X Permission
      BY <3>2 DEF ToAdd, AdminRole
    <3> QED
      BY <3>1, <3>3 DEF GInv, RowsTyped
  <2> QED
    BY <2>1, <2>2, <2>3 DEF RowsStep, WritesRows
<1> QED
  BY <1>2, <1>3 DEF RowsTyped

LEMMA GInvKept ==
  ASSUME GInv, [Next]_bvars
  PROVE  GInv'
<1>1. UInv'
  BY UKeeps DEF GInv
<1>2. CASE UNCHANGED <<requests, staff>>
  BY <1>1, <1>2 DEF GInv, RowsTyped, GrantsMade, MadeBy, EditSaw, EditOk, IsEdit, LastEditDecides, Committed,
                    Effective, Rows, requests, staff
<1>3. ASSUME NEW r \in Req, RowsStep(r)
      PROVE  GInv'
  BY <1>1, <1>3, RowsTypedKept, UnwrittenKept, SeedKept, EditKept DEF RowsStep, WritesRows, GInv
<1> QED
  BY <1>2, <1>3, RowsKinds DEF GInv

(***************************************************************************)
(* The last edit of a role's permissions decides what they are.  DELETE    *)
(* takes the rows the edit could see; a row it leaves was made by an edit  *)
(* or a seed that had not been answered when it came, and then it is not   *)
(* the last.                                                               *)
(***************************************************************************)
THEOREM LastEditHolds == Spec => []LastEditDecides
<1>1. GInv => LastEditDecides
  BY DEF GInv
<1> QED
  BY <1>1, GInvInit, GInvKept, PTL DEF Spec

-----------------------------------------------------------------------------
(***************************************************************************)
(* Two factors.  A secret is the one a request has loaded, or was made by  *)
(* a setup that committed after the request came; and a setup that loaded  *)
(* the flag off, and would leave it as it finds it, finds it on only when  *)
(* it overlaps the request that set it.                                    *)
(***************************************************************************)
Confirms(e, u) == Committed(e) /\ req[e].op = "enable_totp" /\ req[e].row = u

SecretsTyped ==
  /\ totp \in [User -> [secret : Id \cup {Never}, enabled : BOOLEAN]]
  /\ \A u \in User : totp[u].enabled => totp[u].secret # Never

SettersCommitted == \A u \in User : totp[u].secret \in Req => Committed(totp[u].secret)

\* What a request that is about to write has loaded.
TotpOk(r) ==
  LET own == totp[req[r].row] IN
  pc[r] = "read" /\ req[r].op \in TotpOps =>
    /\ loaded[r].totp.secret # own.secret => own.secret \in Req \ before[r]
    /\ req[r].op = "enable_totp" => loaded[r].totp.secret # Never
    /\ req[r].op = "setup" /\ loaded[r].totp.enabled = FALSE /\ own.enabled =>
         \E e \in Req : Confirms(e, req[r].row) /\ e \notin before[r]

TotpSaw == \A r \in Req : TotpOk(r)

FInv == UInv /\ SecretsTyped /\ SettersCommitted /\ TotpSaw /\ EnabledMeansConfirmed

LEMMA FInvInit == Init => FInv
<1> SUFFICES ASSUME Init
             PROVE  FInv
  OBVIOUS
<1>1. \A r \in Req : pc[r] = "new"
  BY DEF Init, SessionsInit, RolesInit, RequestsInit
<1>2. totp = [u \in User |-> [secret |-> IF mix.twofactor THEN Old ELSE Never,
                               enabled |-> mix.twofactor]]
  BY DEF Init, SessionsInit
<1>3. mix.twofactor \in BOOLEAN
  BY FactorAssumption DEF Init, SessionsInit, RolesInit, RequestsInit
<1> QED
  BY <1>1, <1>2, <1>3, RInvInit, IdAssumption
     DEF RInv, FInv, SecretsTyped, SettersCommitted, TotpSaw, TotpOk, EnabledMeansConfirmed, Id

\* The steps: one that is about to write loads its row, SetupCommit and
\* TotpCommit write, and the others leave second factors alone.
LoadsTotp(r) ==
  /\ Advances(r) /\ UNCHANGED totp
  /\ pc'[r] = "read" /\ req'[r].row \in User
  /\ loaded'[r].totp = totp[req'[r].row]
  /\ req'[r].op = "enable_totp" => loaded'[r].totp.secret # Never

LeavesTotp(r) ==
  /\ Advances(r) /\ UNCHANGED totp
  /\ req'[r].op \in TotpOps => pc'[r] # "read"

WritesTotp(r) == Advances(r) /\ (SetupCommit(r) \/ TotpCommit(r))

LEMMA TotpArrivals ==
  ASSUME UInv, NEW r \in Req, SessionArrive(r)
  PROVE  LoadsTotp(r) \/ LeavesTotp(r)
<1> USE DEF UInv, Open, Answered, TotpOps, LoadsTotp, LeavesTotp, Advances, keys
<1>1. ASSUME NEW u \in User, RegisterCheck(r, u) \/ LoginRead(r, u)
      PROVE  LeavesTotp(r)
  BY <1>1, ArrivesFacts DEF RegisterCheck, LoginRead
<1>2. ASSUME NEW m \in MfaTokens, NEW c \in Id \cup {Never}, MfaRead(r, m, c)
      PROVE  LeavesTotp(r)
  BY <1>2, ArrivesFacts DEF MfaRead
<1>3. ASSUME NEW t \in tokens, RefreshRead(r, t)
      PROVE  LeavesTotp(r)
  <2> PICK op \in {"refresh", "logout"} :
             Arrives(r, [op |-> op, row |-> t.user, token |-> t.id], Nothing, "read")
    BY <1>3 DEF RefreshRead
  <2> QED
    BY <1>3, ArrivesFacts DEF RefreshRead
<1>4. ASSUME NEW a \in User, NEW u \in User, NEW op \in RevokeOps, TargetRead(r, op, a, u)
      PROVE  LeavesTotp(r)
  BY <1>4, ArrivesFacts DEF TargetRead, RevokeOps, StatusOps
<1>5. ASSUME NEW u \in User, NEW k \in Kind, SendSecret(r, k, u)
      PROVE  LeavesTotp(r)
  BY <1>5, ArrivesFacts DEF SendSecret
<1>6. ASSUME NEW u \in User, NEW k \in Kind, NEW v \in Id, UseGet(r, k, u, v)
      PROVE  LeavesTotp(r)
  BY <1>6, ArrivesFacts DEF UseGet
<1>7. ASSUME NEW a \in User, NEW u \in User, NEW k \in Kind, VerifyRead(r, a, u, k)
      PROVE  LeavesTotp(r)
  BY <1>7, ArrivesFacts DEF VerifyRead
<1>8. ASSUME NEW a \in User, NEW u \in User, NEW op \in TotpOps, TotpRead(r, op, a, u)
      PROVE  LoadsTotp(r)
  BY <1>8, ArrivesFacts DEF TotpRead
<1> QED
  BY <1>1, <1>2, <1>3, <1>4, <1>5, <1>6, <1>7, <1>8 DEF SessionArrive

LEMMA TotpKinds ==
  ASSUME UInv, [Next]_bvars
  PROVE  Still \/ \E r \in Req : LoadsTotp(r) \/ LeavesTotp(r) \/ WritesTotp(r)
<1>1. ASSUME NEW r \in Req, Quiet(r)
      PROVE  LeavesTotp(r)
  BY <1>1 DEF Quiet, LeavesTotp, Advances, keys, Comes, GoesOn, IsLost, Open, Answered,
              SessionOps, TotpOps
<1>2. ASSUME NEW r \in Req, Begins(r)
      PROVE  LoadsTotp(r) \/ LeavesTotp(r)
  BY <1>2, TotpArrivals DEF Begins
<1>3. ASSUME NEW r \in Req, Proceeds(r)
      PROVE  LeavesTotp(r) \/ WritesTotp(r)
  <2>1. Advances(r) /\ pc'[r] # "read"
    BY <1>3 DEF Proceeds, Continues, Advances, GoesOn, IsLost, Open, Answered
  <2>2. UNCHANGED totp \/ SetupCommit(r) \/ TotpCommit(r)
    <3>1. MfaCommit(r) => UNCHANGED totp
      BY DEF MfaCommit, keys
    <3>2. \/ RegisterInsert(r) \/ RegisterCommit(r) \/ LoginCommit(r) \/ RefreshCommit(r)
          \/ RevokeList(r) \/ RevokeCommit(r) \/ UseDelete(r) \/ VerifyCommit(r)
          => UNCHANGED totp
      BY DEF RegisterInsert, RegisterCommit, LoginCommit, RefreshCommit, RevokeList,
             RevokeCommit, UseDelete, VerifyCommit, keys
    <3> QED
      BY <1>3, <3>1, <3>2 DEF Proceeds, SessionContinue
  <2> QED
    BY <2>1, <2>2 DEF LeavesTotp, WritesTotp
<1> QED
  BY <1>1, <1>2, <1>3, StepKinds

\* Who has confirmed or set a secret stays so, and what he loaded too.
LEMMA ConfirmStays ==
  ASSUME UInv, NEW r \in Req, Advances(r), NEW e \in Req, Committed(e)
  PROVE  /\ e # r /\ Committed(e)' /\ req'[e] = req[e] /\ loaded'[e] = loaded[e]
         /\ \A u \in User : Confirms(e, u) => Confirms(e, u)'
         /\ \A q \in Req : Overlap(e, q) => Overlap(e, q)'
<1>1. e # r
  BY DEF Advances, Committed, Comes, GoesOn, IsLost, Open
<1> QED
  BY <1>1, OverlapStays DEF UInv, Advances, Takes, Committed, Confirms

\* Somebody who answers while q is on its way was not answered before it.
LEMMA NotBefore ==
  ASSUME UInv, NEW r \in Req, pc[r] \in Open \cup {"new"}, NEW q \in Req
  PROVE  r \notin before[q]
  BY DEF UInv, HInv, Open, Answered

\* The rows stay: only r itself can disturb the invariant.
LEMMA RowsStay ==
  ASSUME FInv, NEW r \in Req, Advances(r), UNCHANGED totp, TotpOk(r)'
  PROVE  SecretsTyped' /\ SettersCommitted' /\ TotpSaw' /\ EnabledMeansConfirmed'
<1> USE DEF FInv
<1>1. SecretsTyped' /\ SettersCommitted'
  BY ConfirmStays DEF SecretsTyped, SettersCommitted
<1>2. ASSUME NEW q \in Req \ {r}
      PROVE  TotpOk(q)'
  <2>1. /\ pc'[q] = pc[q] /\ req'[q] = req[q] /\ loaded'[q] = loaded[q]
        /\ before'[q] = before[q] /\ TotpOk(q)
    BY DEF Advances, Takes, TotpSaw
  <2>2. req[q].op \in TotpOps => req[q].row \in User
    BY DEF UInv, SessionOps
  <2>3. \A e \in Req : Confirms(e, req[q].row) => Confirms(e, req[q].row)'
    BY ConfirmStays, <2>1 DEF Confirms
  <2> QED
    BY <2>1, <2>2, <2>3 DEF TotpOk
<1>3. EnabledMeansConfirmed'
  <2> SUFFICES ASSUME NEW u \in User, totp[u].enabled, totp[u].secret # Old
               PROVE  \E e \in Req : /\ Confirms(e, u)'
                                     /\ \/ loaded'[e].totp.secret = totp[u].secret
                                        \/ Overlap(e, totp[u].secret)'
    BY DEF EnabledMeansConfirmed, Confirms
  <2>1. PICK e \in Req : Confirms(e, u) /\ (\/ loaded[e].totp.secret = totp[u].secret
                                            \/ Overlap(e, totp[u].secret))
    BY DEF EnabledMeansConfirmed, Confirms
  <2>2. Confirms(e, u)' /\ loaded'[e] = loaded[e]
    BY <2>1, ConfirmStays DEF Confirms
  <2>3. CASE totp[u].secret \in Req
    BY <2>1, <2>2, <2>3, ConfirmStays DEF Confirms
  <2>4. totp[u].secret \in Req
    BY DEF SecretsTyped, Id
  <2> QED
    BY <2>3, <2>4
<1> QED
  BY <1>1, <1>2, <1>3 DEF TotpSaw

\* A row that r writes: the others on their way came before r was answered.
LEMMA SetupKeeps ==
  ASSUME FInv, NEW r \in Req, Advances(r), SetupCommit(r)
  PROVE  SecretsTyped' /\ SettersCommitted' /\ TotpSaw' /\ EnabledMeansConfirmed'
<1> USE DEF FInv
<1>1. pc[r] = "read" /\ req[r].op = "setup" /\ r \in Id
  BY DEF SetupCommit, At, Id
<1> PICK u \in User : u = req[r].row
  BY <1>1 DEF UInv, SessionOps, TotpOps
<1>2. CASE Fails(r, "integrity") /\ UNCHANGED <<totp, codes>>
  <2>1. pc'[r] = "integrity"
    BY <1>1, <1>2, FailsFacts DEF UInv, Open
  <2> QED
    BY <1>2, <2>1, RowsStay DEF TotpOk
<1>3. CASE Goes(r, "committed")
           /\ totp' = [totp EXCEPT ![u] = [secret |-> r, enabled |-> Enabled(r, u, FALSE)]]
  <2>1. /\ pc'[r] = "committed" /\ req' = req /\ loaded' = loaded /\ before' = before
        /\ r \notin {Never, Old}
    BY <1>1, <1>3, IdAssumption DEF Goes, UInv, HInv, Id
  <2>2. /\ totp'[u] = [secret |-> r, enabled |-> Enabled(r, u, FALSE)]
        /\ \A v \in User \ {u} : totp'[v] = totp[v]
    BY <1>1, <1>3 DEF SecretsTyped
  <2>3. Enabled(r, u, FALSE) \in BOOLEAN
        /\ (Enabled(r, u, FALSE) => totp[u].enabled /\ loaded[r].totp.enabled = FALSE)
    BY <1>1 DEF Enabled, SecretsTyped
  <2>4. SecretsTyped'
    <3>1. totp' \in [User -> [secret : Id \cup {Never}, enabled : BOOLEAN]]
      BY <1>1, <1>3, <2>3 DEF SecretsTyped
    <3> QED
      BY <2>1, <2>2, <3>1 DEF SecretsTyped
  <2>5. SettersCommitted'
    BY <2>1, <2>2, ConfirmStays DEF SettersCommitted, Committed
  <2>6. ASSUME NEW q \in Req, pc'[q] = "read", req[q].op \in TotpOps
        PROVE  TotpOk(q)'
    <3>1. q # r /\ pc[q] = "read" /\ TotpOk(q) /\ req[q].row \in User
      BY <2>1, <2>6 DEF Advances, Takes, TotpSaw, UInv, SessionOps
    <3>2. \A e \in Req : Confirms(e, req[q].row) => Confirms(e, req[q].row)'
      BY <2>1, <3>1, ConfirmStays DEF Confirms
    <3>3. r \notin before[q]
      BY <1>1, NotBefore DEF Open
    <3>4. totp'[req[q].row].enabled => totp[req[q].row].enabled
      <4>1. totp'[u].enabled => totp[u].enabled
        BY <2>2, <2>3
      <4> QED
        BY <2>2, <3>1, <4>1
    <3>5. totp'[req[q].row].secret = totp[req[q].row].secret \/ totp'[req[q].row].secret = r
      BY <2>2, <3>1
    <3> QED
      BY <2>1, <2>6, <3>1, <3>2, <3>3, <3>4, <3>5 DEF TotpOk
  <2>7. TotpSaw'
    BY <2>1, <2>6 DEF TotpSaw, TotpOk
  <2>8. ASSUME NEW v \in User, NEW s, s = totp'[v].secret, totp'[v].enabled, s # Old
        PROVE  \E e \in Req : /\ Confirms(e, v)'
                              /\ loaded[e].totp.secret = s \/ Overlap(e, s)'
    <3>1. CASE v = u
      <4>1. PICK e \in Req : Confirms(e, u) /\ e \notin before[r]
        <5>1. totp'[u].enabled = Enabled(r, u, FALSE)
          BY <2>2
        <5>2. totp[u].enabled /\ loaded[r].totp.enabled = FALSE
          BY <2>3, <2>8, <3>1, <5>1
        <5>3. TotpOk(r)
          BY DEF TotpSaw
        <5> QED
          BY <1>1, <5>2, <5>3 DEF TotpOk, TotpOps
      <4>2. Overlap(e, r)
        BY <1>1, <4>1, OpenOverlaps DEF UInv, Confirms, Committed, Open
      <4>3. s = r
        BY <2>2, <2>8, <3>1
      <4> QED
        BY <3>1, <4>1, <4>2, <4>3, ConfirmStays DEF Confirms
    <3>2. CASE v # u
      <4>1. totp'[v] = totp[v]
        BY <2>2, <3>2
      <4>2. PICK e \in Req : Confirms(e, v) /\ (loaded[e].totp.secret = s \/ Overlap(e, s))
        BY <2>8, <4>1 DEF EnabledMeansConfirmed, Confirms
      <4>3. s \in Req
        BY <2>8, <4>1 DEF SecretsTyped, Id
      <4> QED
        BY <4>1, <4>2, <4>3, ConfirmStays DEF Confirms
    <3> QED
      BY <3>1, <3>2
  <2>9. EnabledMeansConfirmed'
    BY <2>1, <2>8 DEF EnabledMeansConfirmed, Confirms
  <2> QED
    BY <2>4, <2>5, <2>7, <2>9
<1> QED
  BY <1>2, <1>3 DEF SetupCommit

LEMMA FlagKeeps ==
  ASSUME FInv, NEW r \in Req, Advances(r), TotpCommit(r)
  PROVE  SecretsTyped' /\ SettersCommitted' /\ TotpSaw' /\ EnabledMeansConfirmed'
<1> USE DEF FInv
<1>1. pc[r] = "read" /\ req[r].op \in TotpOps /\ Goes(r, "committed")
  BY DEF TotpCommit, At
<1> PICK u \in User : u = req[r].row
  BY <1>1 DEF UInv, SessionOps
<1> DEFINE on   == req[r].op = "enable_totp"
           flag == Enabled(r, u, on)
<1>2. pc'[r] = "committed" /\ req' = req /\ loaded' = loaded /\ before' = before
  BY <1>1 DEF Goes, UInv, HInv
<1>3. CASE UNCHANGED totp
  BY <1>2, <1>3, RowsStay DEF TotpOk
<1>4. CASE totp' = [totp EXCEPT ![u].enabled = flag]
  <2>1. /\ totp'[u].secret = totp[u].secret /\ totp'[u].enabled = flag
        /\ \A v \in User \ {u} : totp'[v] = totp[v]
        /\ \A v \in User : totp'[v].secret = totp[v].secret
    BY <1>1, <1>4 DEF SecretsTyped
  <2>2. flag \in BOOLEAN /\ (flag => totp[u].enabled \/ on)
    BY <1>1 DEF Enabled, SecretsTyped
  <2>3. on => Confirms(r, u)' /\ totp[u].secret # Never
                /\ (loaded[r].totp.secret # totp[u].secret =>
                      totp[u].secret \in Req /\ totp[u].secret \notin before[r])
    <3>1. TotpOk(r)
      BY DEF TotpSaw
    <3>2. Never \notin Req
      BY IdAssumption DEF Id
    <3> QED
      BY <1>1, <1>2, <3>1, <3>2 DEF TotpOk, Confirms, Committed
  <2>4. SecretsTyped'
    <3>1. totp' \in [User -> [secret : Id \cup {Never}, enabled : BOOLEAN]]
      BY <1>1, <1>4, <2>2 DEF SecretsTyped
    <3> QED
      BY <2>1, <2>2, <2>3, <3>1 DEF SecretsTyped
  <2>5. SettersCommitted'
    BY <2>1, ConfirmStays DEF SettersCommitted
  <2>6. ASSUME NEW q \in Req, pc'[q] = "read", req[q].op \in TotpOps
        PROVE  TotpOk(q)'
    <3>1. q # r /\ pc[q] = "read" /\ TotpOk(q) /\ req[q].row \in User
      BY <1>2, <2>6 DEF Advances, Takes, TotpSaw, UInv, SessionOps
    <3>2. \A e \in Req : Confirms(e, req[q].row) => Confirms(e, req[q].row)'
      BY <1>2, <3>1, ConfirmStays DEF Confirms
    <3>3. r \notin before[q]
      BY <1>1, NotBefore DEF Open
    <3>4. totp'[req[q].row].enabled =>
            totp[req[q].row].enabled \/ (on /\ req[q].row = u)
      BY <2>1, <2>2, <3>1
    <3> QED
      BY <1>2, <2>1, <2>3, <2>6, <3>1, <3>2, <3>3, <3>4 DEF TotpOk
  <2>7. TotpSaw'
    BY <1>2, <2>6 DEF TotpSaw, TotpOk
  <2>8. ASSUME NEW v \in User, NEW s, s = totp[v].secret, totp'[v].enabled, s # Old
        PROVE  \E e \in Req : /\ Confirms(e, v)'
                              /\ loaded[e].totp.secret = s \/ Overlap(e, s)'
    <3>1. CASE totp[v].enabled
      <4>1. PICK e \in Req : Confirms(e, v) /\ (loaded[e].totp.secret = s \/ Overlap(e, s))
        BY <2>8, <3>1 DEF EnabledMeansConfirmed, Confirms
      <4>2. s \in Req
        BY <2>8, <3>1 DEF SecretsTyped, Id
      <4> QED
        BY <4>1, <4>2, ConfirmStays DEF Confirms
    <3>2. CASE ~totp[v].enabled
      <4>1. v = u /\ on /\ Confirms(r, u)'
        BY <2>1, <2>2, <2>3, <2>8, <3>2
      <4>2. CASE loaded[r].totp.secret = totp[u].secret
        BY <2>8, <4>1, <4>2
      <4>3. CASE loaded[r].totp.secret # totp[u].secret
        <5>1. s \in Req /\ s \notin before[r] /\ Committed(s)
          BY <1>1, <2>3, <2>8, <4>1, <4>3 DEF SettersCommitted
        <5>2. Overlap(s, r)
          BY <1>1, <5>1, OpenOverlaps DEF UInv, Committed, Open
        <5>3. Overlap(s, r)'
          BY <5>1, <5>2, ConfirmStays
        <5>4. Overlap(r, s)'
          BY <5>3 DEF Overlap
        <5> QED
          BY <4>1, <5>4
      <4> QED
        BY <4>2, <4>3
    <3> QED
      BY <3>1, <3>2
  <2>9. EnabledMeansConfirmed'
    BY <1>2, <2>1, <2>8 DEF EnabledMeansConfirmed, Confirms
  <2> QED
    BY <2>4, <2>5, <2>7, <2>9
<1> QED
  BY <1>1, <1>3, <1>4 DEF TotpCommit

LEMMA FInvKept ==
  ASSUME FInv, [Next]_bvars
  PROVE  FInv'
<1>1. UInv'
  BY UKeeps DEF FInv
<1>2. CASE Still
  BY <1>1, <1>2
     DEF Still, requests, keys, FInv, SecretsTyped, SettersCommitted, TotpSaw, TotpOk,
         EnabledMeansConfirmed, Confirms, Committed, Overlap
<1>3. ASSUME NEW r \in Req, LoadsTotp(r) \/ LeavesTotp(r)
      PROVE  FInv'
  <2>1. Advances(r) /\ UNCHANGED totp
    BY <1>3 DEF LoadsTotp, LeavesTotp
  <2>2. LoadsTotp(r) => loaded'[r].totp.enabled = totp'[req'[r].row].enabled
    BY DEF LoadsTotp
  <2>3. LoadsTotp(r) => totp'[req'[r].row].enabled \in BOOLEAN
    BY DEF LoadsTotp, FInv, SecretsTyped
  <2>4. TotpOk(r)'
    BY <1>3, <2>2, <2>3 DEF TotpOk, LoadsTotp, LeavesTotp
  <2> QED
    BY <1>1, <2>1, <2>4, RowsStay DEF FInv
<1>4. ASSUME NEW r \in Req, WritesTotp(r)
      PROVE  FInv'
  BY <1>1, <1>4, SetupKeeps, FlagKeeps DEF WritesTotp, FInv
<1> QED
  BY <1>2, <1>3, <1>4, TotpKinds DEF FInv

(***************************************************************************)
(* A login asks for a second factor only with a secret whose owner has     *)
(* confirmed it, or that a setup put in place while the confirmation of    *)
(* the one before was on its way: setup replaces secret and flag in one    *)
(* transaction, but neither it nor enable looks at the row again.          *)
(***************************************************************************)
THEOREM FactorsConfirmed == Spec => []EnabledMeansConfirmed
<1>1. FInv => EnabledMeansConfirmed
  BY DEF FInv
<1> QED
  BY <1>1, FInvInit, FInvKept, PTL DEF Spec

-----------------------------------------------------------------------------
(***************************************************************************)
(* Types.  What is left are the passwords, which are named by the request  *)
(* that set them, and the secrets in Redis, by the one that issued them.   *)
(***************************************************************************)
KeysTyped ==
  /\ password \in [User -> Id]
  /\ redis \subseteq [kind : Kind, user : User, value : Id]

LEMMA KeysTypedInit == Init => KeysTyped
  BY DEF Init, SessionsInit, KeysTyped, Id, Kind

\* A step that sets a password sets it to its request, and one that adds a
\* secret issues it.
KeysStep(r) ==
  /\ \/ UNCHANGED password
     \/ \E u \in User : password' = [password EXCEPT ![u] = r]
  /\ \/ redis' \subseteq redis
     \/ \E k \in Kind, u \in User : redis' \subseteq redis \cup {[kind |-> k, user |-> u, value |-> r]}

LEMMA ProceedsKeys ==
  ASSUME UInv, NEW r \in Req, Proceeds(r)
  PROVE  KeysStep(r)
<1>1. SessionContinue(r)
  BY DEF Proceeds
<1>2. req[r].op \in SessionOps => req[r].row \in User
  BY DEF UInv
<1> USE DEF KeysStep
<1>3. CASE RegisterInsert(r)
  <2>1. req[r].row \in User /\ "email" \in Kind
    BY <1>2, <1>3 DEF RegisterInsert, At, SessionOps, Kind
  <2> QED
    BY <1>3, <2>1 DEF RegisterInsert, keys
<1>4. CASE RegisterCommit(r)
  BY <1>2, <1>4 DEF RegisterCommit, At, SessionOps
<1>5. CASE LoginCommit(r) \/ RefreshCommit(r) \/ RevokeList(r) \/ VerifyCommit(r) \/ SetupCommit(r)
  BY <1>5 DEF LoginCommit, RefreshCommit, RevokeList, VerifyCommit, SetupCommit, keys
<1>6. CASE MfaCommit(r)
  BY <1>6 DEF MfaCommit, keys
<1>7. CASE RevokeCommit(r)
  BY <1>2, <1>7 DEF RevokeCommit, At, SessionOps
<1>8. CASE UseDelete(r)
  BY <1>8 DEF UseDelete, keys
<1>9. CASE TotpCommit(r)
  BY <1>2, <1>9 DEF TotpCommit, At, SessionOps, TotpOps
<1> QED
  BY <1>1, <1>3, <1>4, <1>5, <1>6, <1>7, <1>8, <1>9 DEF SessionContinue

LEMMA KeysTypedKept ==
  ASSUME UInv, KeysTyped, [Next]_bvars
  PROVE  KeysTyped'
<1>1. ASSUME NEW r \in Req, KeysStep(r)
      PROVE  KeysTyped'
  <2>1. r \in Id
    BY DEF Id
  <2> QED
    BY <1>1, <2>1 DEF KeysStep, KeysTyped
<1>2. ASSUME NEW r \in Req, Begins(r)
      PROVE  KeysStep(r)
  BY <1>2 DEF Begins, Sends, KeysStep, keys
<1>3. CASE Still
  BY <1>3 DEF Still, keys, KeysTyped
<1>4. ASSUME NEW r \in Req, Quiet(r)
      PROVE  KeysTyped'
  BY <1>4 DEF Quiet, keys, KeysTyped
<1> QED
  BY <1>1, <1>2, <1>3, <1>4, StepKinds, ProceedsKeys

(***************************************************************************)
(* The rows of accounts, permissions, tokens, second factors and codes and *)
(* what is in Redis have their types, whatever requests overlap.           *)
(***************************************************************************)
THEOREM SessionsTyped == Spec => []SessionsTypeOK
<1> DEFINE TInv == PInv /\ GInv /\ FInv /\ SInv /\ KeysTyped
<1>1. Init => TInv
  BY PInvInit, GInvInit, FInvInit, SInvInit, KeysTypedInit
<1>2. TInv /\ [Next]_bvars => TInv'
  BY PInvKept, GInvKept, FInvKept, SInvKept, KeysTypedKept DEF SInv
<1>3. TInv => SessionsTypeOK
  BY DEF PInv, UInv, HInv, StaffTyped, GInv, RowsTyped, FInv, SecretsTyped, SInv, CodesIssued,
         Code, Token, KeysTyped, SessionsTypeOK
<1> QED
  BY <1>1, <1>2, <1>3, PTL DEF Spec

=============================================================================
