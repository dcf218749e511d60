---------------------------- MODULE AccessProofs ----------------------------
(***************************************************************************)
(* Theorems about Backend, for every set of users and requests, every      *)
(* starting point and every degree of concurrency: refresh tokens and the  *)
(* secrets that work once.                                                 *)
(***************************************************************************)
EXTENDS Backend, TLAPS

-----------------------------------------------------------------------------
(***************************************************************************)
(* Requests.  A step belongs to one request: it arrives, or it goes on     *)
(* and keeps what it asks for, or it is rolled back.  What had been        *)
(* answered when it arrived stays answered.                                *)
(***************************************************************************)
IsTable(f) == f = [r \in Req |-> f[r]]

HInv ==
  /\ pc \in [Req -> {"new"} \cup Open \cup Answered]
  /\ before \in [Req -> SUBSET Req]
  /\ IsTable(req) /\ IsTable(loaded)
  /\ \A r \in Req : \A o \in before[r] : pc[o] \in Answered

\* What every step of r has in common.
Takes(r) ==
  /\ \A o \in Req \ {r} : /\ pc'[o] = pc[o] /\ req'[o] = req[o]
                          /\ loaded'[o] = loaded[o] /\ before'[o] = before[o]
  /\ pc' \in [Req -> {"new"} \cup Open \cup Answered]
  /\ before' \in [Req -> SUBSET Req]
  /\ IsTable(req)' /\ IsTable(loaded)'

Comes(r) ==
  /\ pc[r] = "new" /\ pc'[r] \in Open \cup Answered
  /\ before'[r] = {o \in Req : pc[o] \in Answered}

GoesOn(r) ==
  /\ pc[r] \in Open /\ pc'[r] \in (Open \ {"read"}) \cup Answered
  /\ before'[r] = before[r] /\ req'[r] = req[r]

IsLost(r) ==
  /\ pc[r] \in Open /\ pc'[r] \in {"failed", "integrity"}
  /\ before'[r] = before[r] /\ req'[r] = NoRequest

\* A step of r, wherever.
Advances(r) == Takes(r) /\ (Comes(r) \/ GoesOn(r) \/ IsLost(r))

LEMMA ArrivesFacts ==
  ASSUME HInv, NEW r \in Req, NEW q, NEW l, NEW s \in Open \cup Answered, Arrives(r, q, l, s)
  PROVE  Takes(r) /\ Comes(r) /\ req'[r] = q /\ loaded'[r] = l /\ pc'[r] = s
  BY DEF HInv, Takes, Comes, Arrives, IsTable

LEMMA GoesFacts ==
  ASSUME HInv, NEW r \in Req, NEW s \in (Open \ {"read"}) \cup Answered, pc[r] \in Open, Goes(r, s)
  PROVE  Takes(r) /\ GoesOn(r) /\ loaded'[r] = loaded[r] /\ pc'[r] = s
  BY DEF HInv, Takes, GoesOn, Goes, IsTable

LEMMA KeepsFacts ==
  ASSUME HInv, NEW r \in Req, NEW l, NEW s \in (Open \ {"read"}) \cup Answered, pc[r] \in Open,
         Keeps(r, l, s)
  PROVE  Takes(r) /\ GoesOn(r) /\ loaded'[r] = l /\ pc'[r] = s
  BY DEF HInv, Takes, GoesOn, Keeps, IsTable

LEMMA FailsFacts ==
  ASSUME HInv, NEW r \in Req, NEW s \in {"failed", "integrity"}, pc[r] \in Open, Fails(r, s)
  PROVE  Takes(r) /\ IsLost(r) /\ pc'[r] = s
  BY DEF HInv, Takes, IsLost, Fails, IsTable, Open, Answered

\* The invariant of the requests is kept by any such step.
LEMMA HKeeps ==
  ASSUME HInv, NEW r \in Req, Takes(r), Comes(r) \/ GoesOn(r) \/ IsLost(r)
  PROVE  HInv'
<1>1. \A o \in Req : pc[o] \in Answered => pc'[o] \in Answered
  BY DEF Takes, Comes, GoesOn, IsLost, Open, Answered
<1>2. \A q \in Req : \A o \in before'[q] : pc'[o] \in Answered
  BY <1>1 DEF HInv, Takes, Comes, GoesOn, IsLost
<1> QED
  BY <1>2 DEF HInv, Takes

\* Two requests that overlap do so for ever, and a request that is open
\* overlaps every other one that has arrived and was not answered before it.
LEMMA OverlapStays ==
  ASSUME HInv, NEW r \in Req, Takes(r), Comes(r) \/ GoesOn(r) \/ IsLost(r),
         NEW p \in Req, NEW q \in Req, Overlap(p, q)
  PROVE  Overlap(p, q)'
  BY DEF HInv, Takes, Comes, GoesOn, IsLost, Overlap, Open, Answered

LEMMA OpenOverlaps ==
  ASSUME HInv, NEW r \in Req, pc[r] \in Open, NEW q \in Req, q # r, pc[q] # "new",
         q \notin before[r]
  PROVE  Overlap(q, r)
  BY DEF HInv, Overlap, Open, Answered

-----------------------------------------------------------------------------
(***************************************************************************)
(* What arriving requests of Sessions leave behind: no row, at most a      *)
(* secret, and in the request what it has found.                           *)
(***************************************************************************)
SessionOps == {"register", "login", "mfa", "refresh", "logout", "send", "verify",
               "verify_user"} \cup RevokeOps \cup TotpOps

Secret(q) == [kind |-> q.kind, user |-> q.row, value |-> q.value]

Finds(r) ==
  LET q == req'[r] IN
  /\ q.op \in SessionOps /\ q.row \in User
  /\ q.op = "refresh" => \E t \in tokens : ~t.revoked /\ t.user = q.row /\ t.id = q.token
  /\ q.op = "mfa" =>
       /\ q.code \in Id \cup {Never}
       /\ q.code # Never => \E x \in codes : x.user = q.row /\ x.id = q.code /\ ~x.used
  /\ q.op \in {"reset", "verify"} => q.kind \in Kind /\ Secret(q) \in redis /\ pc'[r] = "got"
  /\ q.op \in RevokeOps => pc'[r] \in {"read", "got"}
  /\ q.op \in StatusOps =>
       pc'[r] = "read" /\ loaded'[r].account = account[q.row] /\ role[q.row] # "NONE"
  /\ pc'[r] \in {"read", "got", "committed"}
  /\ q.op \in {"mfa", "refresh", "register"} => pc'[r] = "read"

Sends(r) ==
  /\ req'[r].op = "send"
  /\ \E kind \in Kind, u \in User :
       redis' \subseteq redis \cup {[kind |-> kind, user |-> u, value |-> r]}

LEMMA SessionArriveFacts ==
  ASSUME HInv, \A t \in tokens : t.user \in User, \A m \in MfaTokens : req[m].row \in User,
         NEW r \in Req, SessionArrive(r)
  PROVE  /\ Takes(r) /\ Comes(r) /\ Finds(r) /\ UNCHANGED <<keys, kept>>
         /\ UNCHANGED redis \/ Sends(r)
<1> USE DEF Open, Answered, SessionOps, RevokeOps, StatusOps, TotpOps, Finds, Secret, Kind
<1>1. ASSUME NEW u \in User, RegisterCheck(r, u)
      PROVE  Takes(r) /\ Comes(r) /\ Finds(r) /\ UNCHANGED <<keys, kept, redis>>
  BY <1>1, ArrivesFacts DEF RegisterCheck
<1>2. ASSUME NEW u \in User, LoginRead(r, u)
      PROVE  Takes(r) /\ Comes(r) /\ Finds(r) /\ UNCHANGED <<keys, kept, redis>>
  BY <1>2, ArrivesFacts DEF LoginRead
<1>3. ASSUME NEW m \in MfaTokens, NEW c \in Id \cup {Never}, MfaRead(r, m, c)
      PROVE  Takes(r) /\ Comes(r) /\ Finds(r) /\ UNCHANGED <<keys, kept, redis>>
  <2>1. c # Never => \E x \in codes : x.user = req[m].row /\ x.id = c /\ ~x.used
    BY <1>3 DEF MfaRead, CodeValid, Unused
  <2> QED
    BY <1>3, <2>1, ArrivesFacts DEF MfaRead
<1>4. ASSUME NEW t \in tokens, RefreshRead(r, t)
      PROVE  Takes(r) /\ Comes(r) /\ Finds(r) /\ UNCHANGED <<keys, kept, redis>>
  <2> PICK op \in {"refresh", "logout"} :
             Arrives(r, [op |-> op, row |-> t.user, token |-> t.id], Nothing, "read")
    BY <1>4 DEF RefreshRead
  <2> QED
    BY <1>4, ArrivesFacts DEF RefreshRead
<1>5. ASSUME NEW a \in User, NEW u \in User, NEW op \in RevokeOps, TargetRead(r, op, a, u)
      PROVE  Takes(r) /\ Comes(r) /\ Finds(r) /\ UNCHANGED <<keys, kept, redis>>
  BY <1>5, ArrivesFacts DEF TargetRead
<1>6. ASSUME NEW u \in User, NEW k \in Kind, SendSecret(r, k, u)
      PROVE  Takes(r) /\ Comes(r) /\ Finds(r) /\ UNCHANGED <<keys, kept>> /\ Sends(r)
  <2>1. Takes(r) /\ Comes(r) /\ req'[r] = [op |-> "send", row |-> u, kind |-> k] /\ pc'[r] = "committed"
    BY <1>6, ArrivesFacts DEF SendSecret
  <2>2. redis' \subseteq redis \cup {[kind |-> k, user |-> u, value |-> r]}
    BY <1>6 DEF SendSecret
  <2> QED
    BY <1>6, <2>1, <2>2 DEF SendSecret, Sends
<1>7. ASSUME NEW u \in User, NEW k \in Kind, NEW v \in Id, UseGet(r, k, u, v)
      PROVE  Takes(r) /\ Comes(r) /\ Finds(r) /\ UNCHANGED <<keys, kept, redis>>
  <2> DEFINE q == [op |-> IF k = "reset" THEN "reset" ELSE "verify",
                   row |-> u, kind |-> k, value |-> v]
  <2>1. Takes(r) /\ Comes(r) /\ req'[r] = q /\ pc'[r] = "got"
    BY <1>7, ArrivesFacts DEF UseGet
  <2>2. q.op \in {"reset", "verify"} /\ q.row = u /\ q.kind = k /\ q.value = v
    OBVIOUS
  <2> QED
    BY <1>7, <2>1, <2>2 DEF UseGet
<1>8. ASSUME NEW a \in User, NEW u \in User, NEW k \in Kind, VerifyRead(r, a, u, k)
      PROVE  Takes(r) /\ Comes(r) /\ Finds(r) /\ UNCHANGED <<keys, kept, redis>>
  BY <1>8, ArrivesFacts DEF VerifyRead
<1>9. ASSUME NEW a \in User, NEW u \in User, NEW op \in TotpOps, TotpRead(r, op, a, u)
      PROVE  Takes(r) /\ Comes(r) /\ Finds(r) /\ UNCHANGED <<keys, kept, redis>>
  BY <1>9, ArrivesFacts DEF TotpRead
<1> QED
  BY <1>1, <1>2, <1>3, <1>4, <1>5, <1>6, <1>7, <1>8, <1>9 DEF SessionArrive

-----------------------------------------------------------------------------
(***************************************************************************)
(* Which operations the steps of each component are about.                 *)
(***************************************************************************)
RolesOps      == ReviveOps \cup {"change_role", "create_admin", "set_permissions", "seed"}
SettingsOps   == ConfigOps \cup {"read_config"}
CampaignOps   == {"campaign", "fanout"}

Belongs(r, ops) ==
  /\ Takes(r)
  /\ \/ Comes(r) /\ req'[r].op \in ops
     \/ GoesOn(r) /\ req[r].op \in ops
     \/ IsLost(r)

LEMMA RolesBelong ==
  ASSUME HInv, NEW r \in Req, RolesStep(r)
  PROVE  Belongs(r, RolesOps)
<1> USE DEF Open, Answered, ReviveOps, RolesOps, Belongs
<1>1. ASSUME NEW a \in User, NEW u \in User, NEW x \in Given,
             RoleRead(r, a, u, x) \/ CreateRead(r, a, u, x)
      PROVE  Belongs(r, RolesOps)
  <2>1. CASE RoleRead(r, a, u, x)
    BY <2>1, ArrivesFacts DEF RoleRead
  <2>2. CASE CreateRead(r, a, u, x)
    BY <2>2, ArrivesFacts DEF CreateRead
  <2> QED
    BY <1>1, <2>1, <2>2
<1>2. ASSUME NEW a \in User, NEW u \in User, NEW op \in ReviveOps, ReviveRead(r, op, a, u)
      PROVE  Belongs(r, RolesOps)
  BY <1>2, ArrivesFacts DEF ReviveRead
<1>3. ASSUME NEW a \in User, NEW x \in Given, NEW P \in Edits, EditRead(r, a, x, P)
      PROVE  Belongs(r, RolesOps)
  BY <1>3, ArrivesFacts DEF EditRead
<1>4. ASSUME NEW m \in BOOLEAN, SeedRead(r, m)
      PROVE  Belongs(r, RolesOps)
  BY <1>4, ArrivesFacts DEF SeedRead
<1>5. CASE RoleCommit(r)
  BY <1>5, GoesFacts, FailsFacts DEF RoleCommit, At
<1>6. CASE ReviveCommit(r) \/ EditLock(r)
  BY <1>6, GoesFacts DEF ReviveCommit, EditLock, At
<1>7. CASE EditCommit(r)
  BY <1>7, GoesFacts, FailsFacts DEF EditCommit, At
<1>8. CASE SeedCommit(r)
  BY <1>8, GoesFacts, FailsFacts DEF SeedCommit, At
<1> QED
  BY <1>1, <1>2, <1>3, <1>4, <1>5, <1>6, <1>7, <1>8 DEF RolesStep, RolesArrive, RolesContinue

LEMMA SettingsBelong ==
  ASSUME HInv, NEW r \in Req, SettingsStep(r)
  PROVE  Belongs(r, SettingsOps)
<1> USE DEF Open, Answered, ConfigOps, SettingsOps, Belongs
<1>1. ASSUME NEW op \in ConfigOps, NEW a \in User, NEW k \in ConfigKey, NEW show \in BOOLEAN,
             ConfigRead(r, op, a, k, show)
      PROVE  Belongs(r, SettingsOps)
  BY <1>1, ArrivesFacts DEF ConfigRead
<1>2. ASSUME ConfigFlush(r)
      PROVE  Belongs(r, SettingsOps)
  BY <1>2, KeepsFacts, FailsFacts DEF ConfigFlush, At
<1>3. ASSUME ConfigCommit(r) \/ ConfigFill(r)
      PROVE  Belongs(r, SettingsOps)
  BY <1>3, GoesFacts DEF ConfigCommit, ConfigFill, At
<1>4. ASSUME ConfigMiss(r)
      PROVE  Belongs(r, SettingsOps)
  BY <1>4, ArrivesFacts DEF ConfigMiss
<1> QED
  BY <1>1, <1>2, <1>3, <1>4 DEF SettingsStep

LEMMA CampaignBelong ==
  ASSUME HInv, NEW r \in Req, CampaignStep(r)
  PROVE  Belongs(r, CampaignOps)
<1> USE DEF Open, Answered, CampaignOps, Belongs
<1>1. ASSUME NEW a \in User, NEW audience \in Audience, CampaignRead(r, a, audience)
      PROVE  Belongs(r, CampaignOps)
  BY <1>1, ArrivesFacts DEF CampaignRead
<1>2. ASSUME NEW c \in campaigns, FanoutRead(r, c)
      PROVE  Belongs(r, CampaignOps)
  BY <1>2, ArrivesFacts DEF FanoutRead
<1>3. ASSUME CampaignCommit(r) \/ Enqueue(r) \/ FanoutDone(r)
      PROVE  Belongs(r, CampaignOps)
  BY <1>3, GoesFacts DEF CampaignCommit, Enqueue, FanoutDone, At
<1>4. ASSUME FanoutBatch(r)
      PROVE  Belongs(r, CampaignOps)
  <2> PICK s \in {"got", "dropped"} : Goes(r, s)
    BY <1>4 DEF FanoutBatch
  <2> QED
    BY <1>4, GoesFacts DEF FanoutBatch, At
<1>5. ASSUME FanoutRaises(r)
      PROVE  Belongs(r, CampaignOps)
  BY <1>5, FailsFacts DEF FanoutRaises
<1> QED
  BY <1>1, <1>2, <1>3, <1>4, <1>5 DEF CampaignStep

FilesOps == PhotoOps \cup ReportOps \cup {"upload", "report", "share", "unshare", "sweep_shares"}

\* Steps of Moderation; a report's suspension or ban only arrives there.
Moderates(r) ==
  /\ Takes(r)
  /\ \/ Comes(r) /\ req'[r].op \in FilesOps
     \/ /\ Comes(r) /\ req'[r].op \in {"suspend", "ban"}
        /\ pc'[r] = "read" /\ req'[r].row \in User
        /\ loaded'[r].account = account[req'[r].row]
        /\ \E x \in reports : req'[r].row = x.user
     \/ GoesOn(r) /\ req[r].op \in FilesOps
     \/ IsLost(r)

LEMMA ModerationFacts ==
  ASSUME HInv, \A x \in reports : x.user \in User,
         NEW r \in Req, ModerationStep(r)
  PROVE  Moderates(r)
<1> USE DEF Open, Answered, PhotoOps, ReportOps, FilesOps, Moderates
<1>1. ASSUME NEW u \in User, ConfirmUpload(r, u)
      PROVE  Moderates(r)
  BY <1>1, ArrivesFacts DEF ConfirmUpload
<1>2. ASSUME NEW op \in PhotoOps, NEW a \in User, NEW p \in photos,
             NEW v \in PhotoStatus \cup {"none"}, PhotoRead(r, op, a, p, v)
      PROVE  Moderates(r)
  BY <1>2, ArrivesFacts DEF PhotoRead
<1>3. ASSUME NEW a \in User, NEW u \in User, CreateReport(r, a, u) \/ ShareRead(r, a, u)
      PROVE  Moderates(r)
  BY <1>3, ArrivesFacts DEF CreateReport, ShareRead
<1>4. ASSUME NEW op \in ReportOps, NEW a \in User, NEW x \in reports, NEW to \in ReportStatus,
             ReportRead(r, op, a, x, to)
      PROVE  Moderates(r)
  BY <1>4, ArrivesFacts DEF ReportRead
<1>5. ASSUME NEW op \in {"suspend", "ban"}, NEW a \in User, NEW x \in reports,
             ReportAction(r, op, a, x)
      PROVE  Moderates(r)
  BY <1>5, ArrivesFacts DEF ReportAction
<1>6. ASSUME PhotoCommit(r) \/ ReportCommit(r) \/ ShareCommit(r)
      PROVE  Moderates(r)
  BY <1>6, GoesFacts, FailsFacts DEF PhotoCommit, ReportCommit, ShareCommit, At
<1>7. ASSUME Unshare(r)
      PROVE  Moderates(r)
  <2>1. CASE Arrives(r, [op |-> "sweep_shares"], Nothing, "committed")
    BY <1>7, <2>1, ArrivesFacts DEF Unshare
  <2>2. CASE \E x \in shares :
               Arrives(r, [op |-> "unshare", row |-> x.owner], Nothing, "committed")
    <3> PICK x \in shares :
               Arrives(r, [op |-> "unshare", row |-> x.owner], Nothing, "committed")
      BY <2>2
    <3> QED
      BY <1>7, ArrivesFacts DEF Unshare
  <2> QED
    BY <1>7, <2>1, <2>2 DEF Unshare
<1> QED
  BY <1>1, <1>2, <1>3, <1>4, <1>5, <1>6, <1>7 DEF ModerationStep

LEMMA RollbackBelongs ==
  ASSUME HInv, NEW r \in Req, Rollback(r), NEW ops
  PROVE  Belongs(r, ops)
  BY FailsFacts DEF Rollback, Belongs

-----------------------------------------------------------------------------
(***************************************************************************)
(* The steps outside Sessions: they touch no token, code or secret, and    *)
(* take a request of Sessions no further than its arrival (a report's ban) *)
(* or its rollback.                                                        *)
(***************************************************************************)
Quiet(r) ==
  /\ UNCHANGED <<keys, redis, kept>>
  /\ Takes(r)
  /\ \/ /\ Comes(r)
        /\ \/ req'[r].op \notin SessionOps
           \/ req'[r].op \in {"suspend", "ban"} /\ pc'[r] = "read" /\ req'[r].row \in User
     \/ GoesOn(r) /\ req[r].op \notin SessionOps
     \/ IsLost(r)

LEMMA QuietIfElsewhere ==
  ASSUME NEW r \in Req, UNCHANGED <<keys, redis, kept>>,
         Belongs(r, RolesOps) \/ Belongs(r, SettingsOps) \/ Belongs(r, CampaignOps)
  PROVE  Quiet(r)
  BY DEF Belongs, Quiet, RolesOps, SettingsOps, CampaignOps, ReviveOps, ConfigOps,
         SessionOps, RevokeOps, StatusOps, TotpOps

LEMMA QuietIfModerates ==
  ASSUME NEW r \in Req, UNCHANGED <<keys, redis, kept>>, Moderates(r)
  PROVE  Quiet(r)
  BY DEF Moderates, Quiet, FilesOps, PhotoOps, ReportOps, SessionOps, RevokeOps, StatusOps, TotpOps

-----------------------------------------------------------------------------
(***************************************************************************)
(* The steps of Sessions after the arrival.                                *)
(***************************************************************************)
Continues(r) ==
  /\ Takes(r)
  /\ \/ GoesOn(r) /\ req[r].op \in SessionOps /\ pc'[r] \notin {"failed", "integrity", "got"}
     \/ IsLost(r)

LEMMA ContinueFacts ==
  ASSUME HInv, NEW r \in Req, SessionContinue(r)
  PROVE  Continues(r)
<1> USE DEF Open, Answered, SessionOps, RevokeOps, StatusOps, TotpOps, Continues, At
<1>1. CASE RegisterInsert(r)
  BY <1>1, GoesFacts, FailsFacts DEF RegisterInsert
<1>2. CASE RegisterCommit(r)
  BY <1>2, GoesFacts DEF RegisterCommit
<1>3. CASE LoginCommit(r)
  BY <1>3, GoesFacts DEF LoginCommit
<1>4. CASE MfaCommit(r)
  BY <1>4, GoesFacts, FailsFacts DEF MfaCommit
<1>5. CASE RefreshCommit(r)
  BY <1>5, GoesFacts DEF RefreshCommit
<1>6. CASE RevokeList(r)
  BY <1>6, KeepsFacts DEF RevokeList
<1>7. CASE RevokeCommit(r)
  BY <1>7, GoesFacts DEF RevokeCommit
<1>8. CASE UseDelete(r)
  BY <1>8, GoesFacts DEF UseDelete
<1>9. CASE VerifyCommit(r)
  BY <1>9, GoesFacts DEF VerifyCommit
<1>10. CASE SetupCommit(r)
  BY <1>10, GoesFacts, FailsFacts DEF SetupCommit
<1>11. CASE TotpCommit(r)
  BY <1>11, GoesFacts DEF TotpCommit
<1> QED
  BY <1>1, <1>2, <1>3, <1>4, <1>5, <1>6, <1>7, <1>8, <1>9, <1>10, <1>11 DEF SessionContinue

-----------------------------------------------------------------------------
(***************************************************************************)
(* Rows belong to users, and every step is one of four kinds.              *)
(***************************************************************************)
Token == [id : Id, user : User, parent : Id \cup {Never}, revoked : BOOLEAN]

HasUser(x) == "user" \in DOMAIN x /\ x.user \in User

UInv ==
  /\ HInv
  /\ tokens \subseteq Token
  /\ \A x \in reports : HasUser(x)
  /\ \A r \in Req : req[r].op \in SessionOps =>
       /\ req[r].row \in User /\ pc[r] \notin {"new", "failed", "integrity"}
       /\ req[r].op = "refresh" => req[r].token \in Id

LEMMA NoneOfThem == NoRequest.op \notin SessionOps
  BY DEF NoRequest, SessionOps, RevokeOps, StatusOps, TotpOps

LEMMA SessionBelong ==
  ASSUME UInv, NEW r \in Req, SessionsWithReport(r)
  PROVE  Belongs(r, SessionOps)
<1>1. \A m \in MfaTokens : req[m].row \in User
  BY DEF UInv, MfaTokens, SessionOps
<1>2. \A t \in tokens : t.user \in User
  BY DEF UInv, Token
<1> QED
  BY <1>1, <1>2, SessionArriveFacts, ContinueFacts
     DEF UInv, SessionsWithReport, Belongs, Finds, Continues

Still == UNCHANGED <<requests, keys, redis, kept>>

\* A request of Sessions arrives, and goes on.
Begins(r) ==
  /\ SessionArrive(r) /\ Takes(r) /\ Comes(r) /\ Finds(r)
  /\ UNCHANGED <<keys, kept>>
  /\ UNCHANGED redis \/ Sends(r)

Proceeds(r) == SessionContinue(r) /\ Continues(r)

LEMMA StepKinds ==
  ASSUME UInv, [Next]_bvars
  PROVE  Still \/ \E r \in Req : Quiet(r) \/ Begins(r) \/ Proceeds(r)
<1>1. ASSUME NEW r \in Req, SessionsWithReport(r)
      PROVE  Begins(r) \/ Proceeds(r)
  <2>1. \A m \in MfaTokens : req[m].row \in User
    BY DEF UInv, MfaTokens, SessionOps
  <2>2. \A t \in tokens : t.user \in User
    BY DEF UInv, Token
  <2> QED
    BY <1>1, <2>1, <2>2, SessionArriveFacts, ContinueFacts
       DEF UInv, SessionsWithReport, Begins, Proceeds
<1>2. ASSUME NEW r \in Req, RolesStep(r), UNCHANGED <<keys, secrets, files, settings, news>>
      PROVE  Quiet(r)
  BY <1>2, RolesBelong, QuietIfElsewhere DEF UInv, secrets
<1>3. ASSUME NEW r \in Req, ModerationStep(r), UNCHANGED <<staff, keys, secrets, settings, news>>
      PROVE  Quiet(r)
  BY <1>3, ModerationFacts, QuietIfModerates DEF UInv, HasUser, secrets
<1>4. ASSUME NEW r \in Req, SettingsStep(r), UNCHANGED <<staff, keys, secrets, files, news>>
      PROVE  Quiet(r)
  BY <1>4, SettingsBelong, QuietIfElsewhere DEF UInv, secrets
<1>5. ASSUME NEW r \in Req, CampaignStep(r), UNCHANGED <<staff, keys, secrets, files, settings>>
      PROVE  Quiet(r)
  BY <1>5, CampaignBelong, QuietIfElsewhere DEF UInv, secrets
<1>6. ASSUME NEW r \in Req, Rollback(r), UNCHANGED <<staff, keys, secrets, files, settings, news>>
      PROVE  Quiet(r)
  BY <1>6, RollbackBelongs, QuietIfElsewhere DEF UInv, secrets
<1>7. ASSUME UNCHANGED <<requests, keys, secrets>>
      PROVE  Still
  BY <1>7 DEF Still, secrets
<1>8. CASE Next
  BY <1>1, <1>2, <1>3, <1>4, <1>5, <1>6, <1>7, <1>8 DEF Next
<1>9. CASE UNCHANGED bvars
  BY <1>7, <1>9 DEF bvars
<1> QED
  BY <1>8, <1>9

\* A report is about whom another was about, or about somebody.
Reported(x) ==
  /\ "user" \in DOMAIN x
  /\ (\E y \in reports : x.user = y.user) \/ (x.user \in User /\ role[x.user] # "NONE")

LEMMA ReportsFrom ==
  ASSUME UInv, [Next]_bvars
  PROVE  \A x \in reports' : Reported(x)
<1>1. ASSUME NEW r \in Req, NEW was
      PROVE  \A x \in ReportAfter(r, was) : Reported(x)
  BY DEF ReportAfter, UInv, HasUser, Reported
<1>2. ASSUME NEW r \in Req, ModerationStep(r)
      PROVE  \A x \in reports' : Reported(x)
  <2>1. ASSUME NEW a \in User, NEW u \in User, CreateReport(r, a, u)
        PROVE  \A x \in reports' : Reported(x)
    BY <2>1 DEF CreateReport, UInv, HasUser, Reported
  <2>2. CASE ReportCommit(r)
    BY <2>2, <1>1 DEF ReportCommit
  <2>3. ASSUME UNCHANGED reports
        PROVE  \A x \in reports' : Reported(x)
    BY <2>3 DEF UInv, HasUser, Reported
  <2> QED
    BY <1>2, <2>1, <2>2, <2>3
       DEF ModerationStep, ConfirmUpload, PhotoRead, ReportRead, ReportAction, ShareRead,
           PhotoCommit, ShareCommit, Unshare, files
<1>3. ASSUME NEW r \in Req, SessionsWithReport(r)
      PROVE  \A x \in reports' : Reported(x)
  BY <1>3, <1>1 DEF SessionsWithReport, UInv, HasUser, Reported
<1>4. ASSUME UNCHANGED reports
      PROVE  \A x \in reports' : Reported(x)
  BY <1>4 DEF UInv, HasUser, Reported
<1> QED
  BY <1>2, <1>3, <1>4 DEF Next, bvars, files, ShareLapses

LEMMA ReportsKept ==
  ASSUME UInv, [Next]_bvars
  PROVE  \A x \in reports' : HasUser(x)
  BY ReportsFrom DEF UInv, HasUser, Reported

-----------------------------------------------------------------------------
(***************************************************************************)
(* Refresh tokens.  A row of refresh_tokens is never removed and never     *)
(* active again, and the only new rows are the one that a request mints    *)
(* as it commits.                                                          *)
(***************************************************************************)
Same(x, t) == x.id = t.id /\ x.user = t.user /\ x.parent = t.parent /\ (t.revoked => x.revoked)

Distinct(S) == \A s, t \in S : s.id = t.id /\ s.user = t.user => s = t

Fresh(r, x) ==
  /\ pc[r] \in Open /\ pc'[r] = "committed" /\ req[r].op \in SessionOps
  /\ req[r].op = "refresh" => pc[r] = "read"
  /\ x = Minted(r, req[r].row, IF req[r].op = "refresh" THEN req[r].token ELSE Never)

LEMMA RevokedFacts ==
  ASSUME tokens \subseteq Token, NEW T
  PROVE  /\ Revoked(T) \subseteq Token
         /\ \A x \in Revoked(T) : \E t \in tokens : Same(x, t) /\ (t \in T => x.revoked)
         /\ Distinct(tokens) => Distinct(Revoked(T))
<1>1. \A t \in tokens : /\ Revoke(T)[t] \in Token /\ Same(Revoke(T)[t], t)
                        /\ t \in T => Revoke(T)[t].revoked
  BY DEF Revoke, Token, Same
<1>2. \A x \in Revoked(T) : \E t \in tokens : x = Revoke(T)[t]
  BY DEF Revoked
<1>3. ASSUME Distinct(tokens), NEW x \in Revoked(T), NEW y \in Revoked(T),
             x.id = y.id, x.user = y.user
      PROVE  x = y
  BY <1>1, <1>2, <1>3 DEF Distinct, Same
<1> QED
  BY <1>1, <1>2, <1>3 DEF Distinct

TokensChange(r) ==
  /\ \A x \in tokens' : (x \in Token /\ \E t \in tokens : Same(x, t)) \/ Fresh(r, x)
  /\ Distinct(tokens) /\ (\A t \in tokens : t.id # r) => Distinct(tokens')
  /\ pc'[r] = "committed" /\ req[r].op = "refresh" =>
       \A x \in tokens' : x.user = req[r].row /\ x.id = req[r].token => x.revoked \/ x.id = r

LEMMA TokensStay ==
  ASSUME tokens \subseteq Token, NEW r, tokens' = tokens,
         ~(pc'[r] = "committed" /\ req[r].op = "refresh")
  PROVE  TokensChange(r)
  BY DEF TokensChange, Same

LEMMA TokensMinted ==
  ASSUME UInv, NEW r \in Req, Proceeds(r)
  PROVE  TokensChange(r)
<1> USE DEF UInv, Open, TotpOps, StatusOps, RevokeOps, At, keys
<1>1. ASSUME pc[r] \in Open, pc'[r] = "committed", req[r].op \in SessionOps \ {"refresh"},
             tokens' = tokens \cup {Minted(r, req[r].row, Never)}
      PROVE  TokensChange(r)
  <2>1. \A x \in tokens' : x \in tokens \/ Fresh(r, x)
    BY <1>1 DEF Fresh
  <2>2. \A t \in tokens : t \in Token /\ Same(t, t)
    BY DEF Same
  <2>3. Minted(r, req[r].row, Never).id = r
    BY DEF Minted
  <2>4. ASSUME Distinct(tokens), \A t \in tokens : t.id # r
        PROVE  Distinct(tokens')
    BY <1>1, <2>3, <2>4 DEF Distinct
  <2> QED
    BY <1>1, <2>1, <2>2, <2>4 DEF TokensChange
<1>2. CASE RefreshCommit(r)
  <2> DEFINE old == {t \in tokens : t.user = req[r].row /\ t.id = req[r].token}
             new == Minted(r, req[r].row, req[r].token)
  <2>1. /\ req[r].op \in SessionOps /\ pc[r] \in Open /\ pc'[r] = "committed"
        /\ pc[r] = "read"
    BY <1>2, GoesFacts DEF RefreshCommit, Answered, SessionOps
  <2>2. /\ tokens' \subseteq Revoked(old) \cup {new}
        /\ new \in tokens' => req[r].op = "refresh" \/ new \in Revoked(old)
    BY <1>2 DEF RefreshCommit
  <2>3. /\ Revoked(old) \subseteq Token
        /\ \A x \in Revoked(old) : \E t \in tokens : Same(x, t) /\ (t \in old => x.revoked)
        /\ Distinct(tokens) => Distinct(Revoked(old))
    BY RevokedFacts
  <2>4. new.id = r
    BY DEF Minted
  <2>5. req[r].op = "refresh" => Fresh(r, new)
    BY <2>1 DEF Fresh
  <2>6. \A x \in tokens' : (x \in Token /\ \E t \in tokens : Same(x, t)) \/ Fresh(r, x)
    BY <2>2, <2>3, <2>5
  <2>7. ASSUME Distinct(tokens), \A t \in tokens : t.id # r
        PROVE  Distinct(tokens')
    <3>1. \A x \in Revoked(old) : x.id # r
      BY <2>3, <2>7 DEF Same
    <3> QED
      BY <2>2, <2>3, <2>4, <2>7, <3>1 DEF Distinct
  <2>8. \A x \in tokens' : x.user = req[r].row /\ x.id = req[r].token => x.revoked \/ x.id = r
    BY <2>2, <2>3, <2>4 DEF Same
  <2> QED
    BY <2>6, <2>7, <2>8 DEF TokensChange
<1>3. ASSUME NEW T, req[r].op # "refresh", tokens' = Revoked(T)
      PROVE  TokensChange(r)
  BY <1>3, RevokedFacts DEF TokensChange
<1>4. ASSUME req[r].op # "refresh" \/ pc'[r] # "committed", UNCHANGED tokens
      PROVE  TokensChange(r)
  BY <1>4, TokensStay
<1>5. Takes(r) /\ pc[r] \in Open
  BY DEF Proceeds, Continues, GoesOn, IsLost
<1>6. CASE RegisterCommit(r) \/ LoginCommit(r)
  BY <1>1, <1>4, <1>5, <1>6, GoesFacts 
       DEF RegisterCommit, LoginCommit, Answered, SessionOps
<1>7. CASE MfaCommit(r)
  <2>1. CASE UNCHANGED tokens
    BY <1>4, <1>7, <2>1 DEF MfaCommit
  <2>2. CASE tokens' = tokens \cup {Minted(r, req[r].row, Never)} /\ Goes(r, "committed")
    BY <1>1, <1>5, <1>7, <2>2, GoesFacts DEF MfaCommit, Answered, SessionOps
  <2> QED
    BY <1>7, <2>1, <2>2 DEF MfaCommit
<1>8. CASE RevokeCommit(r)
  BY <1>3, <1>8 DEF RevokeCommit
<1>9. CASE \/ RegisterInsert(r) \/ RevokeList(r) \/ UseDelete(r) \/ VerifyCommit(r)
           \/ SetupCommit(r) \/ TotpCommit(r)
  BY <1>4, <1>9 DEF RegisterInsert, RevokeList, UseDelete, VerifyCommit, SetupCommit, TotpCommit
<1> QED
  BY <1>2, <1>6, <1>7, <1>8, <1>9 DEF Proceeds, SessionContinue

\* Every step of a request, as far as tokens are concerned.
Moves(r) ==
  /\ Takes(r) /\ TokensChange(r)
  /\ Comes(r) \/ GoesOn(r) \/ IsLost(r)
  /\ Comes(r) /\ req'[r].op \in SessionOps =>
       /\ req'[r].row \in User /\ pc'[r] \in {"read", "got", "committed"}
       /\ req'[r].op = "refresh" =>
            \E t \in tokens : ~t.revoked /\ t.user = req'[r].row /\ t.id = req'[r].token
       /\ req'[r].op \in RevokeOps => pc'[r] \in {"read", "got"}
       /\ UNCHANGED tokens
  /\ GoesOn(r) /\ req[r].op \in SessionOps => Proceeds(r)

LEMMA MovesFacts ==
  ASSUME UInv, [Next]_bvars
  PROVE  Still \/ \E r \in Req : Moves(r)
<1> USE DEF UInv, Moves
<1>1. ASSUME NEW r \in Req, Quiet(r)
      PROVE  Moves(r)
  <2>1. ~(pc'[r] = "committed" /\ req[r].op = "refresh")
    BY <1>1 DEF Quiet, Comes, GoesOn, IsLost, SessionOps
  <2>2. TokensChange(r)
    BY <1>1, <2>1, TokensStay DEF Quiet, keys
  <2>3. Comes(r) => ~GoesOn(r)
    BY DEF Comes, GoesOn, Open
  <2>4. IsLost(r) /\ GoesOn(r) => req[r].op \notin SessionOps
    BY NoneOfThem DEF IsLost, GoesOn
  <2>5. Comes(r) /\ req'[r].op \in SessionOps =>
          /\ req'[r].op \in {"suspend", "ban"}
          /\ req'[r].row \in User /\ pc'[r] = "read"
    BY <1>1, <2>3 DEF Quiet, Comes, IsLost, Open
  <2>6. UNCHANGED tokens /\ Takes(r) /\ (Comes(r) \/ GoesOn(r) \/ IsLost(r))
    BY <1>1 DEF Quiet, keys
  <2>7. GoesOn(r) => req[r].op \notin SessionOps
    BY <1>1, <2>3, <2>4 DEF Quiet
  <2> QED
    BY <2>2, <2>5, <2>6, <2>7
<1>2. ASSUME NEW r \in Req, Begins(r)
      PROVE  Moves(r)
  <2>1. ~(pc'[r] = "committed" /\ req[r].op = "refresh") /\ ~GoesOn(r)
    BY <1>2 DEF Begins, Comes, GoesOn, SessionOps, Open
  <2>2. TokensChange(r)
    BY <1>2, <2>1, TokensStay DEF Begins, keys
  <2> QED
    BY <1>2, <2>1, <2>2 DEF Begins, Finds, keys
<1>3. ASSUME NEW r \in Req, Proceeds(r)
      PROVE  Moves(r)
  <2>1. ~Comes(r) /\ Takes(r) /\ (GoesOn(r) \/ IsLost(r))
    BY <1>3 DEF Proceeds, Continues, Comes, GoesOn, IsLost, Open
  <2> QED
    BY <1>3, <2>1, TokensMinted
<1> QED
  BY <1>1, <1>2, <1>3, StepKinds

LEMMA UKeeps ==
  ASSUME UInv, [Next]_bvars
  PROVE  UInv'
<1>1. CASE Still
  BY <1>1, ReportsKept DEF Still, UInv, HInv, IsTable, requests, keys
<1>2. ASSUME NEW r \in Req, Moves(r)
      PROVE  UInv'
  <2>1. HInv'
    BY <1>2, HKeeps DEF UInv, Moves
  <2>2. tokens' \subseteq Token
    <3>1. ASSUME NEW x, Fresh(r, x)
          PROVE  x \in Token
      BY <3>1 DEF Fresh, Minted, Token, UInv, Id
    <3> QED
      BY <1>2, <3>1 DEF Moves, TokensChange
  <2>3. ASSUME NEW o \in Req, req'[o].op \in SessionOps
        PROVE  /\ req'[o].row \in User /\ pc'[o] \notin {"new", "failed", "integrity"}
               /\ req'[o].op = "refresh" => req'[o].token \in Id
    <3>1. CASE o # r
      BY <1>2, <2>3, <3>1 DEF Moves, Takes, UInv
    <3>2. CASE o = r /\ Comes(r)
      BY <1>2, <2>3, <3>2 DEF Moves, UInv, Token
    <3>3. CASE o = r /\ IsLost(r)
      BY <2>3, <3>3, NoneOfThem DEF IsLost
    <3>4. CASE o = r /\ GoesOn(r) /\ ~IsLost(r)
      BY <1>2, <2>3, <3>4 DEF Moves, UInv, Proceeds, Continues, GoesOn, Open, Answered
    <3> QED
      BY <1>2, <3>1, <3>2, <3>3, <3>4 DEF Moves
  <2> QED
    BY <2>1, <2>2, <2>3, ReportsKept DEF UInv
<1> QED
  BY <1>1, <1>2, MovesFacts

-----------------------------------------------------------------------------
(***************************************************************************)
(* Rotation.  The invariant adds that only committed requests have minted  *)
(* rows, one for each id and user, and that a refresh on its way has found *)
(* no successor of its token made by a request answered before it came.    *)
(***************************************************************************)
MintersCommitted ==
  \A t \in tokens :
    /\ t.id \in Req => Committed(t.id)
    /\ t.parent \in Req => Committed(t.parent)
    /\ t.parent # Never => t.id \in Req

RefreshSaw ==
  \A r \in Req :
    pc[r] = "read" /\ req[r].op = "refresh" =>
      /\ req[r].token \in Req => Committed(req[r].token)
      /\ \A s \in tokens : s.user = req[r].row /\ s.parent = req[r].token => s.id \notin before[r]

RInv == UInv /\ Distinct(tokens) /\ MintersCommitted /\ RefreshSaw /\ RotationIsAtomic

LEMMA RInvInit == Init => RInv
<1> SUFFICES ASSUME Init
             PROVE  RInv
  OBVIOUS
<1>1. HInv
  BY DEF Init, SessionsInit, RolesInit, RequestsInit, HInv, IsTable
<1>2. \A t \in tokens : /\ t.id = Old /\ t.parent = Never /\ t \in Token
                        /\ \A s \in tokens : s.user = t.user => s = t
  <2>1. \A t \in tokens : \E u \in User :
          t = [id |-> Old, user |-> u, parent |-> Never, revoked |-> FALSE]
    BY DEF Init, SessionsInit
  <2>2. \A u \in User :
          [id |-> Old, user |-> u, parent |-> Never, revoked |-> FALSE] \in Token
    BY DEF Token, Id
  <2>3. \A t \in tokens : t \in Token
    BY <2>1, <2>2
  <2>4. ASSUME NEW t \in tokens, NEW s \in tokens, s.user = t.user
        PROVE  s = t
    <3>1. PICK u \in User : t = [id |-> Old, user |-> u, parent |-> Never, revoked |-> FALSE]
      BY <2>1
    <3>2. PICK v \in User : s = [id |-> Old, user |-> v, parent |-> Never, revoked |-> FALSE]
      BY <2>1
    <3>3. u = v
      BY <2>4, <3>1, <3>2
    <3> QED
      BY <3>1, <3>2, <3>3
  <2>5. \A t \in tokens : t.id = Old /\ t.parent = Never
    BY <2>1
  <2> QED
    BY <2>3, <2>4, <2>5
<1>3. \A x \in reports : HasUser(x)
  BY DEF Init, ModerationInit, People, HasUser
<1>4. \A r \in Req : req[r] = NoRequest /\ pc[r] = "new"
  BY DEF Init, SessionsInit, RolesInit, RequestsInit
<1>5. UInv
  <2>1. NoRequest.op # "refresh"
    BY DEF NoRequest
  <2> QED
    BY <1>1, <1>2, <1>3, <1>4, <2>1, NoneOfThem DEF UInv
<1>6. RotationIsAtomic
  BY <1>2, IdAssumption DEF RotationIsAtomic, Id
<1> QED
  BY <1>2, <1>4, <1>5, <1>6, IdAssumption DEF RInv, Distinct, MintersCommitted, RefreshSaw, Id

\* A request that has committed stays so.
LEMMA CommittedStays ==
  ASSUME UInv, NEW r \in Req, Moves(r), NEW q \in Req, Committed(q)
  PROVE  Committed(q)'
  BY DEF UInv, HInv, Moves, Takes, Comes, GoesOn, IsLost, Committed, Open

LEMMA MovesKeepsMinters ==
  ASSUME UInv, MintersCommitted, RefreshSaw, NEW r \in Req, Moves(r)
  PROVE  MintersCommitted'
<1> SUFFICES ASSUME NEW x \in tokens'
             PROVE  /\ x.id \in Req => Committed(x.id)'
                    /\ x.parent \in Req => Committed(x.parent)'
                    /\ x.parent # Never => x.id \in Req
  BY DEF MintersCommitted
<1>1. CASE \E t \in tokens : Same(x, t)
  BY <1>1, CommittedStays DEF MintersCommitted, Same
<1>2. CASE Fresh(r, x)
  <2>1. x.id = r /\ x.parent = IF req[r].op = "refresh" THEN req[r].token ELSE Never
    BY <1>2 DEF Fresh, Minted
  <2>2. Committed(r)'
    BY <1>2 DEF Fresh, Committed
  <2>3. Never \notin Req
    BY IdAssumption DEF Id
  <2>4. req[r].op = "refresh" => pc[r] = "read"
    BY <1>2 DEF Fresh
  <2> QED
    BY <2>1, <2>2, <2>3, <2>4, CommittedStays DEF RefreshSaw
<1> QED
  BY <1>1, <1>2 DEF Moves, TokensChange

LEMMA MovesKeepsRefresh ==
  ASSUME RInv, NEW r \in Req, Moves(r)
  PROVE  RefreshSaw'
<1> SUFFICES ASSUME NEW q \in Req, pc'[q] = "read", req'[q].op = "refresh"
             PROVE  /\ req'[q].token \in Req => Committed(req[q].token)'
                    /\ \A s \in tokens' : s.user = req'[q].row /\ s.parent = req'[q].token
                                            => s.id \notin before'[q]
  BY DEF RefreshSaw
<1> USE DEF RInv
<1>1. CASE q # r
  <2>1. pc[q] = "read" /\ req[q] = req'[q] /\ before[q] = before'[q]
    BY <1>1 DEF Moves, Takes
  <2>2. ASSUME NEW x \in tokens', x.user = req[q].row, x.parent = req[q].token
        PROVE  x.id \notin before[q]
    <3>1. CASE \E t \in tokens : Same(x, t)
      BY <2>1, <2>2, <3>1 DEF RefreshSaw, Same
    <3>2. CASE Fresh(r, x)
      <4>1. x.id = r /\ pc[r] \notin Answered
        BY <3>2 DEF Fresh, Minted, Open, Answered
      <4> QED
        BY <4>1 DEF UInv, HInv
    <3> QED
      BY <3>1, <3>2 DEF Moves, TokensChange
  <2> QED
    BY <2>1, <2>2, CommittedStays DEF RefreshSaw
<1>2. CASE q = r
  <2>1. Comes(r) /\ UNCHANGED tokens
    BY <1>2 DEF Moves, Comes, GoesOn, IsLost, Answered, SessionOps
  <2>2. PICK t \in tokens : ~t.revoked /\ t.user = req'[r].row /\ t.id = req'[r].token
    BY <1>2, <2>1 DEF Moves, SessionOps
  <2>3. ~\E s \in tokens : s.user = req'[r].row /\ s.parent = req'[r].token
    BY <2>2 DEF RotationIsAtomic
  <2> QED
    BY <1>2, <2>1, <2>2, <2>3, CommittedStays DEF MintersCommitted
<1> QED
  BY <1>1, <1>2

\* A row of before and the one that is minted now.
LEMMA RotationOfNew ==
  ASSUME RInv, NEW r \in Req, Moves(r), NEW x \in tokens', NEW y \in tokens', Fresh(r, x),
         NEW t \in tokens, Same(y, t), x.user = y.user, x.parent = y.parent, x.parent # Never
  PROVE  Overlap(y.id, x.id)'
<1> USE DEF RInv
<1>1. /\ x.id = r /\ x.user = req[r].row /\ x.parent = req[r].token
      /\ pc[r] = "read" /\ req[r].op = "refresh"
  BY DEF Fresh, Minted
<1>2. t.id \notin before[r] /\ t.id \in Req /\ Committed(t.id)
  BY <1>1 DEF Same, RefreshSaw, MintersCommitted
<1>3. Overlap(t.id, r)
  <2>1. pc[r] \in Open /\ t.id # r /\ pc[t.id] # "new"
    BY <1>1, <1>2 DEF Committed, Open
  <2> QED
    BY <1>2, <2>1, OpenOverlaps DEF UInv
<1> QED
  BY <1>1, <1>2, <1>3, OverlapStays DEF UInv, Moves, Same

LEMMA MovesKeepsRotation ==
  ASSUME RInv, UInv', Distinct(tokens'), NEW r \in Req, Moves(r)
  PROVE  RotationIsAtomic'
<1> USE DEF RInv
<1>1. \A x \in tokens' : (\E t \in tokens : Same(x, t)) \/ Fresh(r, x)
  BY DEF Moves, TokensChange
<1>2. \A x : Fresh(r, x) => /\ x.id = r /\ x.user = req[r].row
                            /\ x.parent # Never => /\ req[r].op = "refresh" /\ pc[r] = "read"
                                                   /\ x.parent = req[r].token
  BY DEF Fresh, Minted
<1>3. (\E x : Fresh(r, x)) => pc[r] \in Open /\ ~Committed(r) /\ pc'[r] = "committed"
  BY DEF Fresh, Open, Committed
<1>4. ASSUME NEW x \in tokens', NEW p \in tokens', p.user = x.user, p.id = x.parent
      PROVE  p.revoked
  <2>1. ASSUME NEW t \in tokens, Same(x, t)
        PROVE  p.revoked
    <3>1. ASSUME NEW s \in tokens, Same(p, s)
          PROVE  p.revoked
      BY <1>4, <2>1, <3>1 DEF Same, RotationIsAtomic
    <3>2. ~Fresh(r, p)
      BY <1>2, <1>3, <1>4, <2>1 DEF Same, MintersCommitted
    <3> QED
      BY <1>1, <3>1, <3>2
  <2>2. CASE Fresh(r, x)
    <3>1. x.parent # Never
      BY <1>4, IdAssumption DEF UInv, Token
    <3>2. req[r].op = "refresh" /\ pc[r] = "read" /\ x.parent = req[r].token
          /\ x.user = req[r].row
      BY <1>2, <2>2, <3>1
    <3>3. p.revoked \/ p.id = r
      BY <1>3, <1>4, <2>2, <3>2 DEF Moves, TokensChange
    <3>4. p.id # r
      BY <1>3, <1>4, <2>2, <3>2 DEF RefreshSaw
    <3> QED
      BY <3>3, <3>4
  <2> QED
    BY <1>1, <2>1, <2>2
<1>5. ASSUME NEW x \in tokens', NEW y \in tokens' \ {x}, x.parent # Never,
             y.user = x.user, y.parent = x.parent
      PROVE  Overlap(y.id, x.id)'
  <2>1. ASSUME NEW t \in tokens, NEW s \in tokens, Same(x, t), Same(y, s)
        PROVE  Overlap(y.id, x.id)'
    <3>1. t # s
      BY <1>5, <2>1 DEF Same, Distinct
    <3>2. Overlap(s.id, t.id) /\ s.id \in Req /\ t.id \in Req
      BY <1>5, <2>1, <3>1 DEF Same, RotationIsAtomic, MintersCommitted
    <3> QED
      BY <2>1, <3>2, OverlapStays DEF UInv, Moves, Same
  <2>2. ASSUME Fresh(r, x), NEW s \in tokens, Same(y, s)
        PROVE  Overlap(y.id, x.id)'
    BY <1>5, <2>2, RotationOfNew
  <2>3. ASSUME Fresh(r, y), NEW t \in tokens, Same(x, t)
        PROVE  Overlap(y.id, x.id)'
    <3>1. Overlap(x.id, y.id)'
      BY <1>5, <2>3, RotationOfNew
    <3> QED
      BY <3>1 DEF Overlap
  <2>4. ~(Fresh(r, x) /\ Fresh(r, y))
    BY <1>5 DEF Fresh
  <2> QED
    BY <1>1, <2>1, <2>2, <2>3, <2>4
<1> QED
  BY <1>4, <1>5 DEF RotationIsAtomic

LEMMA RInvKept ==
  ASSUME RInv, [Next]_bvars
  PROVE  RInv'
<1>1. UInv'
  BY UKeeps DEF RInv
<1>2. CASE Still
  BY <1>1, <1>2
     DEF Still, requests, keys, RInv, Distinct, MintersCommitted, RefreshSaw, RotationIsAtomic,
         Committed, Overlap
<1>3. ASSUME NEW r \in Req, Moves(r)
      PROVE  RInv'
  <2>1. Distinct(tokens')
    <3>1. CASE \A t \in tokens : t.id # r
      BY <1>3, <3>1 DEF Moves, TokensChange, RInv
    <3>2. CASE \E t \in tokens : t.id = r
      <4>1. Committed(r)
        BY <3>2 DEF RInv, MintersCommitted
      <4>2. UNCHANGED tokens
        BY <1>3, <4>1 DEF Moves, Comes, GoesOn, IsLost, Committed, Open
      <4> QED
        BY <4>2 DEF RInv
    <3> QED
      BY <3>1, <3>2
  <2> QED
    BY <1>1, <1>3, <2>1, MovesKeepsMinters, MovesKeepsRefresh, MovesKeepsRotation DEF RInv
<1> QED
  BY <1>2, <1>3, MovesFacts DEF RInv

(***************************************************************************)
(* A refresh token that was exchanged is revoked from then on, and two     *)
(* tokens come of one only through requests that overlapped: the UPDATE    *)
(* that revokes and the INSERT of the successor are one transaction, and   *)
(* no other statement makes a revoked row active.                          *)
(***************************************************************************)
THEOREM RotationHolds == Spec => []RotationIsAtomic
<1>1. RInv => RotationIsAtomic
  BY DEF RInv
<1> QED
  BY <1>1, RInvInit, RInvKept, PTL DEF Spec

-----------------------------------------------------------------------------
(***************************************************************************)
(* Ending sessions.  The invariant adds that a request that has listed the *)
(* tokens it will revoke has listed every active one that is older than it.*)
(***************************************************************************)
ListComplete ==
  \A r \in Req :
    pc[r] = "locked" /\ req[r].op \in RevokeOps =>
      \A t \in Active(req[r].row) :
        t.id \in before[r] \cup {Old} => \E x \in loaded[r].list : x.id = t.id

EInv == UInv /\ ListComplete /\ SessionsEnd

LEMMA EInvInit == Init => EInv
<1> SUFFICES ASSUME Init
             PROVE  EInv
  OBVIOUS
<1>1. \A r \in Req : pc[r] = "new"
  BY DEF Init, SessionsInit, RolesInit, RequestsInit
<1> QED
  BY <1>1, RInvInit DEF RInv, EInv, ListComplete, SessionsEnd, Committed

LEMMA RevokesInOrder ==
  ASSUME UInv, NEW r \in Req, Proceeds(r), req[r].op \in RevokeOps
  PROVE  /\ pc'[r] = "locked" => RevokeList(r)
         /\ pc'[r] = "committed" => RevokeCommit(r)
<1> USE DEF UInv, RevokeOps, StatusOps, TotpOps, At
<1>1. CASE UseDelete(r)
  BY <1>1, GoesFacts DEF UseDelete, Open, Answered
<1>2. CASE RevokeList(r)
  BY <1>2, KeepsFacts DEF RevokeList, Open, Answered
<1>3. CASE RevokeCommit(r)
  BY <1>3, GoesFacts DEF RevokeCommit, Open, Answered
<1>4. ~(\/ RegisterInsert(r) \/ RegisterCommit(r) \/ LoginCommit(r) \/ MfaCommit(r)
        \/ RefreshCommit(r) \/ VerifyCommit(r) \/ SetupCommit(r) \/ TotpCommit(r))
  BY DEF RegisterInsert, RegisterCommit, LoginCommit, MfaCommit, RefreshCommit, VerifyCommit,
         SetupCommit, TotpCommit
<1> QED
  BY <1>1, <1>2, <1>3, <1>4 DEF Proceeds, SessionContinue

LEMMA RevokeListed ==
  ASSUME UInv, NEW r \in Req, RevokeList(r)
  PROVE  /\ UNCHANGED <<tokens, req, before>>
         /\ \A t \in Active(req[r].row) : \E x \in loaded'[r].list : x.id = t.id
<1>1. loaded'[r] = [list |-> Listed(r), was |-> loaded[r]]
  BY KeepsFacts DEF RevokeList, UInv, At, Open, Answered
<1> QED
  BY <1>1 DEF RevokeList, Keeps, Listed, keys

LEMMA RevokeDone ==
  ASSUME UInv, ListComplete, NEW r \in Req, RevokeCommit(r)
  PROVE  /\ UNCHANGED <<req, before>>
         /\ \A x \in tokens' : x.user = req[r].row /\ ~x.revoked => x.id \notin before[r] \cup {Old}
<1> DEFINE ids == {t.id : t \in loaded[r].list}
           T   == {t \in tokens : t.user = req[r].row /\ t.id \in ids}
<1>1. tokens' = Revoked(T) /\ pc[r] = "locked" /\ req[r].op \in RevokeOps
  BY DEF RevokeCommit, At
<1>2. \A x \in tokens' : \E t \in tokens : Same(x, t) /\ (t \in T => x.revoked)
  BY <1>1, RevokedFacts DEF UInv
<1>3. ASSUME NEW x \in tokens', x.user = req[r].row, ~x.revoked
      PROVE  x.id \notin before[r] \cup {Old}
  <2> PICK t \in tokens : Same(x, t) /\ (t \in T => x.revoked)
    BY <1>2
  <2>1. t \in Active(req[r].row) /\ t.id \notin ids
    BY <1>3 DEF Same, Active
  <2> QED
    BY <1>1, <2>1 DEF ListComplete, Same
<1> QED
  BY <1>3 DEF RevokeCommit, Goes

\* What is active after a step of r was active before it, or is new.
LEMMA ActiveAfter ==
  ASSUME UInv, NEW r \in Req, Moves(r), NEW q \in Req, NEW x \in tokens', ~x.revoked,
         x.id \in before[q] \cup {Old}
  PROVE  \E t \in Active(x.user) : t.id = x.id
<1>1. ~Fresh(r, x)
  <2>1. ASSUME Fresh(r, x)
        PROVE  x.id = r /\ r \notin before[q]
    BY <2>1 DEF Fresh, Minted, UInv, HInv, Open, Answered
  <2> QED
    BY <2>1, IdAssumption
<1> QED
  BY <1>1 DEF Moves, TokensChange, Same, Active

LEMMA EInvKept ==
  ASSUME EInv, [Next]_bvars
  PROVE  EInv'
<1>1. UInv'
  BY UKeeps DEF EInv
<1>2. CASE Still
  BY <1>1, <1>2 DEF Still, requests, keys, EInv, ListComplete, SessionsEnd, Active, Committed
<1>3. ASSUME NEW m \in Req, Moves(m)
      PROVE  ListComplete' /\ SessionsEnd'
  <2> USE DEF EInv
  <2>1. ASSUME NEW r \in Req, r # m
        PROVE  /\ pc'[r] = pc[r] /\ req'[r] = req[r]
               /\ loaded'[r] = loaded[r] /\ before'[r] = before[r]
    BY <1>3, <2>1 DEF Moves, Takes
  <2>2. ASSUME req'[m].op \in RevokeOps, pc'[m] \in {"locked", "committed"}
        PROVE  GoesOn(m) /\ req[m].op \in RevokeOps /\ Proceeds(m)
    <3>1. GoesOn(m)
      BY <1>3, <2>2 DEF Moves, Comes, IsLost, SessionOps
    <3>2. req[m].op \in RevokeOps
      BY <2>2, <3>1 DEF GoesOn
    <3> QED
      BY <1>3, <3>1, <3>2 DEF Moves, SessionOps
  <2>3. ASSUME NEW r \in Req, pc'[r] = "locked", req'[r].op \in RevokeOps,
               NEW x \in tokens', x.user = req'[r].row, ~x.revoked, x.id \in before'[r] \cup {Old}
        PROVE  \E y \in loaded'[r].list : y.id = x.id
    <3>1. CASE r # m
      BY <1>3, <2>1, <2>3, <3>1, ActiveAfter DEF ListComplete
    <3>2. CASE r = m
      BY <2>2, <2>3, <3>2, RevokesInOrder, RevokeListed DEF Active
    <3> QED
      BY <3>1, <3>2
  <2>4. ASSUME NEW r \in Req, pc'[r] = "committed", req'[r].op \in RevokeOps,
               NEW x \in tokens', x.user = req'[r].row, ~x.revoked
        PROVE  x.id \notin before'[r] \cup {Old}
    <3>1. CASE r # m
      BY <1>3, <2>1, <2>4, <3>1, ActiveAfter DEF SessionsEnd, Committed
    <3>2. CASE r = m
      BY <2>2, <2>4, <3>2, RevokesInOrder, RevokeDone
    <3> QED
      BY <3>1, <3>2
  <2> QED
    BY <2>3, <2>4 DEF ListComplete, SessionsEnd, Active, Committed
<1> QED
  BY <1>1, <1>2, <1>3, MovesFacts DEF EInv

(***************************************************************************)
(* Suspending, banning, deleting or disabling somebody, revoking his       *)
(* sessions and resetting his password leave no session that existed when  *)
(* the request arrived, however they interleave with logins and refreshes. *)
(***************************************************************************)
THEOREM SessionsEndHolds == Spec => []SessionsEnd
<1>1. EInv => SessionsEnd
  BY DEF EInv
<1> QED
  BY <1>1, EInvInit, EInvKept, PTL DEF Spec

-----------------------------------------------------------------------------
(***************************************************************************)
(* Secrets that work once.  A link, an OTP or a recovery code belongs to a *)
(* request that has issued it and will not do so again; who has gone past  *)
(* the DELETE has taken the secret out of Redis, unless Redis failed; who  *)
(* has committed a second factor has marked the code.  So one that finds a *)
(* secret was there before the other was answered.                         *)
(***************************************************************************)
Issued(v) == v \in Req => pc[v] # "new" /\ ~(pc[v] = "read" /\ req[v].op = "register")

UsesLink(r) == req[r].op \in {"reset", "verify"}
UsesCode(r) == req[r].op = "mfa" /\ req[r].code # Never

Gone(k) == k \in kept \/ k \notin redis

LinksIssued == \A k \in redis : Issued(k.value)

LinksGone ==
  \A q \in Req : UsesLink(q) =>
    /\ req[q].kind \in Kind /\ Issued(req[q].value)
    /\ pc[q] # "got" => Gone(Secret(req[q]))

LinksOnce ==
  \A r \in Req : \A q \in before[r] :
    UsesLink(q) /\ UsesLink(r) /\ Secret(req[q]) = Secret(req[r]) => Secret(req[q]) \in kept

Code == [id : Id, user : User, used : BOOLEAN]

CodesIssued ==
  /\ codes \subseteq Code
  /\ \A x \in codes : x.id \in Req => Committed(x.id)
  /\ \A q \in Req : UsesCode(q) /\ req[q].code \in Req => Committed(req[q].code)

CodesMarked ==
  \A q \in Req : Committed(q) /\ UsesCode(q) =>
    \A x \in codes : x.user = req[q].row /\ x.id = req[q].code => x.used

CodesOnce ==
  \A r \in Req : \A q \in before[r] :
    ~(UsesCode(q) /\ UsesCode(r) /\ req[q].row = req[r].row /\ req[q].code = req[r].code)

SInv ==
  UInv /\ LinksIssued /\ LinksGone /\ LinksOnce /\ CodesIssued /\ CodesMarked /\ CodesOnce

LEMMA SInvInit == Init => SInv
<1> SUFFICES ASSUME Init
             PROVE  SInv
  OBVIOUS
<1>1. \A r \in Req : pc[r] = "new" /\ req[r] = NoRequest /\ before[r] = {}
  BY DEF Init, SessionsInit, RolesInit, RequestsInit
<1>2. NoRequest.op = "none"
  BY DEF NoRequest
<1>3. \A r \in Req : ~UsesLink(r) /\ ~UsesCode(r)
  BY <1>1, <1>2 DEF UsesLink, UsesCode
<1>4. /\ \A k \in redis : k.value = Old
      /\ \A x \in codes : x.id = Old
  BY DEF Init, SessionsInit
<1>5. codes \subseteq Code
  <2>1. \A x \in codes : \E u \in User : x = [id |-> Old, user |-> u, used |-> FALSE]
    BY DEF Init, SessionsInit
  <2>2. \A u \in User : [id |-> Old, user |-> u, used |-> FALSE] \in Code
    BY DEF Code, Id
  <2> QED
    BY <2>1, <2>2
<1> QED
  BY <1>1, <1>3, <1>4, <1>5, IdAssumption, RInvInit
     DEF RInv, SInv, LinksIssued, Issued, LinksGone, LinksOnce, CodesIssued, CodesMarked, CodesOnce

\* The invariant says what the property needs.
LEMMA SInvImplies == SInv => SecretsWorkOnce
<1> SUFFICES ASSUME SInv, NEW q \in Req, NEW r \in Req, q # r, NEW k \in Uses(q) \cap Uses(r)
             PROVE  k \in kept \/ Overlap(q, r)
  BY DEF SecretsWorkOnce
<1>1. \A o \in {q, r} :
        /\ Committed(o)
        /\ \/ UsesLink(o) /\ k = Secret(req[o])
           \/ /\ UsesCode(o)
              /\ k = [kind |-> "recovery", user |-> req[o].row, value |-> req[o].code]
  BY DEF Uses, UsesLink, UsesCode, Secret
<1>2. ASSUME NEW o \in {q, r}, UsesLink(o), k = Secret(req[o])
      PROVE  k.kind # "recovery"
  BY <1>2 DEF SInv, LinksGone, Kind, Secret
<1>3. CASE UsesLink(q) /\ k = Secret(req[q])
  <2>1. UsesLink(r) /\ k = Secret(req[r])
    BY <1>1, <1>2, <1>3
  <2> QED
    BY <1>1, <1>3, <2>1 DEF SInv, LinksOnce, Overlap, Committed
<1>4. CASE UsesCode(q) /\ k = [kind |-> "recovery", user |-> req[q].row, value |-> req[q].code]
  <2>1. UsesCode(r) /\ k = [kind |-> "recovery", user |-> req[r].row, value |-> req[r].code]
    BY <1>1, <1>2, <1>4
  <2>2. req[q].row = req[r].row /\ req[q].code = req[r].code
    BY <1>4, <2>1
  <2> QED
    BY <1>1, <1>4, <2>1, <2>2 DEF SInv, CodesOnce, Overlap, Committed
<1> QED
  BY <1>1, <1>3, <1>4

-----------------------------------------------------------------------------
\* What the steps do to the secrets in Redis and to the codes.
SecretsStep(r) ==
  /\ kept \subseteq kept'
  /\ \/ redis' \subseteq redis
     \/ /\ ~Issued(r) /\ Issued(r)'
        /\ \E kind \in Kind, u \in User : redis' \subseteq redis \cup {[kind |-> kind, user |-> u, value |-> r]}
  /\ pc[r] = "got" /\ UsesLink(r) /\ GoesOn(r) => Gone(Secret(req[r]))'

CodesStep(r) ==
  /\ codes' \subseteq Code
  /\ \A x \in codes' : \/ \E y \in codes : x.id = y.id /\ x.user = y.user /\ (y.used => x.used)
                       \/ x.id = r /\ pc[r] \in Open /\ pc'[r] = "committed"
  /\ GoesOn(r) /\ pc'[r] = "committed" /\ UsesCode(r) =>
       \A x \in codes' : x.user = req[r].row /\ x.id = req[r].code => x.used

LEMMA UseDeleted ==
  ASSUME HInv, NEW r \in Req, UseDelete(r)
  PROVE  SecretsStep(r)
<1> DEFINE k == Secret(req[r])
<1>1. req' = req
  BY DEF UseDelete, Goes
<1>2. SameKey(k, req[r].kind, req[r].row, req[r].value)
  BY DEF SameKey, Secret
<1>3. CASE /\ redis' = {x \in redis : ~SameKey(x, req[r].kind, req[r].row, req[r].value)}
           /\ UNCHANGED kept
  <2>1. k \notin redis'
    BY <1>2, <1>3
  <2> QED
    BY <1>1, <1>3, <2>1 DEF SecretsStep, Gone
<1>4. CASE kept' = kept \cup {k} /\ UNCHANGED redis
  BY <1>1, <1>4 DEF SecretsStep, Gone
<1> QED
  BY <1>3, <1>4 DEF UseDelete, Secret

LEMMA SecretsProceed ==
  ASSUME UInv, NEW r \in Req, Proceeds(r)
  PROVE  SecretsStep(r)
<1> USE DEF UInv, At
<1>1. CASE UseDelete(r)
  BY <1>1, UseDeleted
<1>2. CASE RegisterInsert(r)
  <2>1. CASE UNCHANGED redis
    BY <1>2, <2>1 DEF RegisterInsert, SecretsStep
  <2>2. CASE /\ Goes(r, "flushed")
             /\ redis' = redis \cup {[kind |-> "email", user |-> req[r].row, value |-> r]}
    <3>1. ~Issued(r) /\ Issued(r)' /\ "email" \in Kind /\ pc[r] = "read"
      BY <1>2, <2>2, GoesFacts DEF RegisterInsert, Issued, Kind, Open
    <3>2. req[r].row \in User
      BY <1>2 DEF RegisterInsert, SessionOps
    <3> QED
      BY <1>2, <2>2, <3>1, <3>2 DEF RegisterInsert, SecretsStep
  <2> QED
    BY <1>2, <2>1, <2>2 DEF RegisterInsert
<1>3. ASSUME UNCHANGED <<redis, kept>>, ~(pc[r] = "got" /\ UsesLink(r) /\ GoesOn(r))
      PROVE  SecretsStep(r)
  BY <1>3 DEF SecretsStep
<1>4. CASE RevokeList(r) \/ RevokeCommit(r) \/ VerifyCommit(r)
  BY <1>3, <1>4 DEF RevokeList, RevokeCommit, VerifyCommit
<1>5. CASE \/ RegisterCommit(r) \/ LoginCommit(r) \/ MfaCommit(r) \/ RefreshCommit(r)
           \/ SetupCommit(r) \/ TotpCommit(r)
  BY <1>3, <1>5 DEF RegisterCommit, LoginCommit, MfaCommit, RefreshCommit, SetupCommit, TotpCommit
<1> QED
  BY <1>1, <1>2, <1>4, <1>5 DEF Proceeds, SessionContinue

LEMMA CodesProceed ==
  ASSUME UInv, codes \subseteq Code, NEW r \in Req, Proceeds(r)
  PROVE  CodesStep(r)
<1> USE DEF At, TotpOps, StatusOps, RevokeOps
<1>1. CASE MfaCommit(r)
  <2> DEFINE own  == {x \in codes : x.user = req[r].row /\ x.id = req[r].code}
             used == {[x EXCEPT !.used = TRUE] : x \in own}
  <2>1. CASE Fails(r, "failed") /\ UNCHANGED codes
    <3>1. pc'[r] # "committed"
      BY <1>1, <2>1, FailsFacts DEF MfaCommit, Open, UInv
    <3> QED
      BY <2>1, <3>1 DEF CodesStep
  <2>2. CASE codes' = (codes \ own) \cup used
    <3>1. \A x \in used : x \in Code /\ \E y \in own : x.id = y.id /\ x.user = y.user /\ x.used
      BY DEF Code
    <3> QED
      BY <2>2, <3>1 DEF CodesStep
  <2> QED
    BY <1>1, <2>1, <2>2 DEF MfaCommit, keys
<1>2. ASSUME codes' \subseteq codes \cup {[id |-> r, user |-> req[r].row, used |-> FALSE]},
             pc[r] \in Open, pc'[r] = "committed", req[r].op \in TotpOps
      PROVE  CodesStep(r)
  <2>1. [id |-> r, user |-> req[r].row, used |-> FALSE] \in Code
    BY <1>2 DEF Code, Id, UInv, SessionOps
  <2>2. \A x \in codes' : x \in codes \/ x.id = r
    BY <1>2
  <2>3. codes' \subseteq Code /\ ~UsesCode(r)
    BY <1>2, <2>1 DEF UsesCode
  <2> QED
    BY <1>2, <2>2, <2>3 DEF CodesStep
<1>3. ASSUME UNCHANGED codes, req[r].op # "mfa"
      PROVE  CodesStep(r)
  BY <1>3 DEF CodesStep, UsesCode
<1>4. CASE SetupCommit(r)
  <2>1. CASE Goes(r, "committed")
    BY <1>2, <1>4, <2>1, GoesFacts DEF SetupCommit, Open, Answered, UInv
  <2>2. CASE UNCHANGED codes
    BY <1>3, <1>4, <2>2 DEF SetupCommit
  <2> QED
    BY <1>4, <2>1, <2>2 DEF SetupCommit
<1>5. CASE TotpCommit(r)
  <2>1. pc[r] \in Open /\ pc'[r] = "committed" /\ req[r].op \in TotpOps
    BY <1>5, GoesFacts DEF TotpCommit, Open, Answered, UInv
  <2> QED
    BY <1>2, <1>5, <2>1 DEF TotpCommit
<1>6. CASE RegisterInsert(r) \/ RegisterCommit(r) \/ LoginCommit(r) \/ RefreshCommit(r)
  BY <1>3, <1>6 DEF RegisterInsert, RegisterCommit, LoginCommit, RefreshCommit, keys
<1>7. CASE RevokeList(r) \/ RevokeCommit(r) \/ UseDelete(r) \/ VerifyCommit(r)
  BY <1>3, <1>7 DEF RevokeList, RevokeCommit, UseDelete, VerifyCommit, keys
<1> QED
  BY <1>1, <1>4, <1>5, <1>6, <1>7 DEF Proceeds, SessionContinue

\* Every step of a request, as far as secrets and codes are concerned.
Works(r) ==
  /\ Takes(r) /\ SecretsStep(r) /\ CodesStep(r)
  /\ Comes(r) \/ GoesOn(r) \/ IsLost(r)
  /\ Comes(r) =>
       /\ UsesLink(r)' => /\ req'[r].kind \in Kind /\ pc'[r] = "got"
                          /\ Secret(req'[r]) \in redis /\ redis' = redis
       /\ UsesCode(r)' => /\ pc'[r] = "read"
                          /\ \E x \in codes : x.user = req'[r].row /\ x.id = req'[r].code /\ ~x.used

LEMMA WorksFacts ==
  ASSUME SInv, [Next]_bvars
  PROVE  Still \/ \E r \in Req : Works(r)
<1> USE DEF SInv
<1>1. ASSUME NEW r \in Req, UNCHANGED codes, UsesLink(r) \/ UsesCode(r) => ~GoesOn(r)
      PROVE  CodesStep(r)
  BY <1>1 DEF CodesStep, CodesIssued
<1>2. ASSUME NEW r \in Req, Quiet(r)
      PROVE  Works(r)
  <2>1. UsesLink(r) \/ UsesCode(r) => ~GoesOn(r)
    <3>1. GoesOn(r) => req[r].op \notin SessionOps
      BY <1>2, NoneOfThem DEF Quiet, GoesOn, Comes, IsLost, Open
    <3> QED
      BY <3>1 DEF UsesLink, UsesCode, SessionOps, RevokeOps
  <2>2. SecretsStep(r)
    BY <1>2, <2>1 DEF Quiet, SecretsStep
  <2>3. Comes(r) => req'[r].op \notin {"reset", "verify", "mfa"}
    BY <1>2 DEF Quiet, Comes, GoesOn, IsLost, Open, SessionOps, RevokeOps
  <2>4. Takes(r) /\ (Comes(r) \/ GoesOn(r) \/ IsLost(r))
    BY <1>2 DEF Quiet
  <2>5. CodesStep(r)
    BY <1>1, <1>2, <2>1 DEF Quiet, keys
  <2> QED
    BY <2>2, <2>3, <2>4, <2>5 DEF Works, UsesLink, UsesCode
<1>3. ASSUME NEW r \in Req, Begins(r)
      PROVE  Works(r)
  <2>1. ~GoesOn(r) /\ Comes(r) /\ Takes(r)
    BY <1>3 DEF Begins, Comes, GoesOn, Open
  <2>2. SecretsStep(r)
    <3>1. CASE UNCHANGED redis
      BY <1>3, <2>1, <3>1 DEF Begins, SecretsStep
    <3>2. CASE Sends(r)
      <4>1. ~Issued(r) /\ Issued(r)'
        BY <2>1, <3>2 DEF Issued, Comes, Sends, Open, Answered
      <4> QED
        BY <1>3, <2>1, <3>2, <4>1 DEF Begins, SecretsStep, Sends
    <3> QED
      BY <1>3, <3>1, <3>2 DEF Begins
  <2>3. CodesStep(r)
    BY <1>1, <1>3, <2>1 DEF Begins, keys
  <2>4. UsesLink(r)' => /\ req'[r].kind \in Kind /\ pc'[r] = "got"
                        /\ Secret(req'[r]) \in redis /\ redis' = redis
    BY <1>3 DEF Begins, Finds, Sends, UsesLink
  <2>5. UsesCode(r)' => /\ pc'[r] = "read"
                        /\ \E x \in codes : x.user = req'[r].row /\ x.id = req'[r].code /\ ~x.used
    BY <1>3 DEF Begins, Finds, UsesCode
  <2> QED
    BY <2>1, <2>2, <2>3, <2>4, <2>5 DEF Works
<1>4. ASSUME NEW r \in Req, Proceeds(r)
      PROVE  Works(r)
  <2>1. ~Comes(r) /\ Takes(r) /\ (GoesOn(r) \/ IsLost(r))
    BY <1>4 DEF Proceeds, Continues, Comes, GoesOn, IsLost, Open
  <2> QED
    BY <1>4, <2>1, SecretsProceed, CodesProceed DEF Works, CodesIssued
<1> QED
  BY <1>2, <1>3, <1>4, StepKinds

LEMMA IssuedStays ==
  ASSUME UInv, NEW r \in Req, Works(r), NEW v, Issued(v)
  PROVE  Issued(v)'
  BY DEF UInv, HInv, Works, Takes, Comes, GoesOn, IsLost, Issued, Open, Answered

LEMMA LinksKept ==
  ASSUME SInv, NEW r \in Req, Works(r)
  PROVE  LinksIssued' /\ LinksGone' /\ LinksOnce'
<1> USE DEF SInv
<1>1. LinksIssued'
  <2> SUFFICES ASSUME NEW k \in redis'
               PROVE  Issued(k.value)'
    BY DEF LinksIssued
  <2>1. k \in redis \/ (k.value = r /\ Issued(r)')
    BY DEF Works, SecretsStep
  <2> QED
    BY <2>1, IssuedStays DEF LinksIssued
<1>2. ASSUME NEW q \in Req, q # r
      PROVE  /\ req'[q] = req[q] /\ pc'[q] = pc[q] /\ before'[q] = before[q]
  BY <1>2 DEF Works, Takes
<1>3. ASSUME NEW k, Gone(k), Issued(k.value)
      PROVE  Gone(k)'
  <2>1. CASE k \in kept
    BY <2>1 DEF Works, SecretsStep, Gone
  <2>2. CASE k \notin redis /\ redis' \subseteq redis
    BY <2>2 DEF Gone
  <2>3. ASSUME k \notin redis, ~Issued(r), NEW kind, NEW u,
               redis' \subseteq redis \cup {[kind |-> kind, user |-> u, value |-> r]}
        PROVE  Gone(k)'
    <3>1. k # [kind |-> kind, user |-> u, value |-> r]
      BY <1>3, <2>3
    <3> QED
      BY <2>3, <3>1 DEF Gone
  <2> QED
    BY <1>3, <2>1, <2>2, <2>3 DEF Works, SecretsStep, Gone
<1>4. \A o : Secret(o).value = o.value
  BY DEF Secret
<1>5. IsLost(r) => ~UsesLink(r)'
  BY DEF IsLost, UsesLink, NoRequest
<1>6. ASSUME NEW q \in Req, UsesLink(q)'
      PROVE  /\ req'[q].kind \in Kind /\ Issued(req[q].value)'
             /\ pc'[q] # "got" => Gone(Secret(req[q]))'
  <2>1. CASE q = r /\ Comes(r)
    <3>1. /\ req'[q].kind \in Kind /\ pc'[q] = "got"
          /\ Secret(req'[q]) \in redis
      BY <1>6, <2>1 DEF Works
    <3>2. Issued(req'[q].value)
      BY <1>4, <3>1 DEF LinksIssued
    <3> QED
      BY <3>1, <3>2, IssuedStays
  <2>2. CASE req'[q] = req[q]
    <3>1. UsesLink(q) /\ req[q].kind \in Kind /\ Issued(req[q].value)
      BY <1>6, <2>2 DEF UsesLink, LinksGone
    <3>2. Issued(req[q].value)'
      BY <2>2, <3>1, IssuedStays
    <3>3. CASE pc[q] # "got"
      <4>1. Gone(Secret(req[q]))
        BY <3>1, <3>3 DEF LinksGone
      <4> QED
        BY <1>3, <1>4, <2>2, <3>1, <3>2, <4>1
    <3>4. CASE pc[q] = "got"
      <4>1. q # r => pc'[q] = "got"
        BY <1>2, <3>4
      <4>2. q = r => GoesOn(r) \/ Comes(r)
        BY <1>5, <1>6 DEF Works
      <4>3. q = r /\ GoesOn(r) => Gone(Secret(req[q]))'
        BY <3>1, <3>4 DEF Works, SecretsStep
      <4> QED
        BY <2>1, <2>2, <3>1, <3>2, <4>1, <4>2, <4>3
    <3> QED
      BY <3>3, <3>4
  <2> QED
    BY <1>2, <1>5, <1>6, <2>1, <2>2 DEF Works, GoesOn
<1>7. ASSUME NEW o \in Req, NEW q \in before'[o], UsesLink(q)', UsesLink(o)',
             Secret(req'[q]) = Secret(req'[o])
      PROVE  Secret(req'[q]) \in kept'
  <2>1. q \in Req
    BY DEF Works, Takes
  <2>2. CASE o = r /\ Comes(r)
    <3>1. q # r /\ pc[q] \in Answered
      BY <2>2, <1>7 DEF Comes, Open, Answered
    <3>2. UsesLink(q) /\ req'[q] = req[q]
      BY <1>2, <1>7, <2>1, <3>1 DEF UsesLink
    <3>3. Gone(Secret(req[q]))
      BY <2>1, <3>1, <3>2 DEF LinksGone, Answered
    <3>4. Secret(req'[o]) \in redis
      BY <1>7, <2>2 DEF Works
    <3> QED
      BY <1>7, <3>2, <3>3, <3>4 DEF Gone, Works, SecretsStep
  <2>3. CASE o # r \/ ~Comes(r)
    <3>1. before'[o] = before[o] /\ pc[q] \in Answered
      BY <1>2, <2>3 DEF Works, GoesOn, IsLost, UInv, HInv
    <3>2. req'[q] = req[q] /\ req'[o] = req[o]
      BY <1>2, <1>5, <1>7, <2>1, <2>3, <3>1
         DEF Works, GoesOn, Comes, IsLost, Open, Answered
    <3> QED
      BY <1>7, <3>1, <3>2 DEF LinksOnce, UsesLink, Works, SecretsStep
  <2> QED
    BY <2>2, <2>3
<1> QED
  BY <1>1, <1>6, <1>7 DEF LinksGone, LinksOnce

LEMMA CodesKept ==
  ASSUME SInv, NEW r \in Req, Works(r)
  PROVE  CodesIssued' /\ CodesMarked' /\ CodesOnce'
<1> USE DEF SInv
<1>1. ASSUME NEW q \in Req, q # r
      PROVE  req'[q] = req[q] /\ pc'[q] = pc[q] /\ before'[q] = before[q]
  BY <1>1 DEF Works, Takes
<1>2. ASSUME NEW q \in Req, Committed(q)
      PROVE  Committed(q)' /\ req'[q] = req[q]
  BY <1>1, <1>2 DEF Works, Takes, Comes, GoesOn, IsLost, Committed, Open
<1>3. IsLost(r) => ~UsesCode(r)'
  BY DEF IsLost, UsesCode, NoRequest
<1>4. ASSUME NEW x \in codes', x.id \in Req
      PROVE  Committed(x.id)'
  BY <1>2, <1>4 DEF Works, CodesStep, CodesIssued, Committed
<1>5. ASSUME NEW q \in Req, UsesCode(q)'
      PROVE  \/ q = r /\ Comes(r)
             \/ UsesCode(q) /\ req'[q] = req[q] /\ (q = r => GoesOn(r))
  BY <1>1, <1>3, <1>5 DEF Works, GoesOn, UsesCode
<1>6. ASSUME NEW q \in Req, UsesCode(q)', req'[q].code \in Req
      PROVE  Committed(req[q].code)'
  <2>1. CASE q = r /\ Comes(r)
    BY <1>2, <1>6, <2>1 DEF Works, CodesIssued
  <2>2. CASE UsesCode(q) /\ req'[q] = req[q]
    BY <1>2, <1>6, <2>2 DEF CodesIssued
  <2> QED
    BY <1>5, <1>6, <2>1, <2>2
<1>7. ASSUME NEW q \in Req, Committed(q)', UsesCode(q)',
             NEW x \in codes', x.user = req'[q].row, x.id = req'[q].code
      PROVE  x.used
  <2>1. ~(q = r /\ Comes(r))
    BY <1>7 DEF Works, Committed
  <2>2. UsesCode(q) /\ req'[q] = req[q] /\ (q = r => GoesOn(r))
    BY <1>5, <1>7, <2>1
  <2>3. CASE q = r
    BY <1>7, <2>2, <2>3 DEF Works, CodesStep, Committed
  <2>4. CASE q # r
    <3>1. Committed(q)
      BY <1>1, <1>7, <2>4 DEF Committed
    <3>2. ~(x.id = r /\ pc[r] \in Open)
      BY <1>7, <2>2 DEF CodesIssued, Committed, Open
    <3> QED
      BY <1>7, <2>2, <3>1, <3>2 DEF Works, CodesStep, CodesMarked
  <2> QED
    BY <2>3, <2>4
<1>8. ASSUME NEW o \in Req, NEW q \in before'[o], UsesCode(q)', UsesCode(o)',
             req'[q].row = req'[o].row, req'[q].code = req'[o].code
      PROVE  FALSE
  <2>1. q \in Req
    BY DEF Works, Takes
  <2>2. CASE o = r /\ Comes(r)
    <3>1. q # r /\ pc[q] \in Answered
      BY <1>8, <2>2 DEF Comes, Open, Answered
    <3>2. UsesCode(q) /\ req'[q] = req[q]
      BY <1>5, <1>8, <2>1, <3>1
    <3>3. Committed(q)
      BY <2>1, <3>1, <3>2 DEF UInv, UsesCode, SessionOps, Answered, Committed
    <3>4. \E x \in codes : x.user = req'[o].row /\ x.id = req'[o].code /\ ~x.used
      BY <1>8, <2>2 DEF Works
    <3> QED
      BY <1>8, <2>1, <3>2, <3>3, <3>4 DEF CodesMarked
  <2>3. CASE ~(o = r /\ Comes(r))
    <3>1. UsesCode(o) /\ req'[o] = req[o]
      BY <1>5, <1>8, <2>3
    <3>2. before'[o] = before[o] /\ pc[q] \in Answered
      BY <1>1, <2>3 DEF Works, GoesOn, IsLost, UInv, HInv
    <3>3. UsesCode(q) /\ req'[q] = req[q]
      BY <1>5, <1>8, <2>1, <3>2 DEF Comes, Answered
    <3> QED
      BY <1>8, <3>1, <3>2, <3>3 DEF CodesOnce
  <2> QED
    BY <2>2, <2>3
<1> QED
  BY <1>4, <1>6, <1>7, <1>8 DEF CodesIssued, CodesMarked, CodesOnce, Works, CodesStep

LEMMA SInvKept ==
  ASSUME SInv, [Next]_bvars
  PROVE  SInv'
<1>1. UInv'
  BY UKeeps DEF SInv
<1>2. CASE Still
  BY <1>1, <1>2
     DEF Still, requests, keys, SInv, LinksIssued, Issued, LinksGone, Gone, LinksOnce,
         CodesIssued, CodesMarked, CodesOnce, UsesLink, UsesCode, Committed, Secret
<1> QED
  BY <1>1, <1>2, WorksFacts, LinksKept, CodesKept DEF SInv

(***************************************************************************)
(* A reset link, a verification link, an OTP and a recovery code work      *)
(* once, unless Redis failed to delete it or the two uses overlapped: the  *)
(* GET and the DELETE are two calls, and a code is read as unused in one   *)
(* statement and marked in another.                                        *)
(***************************************************************************)
THEOREM SecretsHold == Spec => []SecretsWorkOnce
<1> QED
  BY SInvInit, SInvKept, SInvImplies, PTL DEF Spec
=============================================================================
