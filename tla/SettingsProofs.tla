--------------------------- MODULE SettingsProofs ---------------------------
(***************************************************************************)
(* Theorems about Backend, for every set of users, requests, keys and      *)
(* audiences: the configuration with its copy in Redis, and what a         *)
(* campaign that is done says it did.                                      *)
(***************************************************************************)
EXTENDS AccessProofs, FiniteSetTheorems

-----------------------------------------------------------------------------
(***************************************************************************)
(* The cached configuration.  A reader that has not stored its payload     *)
(* holds the committed one or overlaps the write that changed it; a writer *)
(* that has deleted the payload finds at its commit what a reader that     *)
(* overlaps it has stored since, or nothing.                               *)
(***************************************************************************)
Writes(w) == Committed(w) /\ req[w].op \in ConfigOps

Filled == cache # NoPayload => cache.by \in Req

ReaderFresh ==
  \A r \in Req :
    pc[r] = "got" /\ req[r].op = "read_config" =>
      loaded[r].data = Payload \/ \E w \in Req : Writes(w) /\ Overlap(w, r)

WriterCleared ==
  \A w \in Req :
    pc[w] = "locked" /\ req[w].op \in ConfigOps =>
      loaded[w].lost \/ cache = NoPayload \/ Overlap(w, cache.by)

CInv == UInv /\ Filled /\ ReaderFresh /\ WriterCleared /\ CacheCatchesUp

LEMMA CInvInit == Init => CInv
<1> SUFFICES ASSUME Init
             PROVE  CInv
  OBVIOUS
<1>1. cache = NoPayload /\ \A r \in Req : pc[r] = "new"
  BY DEF Init, SettingsInit, SessionsInit, RolesInit, RequestsInit
<1> QED
  BY <1>1, RInvInit DEF RInv, CInv, Filled, ReaderFresh, WriterCleared, CacheCatchesUp

\* Steps that are not about the configuration.
Foreign(r) ==
  /\ Takes(r) /\ UNCHANGED settings
  /\ \/ Comes(r) /\ req'[r].op \notin SettingsOps
     \/ GoesOn(r) /\ req[r].op \notin SettingsOps
     \/ IsLost(r)

LEMMA SettingsKinds ==
  ASSUME UInv, [Next]_bvars
  PROVE  \/ UNCHANGED requests /\ UNCHANGED config /\ cache' \in {cache, NoPayload}
         \/ \E r \in Req : Foreign(r) \/ SettingsStep(r)
<1> USE DEF UInv
<1>1. ASSUME NEW r \in Req, SessionsWithReport(r), UNCHANGED settings
      PROVE  Foreign(r)
  BY <1>1, SessionBelong
     DEF Belongs, Foreign, SettingsOps, ConfigOps, SessionOps, RevokeOps, StatusOps, TotpOps
<1>2. ASSUME NEW r \in Req, RolesStep(r), UNCHANGED settings
      PROVE  Foreign(r)
  BY <1>2, RolesBelong DEF Belongs, Foreign, SettingsOps, ConfigOps, RolesOps, ReviveOps
<1>3. ASSUME NEW r \in Req, ModerationStep(r), UNCHANGED settings
      PROVE  Foreign(r)
  BY <1>3, ModerationFacts
     DEF HasUser, Moderates, Foreign, SettingsOps, ConfigOps, FilesOps, PhotoOps, ReportOps
<1>4. ASSUME NEW r \in Req, CampaignStep(r), UNCHANGED settings
      PROVE  Foreign(r)
  BY <1>4, CampaignBelong DEF Belongs, Foreign, SettingsOps, ConfigOps, CampaignOps
<1>5. ASSUME NEW r \in Req, Rollback(r), UNCHANGED settings
      PROVE  Foreign(r)
  BY <1>5, RollbackBelongs DEF Belongs, Foreign, SettingsOps, ConfigOps, CampaignOps
<1>6. CASE ShareLapses /\ UNCHANGED <<requests, staff, keys, secrets, settings, news>>
  BY <1>6 DEF settings
<1>7. CASE CacheExpires /\ UNCHANGED <<requests, staff, keys, secrets, files, news>>
  BY <1>7 DEF CacheExpires
<1>8. CASE Next
  BY <1>1, <1>2, <1>3, <1>4, <1>5, <1>6, <1>7, <1>8 DEF Next
<1>9. CASE UNCHANGED bvars
  BY <1>9 DEF bvars, settings
<1> QED
  BY <1>8, <1>9

\* What was committed or overlapped stays so, whatever the step.
LEMMA WitnessStays ==
  ASSUME HInv, NEW r \in Req, Advances(r), NEW w \in Req, Writes(w)
  PROVE  /\ Writes(w)' /\ loaded'[w] = loaded[w]
         /\ \A q \in Req : Overlap(w, q) => Overlap(w, q)'
<1>1. w # r
  BY DEF Advances, Writes, Committed, Comes, GoesOn, IsLost, Open
<1> QED
  BY <1>1, OverlapStays DEF Advances, Takes, Writes, Committed

\* What ReaderFresh and WriterCleared say of one request.
ReaderOk(r) ==
  pc[r] = "got" /\ req[r].op = "read_config" =>
    loaded[r].data = Payload \/ \E w \in Req : Writes(w) /\ Overlap(w, r)

WriterOk(w) ==
  pc[w] = "locked" /\ req[w].op \in ConfigOps =>
    loaded[w].lost \/ cache = NoPayload \/ Overlap(w, cache.by)

\* The rows and the cache stay: only r itself can disturb the invariant.
LEMMA OthersKeep ==
  ASSUME CInv, NEW r \in Req, Advances(r), UNCHANGED settings, ReaderOk(r)', WriterOk(r)'
  PROVE  Filled' /\ ReaderFresh' /\ WriterCleared' /\ CacheCatchesUp'
<1> USE DEF CInv, UInv
<1>1. Payload' = Payload /\ UNCHANGED <<config, cache>>
  BY DEF settings, Payload
<1>2. ASSUME NEW q \in Req \ {r}
      PROVE  pc'[q] = pc[q] /\ req'[q] = req[q] /\ loaded'[q] = loaded[q]
  BY DEF Advances, Takes
<1>3. Filled'
  BY <1>1 DEF Filled
<1>4. ASSUME NEW q \in Req \ {r}
      PROVE  ReaderOk(q)'
  BY <1>1, <1>2, WitnessStays DEF ReaderFresh, ReaderOk
<1>5. ASSUME NEW w \in Req \ {r}
      PROVE  WriterOk(w)'
  <2>1. cache.by \in Req /\ Overlap(w, cache.by) => Overlap(w, cache.by)'
    BY <1>1, OverlapStays DEF Advances
  <2> QED
    BY <1>1, <1>2, <2>1 DEF WriterCleared, WriterOk, Filled
<1>6. CacheCatchesUp'
  <2> SUFFICES ASSUME cache # NoPayload, cache.data # Payload
               PROVE  \E w \in Req : Writes(w)' /\ (loaded'[w].lost \/ Overlap(w, cache.by)')
    BY <1>1 DEF CacheCatchesUp, Writes
  <2>1. PICK w \in Req : Writes(w) /\ (loaded[w].lost \/ Overlap(w, cache.by))
    BY DEF CacheCatchesUp, Writes
  <2> QED
    BY <1>1, <2>1, WitnessStays DEF Filled
<1>7. (\A q \in Req : ReaderOk(q)') /\ \A w \in Req : WriterOk(w)'
  BY <1>4, <1>5
<1> QED
  BY <1>3, <1>6, <1>7 DEF ReaderFresh, WriterCleared, ReaderOk, WriterOk

LEMMA ForeignKeeps ==
  ASSUME CInv, NEW r \in Req, Foreign(r)
  PROVE  Filled' /\ ReaderFresh' /\ WriterCleared' /\ CacheCatchesUp'
<1>1. Advances(r) /\ UNCHANGED settings
  BY DEF Foreign, Advances
<1>2. req'[r].op \in SettingsOps => pc'[r] \in {"failed", "integrity"}
  BY DEF Foreign, Comes, GoesOn, IsLost
<1> QED
  BY <1>1, <1>2, OthersKeep DEF ReaderOk, WriterOk, SettingsOps

\* The payload is deleted, or the delete is lost.
LEMMA FlushKeeps ==
  ASSUME CInv, NEW r \in Req, Advances(r), ConfigFlush(r)
  PROVE  Filled' /\ ReaderFresh' /\ WriterCleared' /\ CacheCatchesUp'
<1> USE DEF CInv, UInv
<1>1. CASE Fails(r, "integrity") /\ UNCHANGED cache
  <2>1. pc'[r] = "integrity"
    BY <1>1, FailsFacts DEF ConfigFlush, At, Open
  <2> QED
    BY <1>1, <2>1, OthersKeep DEF ConfigFlush, settings, ReaderOk, WriterOk
<1>2. CASE UNCHANGED cache /\ Keeps(r, [row |-> loaded[r].row, lost |-> TRUE], "locked")
  <2>1. pc'[r] = "locked" /\ loaded'[r].lost
    BY <1>2, KeepsFacts DEF ConfigFlush, At, Open
  <2> QED
    BY <1>2, <2>1, OthersKeep DEF ConfigFlush, settings, ReaderOk, WriterOk
<1>3. CASE cache' = NoPayload /\ Keeps(r, [row |-> loaded[r].row, lost |-> FALSE], "locked")
  <2>1. pc'[r] = "locked" /\ Payload' = Payload
    BY <1>3, KeepsFacts DEF ConfigFlush, At, Open, Payload
  <2>2. ReaderFresh'
    BY <2>1, WitnessStays DEF ReaderFresh, Advances, Takes
  <2> QED
    BY <1>3, <2>2 DEF Filled, WriterCleared, CacheCatchesUp
<1> QED
  BY <1>1, <1>2, <1>3 DEF ConfigFlush

\* Every reader on its way, and the reader that filled the cache after the
\* payload was deleted, overlap the write that commits.
LEMMA CommitKeeps ==
  ASSUME CInv, NEW w \in Req, Advances(w), ConfigCommit(w)
  PROVE  Filled' /\ ReaderFresh' /\ WriterCleared' /\ CacheCatchesUp'
<1> USE DEF CInv, UInv
<1>1. /\ pc[w] = "locked" /\ req[w].op \in ConfigOps /\ cache' = cache
      /\ pc'[w] = "committed" /\ req' = req /\ loaded' = loaded
  BY DEF ConfigCommit, At, Goes, HInv
<1>2. Writes(w)'
  BY <1>1 DEF Writes, Committed
<1>3. \A q \in Req \ {w} : pc'[q] = pc[q]
  BY DEF Advances, Takes
<1>4. \A o, q \in Req : Overlap(o, q) => Overlap(o, q)'
  BY OverlapStays DEF Advances
<1>5. ReaderFresh'
  <2> SUFFICES ASSUME NEW r \in Req, pc'[r] = "got"
               PROVE  \E o \in Req : Writes(o)' /\ Overlap(o, r)'
    BY DEF ReaderFresh, Writes
  <2>1. r # w /\ pc[r] = "got"
    BY <1>1, <1>3
  <2>2. w \notin before[r] /\ pc[w] # "new"
    BY <1>1 DEF HInv, Answered
  <2>3. Overlap(w, r)
    BY <2>1, <2>2, OpenOverlaps DEF Open
  <2> QED
    BY <1>2, <1>4, <2>3
<1>6. ASSUME cache # NoPayload
      PROVE  loaded[w].lost \/ Overlap(w, cache.by)'
  BY <1>1, <1>4, <1>6 DEF WriterCleared, Filled
<1>7. CacheCatchesUp'
  BY <1>1, <1>2, <1>6 DEF CacheCatchesUp, Writes
<1>8. WriterCleared'
  <2> SUFFICES ASSUME NEW o \in Req, pc'[o] = "locked", req[o].op \in ConfigOps
               PROVE  loaded[o].lost \/ cache = NoPayload \/ Overlap(o, cache.by)'
    BY <1>1 DEF WriterCleared
  <2>1. pc[o] = "locked"
    BY <1>1, <1>3
  <2>2. loaded[o].lost \/ cache = NoPayload \/ Overlap(o, cache.by)
    BY <2>1 DEF WriterCleared
  <2> QED
    BY <1>1, <1>4, <2>2 DEF Filled, Overlap
<1> QED
  BY <1>1, <1>5, <1>7, <1>8 DEF Filled

LEMMA FillKeeps ==
  ASSUME CInv, NEW r \in Req, Advances(r), ConfigFill(r)
  PROVE  Filled' /\ ReaderFresh' /\ WriterCleared' /\ CacheCatchesUp'
<1> USE DEF CInv, UInv
<1>1. /\ pc[r] = "got" /\ req[r].op = "read_config" /\ UNCHANGED config
      /\ pc'[r] = "committed" /\ req' = req /\ loaded' = loaded
  BY DEF ConfigFill, At, Goes, HInv
<1>2. CASE UNCHANGED cache
  BY <1>1, <1>2, OthersKeep DEF settings, ReaderOk, WriterOk, ConfigOps
<1>3. CASE cache' = [data |-> loaded[r].data, by |-> r]
  <2>1. cache'.data = loaded[r].data /\ cache'.by = r
    BY <1>3
  <2>2. Payload' = Payload
    BY <1>1 DEF Payload
  <2>3. ReaderFresh'
    BY <1>1, <2>2, WitnessStays DEF ReaderFresh, Advances, Takes
  <2>4. ASSUME NEW w \in Req, pc'[w] = "locked"
        PROVE  Overlap(w, r)'
    <3>1. w # r /\ pc[w] = "locked"
      BY <1>1, <2>4 DEF Advances, Takes
    <3>2. w \notin before[r]
      BY <3>1 DEF HInv, Answered
    <3>3. Overlap(w, r)
      BY <1>1, <3>1, <3>2, OpenOverlaps DEF Open
    <3> QED
      BY <3>3, OverlapStays DEF Advances
  <2>5. CacheCatchesUp'
    <3> SUFFICES ASSUME loaded[r].data # Payload
                 PROVE  \E w \in Req : Writes(w)' /\ Overlap(w, r)'
      BY <1>3, <2>1, <2>2 DEF CacheCatchesUp, Writes
    <3> QED
      BY <1>1, WitnessStays DEF ReaderFresh
  <2> QED
    BY <2>1, <2>3, <2>4, <2>5 DEF Filled, WriterCleared
<1> QED
  BY <1>2, <1>3 DEF ConfigFill

LEMMA CInvKept ==
  ASSUME CInv, [Next]_bvars
  PROVE  CInv'
<1>1. UInv'
  BY UKeeps DEF CInv
<1>2. CASE UNCHANGED requests /\ UNCHANGED config /\ cache' \in {cache, NoPayload}
  <2>1. Payload' = Payload
    BY <1>2 DEF Payload
  <2> QED
    BY <1>1, <1>2, <2>1
       DEF requests, CInv, Filled, ReaderFresh, WriterCleared, CacheCatchesUp, Writes,
           Committed, Overlap
<1>3. ASSUME NEW r \in Req, SettingsStep(r)
      PROVE  Filled' /\ ReaderFresh' /\ WriterCleared' /\ CacheCatchesUp'
  <2> USE DEF CInv, UInv
  <2>1. Advances(r)
    BY <1>3, SettingsBelong DEF Belongs, Advances
  <2>2. ASSUME NEW op \in ConfigOps, NEW a \in User, NEW k \in ConfigKey, NEW show \in BOOLEAN,
               ConfigRead(r, op, a, k, show)
        PROVE  Filled' /\ ReaderFresh' /\ WriterCleared' /\ CacheCatchesUp'
    <3>1. pc'[r] = "read" /\ UNCHANGED settings
      BY <2>2, ArrivesFacts DEF ConfigRead, Open
    <3> QED
      BY <2>1, <3>1, OthersKeep DEF ReaderOk, WriterOk
  <2>3. CASE ConfigMiss(r)
    <3>1. /\ pc'[r] = "got" /\ req'[r].op = "read_config" /\ loaded'[r].data = Payload
          /\ UNCHANGED settings
      BY <2>3, ArrivesFacts DEF ConfigMiss, Open
    <3>2. Payload' = Payload
      BY <3>1 DEF settings, Payload
    <3> QED
      BY <2>1, <3>1, <3>2, OthersKeep DEF ReaderOk, WriterOk
  <2> QED
    BY <1>3, <2>1, <2>2, <2>3, FlushKeeps, CommitKeeps, FillKeeps DEF SettingsStep
<1> QED
  BY <1>1, <1>2, <1>3, SettingsKinds, ForeignKeeps DEF CInv

(***************************************************************************)
(* What is served from Redis is the committed configuration, unless a      *)
(* write's delete was lost or the write overlapped the reader that filled  *)
(* the cache: update and deactivate delete the payload before the router   *)
(* commits.                                                                *)
(***************************************************************************)
THEOREM CacheHolds == Spec => []CacheCatchesUp
<1>1. CInv => CacheCatchesUp
  BY DEF CInv
<1> QED
  BY <1>1, CInvInit, CInvKept, PTL DEF Spec

-----------------------------------------------------------------------------
(***************************************************************************)
(* Campaigns.  One run at a time works on a campaign that is not done; it  *)
(* has notified nobody before its first batch, and the row says how many   *)
(* after it.  A run that has committed leaves its campaign done.           *)
(***************************************************************************)
Running(r) == pc[r] \in Open /\ req[r].op = "fanout"

RowsFit ==
  \A c \in campaigns :
    /\ c = [id |-> c.id, audience |-> c.audience, status |-> c.status,
            target |-> c.target, delivered |-> c.delivered]
    /\ c.id \in Req /\ pc[c.id] \notin {"new", "read"}
    /\ c.audience \in Audience

OneRow == \A c, d \in campaigns : c.id = d.id => c = d

Asking == \A r \in Req : pc[r] = "read" /\ req[r].op = "campaign" => req[r].audience \in Audience

OneRun == \A q, r \in Req : Running(q) /\ Running(r) /\ req[q].row = req[r].row => q = r

\* Where run r is, as its campaign's row says.
RunFits(r) ==
  \E c \in campaigns :
    /\ c.id = req[r].row /\ c.status # "DONE"
    /\ pc[r] \in {"read", "got", "dropped"}
    /\ pc[r] = "read" => IsFiniteSet(loaded[r].left)
    /\ pc[r] = "got" => c.target = c.delivered /\ c.target = Cardinality(NotesOf(r))

RunsFit == \A r \in Req : Running(r) => RunFits(r)

NoteFits(n) ==
  /\ n.run \in Req
  /\ \/ pc[n.run] = "failed"
     \/ /\ req[n.run].op = "fanout" /\ req[n.run].row = n.campaign
        /\ pc[n.run] \in {"got", "dropped", "committed"}
        /\ \E c \in campaigns : c.id = n.campaign /\ (pc[n.run] = "committed" => c.status = "DONE")

NotesFit == \A n \in notes : NoteFits(n)

Counted(c) ==
  c.status = "DONE" =>
    \E r \in Req :
      /\ Committed(r) /\ req[r].op = "fanout" /\ req[r].row = c.id
      /\ Cardinality(NotesOf(r)) = c.target
      /\ c.target \in {c.delivered, 0}

KInv == /\ UInv /\ RowsFit /\ OneRow /\ Asking /\ OneRun /\ RunsFit /\ NotesFit
        /\ CampaignAccounts

LEMMA KInvInit == Init => KInv
<1> SUFFICES ASSUME Init PROVE KInv
  OBVIOUS
<1>1. campaigns = {} /\ notes = {} /\ \A r \in Req : pc[r] = "new"
  BY DEF Init, CampaignsInit, SessionsInit, RolesInit, RequestsInit
<1> QED
  BY <1>1, RInvInit
     DEF RInv, KInv, RowsFit, OneRow, Asking, OneRun, RunsFit, NotesFit, CampaignAccounts,
         Running, Open

-----------------------------------------------------------------------------
\* Steps of the other modules take no request of a campaign further.
LEMMA SessionsElsewhere ==
  ASSUME NEW r \in Req, SessionsWithReport(r), pc[r] \in Open
  PROVE  req[r].op \notin CampaignOps
<1> USE DEF CampaignOps, Open, At, RevokeOps, StatusOps, TotpOps
<1>1. CASE SessionArrive(r)
  BY <1>1 DEF SessionArrive, Arrives, RegisterCheck, LoginRead, MfaRead, RefreshRead, TargetRead,
              SendSecret, UseGet, VerifyRead, TotpRead
<1>2. CASE SessionContinue(r)
  BY <1>2 DEF SessionContinue, RegisterInsert, RegisterCommit, LoginCommit, MfaCommit, RefreshCommit,
              RevokeList, RevokeCommit, UseDelete, VerifyCommit, SetupCommit, TotpCommit
<1> QED
  BY <1>1, <1>2 DEF SessionsWithReport

LEMMA RolesElsewhere ==
  ASSUME NEW r \in Req, RolesStep(r), pc[r] \in Open
  PROVE  req[r].op \notin CampaignOps
<1> USE DEF CampaignOps, Open, At, ReviveOps
<1>1. CASE RolesArrive(r)
  <2> USE DEF Arrives
  <2>1. ASSUME NEW a \in User, NEW u \in User, NEW x \in Given, RoleRead(r, a, u, x) \/ CreateRead(r, a, u, x)
        PROVE  pc[r] = "new"
    BY <2>1 DEF RoleRead, CreateRead
  <2>2. ASSUME NEW a \in User, NEW u \in User, NEW op \in ReviveOps, ReviveRead(r, op, a, u)
        PROVE  pc[r] = "new"
    BY <2>2 DEF ReviveRead
  <2>3. ASSUME NEW a \in User, NEW x \in Given, NEW P \in Edits, EditRead(r, a, x, P)
        PROVE  pc[r] = "new"
    BY <2>3 DEF EditRead
  <2>4. ASSUME NEW m \in BOOLEAN, SeedRead(r, m)
        PROVE  pc[r] = "new"
    BY <2>4 DEF SeedRead
  <2> QED
    BY <1>1, <2>1, <2>2, <2>3, <2>4 DEF RolesArrive
<1>2. CASE RolesContinue(r)
  BY <1>2 DEF RolesContinue, RoleCommit, ReviveCommit, EditLock, EditCommit, SeedCommit
<1> QED
  BY <1>1, <1>2 DEF RolesStep

LEMMA ModerationElsewhere ==
  ASSUME NEW r \in Req, ModerationStep(r), pc[r] \in Open
  PROVE  req[r].op \notin CampaignOps
  BY DEF ModerationStep, Arrives, CampaignOps, Open, At, PhotoOps, ReportOps, ConfirmUpload, PhotoRead,
         CreateReport, ShareRead, ReportRead, ReportAction, PhotoCommit, ReportCommit, ShareCommit, Unshare

LEMMA SettingsElsewhere ==
  ASSUME NEW r \in Req, SettingsStep(r), pc[r] \in Open
  PROVE  req[r].op \notin CampaignOps
  BY DEF SettingsStep, Arrives, CampaignOps, Open, At, ConfigOps, ConfigRead, ConfigMiss, ConfigFlush,
         ConfigCommit, ConfigFill

\* A step that is not about campaigns, or the rollback of one that is.
Outside(r) ==
  /\ Takes(r) /\ UNCHANGED news
  /\ \/ Comes(r) /\ req'[r].op \notin CampaignOps
     \/ GoesOn(r) /\ req[r].op \notin CampaignOps
     \/ IsLost(r) /\ (req[r].op \notin CampaignOps \/ pc'[r] = "failed")

LEMMA CampaignKinds ==
  ASSUME UInv, [Next]_bvars
  PROVE  \/ UNCHANGED <<requests, news>>
         \/ \E r \in Req : Outside(r) \/ CampaignStep(r)
<1> USE DEF UInv
<1>1. ASSUME NEW r \in Req, NEW ops \in {SessionOps, RolesOps, SettingsOps},
             Belongs(r, ops), UNCHANGED news, pc[r] \in Open => req[r].op \notin CampaignOps
      PROVE  Outside(r)
  <2>1. ops \cap CampaignOps = {}
    BY DEF SessionOps, RevokeOps, StatusOps, TotpOps, RolesOps, ReviveOps, SettingsOps, ConfigOps, CampaignOps
  <2> QED
    BY <1>1, <2>1 DEF Belongs, Outside, IsLost
<1>2. ASSUME NEW r \in Req, SessionsWithReport(r), UNCHANGED news
      PROVE  Outside(r)
  BY <1>1, <1>2, SessionBelong, SessionsElsewhere
<1>3. ASSUME NEW r \in Req, RolesStep(r), UNCHANGED news
      PROVE  Outside(r)
  BY <1>1, <1>3, RolesBelong, RolesElsewhere
<1>4. ASSUME NEW r \in Req, SettingsStep(r), UNCHANGED news
      PROVE  Outside(r)
  BY <1>1, <1>4, SettingsBelong, SettingsElsewhere
<1>5. ASSUME NEW r \in Req, ModerationStep(r), UNCHANGED news
      PROVE  Outside(r)
  <2>1. Moderates(r)
    BY <1>5, ModerationFacts DEF HasUser
  <2> QED
    BY <1>5, <2>1, ModerationElsewhere
       DEF Moderates, Outside, IsLost, FilesOps, PhotoOps, ReportOps, CampaignOps
<1>6. ASSUME NEW r \in Req, Rollback(r), UNCHANGED news
      PROVE  Outside(r)
  BY <1>6, FailsFacts DEF Rollback, Outside
<1>7. CASE Next
  BY <1>2, <1>3, <1>4, <1>5, <1>6, <1>7 DEF Next, requests, news
<1>8. CASE UNCHANGED bvars
  BY <1>8 DEF bvars
<1> QED
  BY <1>7, <1>8

\* What any step of r leaves of the others, and of r once it has committed.
LEMMA OthersRest ==
  ASSUME NEW r \in Req, Takes(r), NEW q \in Req, q # r
  PROVE  /\ pc'[q] = pc[q] /\ req'[q] = req[q] /\ loaded'[q] = loaded[q]
         /\ Running(q)' = Running(q)
  BY DEF Takes, Running

\* The campaign of a row that exists.
LEMMA CampaignIs ==
  ASSUME OneRow, NEW c \in campaigns
  PROVE  Campaign(c.id) = c
  BY DEF Campaign, OneRow

\* An answer is final.
LEMMA AnswerStays ==
  ASSUME NEW r \in Req, Advances(r), NEW q \in Req, pc[q] \in Answered
  PROVE  q # r /\ pc'[q] = pc[q] /\ req'[q] = req[q]
  BY DEF Advances, Takes, Comes, GoesOn, IsLost, Open, Answered

\* A campaign that has been counted stays so.
LEMMA CountedStays ==
  ASSUME NEW r \in Req, Advances(r), \A q \in Req \ {r} : NotesOf(q)' = NotesOf(q),
         NEW c, Counted(c)
  PROVE  Counted(c)'
<1> SUFFICES ASSUME c.status = "DONE"
             PROVE  Counted(c)'
  BY DEF Counted
<1>1. PICK q \in Req : /\ Committed(q) /\ req[q].op = "fanout" /\ req[q].row = c.id
                       /\ Cardinality(NotesOf(q)) = c.target
                       /\ c.target \in {c.delivered, 0}
  BY DEF Counted
<1>2. q # r /\ Committed(q)' /\ req'[q] = req[q]
  BY <1>1, AnswerStays DEF Committed, Answered
<1> QED
  BY <1>1, <1>2 DEF Counted

-----------------------------------------------------------------------------
\* A step that changes neither campaigns nor notes and leaves r no run.
LEMMA SameNews ==
  ASSUME KInv, NEW r \in Req, Advances(r), UNCHANGED <<campaigns, notes>>,
         ~Running(r)', Running(r) => pc'[r] = "failed",
         pc'[r] = "read" /\ req'[r].op = "campaign" => req'[r].audience \in Audience
  PROVE  /\ RowsFit' /\ OneRow' /\ Asking' /\ OneRun' /\ RunsFit' /\ NotesFit'
         /\ CampaignAccounts'
<1> USE DEF KInv
<1>1. Takes(r)
  BY DEF Advances
<1>2. RowsFit' /\ OneRow'
  <2>1. \A c \in campaigns : pc'[c.id] \notin {"new", "read"}
    BY DEF RowsFit, Advances, Takes, Comes, GoesOn, IsLost, Open, Answered
  <2> QED
    BY <2>1 DEF RowsFit, OneRow
<1>3. Asking'
  BY <1>1, OthersRest DEF Asking
<1>4. OneRun'
  BY <1>1, OthersRest DEF OneRun
<1>5. \A q : NotesOf(q)' = NotesOf(q)
  BY DEF NotesOf
<1>6. RunsFit'
  <2> SUFFICES ASSUME NEW q \in Req, Running(q)'
               PROVE  RunFits(q)'
    BY DEF RunsFit
  <2>1. q # r /\ pc'[q] = pc[q] /\ req'[q] = req[q] /\ loaded'[q] = loaded[q] /\ Running(q)
    BY <1>1, OthersRest
  <2> QED
    BY <1>5, <2>1 DEF RunsFit, RunFits
<1>7. NotesFit'
  <2> SUFFICES ASSUME NEW n \in notes
               PROVE  NoteFits(n)'
    BY DEF NotesFit
  <2>1. NoteFits(n) /\ n.run \in Req
    BY DEF NotesFit, NoteFits
  <2>2. CASE n.run = r
    <3>1. Running(r) \/ pc[r] \in Answered
      BY <2>1, <2>2 DEF NoteFits, Running, Open, Answered
    <3>2. pc[r] \notin Answered
      BY AnswerStays
    <3> QED
      BY <2>2, <3>1, <3>2 DEF NoteFits
  <2>3. CASE n.run # r
    BY <1>1, <2>1, <2>3, OthersRest DEF NoteFits
  <2> QED
    BY <2>2, <2>3
<1>8. \A c \in campaigns : Counted(c)'
  BY <1>5, CountedStays DEF CampaignAccounts, Counted
<1>9. ASSUME NEW m \in notes, NEW n \in notes, m.campaign = n.campaign, m.run # n.run
      PROVE  "failed" \in {pc'[m.run], pc'[n.run]}
  <2>1. m.run \in Req /\ n.run \in Req /\ "failed" \in {pc[m.run], pc[n.run]}
    BY <1>9 DEF NotesFit, NoteFits, CampaignAccounts
  <2> QED
    BY <2>1, AnswerStays DEF Answered
<1> QED
  BY <1>2, <1>3, <1>4, <1>6, <1>7, <1>8, <1>9 DEF CampaignAccounts, Counted

\* A campaign is committed, and its job may be queued.
LEMMA CampaignCommits ==
  ASSUME KInv, NEW r \in Req, Advances(r), CampaignCommit(r)
  PROVE  /\ RowsFit' /\ OneRow' /\ Asking' /\ OneRun' /\ RunsFit' /\ NotesFit'
         /\ CampaignAccounts'
<1> USE DEF KInv
<1> DEFINE d == [id |-> r, audience |-> req[r].audience, status |-> "QUEUED",
                 target |-> loaded[r].count, delivered |-> 0]
<1>1. /\ pc[r] = "read" /\ req[r].op = "campaign" /\ req' = req /\ pc'[r] = "got"
      /\ campaigns' = campaigns \cup {d} /\ notes' = notes /\ Takes(r)
  BY DEF CampaignCommit, At, Goes, Advances, UInv, HInv
<1>2. \A c \in campaigns : c.id # r
  BY <1>1 DEF RowsFit
<1>3. d.id = r /\ d.status = "QUEUED" /\ d.audience = req[r].audience
  OBVIOUS
<1>4. RowsFit'
  <2>1. \A c \in campaigns : pc'[c.id] = pc[c.id]
    BY <1>1, <1>2, OthersRest DEF RowsFit
  <2>2. d.audience \in Audience
    BY <1>1 DEF Asking
  <2>3. d = [id |-> d.id, audience |-> d.audience, status |-> d.status,
             target |-> d.target, delivered |-> d.delivered]
    OBVIOUS
  <2> HIDE DEF d
  <2> QED
    BY <1>1, <1>3, <2>1, <2>2, <2>3 DEF RowsFit
<1> HIDE DEF d
<1>5. OneRow'
  BY <1>1, <1>2, <1>3 DEF OneRow
<1>6. ~Running(r) /\ ~Running(r)'
  BY <1>1 DEF Running
<1>7. Asking' /\ OneRun'
  BY <1>1, <1>6, OthersRest DEF Asking, OneRun
<1>8. \A q : NotesOf(q)' = NotesOf(q)
  BY <1>1 DEF NotesOf
<1>9. RunsFit'
  <2> SUFFICES ASSUME NEW q \in Req, Running(q)'
               PROVE  RunFits(q)'
    BY DEF RunsFit
  <2>1. q # r /\ pc'[q] = pc[q] /\ req'[q] = req[q] /\ loaded'[q] = loaded[q] /\ Running(q)
    BY <1>1, <1>6, OthersRest
  <2> QED
    BY <1>1, <1>8, <2>1 DEF RunsFit, RunFits
<1>10. NotesFit'
  <2> SUFFICES ASSUME NEW n \in notes
               PROVE  NoteFits(n)'
    BY <1>1 DEF NotesFit
  <2>1. NoteFits(n) /\ n.run \in Req /\ n.run # r
    BY <1>1 DEF NotesFit, NoteFits
  <2> QED
    BY <1>1, <2>1, OthersRest DEF NoteFits
<1>11. \A c \in campaigns' : Counted(c)'
  BY <1>1, <1>3, <1>8, CountedStays DEF CampaignAccounts, Counted
<1>12. ASSUME NEW m \in notes, NEW n \in notes, m.campaign = n.campaign, m.run # n.run
       PROVE  "failed" \in {pc'[m.run], pc'[n.run]}
  <2>1. m.run \in Req /\ n.run \in Req /\ "failed" \in {pc[m.run], pc[n.run]}
    BY <1>12 DEF NotesFit, NoteFits, CampaignAccounts
  <2> QED
    BY <2>1, AnswerStays DEF Answered
<1> QED
  BY <1>1, <1>4, <1>5, <1>7, <1>9, <1>10, <1>11, <1>12 DEF CampaignAccounts, Counted

\* A run begins: no other is at work, and the campaign is not done.
LEMMA RunBegins ==
  ASSUME KInv, NEW r \in Req, Advances(r), NEW c \in campaigns, FanoutRead(r, c), WorkLeft(c)
  PROVE  /\ RowsFit' /\ OneRow' /\ Asking' /\ OneRun' /\ RunsFit' /\ NotesFit'
         /\ CampaignAccounts'
<1> USE DEF KInv
<1>1. /\ pc[r] = "new" /\ req'[r] = [op |-> "fanout", row |-> c.id] /\ pc'[r] = "read"
      /\ loaded'[r] = [left |-> Resolved(c.audience)]
      /\ campaigns' = campaigns /\ notes' = notes /\ Takes(r)
  BY ArrivesFacts DEF FanoutRead, Advances, UInv, Comes, Open
<1>2. \A o \in Req : ~(Running(o) /\ req[o].row = c.id)
  BY DEF FanoutRead, Running
<1>3. RowsFit' /\ OneRow'
  <2>1. \A e \in campaigns : pc'[e.id] = pc[e.id]
    BY <1>1, OthersRest DEF RowsFit
  <2> QED
    BY <1>1, <2>1 DEF RowsFit, OneRow
<1>4. Asking' /\ OneRun'
  BY <1>1, <1>2, OthersRest DEF Asking, OneRun
<1>5. \A q : NotesOf(q)' = NotesOf(q)
  BY <1>1 DEF NotesOf
<1>6. RunFits(r)'
  <2>1. IsFiniteSet(c.audience) /\ Resolved(c.audience) \subseteq c.audience
    BY CampaignsAssumption DEF RowsFit, Resolved
  <2>2. IsFiniteSet(Resolved(c.audience))
    BY <2>1, FS_Subset
  <2> QED
    BY <1>1, <2>2 DEF RunFits, WorkLeft
<1>7. RunsFit'
  <2> SUFFICES ASSUME NEW q \in Req, q # r, Running(q)'
               PROVE  RunFits(q)'
    BY <1>6 DEF RunsFit
  <2>1. pc'[q] = pc[q] /\ req'[q] = req[q] /\ loaded'[q] = loaded[q] /\ Running(q)
    BY <1>1, OthersRest
  <2> QED
    BY <1>1, <1>5, <2>1 DEF RunsFit, RunFits
<1>8. NotesFit'
  <2> SUFFICES ASSUME NEW n \in notes
               PROVE  NoteFits(n)'
    BY <1>1 DEF NotesFit
  <2>1. NoteFits(n) /\ n.run \in Req /\ n.run # r
    BY <1>1 DEF NotesFit, NoteFits
  <2> QED
    BY <1>1, <2>1, OthersRest DEF NoteFits
<1>9. \A e \in campaigns : Counted(e)'
  BY <1>5, CountedStays DEF CampaignAccounts, Counted
<1>10. ASSUME NEW m \in notes, NEW n \in notes, m.campaign = n.campaign, m.run # n.run
       PROVE  "failed" \in {pc'[m.run], pc'[n.run]}
  <2>1. m.run \in Req /\ n.run \in Req /\ "failed" \in {pc[m.run], pc[n.run]}
    BY <1>10 DEF NotesFit, NoteFits, CampaignAccounts
  <2> QED
    BY <2>1, AnswerStays DEF Answered
<1> QED
  BY <1>1, <1>3, <1>4, <1>7, <1>8, <1>9, <1>10 DEF CampaignAccounts, Counted

-----------------------------------------------------------------------------
\* Run r turns the row c of its campaign into d and writes the notes N.
Updates(r, c, d, N) ==
  /\ Advances(r) /\ Running(r) /\ req' = req /\ pc'[r] # "read"
  /\ c \in campaigns /\ c.id = req[r].row /\ c.status # "DONE"
  /\ d = [id |-> c.id, audience |-> c.audience, status |-> d.status,
          target |-> d.target, delivered |-> d.delivered]
  /\ campaigns' = (campaigns \ {c}) \cup {d}
  /\ notes' = notes \cup N
  /\ \A n \in N : n.run = r /\ n.campaign = c.id

\* No other run and no note is disturbed.
LEMMA UpdatesKeep ==
  ASSUME KInv, NEW r \in Req, NEW c, NEW d, NEW N, Updates(r, c, d, N)
  PROVE  /\ RowsFit' /\ OneRow' /\ Asking' /\ OneRun'
         /\ \A q \in Req : q # r /\ Running(q)' => RunFits(q)'
         /\ \A n \in notes : n.run # r => NoteFits(n)'
         /\ \A e \in campaigns' : e = d \/ Counted(e)'
         /\ \A m, n \in notes' : m.campaign = n.campaign /\ m.run # n.run =>
              "failed" \in {pc'[m.run], pc'[n.run]}
<1> USE DEF KInv
<1>1. /\ Takes(r) /\ Advances(r) /\ Running(r) /\ req' = req /\ pc'[r] # "read"
      /\ c \in campaigns /\ c.id = req[r].row /\ c.status # "DONE"
      /\ campaigns' = (campaigns \ {c}) \cup {d} /\ notes' = notes \cup N
      /\ \A n \in N : n.run = r /\ n.campaign = c.id
  BY DEF Updates, Advances
<1>2. d.id = c.id /\ d.audience = c.audience
  BY DEF Updates
<1>3. RowsFit'
  <2>1. \A e \in campaigns : pc'[e.id] \notin {"new", "read"}
    BY <1>1 DEF RowsFit, Advances, Takes, Comes, GoesOn, IsLost, Open, Answered
  <2>2. d = [id |-> d.id, audience |-> d.audience, status |-> d.status,
             target |-> d.target, delivered |-> d.delivered]
    BY <1>2 DEF Updates
  <2> QED
    BY <1>1, <1>2, <2>1, <2>2 DEF RowsFit
<1>4. OneRow'
  BY <1>1, <1>2 DEF OneRow
<1>5. Asking'
  BY <1>1, OthersRest DEF Asking
<1>6. OneRun'
  <2>1. \A q \in Req : Running(q)' => Running(q)
    BY <1>1, OthersRest
  <2> QED
    BY <1>1, <2>1 DEF OneRun
<1>7. \A q \in Req \ {r} : NotesOf(q)' = NotesOf(q)
  BY <1>1 DEF NotesOf
<1>8. ASSUME NEW q \in Req, q # r, Running(q)'
      PROVE  RunFits(q)'
  <2>1. pc'[q] = pc[q] /\ req'[q] = req[q] /\ loaded'[q] = loaded[q] /\ Running(q)
    BY <1>1, <1>8, OthersRest
  <2>2. req[q].row # c.id
    BY <1>1, <1>8, <2>1 DEF OneRun
  <2> QED
    BY <1>1, <1>7, <1>8, <2>1, <2>2 DEF RunsFit, RunFits
<1>9. ASSUME NEW n \in notes, n.run # r
      PROVE  NoteFits(n)'
  <2>1. NoteFits(n) /\ n.run \in Req /\ pc'[n.run] = pc[n.run] /\ req'[n.run] = req[n.run]
    BY <1>1, <1>9, OthersRest DEF NotesFit, NoteFits
  <2>2. CASE pc[n.run] = "failed"
    BY <2>1, <2>2 DEF NoteFits
  <2>3. ASSUME NEW e \in campaigns, e.id = n.campaign, pc[n.run] = "committed" => e.status = "DONE",
               req[n.run].op = "fanout", req[n.run].row = n.campaign,
               pc[n.run] \in {"got", "dropped", "committed"}
        PROVE  NoteFits(n)'
    <3>1. CASE e # c
      BY <1>1, <2>1, <2>3, <3>1 DEF NoteFits
    <3>2. CASE e = c
      BY <1>1, <1>2, <2>1, <2>3, <3>2 DEF NoteFits
    <3> QED
      BY <3>1, <3>2
  <2> QED
    BY <2>1, <2>2, <2>3 DEF NoteFits
<1>10. ASSUME NEW e \in campaigns', e # d
       PROVE  Counted(e)'
  BY <1>1, <1>7, <1>10, CountedStays DEF CampaignAccounts, Counted
<1>11. ASSUME NEW m \in notes, m.campaign = c.id, m.run # r
       PROVE  pc'[m.run] = "failed"
  <2>1. NoteFits(m) /\ m.run \in Req /\ pc'[m.run] = pc[m.run]
    BY <1>1, <1>11, OthersRest DEF NotesFit, NoteFits
  <2>2. pc[m.run] # "committed" \/ req[m.run].op # "fanout" \/ req[m.run].row # m.campaign
    BY <1>1, <1>11, <2>1 DEF NoteFits, OneRow
  <2>3. ~Running(m.run) \/ req[m.run].row # m.campaign
    BY <1>1, <1>11, <2>1 DEF OneRun
  <2> QED
    BY <2>1, <2>2, <2>3 DEF NoteFits, Running, Open
<1>12. ASSUME NEW m \in notes', NEW n \in notes', m.campaign = n.campaign, m.run # n.run
       PROVE  "failed" \in {pc'[m.run], pc'[n.run]}
  <2>1. CASE m \in N \/ n \in N
    BY <1>1, <1>11, <1>12, <2>1
  <2>2. CASE m \in notes /\ n \in notes
    <3>1. m.run \in Req /\ n.run \in Req /\ "failed" \in {pc[m.run], pc[n.run]}
      BY <1>12, <2>2 DEF NotesFit, NoteFits, CampaignAccounts
    <3> QED
      BY <1>1, <3>1, AnswerStays DEF Answered
  <2> QED
    BY <1>1, <2>1, <2>2
<1> QED
  BY <1>3, <1>4, <1>5, <1>6, <1>8, <1>9, <1>10, <1>12

\* A run that is where it may be: its row, and what it has written.
LEMMA RunIs ==
  ASSUME KInv, NEW r \in Req, Running(r)
  PROVE  /\ Campaign(req[r].row) \in campaigns /\ Campaign(req[r].row).id = req[r].row
         /\ Campaign(req[r].row).status # "DONE"
         /\ LET c == Campaign(req[r].row) IN
              c = [id |-> c.id, audience |-> c.audience, status |-> c.status,
                   target |-> c.target, delivered |-> c.delivered]
         /\ pc[r] = "read" => IsFiniteSet(loaded[r].left) /\ NotesOf(r) = {}
         /\ pc[r] = "got" => /\ Campaign(req[r].row).target = Campaign(req[r].row).delivered
                             /\ Campaign(req[r].row).target = Cardinality(NotesOf(r))
<1> USE DEF KInv
<1>1. PICK c \in campaigns :
        /\ c.id = req[r].row /\ c.status # "DONE"
        /\ pc[r] = "read" => IsFiniteSet(loaded[r].left)
        /\ pc[r] = "got" => c.target = c.delivered /\ c.target = Cardinality(NotesOf(r))
  BY DEF RunsFit, RunFits
<1>2. Campaign(req[r].row) = c
  BY <1>1, CampaignIs
<1>3. pc[r] = "read" => NotesOf(r) = {}
  BY DEF NotesFit, NoteFits, NotesOf
<1> QED
  BY <1>1, <1>2, <1>3 DEF RowsFit

\* The new row of a campaign.
LEMMA RowEdits ==
  ASSUME NEW c, NEW u, NEW m,
         c = [id |-> c.id, audience |-> c.audience, status |-> c.status,
              target |-> c.target, delivered |-> c.delivered]
  PROVE  /\ [c EXCEPT !.status = "SENDING", !.target = u, !.delivered = m] =
              [id |-> c.id, audience |-> c.audience, status |-> "SENDING",
               target |-> u, delivered |-> m]
         /\ [c EXCEPT !.status = "DONE"] =
              [id |-> c.id, audience |-> c.audience, status |-> "DONE",
               target |-> c.target, delivered |-> c.delivered]
         /\ [c EXCEPT !.status = "DONE", !.target = 0] =
              [id |-> c.id, audience |-> c.audience, status |-> "DONE",
               target |-> 0, delivered |-> c.delivered]
<1> PICK i, a, t, n : i = c.id /\ a = c.audience /\ t = c.target /\ n = c.delivered
  OBVIOUS
<1>1. [c EXCEPT !.status = "SENDING", !.target = u, !.delivered = m] =
        [id |-> i, audience |-> a, status |-> "SENDING", target |-> u, delivered |-> m]
  <2>1. PICK d : d = [c EXCEPT !.status = "SENDING"]
    OBVIOUS
  <2>2. PICK e : e = [d EXCEPT !.target = u]
    OBVIOUS
  <2>3. PICK f : f = [e EXCEPT !.delivered = m]
    OBVIOUS
  <2>4. d = [id |-> i, audience |-> a, status |-> "SENDING", target |-> t, delivered |-> n]
    BY <2>1
  <2>5. e = [id |-> i, audience |-> a, status |-> "SENDING", target |-> u, delivered |-> n]
    BY <2>2, <2>4
  <2>6. f = [id |-> i, audience |-> a, status |-> "SENDING", target |-> u, delivered |-> m]
    BY <2>3, <2>5
  <2>7. [c EXCEPT !.status = "SENDING", !.target = u, !.delivered = m] =
          [[[c EXCEPT !.status = "SENDING"] EXCEPT !.target = u] EXCEPT !.delivered = m]
    OBVIOUS
  <2> QED
    BY <2>1, <2>2, <2>3, <2>6, <2>7, Zenon
<1>2. [c EXCEPT !.status = "DONE"] =
        [id |-> i, audience |-> a, status |-> "DONE", target |-> t, delivered |-> n]
  OBVIOUS
<1>3. [c EXCEPT !.status = "DONE", !.target = 0] =
        [id |-> i, audience |-> a, status |-> "DONE", target |-> 0, delivered |-> n]
  <2>1. PICK d : d = [c EXCEPT !.status = "DONE"]
    OBVIOUS
  <2>2. PICK e : e = [d EXCEPT !.target = 0]
    OBVIOUS
  <2>3. d = [id |-> i, audience |-> a, status |-> "DONE", target |-> t, delivered |-> n]
    BY <2>1
  <2>4. e = [id |-> i, audience |-> a, status |-> "DONE", target |-> 0, delivered |-> n]
    BY <2>2, <2>3
  <2>5. [c EXCEPT !.status = "DONE", !.target = 0] =
          [[c EXCEPT !.status = "DONE"] EXCEPT !.target = 0]
    OBVIOUS
  <2> QED
    BY <2>1, <2>2, <2>4, <2>5, Zenon
<1> QED
  BY <1>1, <1>2, <1>3, Zenon

\* One note for each user.
LEMMA NotesCounted ==
  ASSUME NEW S, IsFiniteSet(S), NEW T,
         \A n \in T : n.user \in S,
         \A u \in S : \E n \in T : n.user = u,
         \A m, n \in T : m.user = n.user => m = n
  PROVE  Cardinality(T) = Cardinality(S)
<1> DEFINE f == [u \in S |-> CHOOSE n \in T : n.user = u]
<1>1. \A u \in S : f[u] \in T /\ f[u].user = u
  OBVIOUS
<1>2. f \in [S -> T]
  BY <1>1
<1>3. \A t \in T : \E u \in S : f[u] = t
  BY <1>1
<1> HIDE DEF f
<1>4. f \in Bijection(S, T)
  BY <1>1, <1>2, <1>3 DEF Bijection, Injection, Surjection, IsInjective
<1>5. ExistsBijection(S, T)
  BY <1>4 DEF ExistsBijection
<1> QED
  BY <1>5, FS_Bijection

LEMMA BatchKeeps ==
  ASSUME KInv, NEW r \in Req, Advances(r), FanoutBatch(r)
  PROVE  /\ RowsFit' /\ OneRow' /\ Asking' /\ OneRun' /\ RunsFit' /\ NotesFit'
         /\ CampaignAccounts'
<1>1. Running(r) /\ pc[r] = "read"
  BY DEF FanoutBatch, At, Running, Open
<1>2. PICK c \in campaigns :
        /\ c = Campaign(req[r].row) /\ c.id = req[r].row /\ c.status # "DONE"
        /\ c = [id |-> c.id, audience |-> c.audience, status |-> c.status,
                target |-> c.target, delivered |-> c.delivered]
  BY <1>1, RunIs
<1>3. PICK left : left = loaded[r].left /\ IsFiniteSet(left)
  BY <1>1, RunIs
<1>4. PICK batch \in SUBSET left :
        /\ notes' = notes \cup {[campaign |-> c.id, run |-> r, user |-> u] : u \in batch}
        /\ Changed(r, [c EXCEPT !.status = "SENDING", !.target = Cardinality(left),
                                !.delivered = Cardinality(batch)])
        /\ Goes(r, IF batch = left THEN "got" ELSE "dropped")
  BY <1>2, <1>3 DEF FanoutBatch
<1>5. PICK d : d = [id |-> c.id, audience |-> c.audience, status |-> "SENDING",
                    target |-> Cardinality(left), delivered |-> Cardinality(batch)]
  OBVIOUS
<1>6. /\ req' = req /\ pc'[r] = (IF batch = left THEN "got" ELSE "dropped")
      /\ campaigns' = (campaigns \ {c}) \cup {d}
  <2>1. d = [c EXCEPT !.status = "SENDING", !.target = Cardinality(left),
                      !.delivered = Cardinality(batch)]
    <3>1. PICK u, m : u = Cardinality(left) /\ m = Cardinality(batch)
      OBVIOUS
    <3>2. PICK e : e = [c EXCEPT !.status = "SENDING", !.target = u, !.delivered = m]
      OBVIOUS
    <3>3. e = [id |-> c.id, audience |-> c.audience, status |-> "SENDING",
               target |-> u, delivered |-> m]
      BY <1>2, <3>2, RowEdits, Zenon
    <3> QED
      BY <1>5, <3>1, <3>2, <3>3, Zenon
  <2> QED
    BY <1>2, <1>4, <2>1 DEF Goes, Changed, KInv, UInv, HInv
<1>7. /\ d.id = c.id /\ d.status = "SENDING" /\ d.target = Cardinality(left)
      /\ d.delivered = Cardinality(batch)
      /\ d = [id |-> c.id, audience |-> c.audience, status |-> d.status,
              target |-> d.target, delivered |-> d.delivered]
  BY <1>5
<1>8. PICK N : /\ N = {[campaign |-> c.id, run |-> r, user |-> u] : u \in batch}
               /\ \A n \in N : n.run = r /\ n.campaign = c.id
  <2>1. \A n \in {[campaign |-> c.id, run |-> r, user |-> u] : u \in batch} :
          n.run = r /\ n.campaign = c.id
    OBVIOUS
  <2> QED
    BY <2>1
<1>9. Cardinality(N) = Cardinality(batch)
  <2>1. IsFiniteSet(batch)
    BY <1>3, FS_Subset
  <2>2. /\ \A n \in N : n.user \in batch
        /\ \A u \in batch : \E n \in N : n.user = u
        /\ \A m, n \in N : m.user = n.user => m = n
    <3>1. \A n \in N : n.user \in batch /\ n = [campaign |-> c.id, run |-> r, user |-> n.user]
      BY <1>8
    <3>2. \A u \in batch : \E n \in N : n.user = u
      <4> SUFFICES ASSUME NEW u \in batch PROVE \E n \in N : n.user = u
        OBVIOUS
      <4>1. PICK n : n = [campaign |-> c.id, run |-> r, user |-> u]
        OBVIOUS
      <4>2. n \in N
        BY <1>8, <4>1
      <4> QED
        BY <4>1, <4>2
    <3>3. \A m, n \in N : m.user = n.user => m = n
      BY <3>1, Zenon
    <3> QED
      BY <3>1, <3>2, <3>3
  <2> QED
    BY <2>1, <2>2, NotesCounted
<1>10. Updates(r, c, d, N)
  BY <1>1, <1>2, <1>4, <1>6, <1>7, <1>8 DEF Updates
<1>11. NotesOf(r) = {}
  BY <1>1, RunIs
<1>12. NotesOf(r)' = N
  BY <1>4, <1>8, <1>11 DEF NotesOf
<1>13. RunFits(r)'
  <2>1. d \in campaigns' /\ d.id = req'[r].row /\ d.status # "DONE"
    BY <1>2, <1>6, <1>7
  <2>2. pc'[r] = "got" => d.target = d.delivered /\ d.target = Cardinality(NotesOf(r)')
    BY <1>6, <1>7, <1>9, <1>12
  <2> QED
    BY <1>6, <2>1, <2>2 DEF RunFits
<1>14. NotesFit'
  <2>1. \A n \in notes : n.run # r
    BY <1>11 DEF NotesOf
  <2>2. \A n \in N : NoteFits(n)'
    BY <1>1, <1>2, <1>6, <1>7, <1>8 DEF NoteFits, Running
  <2>3. \A n \in notes : NoteFits(n)'
    BY <1>10, <2>1, UpdatesKeep
  <2> QED
    BY <1>4, <1>8, <2>2, <2>3 DEF NotesFit
<1>15. Counted(d)'
  BY <1>7 DEF Counted
<1>16. RunsFit'
  BY <1>10, <1>13, UpdatesKeep DEF RunsFit
<1>17. CampaignAccounts'
  BY <1>10, <1>15, UpdatesKeep DEF CampaignAccounts, Counted
<1> QED
  BY <1>10, <1>14, <1>16, <1>17, UpdatesKeep

LEMMA DoneKeeps ==
  ASSUME KInv, NEW r \in Req, Advances(r), FanoutDone(r)
  PROVE  /\ RowsFit' /\ OneRow' /\ Asking' /\ OneRun' /\ RunsFit' /\ NotesFit'
         /\ CampaignAccounts'
<1>1. Running(r) /\ req[r].op = "fanout"
  BY DEF FanoutDone, At, Running, Open
<1>2. PICK c \in campaigns :
        /\ c = Campaign(req[r].row) /\ c.id = req[r].row /\ c.status # "DONE"
        /\ c = [id |-> c.id, audience |-> c.audience, status |-> c.status,
                target |-> c.target, delivered |-> c.delivered]
        /\ pc[r] = "read" => NotesOf(r) = {}
        /\ pc[r] = "got" => c.target = c.delivered /\ c.target = Cardinality(NotesOf(r))
  BY <1>1, RunIs
<1>3. /\ req' = req /\ pc'[r] = "committed" /\ notes' = notes
      /\ \/ pc[r] = "got" /\ Changed(r, [c EXCEPT !.status = "DONE"])
         \/ pc[r] = "read" /\ Changed(r, [c EXCEPT !.status = "DONE", !.target = 0])
  BY <1>2 DEF FanoutDone, At, Goes, KInv, UInv, HInv
<1>4. PICK d : /\ d = [id |-> c.id, audience |-> c.audience, status |-> "DONE",
                       target |-> d.target, delivered |-> c.delivered]
               /\ campaigns' = (campaigns \ {c}) \cup {d}
               /\ d.target = Cardinality(NotesOf(r)) /\ d.target \in {c.delivered, 0}
  <2>1. CASE pc[r] = "got" /\ Changed(r, [c EXCEPT !.status = "DONE"])
    <3>1. PICK e : e = [id |-> c.id, audience |-> c.audience, status |-> "DONE",
                        target |-> c.target, delivered |-> c.delivered]
      OBVIOUS
    <3>2. e.target = c.target
      BY <3>1
    <3>3. campaigns' = (campaigns \ {c}) \cup {e}
      <4>1. e = [c EXCEPT !.status = "DONE"]
        BY <1>2, <3>1, RowEdits, Zenon
      <4> QED
        BY <1>2, <2>1, <4>1 DEF Changed
    <3> QED
      BY <1>2, <2>1, <3>1, <3>2, <3>3
  <2>2. CASE pc[r] = "read" /\ Changed(r, [c EXCEPT !.status = "DONE", !.target = 0])
    <3>1. PICK e : e = [id |-> c.id, audience |-> c.audience, status |-> "DONE",
                        target |-> 0, delivered |-> c.delivered]
      OBVIOUS
    <3>2. e.target = 0
      BY <3>1
    <3>3. campaigns' = (campaigns \ {c}) \cup {e}
      <4>1. e = [c EXCEPT !.status = "DONE", !.target = 0]
        BY <1>2, <3>1, RowEdits, Zenon
      <4> QED
        BY <1>2, <2>2, <4>1 DEF Changed
    <3>4. Cardinality(NotesOf(r)) = 0
      BY <1>2, <2>2, FS_EmptySet
    <3> QED
      BY <3>1, <3>2, <3>3, <3>4
  <2> QED
    BY <1>3, <2>1, <2>2
<1>5. d.id = c.id /\ d.status = "DONE" /\ d.audience = c.audience /\ d.delivered = c.delivered
  BY <1>4
<1>6. Updates(r, c, d, {})
  BY <1>1, <1>2, <1>3, <1>4, <1>5 DEF Updates
<1>7. NotesOf(r)' = NotesOf(r)
  BY <1>3 DEF NotesOf
<1>8. ~Running(r)'
  BY <1>3 DEF Running, Open
<1>9. NotesFit'
  <2>1. ASSUME NEW n \in notes, n.run = r
        PROVE  NoteFits(n)'
    <3>1. n.campaign = c.id
      <4>1. NoteFits(n) /\ pc[r] # "failed"
        BY <1>1 DEF KInv, NotesFit, Running, Open
      <4> QED
        BY <1>2, <2>1, <4>1 DEF NoteFits
    <3> QED
      BY <1>1, <1>2, <1>3, <1>4, <1>5, <2>1, <3>1 DEF NoteFits
  <2>2. \A n \in notes : n.run # r => NoteFits(n)'
    BY <1>6, UpdatesKeep
  <2> QED
    BY <1>3, <2>1, <2>2 DEF NotesFit
<1>10. Counted(d)'
  <2>1. Committed(r)'
    BY <1>3 DEF Committed
  <2> QED
    BY <1>1, <1>2, <1>3, <1>4, <1>5, <1>7, <2>1 DEF Counted
<1>11. RunsFit'
  BY <1>6, <1>8, UpdatesKeep DEF RunsFit
<1>12. CampaignAccounts'
  BY <1>6, <1>10, UpdatesKeep DEF CampaignAccounts, Counted
<1> QED
  BY <1>6, <1>9, <1>11, <1>12, UpdatesKeep

LEMMA KInvKept ==
  ASSUME KInv, [Next]_bvars
  PROVE  KInv'
<1> DEFINE Kept == /\ RowsFit' /\ OneRow' /\ Asking' /\ OneRun' /\ RunsFit' /\ NotesFit'
                   /\ CampaignAccounts'
<1>1. UInv'
  BY UKeeps DEF KInv
<1>2. CASE UNCHANGED <<requests, news>>
  <2>1. UNCHANGED <<pc, req, loaded, campaigns, notes>>
    BY <1>2 DEF requests, news
  <2>2. \A q : NotesOf(q)' = NotesOf(q)
    BY <2>1 DEF NotesOf
  <2>3. RowsFit' /\ OneRow' /\ Asking' /\ OneRun'
    BY <2>1 DEF KInv, RowsFit, OneRow, Asking, OneRun, Running
  <2>4. RunsFit'
    BY <2>1, <2>2 DEF KInv, RunsFit, RunFits, Running
  <2>5. NotesFit'
    BY <2>1 DEF KInv, NotesFit, NoteFits
  <2>6. CampaignAccounts'
    BY <2>1, <2>2 DEF KInv, CampaignAccounts, Committed
  <2> QED
    BY <1>1, <2>3, <2>4, <2>5, <2>6 DEF KInv
<1>3. ASSUME NEW r \in Req, Outside(r)
      PROVE  Kept
  <2>1. Advances(r) /\ UNCHANGED <<campaigns, notes>>
    BY <1>3 DEF Outside, Advances, news
  <2>2. ~Running(r)' /\ (Running(r) => pc'[r] = "failed")
    BY <1>3 DEF Outside, Running, Comes, GoesOn, IsLost, CampaignOps, Open
  <2>3. ~(pc'[r] = "read" /\ req'[r].op = "campaign")
    BY <1>3 DEF Outside, Comes, GoesOn, IsLost, CampaignOps, Open, Answered
  <2> QED
    BY <2>1, <2>2, <2>3, SameNews
<1>4. ASSUME NEW r \in Req, CampaignStep(r)
      PROVE  Kept
  <2>0. Advances(r)
    BY <1>4, CampaignBelong DEF Belongs, Advances, KInv, UInv
  <2> USE DEF KInv, UInv
  <2>1. ASSUME NEW a \in User, NEW audience \in Audience, CampaignRead(r, a, audience)
        PROVE  Kept
    <3>1. /\ pc[r] = "new" /\ pc'[r] = "read" /\ req'[r].op = "campaign" /\ req'[r].audience = audience
          /\ UNCHANGED <<campaigns, notes>>
      BY <2>1, ArrivesFacts DEF CampaignRead, news, Open, Comes
    <3> QED
      BY <2>0, <3>1, SameNews DEF Running, Open
  <2>2. ASSUME NEW c \in campaigns, FanoutRead(r, c), ~WorkLeft(c)
        PROVE  Kept
    <3>1. pc[r] = "new" /\ pc'[r] = "committed" /\ UNCHANGED <<campaigns, notes>>
      BY <2>2, ArrivesFacts DEF FanoutRead, Answered, Comes
    <3> QED
      BY <2>0, <3>1, SameNews DEF Running, Open
  <2>3. CASE Enqueue(r)
    <3>1. req' = req /\ pc'[r] = "committed" /\ req[r].op = "campaign" /\ UNCHANGED <<campaigns, notes>>
      BY <2>3 DEF Enqueue, At, Goes, HInv
    <3> QED
      BY <2>0, <3>1, SameNews DEF Running, Open
  <2>4. CASE FanoutRaises(r)
    <3>1. pc'[r] = "failed" /\ UNCHANGED <<campaigns, notes>>
      BY <2>4 DEF FanoutRaises, Fails, HInv
    <3> QED
      BY <2>0, <3>1, SameNews DEF Running, Open
  <2> QED
    BY <1>4, <2>0, <2>1, <2>2, <2>3, <2>4, CampaignCommits, RunBegins, BatchKeeps, DoneKeeps
       DEF CampaignStep
<1> QED
  BY <1>1, <1>2, <1>3, <1>4, CampaignKinds DEF KInv

(***************************************************************************)
(* Whatever fails and whatever is retried, a campaign that is done has     *)
(* counted whom one run of its job notified, and two runs notify for the   *)
(* same campaign only if one of them failed.                               *)
(***************************************************************************)
THEOREM CampaignsAccount == Spec => []CampaignAccounts
<1>1. KInv => CampaignAccounts
  BY DEF KInv
<1> QED
  BY <1>1, KInvInit, KInvKept, PTL DEF Spec

=============================================================================
