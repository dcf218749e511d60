-------------------------- MODULE ModerationProofs --------------------------
(***************************************************************************)
(* Theorems about Backend, for every set of users and requests: photos and *)
(* reports.                                                                *)
(***************************************************************************)
EXTENDS AccessProofs

-----------------------------------------------------------------------------
(***************************************************************************)
(* Photos.  The invariant: a row is found by its id and user, its flag was *)
(* set at the start or by a committed request, and a profile photo that an *)
(* open request has not found as one was made so while it was open.        *)
(***************************************************************************)
SameRow(x, p) == x.id = p.id /\ x.user = p.user

RowsDistinct(S) == \A x, y \in S : SameRow(x, y) => x = y

Photo == [id : Id \cup {Another}, user : User, profile : BOOLEAN, by : Id,
          status : PhotoStatus, deleted : BOOLEAN]

PhotosTyped ==
  /\ photos \subseteq Photo /\ RowsDistinct(photos)
  /\ \A p \in photos : (p.id \in Req => pc[p.id] # "new") /\ (p.by \in Req => Committed(p.by))

\* The same photo was a profile photo in what r has listed.
SeenSet(r, p) == \E x \in loaded[r].list : SameRow(x, p) /\ x.profile

PhotoSaw ==
  \A r \in Req : pc[r] = "read" /\ req[r].op = "profile_photo" =>
    \A p \in photos : p.user = req[r].row /\ p.profile /\ ~p.deleted =>
      SeenSet(r, p) \/ (p.by \in Req /\ p.by \notin before[r])

PhotoReads ==
  \A r \in Req : pc[r] = "read" /\ req[r].op \in PhotoOps =>
    /\ loaded[r].list \subseteq Photo /\ RowsDistinct(loaded[r].list)
    /\ req[r].op = "review_photo" => req[r].verdict \in PhotoStatus

PhInv == UInv /\ PhotosTyped /\ PhotoSaw /\ PhotoReads /\ OneProfilePhoto

LEMMA PhInvInit == Init => PhInv
<1> SUFFICES ASSUME Init
             PROVE  PhInv
  OBVIOUS
<1>1. \A r \in Req : pc[r] = "new"
  BY DEF Init, SessionsInit, RolesInit, RequestsInit
<1>2. \A p \in photos :
        \E i \in {Old, Another}, u \in People :
          p = [id |-> i, user |-> u, profile |-> (i = Old), by |-> Old,
               status |-> "PENDING", deleted |-> FALSE]
  BY DEF Init, ModerationInit
<1>3. photos \subseteq Photo
  <2> SUFFICES ASSUME NEW i \in {Old, Another}, NEW u \in People
               PROVE  [id |-> i, user |-> u, profile |-> (i = Old), by |-> Old,
                       status |-> "PENDING", deleted |-> FALSE] \in Photo
    BY <1>2
  <2> QED
    BY DEF Photo, Id, People, PhotoStatus
<1>4. \A p \in photos : p.id \in {Old, Another} /\ p.by = Old /\ (p.profile => p.id = Old)
  <2> SUFFICES ASSUME NEW i \in {Old, Another}, NEW u \in People,
                      NEW p, p = [id |-> i, user |-> u, profile |-> (i = Old), by |-> Old,
                                  status |-> "PENDING", deleted |-> FALSE]
               PROVE  p.id \in {Old, Another} /\ p.by = Old /\ (p.profile => p.id = Old)
    BY <1>2
  <2>1. p.id = i /\ p.by = Old /\ p.profile = (i = Old)
    OBVIOUS
  <2> QED
    BY <2>1
<1>5. ASSUME NEW p \in photos, NEW q \in photos, SameRow(p, q)
      PROVE  p = q
  <2> PICK i \in {Old, Another}, u \in People :
             p = [id |-> i, user |-> u, profile |-> (i = Old), by |-> Old,
                  status |-> "PENDING", deleted |-> FALSE]
    BY <1>2
  <2> PICK j \in {Old, Another}, v \in People :
             q = [id |-> j, user |-> v, profile |-> (j = Old), by |-> Old,
                  status |-> "PENDING", deleted |-> FALSE]
    BY <1>2
  <2>1. i = j /\ u = v
    BY <1>5 DEF SameRow
  <2> QED
    BY <2>1
<1>6. PhotosTyped
  BY <1>3, <1>4, <1>5, PhotoAssumption, IdAssumption DEF PhotosTyped, RowsDistinct
<1>7. OneProfilePhoto
  BY <1>4, <1>5 DEF OneProfilePhoto, SameRow
<1> QED
  BY <1>1, <1>6, <1>7, RInvInit DEF RInv, PhInv, PhotoSaw, PhotoReads

\* Steps that are not about photos.
NoPhoto(r) ==
  /\ Advances(r) /\ UNCHANGED photos
  /\ Comes(r) => req'[r].op \notin PhotoOps
  /\ GoesOn(r) => req[r].op \notin PhotoOps

LEMMA NoPhotoElsewhere ==
  ASSUME NEW r \in Req, NEW ops, Belongs(r, ops), ops \cap PhotoOps = {}, UNCHANGED photos
  PROVE  NoPhoto(r)
<1>1. ~(Comes(r) /\ GoesOn(r)) /\ ~(Comes(r) /\ IsLost(r))
  BY DEF Comes, GoesOn, IsLost, Open
<1>2. IsLost(r) /\ GoesOn(r) => req[r].op \notin PhotoOps
  BY DEF IsLost, GoesOn, NoRequest, PhotoOps
<1> QED
  BY <1>1, <1>2 DEF Belongs, NoPhoto, Advances

PhotoStep(r) ==
  \/ NoPhoto(r)
  \/ \E u \in User : ConfirmUpload(r, u)
  \/ \E op \in PhotoOps, a \in User, p \in photos, v \in PhotoStatus \cup {"none"} :
       PhotoRead(r, op, a, p, v)
  \/ PhotoCommit(r)

LEMMA ModerationPhotos ==
  ASSUME UInv, NEW r \in Req, ModerationStep(r)
  PROVE  Advances(r) /\ PhotoStep(r)
<1> DEFINE ops == ReportOps \cup {"suspend", "ban", "report", "share", "unshare", "sweep_shares"}
<1>a. HInv
  BY DEF UInv
<1>b. Advances(r)
  <2>1. Moderates(r)
    BY <1>a, ModerationFacts DEF UInv, HasUser
  <2> QED
    BY <2>1 DEF Moderates, Advances
<1>0. ASSUME Belongs(r, ops), UNCHANGED photos
      PROVE  PhotoStep(r)
  <2>1. ops \cap PhotoOps = {}
    BY DEF PhotoOps, ReportOps
  <2> QED
    BY <1>0, <2>1, NoPhotoElsewhere DEF PhotoStep
<1> USE DEF Open, Answered, ReportOps
<1>1. ASSUME NEW a \in User, NEW u \in User, CreateReport(r, a, u) \/ ShareRead(r, a, u)
      PROVE  PhotoStep(r)
  BY <1>a, <1>0, <1>1, ArrivesFacts DEF CreateReport, ShareRead, Belongs, files
<1>2. ASSUME NEW op \in ReportOps, NEW a \in User, NEW x \in reports, NEW to \in ReportStatus,
             ReportRead(r, op, a, x, to)
      PROVE  PhotoStep(r)
  BY <1>a, <1>0, <1>2, ArrivesFacts DEF ReportRead, Belongs, files
<1>3. ASSUME NEW op \in {"suspend", "ban"}, NEW a \in User, NEW x \in reports,
             ReportAction(r, op, a, x)
      PROVE  PhotoStep(r)
  BY <1>a, <1>0, <1>3, ArrivesFacts DEF ReportAction, Belongs, files
<1>4. ASSUME ReportCommit(r) \/ ShareCommit(r)
      PROVE  PhotoStep(r)
  BY <1>a, <1>0, <1>4, GoesFacts, FailsFacts DEF ReportCommit, ShareCommit, At, Belongs
<1>5. CASE Unshare(r)
  <2>0. UNCHANGED photos
    BY <1>5 DEF Unshare
  <2>1. CASE Arrives(r, [op |-> "sweep_shares"], Nothing, "committed")
    <3>1. Takes(r) /\ Comes(r) /\ req'[r].op = "sweep_shares"
      BY <1>a, <2>1, ArrivesFacts
    <3>2. req'[r].op \in ops
      BY <3>1
    <3> QED
      BY <1>b, <1>0, <2>0, <3>1, <3>2 DEF Belongs
  <2>2. ASSUME NEW x \in shares, Arrives(r, [op |-> "unshare", row |-> x.owner], Nothing, "committed")
        PROVE  PhotoStep(r)
    <3>1. Takes(r) /\ Comes(r) /\ req'[r].op = "unshare"
      BY <1>a, <2>2, ArrivesFacts
    <3>2. req'[r].op \in ops
      BY <3>1
    <3> QED
      BY <1>b, <1>0, <2>0, <3>1, <3>2 DEF Belongs
  <2> QED
    BY <1>b, <1>5, <2>1, <2>2 DEF Unshare
<1> HIDE DEF ops
<1> QED
  BY <1>b, <1>1, <1>2, <1>3, <1>4, <1>5 DEF ModerationStep, PhotoStep

LEMMA PhotoKinds ==
  ASSUME UInv, [Next]_bvars
  PROVE  UNCHANGED <<requests, photos>> \/ \E r \in Req : Advances(r) /\ PhotoStep(r)
<1>a. HInv
  BY DEF UInv
<1>0. ASSUME NEW r \in Req, NEW ops \in {SessionOps, RolesOps, SettingsOps, CampaignOps},
             Belongs(r, ops), UNCHANGED photos
      PROVE  Advances(r) /\ PhotoStep(r)
  <2>1. ops \cap PhotoOps = {}
    BY DEF PhotoOps, SessionOps, RevokeOps, StatusOps, TotpOps, RolesOps, ReviveOps, SettingsOps,
           ConfigOps, CampaignOps
  <2> QED
    BY <1>0, <2>1, NoPhotoElsewhere DEF PhotoStep, NoPhoto
<1>1. ASSUME NEW r \in Req, SessionsWithReport(r)
      PROVE  Advances(r) /\ PhotoStep(r)
  BY <1>0, <1>1, SessionBelong DEF SessionsWithReport
<1>2. ASSUME NEW r \in Req, RolesStep(r), UNCHANGED files
      PROVE  Advances(r) /\ PhotoStep(r)
  BY <1>a, <1>0, <1>2, RolesBelong DEF files
<1>3. ASSUME NEW r \in Req, SettingsStep(r), UNCHANGED files
      PROVE  Advances(r) /\ PhotoStep(r)
  BY <1>a, <1>0, <1>3, SettingsBelong DEF files
<1>4. ASSUME NEW r \in Req, CampaignStep(r), UNCHANGED files
      PROVE  Advances(r) /\ PhotoStep(r)
  BY <1>a, <1>0, <1>4, CampaignBelong DEF files
<1>5. ASSUME NEW r \in Req, Rollback(r), UNCHANGED files
      PROVE  Advances(r) /\ PhotoStep(r)
  <2>1. Belongs(r, CampaignOps)
    BY <1>a, <1>5, RollbackBelongs
  <2> QED
    BY <1>0, <1>5, <2>1 DEF files
<1>6. ShareLapses => UNCHANGED photos
  BY DEF ShareLapses
<1>7. CASE Next
  BY <1>1, <1>2, <1>3, <1>4, <1>5, <1>6, <1>7, ModerationPhotos DEF Next, files
<1>8. CASE UNCHANGED bvars
  BY <1>8 DEF bvars, files
<1> QED
  BY <1>7, <1>8

-----------------------------------------------------------------------------
(***************************************************************************)
(* What a commit leaves of a row.                                          *)
(***************************************************************************)
LEMMA PhotoAfterFacts ==
  ASSUME PhInv, NEW r \in Req, PhotoCommit(r), NEW p \in photos
  PROVE  /\ PhotoAfter(r, p) \in Photo /\ SameRow(PhotoAfter(r, p), p)
         /\ p.deleted => PhotoAfter(r, p).deleted
         /\ \/ PhotoAfter(r, p).profile = p.profile /\ PhotoAfter(r, p).by = p.by
            \/ ~PhotoAfter(r, p).profile /\ PhotoAfter(r, p).by = p.by
            \/ /\ req[r].op = "profile_photo" /\ p.user = req[r].row /\ p.id = req[r].photo
               /\ PhotoAfter(r, p).by = r
         /\ req[r].op = "profile_photo" /\ p.user = req[r].row /\ p.id # req[r].photo
            /\ p.profile /\ ~p.deleted /\ PhotoAfter(r, p).profile
              => p.by \in Req /\ p.by \notin before[r]
<1> DEFINE old == {x \in loaded[r].list : x.id = p.id /\ x.user = p.user}
           own == p.id = req[r].photo
<1> USE DEF PhInv
<1>1. /\ pc[r] = "read" /\ req[r].op \in PhotoOps /\ p \in Photo
      /\ loaded[r].list \subseteq Photo /\ RowsDistinct(loaded[r].list)
      /\ req[r].op = "review_photo" => req[r].verdict \in PhotoStatus
  BY DEF PhotoCommit, At, PhotosTyped, PhotoReads
<1>2. CASE p.user # req[r].row \/ old = {}
  <2>1. PhotoAfter(r, p) = p
    BY <1>2 DEF PhotoAfter
  <2>2. old = {} => ~SeenSet(r, p)
    BY DEF SeenSet, SameRow
  <2> QED
    BY <1>1, <1>2, <2>1, <2>2 DEF PhotoSaw, SameRow
<1>3. CASE p.user = req[r].row /\ old # {}
  <2>1. CASE req[r].op = "profile_photo"
    <3>1. CASE \E x \in old : x.profile = own
      <4>1. PhotoAfter(r, p) = p
        BY <1>3, <2>1, <3>1 DEF PhotoAfter
      <4>2. ~own => ~SeenSet(r, p)
        BY <1>1, <3>1 DEF SeenSet, SameRow, RowsDistinct, Photo
      <4> QED
        BY <1>1, <1>3, <2>1, <4>1, <4>2 DEF PhotoSaw, SameRow
    <3>2. CASE ~\E x \in old : x.profile = own
      <4>1. PhotoAfter(r, p) = [p EXCEPT !.profile = own, !.by = IF own THEN r ELSE @]
        BY <1>3, <2>1, <3>2 DEF PhotoAfter
      <4>2. own \in BOOLEAN
        OBVIOUS
      <4>3. /\ PhotoAfter(r, p) \in Photo
            /\ PhotoAfter(r, p).id = p.id /\ PhotoAfter(r, p).user = p.user
            /\ PhotoAfter(r, p).deleted = p.deleted
            /\ PhotoAfter(r, p).profile = own
            /\ PhotoAfter(r, p).by = IF own THEN r ELSE p.by
        <5> HIDE DEF own
        <5> QED
          BY <1>1, <4>1, <4>2 DEF Photo, Id
      <4> QED
        BY <1>3, <2>1, <4>3 DEF SameRow
    <3> QED
      BY <3>1, <3>2
  <2>2. CASE req[r].op = "delete_photo"
    <3>1. PhotoAfter(r, p) = IF own THEN [p EXCEPT !.deleted = TRUE] ELSE p
      BY <1>3, <2>2 DEF PhotoAfter
    <3> QED
      BY <1>1, <2>2, <3>1 DEF Photo, SameRow
  <2>3. CASE req[r].op = "review_photo"
    <3>1. PhotoAfter(r, p) = IF own THEN [p EXCEPT !.status = req[r].verdict] ELSE p
      BY <1>3, <2>3 DEF PhotoAfter
    <3> QED
      BY <1>1, <2>3, <3>1 DEF Photo, SameRow
  <2> QED
    BY <1>1, <2>1, <2>2, <2>3 DEF PhotoOps
<1> QED
  BY <1>2, <1>3

LEMMA OthersPhotos ==
  ASSUME HInv, NEW r \in Req, Advances(r)
  PROVE  /\ \A o \in Req \ {r} : /\ pc'[o] = pc[o] /\ req'[o] = req[o]
                                 /\ loaded'[o] = loaded[o] /\ before'[o] = before[o]
         /\ \A q \in Req : /\ Committed(q) => Committed(q)' /\ q # r
                           /\ pc[q] # "new" => pc'[q] # "new"
         /\ pc'[r] = "read" => Comes(r)
  BY DEF Advances, Takes, Comes, GoesOn, IsLost, Open, Answered, Committed

LEMMA PhotoCommitKeeps ==
  ASSUME PhInv, NEW r \in Req, Advances(r), PhotoCommit(r)
  PROVE  PhotosTyped' /\ PhotoSaw' /\ PhotoReads' /\ OneProfilePhoto'
<1>a. HInv
  BY DEF PhInv, UInv
<1>b. /\ pc[r] = "read" /\ pc'[r] = "committed" /\ req' = req /\ loaded' = loaded /\ before' = before
      /\ photos' = {PhotoAfter(r, p) : p \in photos}
  BY <1>a DEF PhotoCommit, At, Goes, HInv
<1>c. Committed(r)'
  BY <1>b DEF Committed
<1>1. PhotosTyped'
  <2>1. photos' \subseteq Photo
    BY <1>b, PhotoAfterFacts
  <2>2. ASSUME NEW x \in photos', NEW y \in photos', SameRow(x, y)
        PROVE  x = y
    <3> PICK p \in photos : x = PhotoAfter(r, p)
      BY <1>b
    <3> PICK q \in photos : y = PhotoAfter(r, q)
      BY <1>b
    <3>1. SameRow(x, p) /\ SameRow(y, q)
      BY PhotoAfterFacts
    <3>2. SameRow(p, q)
      BY <2>2, <3>1 DEF SameRow
    <3> QED
      BY <3>2 DEF PhInv, PhotosTyped, RowsDistinct
  <2>3. ASSUME NEW x \in photos'
        PROVE  (x.id \in Req => pc'[x.id] # "new") /\ (x.by \in Req => Committed(x.by)')
    <3> PICK p \in photos : x = PhotoAfter(r, p)
      BY <1>b
    <3>1. x.id = p.id /\ x.by \in {p.by, r}
      BY PhotoAfterFacts DEF SameRow
    <3> QED
      BY <1>a, <1>c, <3>1, OthersPhotos DEF PhInv, PhotosTyped
  <2> QED
    BY <2>1, <2>2, <2>3 DEF PhotosTyped, RowsDistinct
<1>2. PhotoReads'
  BY <1>a, <1>b, OthersPhotos DEF PhotoReads, PhInv, Comes
<1>3. PhotoSaw'
  <2> SUFFICES ASSUME NEW o \in Req, pc'[o] = "read", req[o].op = "profile_photo",
                      NEW x \in photos', x.user = req[o].row, x.profile, ~x.deleted
               PROVE  SeenSet(o, x) \/ (x.by \in Req /\ x.by \notin before[o])
    BY <1>b DEF PhotoSaw, SeenSet
  <2>1. o # r /\ pc[o] = "read"
    BY <1>a, <1>b, OthersPhotos
  <2> PICK p \in photos : x = PhotoAfter(r, p)
    BY <1>b
  <2>2. SameRow(x, p) /\ ~p.deleted /\ ((x.profile = p.profile /\ x.by = p.by) \/ x.by = r)
    BY PhotoAfterFacts
  <2>3. SeenSet(o, p) => SeenSet(o, x)
    BY <2>2 DEF SeenSet, SameRow
  <2>4. r \notin before[o]
    BY <1>a, <1>b DEF HInv, Answered
  <2> QED
    BY <2>1, <2>2, <2>3, <2>4 DEF PhInv, PhotoSaw, SameRow
<1>4. OneProfilePhoto'
  <2>1. ASSUME NEW p \in photos, NEW q \in photos, p # q, p.user = q.user,
               NEW x, x = PhotoAfter(r, p), NEW y, y = PhotoAfter(r, q),
               x.profile, y.profile, ~x.deleted, ~y.deleted,
               y.profile = q.profile, y.by = q.by
        PROVE  x.by \in Req /\ y.by \in Req /\ Overlap(x.by, y.by)' /\ Overlap(y.by, x.by)'
    <3>1. q.profile /\ ~q.deleted /\ ~p.deleted
      BY <2>1, PhotoAfterFacts
    <3>2. CASE x.profile = p.profile /\ x.by = p.by
      <4>1. x.by \in Req /\ y.by \in Req /\ Overlap(x.by, y.by)
        BY <2>1, <3>1, <3>2 DEF PhInv, OneProfilePhoto
      <4>2. Overlap(x.by, y.by)'
        BY <1>a, <4>1, OverlapStays DEF Advances
      <4> QED
        BY <4>1, <4>2 DEF Overlap
    <3>3. CASE req[r].op = "profile_photo" /\ p.user = req[r].row /\ p.id = req[r].photo /\ x.by = r
      <4>1. q.id # req[r].photo
        BY <2>1, <3>3 DEF PhInv, PhotosTyped, RowsDistinct, SameRow
      <4>2. y.by \in Req /\ y.by \notin before[r]
        BY <2>1, <3>1, <3>3, <4>1, PhotoAfterFacts
      <4>3. Committed(y.by)
        BY <2>1, <4>2 DEF PhInv, PhotosTyped
      <4>4. Overlap(y.by, r)
        BY <1>a, <1>b, <4>2, <4>3, OpenOverlaps DEF Committed, Open
      <4>5. Overlap(y.by, r)'
        BY <1>a, <4>2, <4>4, OverlapStays DEF Advances
      <4> QED
        BY <3>3, <4>2, <4>5 DEF Overlap
    <3> QED
      BY <2>1, <3>2, <3>3, PhotoAfterFacts
  <2> SUFFICES ASSUME NEW x \in photos', NEW y \in photos', x # y, x.user = y.user,
                      x.profile, y.profile, ~x.deleted, ~y.deleted
               PROVE  x.by \in Req /\ y.by \in Req /\ Overlap(x.by, y.by)'
    BY DEF OneProfilePhoto
  <2> PICK p \in photos : x = PhotoAfter(r, p)
    BY <1>b
  <2> PICK q \in photos : y = PhotoAfter(r, q)
    BY <1>b
  <2>2. p # q /\ p.user = q.user
    BY PhotoAfterFacts DEF SameRow
  <2>3. CASE y.profile = q.profile /\ y.by = q.by
    BY <2>1, <2>2, <2>3
  <2>4. CASE x.profile = p.profile /\ x.by = p.by
    BY <2>1, <2>2, <2>4
  <2>5. \/ y.profile = q.profile /\ y.by = q.by
        \/ x.profile = p.profile /\ x.by = p.by
    <3>1. /\ (x.profile = p.profile /\ x.by = p.by) \/ (p.user = req[r].row /\ p.id = req[r].photo)
          /\ (y.profile = q.profile /\ y.by = q.by) \/ (q.user = req[r].row /\ q.id = req[r].photo)
      BY PhotoAfterFacts
    <3> QED
      BY <2>2, <3>1 DEF PhInv, PhotosTyped, RowsDistinct, SameRow
  <2> QED
    BY <2>3, <2>4, <2>5
<1> QED
  BY <1>1, <1>2, <1>3, <1>4

LEMMA PhotoArrivalKeeps ==
  ASSUME PhInv, NEW r \in Req, Advances(r), UNCHANGED photos,
         pc'[r] = "read" /\ req'[r].op \in PhotoOps =>
           /\ loaded'[r].list = Shown(req'[r].row)
           /\ req'[r].op = "review_photo" => req'[r].verdict \in PhotoStatus
  PROVE  PhotosTyped' /\ PhotoSaw' /\ PhotoReads' /\ OneProfilePhoto'
<1>a. HInv
  BY DEF PhInv, UInv
<1> USE DEF PhInv
<1>1. PhotosTyped'
  BY <1>a, OthersPhotos DEF PhotosTyped
<1>2. PhotoReads'
  BY <1>a, OthersPhotos DEF PhotoReads, PhotosTyped, Shown, RowsDistinct
<1>3. PhotoSaw'
  BY <1>a, OthersPhotos DEF PhotoSaw, SeenSet, SameRow, Shown, PhotoOps
<1>4. OneProfilePhoto'
  BY <1>a, OverlapStays DEF OneProfilePhoto, Advances
<1> QED
  BY <1>1, <1>2, <1>3, <1>4

LEMMA UploadKeeps ==
  ASSUME PhInv, NEW r \in Req, Advances(r), NEW u \in User, ConfirmUpload(r, u)
  PROVE  PhotosTyped' /\ PhotoSaw' /\ PhotoReads' /\ OneProfilePhoto'
<1> DEFINE new == [id |-> r, user |-> u, profile |-> FALSE, by |-> Old, status |-> "PENDING",
                   deleted |-> FALSE]
<1>a. HInv
  BY DEF PhInv, UInv
<1>b. pc[r] = "new" /\ pc'[r] = "committed" /\ photos' = photos \cup {new}
  BY <1>a, ArrivesFacts DEF ConfirmUpload, Comes, Open, Answered
<1>c. new \in Photo /\ new.id = r /\ ~new.profile /\ new.by = Old
  BY DEF Photo, Id, PhotoStatus
<1> USE DEF PhInv
<1> HIDE DEF new
<1>1. PhotosTyped'
  BY <1>a, <1>b, <1>c, OthersPhotos, IdAssumption DEF PhotosTyped, RowsDistinct, SameRow
<1>2. PhotoReads'
  BY <1>a, <1>b, OthersPhotos DEF PhotoReads
<1>3. PhotoSaw'
  BY <1>a, <1>b, <1>c, OthersPhotos DEF PhotoSaw, SeenSet
<1>4. OneProfilePhoto'
  BY <1>a, <1>b, <1>c, OverlapStays DEF OneProfilePhoto, Advances
<1> QED
  BY <1>1, <1>2, <1>3, <1>4

LEMMA PhInvKept ==
  ASSUME PhInv, [Next]_bvars
  PROVE  PhInv'
<1>a. HInv /\ UInv
  BY DEF PhInv, UInv
<1>1. UInv'
  BY <1>a, UKeeps
<1>2. CASE UNCHANGED <<requests, photos>>
  BY <1>1, <1>2 DEF PhInv, PhotosTyped, PhotoSaw, SeenSet, PhotoReads, OneProfilePhoto, Overlap,
                    Committed, requests
<1>3. ASSUME NEW r \in Req, Advances(r), PhotoStep(r)
      PROVE  PhotosTyped' /\ PhotoSaw' /\ PhotoReads' /\ OneProfilePhoto'
  <2>1. CASE NoPhoto(r)
    BY <1>a, <2>1, PhotoArrivalKeeps, OthersPhotos DEF NoPhoto
  <2>2. ASSUME NEW op \in PhotoOps, NEW a \in User, NEW p \in photos,
               NEW v \in PhotoStatus \cup {"none"}, PhotoRead(r, op, a, p, v)
        PROVE  PhotosTyped' /\ PhotoSaw' /\ PhotoReads' /\ OneProfilePhoto'
    <3>1. /\ req'[r] = [op |-> op, row |-> p.user, photo |-> p.id, verdict |-> v]
          /\ loaded'[r] = [list |-> Shown(p.user)]
          /\ op = "review_photo" => v # "none"
          /\ UNCHANGED photos
      BY <1>a, <2>2, ArrivesFacts DEF PhotoRead, files, Open
    <3> QED
      BY <1>3, <3>1, PhotoArrivalKeeps
  <2> QED
    BY <1>3, <2>1, <2>2, UploadKeeps, PhotoCommitKeeps DEF PhotoStep
<1> QED
  BY <1>a, <1>1, <1>2, <1>3, PhotoKinds DEF PhInv

(***************************************************************************)
(* Two photos of one person are profile photos only if two requests that   *)
(* set them overlapped: update clears every photo it has listed.           *)
(***************************************************************************)
THEOREM ProfilePhotosHold == Spec => []OneProfilePhoto
<1>1. PhInv => OneProfilePhoto
  BY DEF PhInv
<1> QED
  BY <1>1, PhInvInit, PhInvKept, PTL DEF Spec

-----------------------------------------------------------------------------
(***************************************************************************)
(* Reports.  The invariant: while a request that would leave a decided     *)
(* report as it found it is open, the report stays decided or somebody has *)
(* taken it up since; and an assignment that arrived after a decision has  *)
(* found the report decided or taken up.                                   *)
(***************************************************************************)
Report == [id : Id, user : User, status : ReportStatus]

ActionOps == {"suspend", "ban"}

\* The status that an open request has found.
Was(r) == IF pc[r] = "locked" THEN loaded[r].was.status ELSE loaded[r].status

AboutOne(q, r) == req[q].report = req[r].report /\ req[q].row = req[r].row

About(r, x) == req[r].report = x.id /\ req[r].row = x.user

ReportsTyped ==
  /\ reports \subseteq Report /\ RowsDistinct(reports)
  /\ \A x \in reports : x.id \in Req => pc[x.id] # "new"
  /\ \A r \in Req : OnReport(r) =>
       /\ req[r].report \in Req => pc[req[r].report] # "new"
       /\ req[r].to \in ReportStatus
       /\ req[r].op = "assign" => req[r].to \notin Decided
       /\ req[r].op \in ActionOps => req[r].to \in Decided

\* Somebody has taken up the report of r, which had been decided, since.
TakesUp(q, r) ==
  /\ Committed(q) /\ q \notin before[r] /\ OnReport(q) /\ AboutOne(q, r)
  /\ req[q].to \notin Decided /\ (req[q].op = "assign" => Overlap(q, r))

Reopened(r) == \E q \in Req : TakesUp(q, r)

StaysDecided(r) == \A x \in reports : About(r, x) => x.status \in Decided \/ Reopened(r)

DecidedSaw ==
  \A r \in Req :
    OnReport(r) /\ pc[r] \in {"read", "locked"} /\ req[r].to \in Decided /\ Was(r) = req[r].to
      => StaysDecided(r)

AssignSaw ==
  \A q \in Req : OnReport(q) /\ pc[q] = "read" /\ req[q].op = "assign" =>
    \A r \in before[q] : Decides(r) /\ AboutOne(q, r) => Was(q) \in Decided \/ Reopened(r)

DecisionsStay == \A r \in Req : Decides(r) => StaysDecided(r)

RpInv == UInv /\ ReportsTyped /\ DecidedSaw /\ AssignSaw /\ DecisionsStay

LEMMA RpInvInit == Init => RpInv
<1> SUFFICES ASSUME Init
             PROVE  RpInv
  OBVIOUS
<1>1. \A r \in Req : pc[r] = "new" /\ req[r].op = "none" /\ before[r] = {}
  BY DEF Init, SessionsInit, RolesInit, RequestsInit, NoRequest
<1>2. \A x \in reports : \E u \in People : x = [id |-> Old, user |-> u, status |-> "PENDING"]
  BY DEF Init, ModerationInit
<1>3. reports \subseteq Report
  BY <1>2 DEF Report, Id, People, ReportStatus
<1>4. RowsDistinct(reports)
  <2> SUFFICES ASSUME NEW u \in People, NEW v \in People,
                      NEW x, x = [id |-> Old, user |-> u, status |-> "PENDING"],
                      NEW y, y = [id |-> Old, user |-> v, status |-> "PENDING"],
                      SameRow(x, y)
               PROVE  x = y
    BY <1>2 DEF RowsDistinct
  <2>1. x.user = u /\ y.user = v
    OBVIOUS
  <2> QED
    BY <2>1 DEF SameRow
<1>5. \A x \in reports : x.id = Old
  BY <1>2
<1>6. \A r \in Req : ~OnReport(r)
  BY <1>1 DEF OnReport, ReportOps
<1> QED
  BY <1>1, <1>3, <1>4, <1>5, <1>6, RInvInit, IdAssumption
     DEF RInv, RpInv, ReportsTyped, DecidedSaw, AssignSaw, DecisionsStay, Decides, Committed

\* Steps that leave the reports alone ...
NoReport(r) ==
  /\ UNCHANGED reports
  /\ Comes(r) => ~OnReport(r)'
  /\ GoesOn(r) /\ OnReport(r) =>
       /\ pc[r] = "read" /\ pc'[r] = "locked" /\ req[r].op \in ActionOps
       /\ loaded'[r].was = loaded[r]

\* ... find one ...
FindsReport(r) ==
  /\ Comes(r) /\ pc'[r] = "read" /\ UNCHANGED reports
  /\ OnReport(r)' /\ req'[r].to \in ReportStatus
  /\ req'[r].op = "assign" => req'[r].to \notin Decided
  /\ req'[r].op \in ActionOps => req'[r].to \in Decided
  /\ \E x \in reports :
       req'[r].report = x.id /\ req'[r].row = x.user /\ loaded'[r].status = x.status

\* ... or write one.
WritesReport(r) ==
  /\ GoesOn(r) /\ pc[r] \in {"read", "locked"} /\ pc'[r] = "committed" /\ OnReport(r)
  /\ req[r].op \in ReportOps => pc[r] = "read"
  /\ reports' = ReportAfter(r, Was(r))

ReportStep(r) ==
  \/ NoReport(r) \/ FindsReport(r) \/ WritesReport(r)
  \/ \E a, u \in User : CreateReport(r, a, u)

LEMMA NoReportElsewhere ==
  ASSUME NEW r \in Req, NEW ops, Belongs(r, ops), ops \cap (ReportOps \cup ActionOps) = {},
         UNCHANGED reports
  PROVE  Advances(r) /\ ReportStep(r)
<1>1. ~(Comes(r) /\ GoesOn(r)) /\ ~(Comes(r) /\ IsLost(r))
  BY DEF Comes, GoesOn, IsLost, Open
<1>2. IsLost(r) /\ GoesOn(r) => ~OnReport(r)
  BY DEF IsLost, GoesOn, NoRequest, OnReport, ReportOps
<1>3. Comes(r) => ~OnReport(r)'
  BY <1>1 DEF Belongs, OnReport, ActionOps
<1>4. GoesOn(r) => ~OnReport(r)
  BY <1>1, <1>2 DEF Belongs, OnReport, ActionOps
<1> QED
  BY <1>3, <1>4 DEF Belongs, ReportStep, NoReport, Advances

LEMMA ModerationReports ==
  ASSUME UInv, NEW r \in Req, ModerationStep(r)
  PROVE  Advances(r) /\ ReportStep(r)
<1> DEFINE ops == PhotoOps \cup {"upload", "share", "unshare", "sweep_shares"}
<1>a. HInv
  BY DEF UInv
<1>b. Advances(r)
  <2>1. Moderates(r)
    BY <1>a, ModerationFacts DEF UInv, HasUser
  <2> QED
    BY <2>1 DEF Moderates, Advances
<1>0. ASSUME Belongs(r, ops), UNCHANGED reports
      PROVE  Advances(r) /\ ReportStep(r)
  <2>1. ops \cap (ReportOps \cup ActionOps) = {}
    BY DEF PhotoOps, ReportOps, ActionOps
  <2> QED
    BY <1>0, <2>1, NoReportElsewhere
<1> USE DEF Open, Answered, PhotoOps
<1>1. ASSUME NEW u \in User, ConfirmUpload(r, u)
      PROVE  Advances(r) /\ ReportStep(r)
  BY <1>a, <1>0, <1>1, ArrivesFacts DEF ConfirmUpload, Belongs
<1>2. ASSUME NEW op \in PhotoOps, NEW a \in User, NEW p \in photos,
             NEW v \in PhotoStatus \cup {"none"}, PhotoRead(r, op, a, p, v)
      PROVE  Advances(r) /\ ReportStep(r)
  BY <1>a, <1>0, <1>2, ArrivesFacts DEF PhotoRead, Belongs, files
<1>3. ASSUME NEW a \in User, NEW u \in User, ShareRead(r, a, u)
      PROVE  Advances(r) /\ ReportStep(r)
  BY <1>a, <1>0, <1>3, ArrivesFacts DEF ShareRead, Belongs, files
<1>4. ASSUME NEW op \in ReportOps, NEW a \in User, NEW x \in reports, NEW to \in ReportStatus,
             ReportRead(r, op, a, x, to)
      PROVE  ReportStep(r)
  <2>1. /\ Comes(r) /\ pc'[r] = "read" /\ UNCHANGED reports
        /\ req'[r] = [op |-> op, row |-> x.user, report |-> x.id, to |-> to]
        /\ loaded'[r] = [status |-> x.status]
        /\ op = "assign" => to = "UNDER_REVIEW"
    BY <1>a, <1>4, ArrivesFacts DEF ReportRead, files
  <2>2. "report" \in DOMAIN req'[r]
    BY <2>1
  <2>3. FindsReport(r)
    BY <2>1, <2>2 DEF FindsReport, OnReport, ReportOps, ActionOps, Decided
  <2> QED
    BY <2>3 DEF ReportStep
<1>5. ASSUME NEW op \in ActionOps, NEW a \in User, NEW x \in reports, ReportAction(r, op, a, x)
      PROVE  ReportStep(r)
  <2>1. /\ Comes(r) /\ pc'[r] = "read" /\ UNCHANGED reports
        /\ req'[r] = [op |-> op, by |-> a, row |-> x.user, report |-> x.id, to |-> "RESOLVED"]
        /\ loaded'[r] = [account |-> account[x.user], status |-> x.status]
    BY <1>a, <1>5, ArrivesFacts DEF ReportAction, files
  <2>2. "report" \in DOMAIN req'[r]
    BY <2>1
  <2>3. FindsReport(r)
    BY <2>1, <2>2 DEF FindsReport, OnReport, ReportOps, ActionOps, Decided, ReportStatus
  <2> QED
    BY <2>3 DEF ReportStep
<1>6. CASE PhotoCommit(r)
  BY <1>a, <1>0, <1>6, GoesFacts DEF PhotoCommit, At, Belongs
<1>7. CASE ShareCommit(r)
  BY <1>a, <1>0, <1>7, GoesFacts, FailsFacts DEF ShareCommit, At, Belongs
<1>8. CASE ReportCommit(r)
  <2>1. /\ GoesOn(r) /\ OnReport(r) /\ pc[r] = "read" /\ pc'[r] = "committed"
        /\ reports' = ReportAfter(r, loaded[r].status)
    BY <1>a, <1>8, GoesFacts DEF ReportCommit, At, OnReport
  <2> QED
    BY <1>b, <1>8, <2>1 DEF ReportStep, WritesReport, Was
<1>9. CASE Unshare(r)
  <2>0. UNCHANGED reports
    BY <1>9 DEF Unshare
  <2>1. CASE Arrives(r, [op |-> "sweep_shares"], Nothing, "committed")
    <3>1. Takes(r) /\ Comes(r) /\ req'[r].op = "sweep_shares"
      BY <1>a, <2>1, ArrivesFacts
    <3> QED
      BY <1>0, <2>0, <3>1 DEF Belongs
  <2>2. ASSUME NEW x \in shares, Arrives(r, [op |-> "unshare", row |-> x.owner], Nothing, "committed")
        PROVE  Advances(r) /\ ReportStep(r)
    <3>1. Takes(r) /\ Comes(r) /\ req'[r].op = "unshare"
      BY <1>a, <2>2, ArrivesFacts
    <3> QED
      BY <1>0, <2>0, <3>1 DEF Belongs
  <2> QED
    BY <1>9, <2>1, <2>2 DEF Unshare
<1> HIDE DEF ops
<1> QED
  BY <1>b, <1>1, <1>2, <1>3, <1>4, <1>5, <1>6, <1>7, <1>8, <1>9
     DEF ModerationStep, ReportStep, ActionOps

\* Sessions' own requests are not about a report.
LEMMA SessionArrivals ==
  ASSUME HInv, NEW r \in Req, SessionArrive(r)
  PROVE  Comes(r) /\ ~OnReport(r)'
<1> USE DEF Open, Answered, ReportOps, OnReport, RevokeOps, StatusOps, TotpOps
<1>0. ASSUME NEW q, NEW l, NEW s \in Open \cup Answered, Arrives(r, q, l, s),
             q.op \notin ReportOps, q.op \in {"suspend", "ban"} => "report" \notin DOMAIN q
      PROVE  Comes(r) /\ ~OnReport(r)'
  BY <1>0, ArrivesFacts
<1>1. ASSUME NEW u \in User, RegisterCheck(r, u) \/ LoginRead(r, u)
      PROVE  Comes(r) /\ ~OnReport(r)'
  BY <1>0, <1>1 DEF RegisterCheck, LoginRead
<1>2. ASSUME NEW m \in MfaTokens, NEW c \in Id \cup {Never}, MfaRead(r, m, c)
      PROVE  Comes(r) /\ ~OnReport(r)'
  BY <1>0, <1>2 DEF MfaRead
<1>3. ASSUME NEW t \in tokens, RefreshRead(r, t)
      PROVE  Comes(r) /\ ~OnReport(r)'
  BY <1>0, <1>3 DEF RefreshRead
<1>4. ASSUME NEW a \in User, NEW u \in User, NEW op \in RevokeOps, TargetRead(r, op, a, u)
      PROVE  Comes(r) /\ ~OnReport(r)'
  BY <1>0, <1>4 DEF TargetRead
<1>5. ASSUME NEW u \in User, NEW k \in Kind, SendSecret(r, k, u)
      PROVE  Comes(r) /\ ~OnReport(r)'
  BY <1>0, <1>5 DEF SendSecret
<1>6. ASSUME NEW u \in User, NEW k \in Kind, NEW v \in Id, UseGet(r, k, u, v)
      PROVE  Comes(r) /\ ~OnReport(r)'
  <2>1. CASE k = "reset"
    BY <1>0, <1>6, <2>1 DEF UseGet
  <2>2. CASE k # "reset"
    BY <1>0, <1>6, <2>2 DEF UseGet
  <2> QED
    BY <2>1, <2>2
<1>7. ASSUME NEW a \in User, NEW u \in User, NEW k \in Kind, VerifyRead(r, a, u, k)
      PROVE  Comes(r) /\ ~OnReport(r)'
  BY <1>0, <1>7 DEF VerifyRead
<1>8. ASSUME NEW a \in User, NEW u \in User, NEW op \in TotpOps, TotpRead(r, op, a, u)
      PROVE  Comes(r) /\ ~OnReport(r)'
  BY <1>0, <1>8 DEF TotpRead
<1> QED
  BY <1>1, <1>2, <1>3, <1>4, <1>5, <1>6, <1>7, <1>8 DEF SessionArrive

LEMMA SessionReports ==
  ASSUME UInv, NEW r \in Req, SessionsWithReport(r)
  PROVE  Advances(r) /\ ReportStep(r)
<1>a. HInv
  BY DEF UInv
<1>b. Advances(r) /\ Belongs(r, SessionOps)
  BY SessionBelong DEF Belongs, Advances
<1> DEFINE writes == At(r, "locked", {"suspend", "ban"}) /\ "report" \in DOMAIN req[r]
<1>c. reports' = IF writes THEN ReportAfter(r, loaded[r].was.status) ELSE reports
  BY DEF SessionsWithReport
<1>d. SessionOps \cap ReportOps = {}
  BY DEF SessionOps, RevokeOps, StatusOps, TotpOps, ReportOps
<1>1. CASE SessionArrive(r)
  <2>1. Comes(r) /\ ~OnReport(r)'
    BY <1>a, <1>1, SessionArrivals
  <2>2. ~GoesOn(r) /\ ~writes
    BY <2>1 DEF Comes, GoesOn, At, Open
  <2> QED
    BY <1>b, <1>c, <2>1, <2>2 DEF ReportStep, NoReport
<1>2. CASE RevokeCommit(r)
  <2>1. GoesOn(r) /\ pc[r] = "locked" /\ pc'[r] = "committed" /\ req[r].op \in SessionOps
    BY <1>a, <1>2, GoesFacts DEF RevokeCommit, At, Open, Answered, SessionOps
  <2>2. writes = OnReport(r)
    BY <1>d, <2>1 DEF OnReport, At
  <2>3. CASE writes
    <3>1. Was(r) = loaded[r].was.status /\ req[r].op \notin ReportOps
      BY <1>d, <2>1 DEF Was
    <3> QED
      BY <1>b, <1>c, <2>1, <2>2, <2>3, <3>1 DEF ReportStep, WritesReport
  <2>4. CASE ~writes
    <3>1. ~Comes(r)
      BY <2>1 DEF Comes
    <3> QED
      BY <1>b, <1>c, <2>2, <2>4, <3>1 DEF ReportStep, NoReport
  <2> QED
    BY <2>3, <2>4
<1>3. CASE RevokeList(r)
  <2>1. GoesOn(r) /\ pc'[r] = "locked" /\ loaded'[r].was = loaded[r] /\ pc[r] \in {"read", "dropped"}
    BY <1>a, <1>3, KeepsFacts DEF RevokeList, At, Open, Answered
  <2>2. /\ pc[r] = "dropped" => req[r].op = "reset"
        /\ req[r].op \in StatusOps \cup {"revoke_sessions", "reset"}
    BY <1>3 DEF RevokeList, At
  <2>3. OnReport(r) => pc[r] = "read" /\ req[r].op \in ActionOps
    BY <2>1, <2>2 DEF OnReport, ActionOps, StatusOps, ReportOps
  <2>4. ~Comes(r) /\ ~writes
    BY <2>1 DEF Comes, At
  <2> QED
    BY <1>b, <1>c, <2>1, <2>3, <2>4 DEF ReportStep, NoReport
<1>4. CASE \/ RegisterInsert(r) \/ RegisterCommit(r) \/ LoginCommit(r) \/ MfaCommit(r)
           \/ RefreshCommit(r) \/ UseDelete(r) \/ VerifyCommit(r) \/ SetupCommit(r) \/ TotpCommit(r)
  <2>1. /\ pc[r] \in Open
        /\ req[r].op \in {"register", "login", "mfa", "refresh", "logout", "reset", "verify",
                          "verify_user"} \cup TotpOps
    BY <1>4 DEF RegisterInsert, RegisterCommit, LoginCommit, MfaCommit, RefreshCommit, UseDelete,
                VerifyCommit, SetupCommit, TotpCommit, At, Open, TotpOps
  <2>2. ~OnReport(r) /\ ~writes
    BY <2>1 DEF OnReport, ReportOps, TotpOps, At
  <2>3. ~Comes(r)
    BY <2>1 DEF Comes, Open
  <2> QED
    BY <1>b, <1>c, <2>2, <2>3 DEF ReportStep, NoReport
<1> QED
  BY <1>1, <1>2, <1>3, <1>4 DEF SessionsWithReport, SessionContinue

LEMMA ReportKinds ==
  ASSUME UInv, [Next]_bvars
  PROVE  UNCHANGED <<requests, reports>> \/ \E r \in Req : Advances(r) /\ ReportStep(r)
<1>a. HInv
  BY DEF UInv
<1>0. ASSUME NEW r \in Req, NEW ops \in {RolesOps, SettingsOps, CampaignOps},
             Belongs(r, ops), UNCHANGED reports
      PROVE  Advances(r) /\ ReportStep(r)
  <2>1. ops \cap (ReportOps \cup ActionOps) = {}
    BY DEF ReportOps, ActionOps, RolesOps, ReviveOps, SettingsOps, ConfigOps, CampaignOps
  <2> QED
    BY <1>0, <2>1, NoReportElsewhere
<1>2. ASSUME NEW r \in Req, RolesStep(r), UNCHANGED files
      PROVE  Advances(r) /\ ReportStep(r)
  BY <1>a, <1>0, <1>2, RolesBelong DEF files
<1>3. ASSUME NEW r \in Req, SettingsStep(r), UNCHANGED files
      PROVE  Advances(r) /\ ReportStep(r)
  BY <1>a, <1>0, <1>3, SettingsBelong DEF files
<1>4. ASSUME NEW r \in Req, CampaignStep(r), UNCHANGED files
      PROVE  Advances(r) /\ ReportStep(r)
  BY <1>a, <1>0, <1>4, CampaignBelong DEF files
<1>5. ASSUME NEW r \in Req, Rollback(r), UNCHANGED files
      PROVE  Advances(r) /\ ReportStep(r)
  <2>1. Belongs(r, CampaignOps)
    BY <1>a, <1>5, RollbackBelongs
  <2> QED
    BY <1>0, <1>5, <2>1 DEF files
<1>6. ShareLapses => UNCHANGED reports
  BY DEF ShareLapses
<1>7. CASE Next
  BY <1>2, <1>3, <1>4, <1>5, <1>6, <1>7, SessionReports, ModerationReports DEF Next, files
<1>8. CASE UNCHANGED bvars
  BY <1>8 DEF bvars, files
<1> QED
  BY <1>7, <1>8

-----------------------------------------------------------------------------
(***************************************************************************)
(* What a step leaves: what has been committed and taken up stays so.      *)
(***************************************************************************)
LEMMA TakenUpStays ==
  ASSUME HInv, NEW r \in Req, Advances(r), NEW d \in Req, NEW q \in Req, TakesUp(q, d),
         pc[d] # "new", pc[d] \in Open => req'[d] = req[d]
  PROVE  TakesUp(q, d)'
<1>1. q # r /\ Committed(q)' /\ req'[q] = req[q]
  BY OthersPhotos DEF TakesUp
<1>2. req'[d] = req[d] /\ before'[d] = before[d]
  BY OthersPhotos DEF Advances, Comes, GoesOn, IsLost
<1>3. OnReport(q)'
  BY <1>1 DEF TakesUp, OnReport
<1>4. req[q].op = "assign" => Overlap(q, d)'
  BY OverlapStays DEF TakesUp, Advances
<1> QED
  BY <1>1, <1>2, <1>3, <1>4 DEF TakesUp, AboutOne

LEMMA WrittenReport ==
  ASSUME RpInv, NEW r \in Req, WritesReport(r), NEW y \in reports'
  PROVE  \E x \in reports :
           /\ SameRow(x, y) /\ y \in Report
           /\ ~About(r, x) => y = x
           /\ About(r, x) => y.status = StatusAfter(req[r], Was(r), x.status)
<1> PICK x \in reports :
           y = IF x.user = req[r].row /\ x.id = req[r].report
               THEN [x EXCEPT !.status = StatusAfter(req[r], Was(r), @)] ELSE x
  BY DEF WritesReport, ReportAfter
<1>1. x \in Report /\ req[r].to \in ReportStatus
  BY DEF RpInv, ReportsTyped, WritesReport
<1>2. StatusAfter(req[r], Was(r), x.status) \in ReportStatus
  BY <1>1 DEF StatusAfter, Report
<1> QED
  BY <1>1, <1>2 DEF SameRow, About, Report

\* A report that was decided, or taken up since, is so after every step.
LEMMA DecisionsKeep ==
  ASSUME RpInv, NEW r \in Req, Advances(r), ReportStep(r),
         NEW d \in Req, pc[d] \in Open \cup {"committed"}, OnReport(d), req[d].to \in Decided,
         req'[d] = req[d], StaysDecided(d)
  PROVE  StaysDecided(d)'
<1>a. HInv
  BY DEF RpInv, UInv
<1>b. pc[d] # "new" /\ before'[d] = before[d]
  BY DEF Open, Advances, Takes, Comes, GoesOn, IsLost
<1>c. Reopened(d) => Reopened(d)'
  BY <1>a, <1>b, TakenUpStays DEF Reopened
<1> SUFFICES ASSUME NEW y \in reports', req[d].report = y.id, req[d].row = y.user
             PROVE  y.status \in Decided \/ Reopened(d)'
  BY DEF StaysDecided, About
<1>1. CASE y \in reports
  BY <1>1, <1>c DEF StaysDecided, About
<1>2. ASSUME NEW a \in User, NEW u \in User, CreateReport(r, a, u)
      PROVE  y.status \in Decided \/ Reopened(d)'
  <2>1. pc[r] = "new"
    BY <1>2 DEF CreateReport, Arrives
  <2>2. y \in reports \/ y.id = r
    BY <1>2 DEF CreateReport
  <2>3. y.id # r
    BY <2>1 DEF RpInv, ReportsTyped
  <2> QED
    BY <1>1, <2>2, <2>3
<1>3. CASE WritesReport(r)
  <2> PICK x \in reports :
             /\ SameRow(x, y)
             /\ ~About(r, x) => y = x
             /\ About(r, x) => y.status = StatusAfter(req[r], Was(r), x.status)
    BY <1>3, WrittenReport
  <2>1. x.status \in Decided \/ Reopened(d)
    BY DEF StaysDecided, About, SameRow
  <2>2. SUFFICES ASSUME About(r, x), x.status \in Decided, y.status \notin Decided, ~Reopened(d)
                 PROVE  Reopened(d)'
    BY <1>1, <1>c, <2>1
  <2>3. /\ req[r].to \notin Decided
        /\ req[r].op = "assign" => Was(r) = "PENDING"
        /\ pc[r] \in {"read", "locked"} /\ OnReport(r) /\ AboutOne(r, d)
    BY <1>3, <2>2 DEF StatusAfter, WritesReport, AboutOne, About, SameRow
  <2>4. r # d
    BY <2>3
  <2>5. req[r].op \in ReportOps /\ pc[r] = "read"
    BY <1>3, <2>3 DEF RpInv, ReportsTyped, OnReport, ActionOps, WritesReport
  <2>6. Committed(r)' /\ req'[r] = req[r] /\ r \notin before[d]
    BY <1>a, <1>3, <2>5 DEF WritesReport, GoesOn, Committed, HInv, Answered
  <2>7. req[r].op = "assign" => Overlap(r, d)
    <3> SUFFICES ASSUME req[r].op = "assign"
                 PROVE  Overlap(r, d)
      OBVIOUS
    <3>1. d \notin before[r]
      <4> SUFFICES ASSUME d \in before[r]
                   PROVE  FALSE
        OBVIOUS
      <4>1. Decides(d)
        BY <1>a DEF HInv, Open, Answered, Decides, Committed
      <4>2. Was(r) \in Decided
        BY <2>2, <2>3, <2>5, <4>1 DEF RpInv, AssignSaw
      <4> QED
        BY <2>3, <4>2 DEF Decided
    <3>2. Overlap(d, r)
      BY <1>a, <1>b, <2>4, <2>5, <3>1, OpenOverlaps DEF Open
    <3> QED
      BY <3>2 DEF Overlap
  <2>8. req[r].op = "assign" => Overlap(r, d)'
    BY <1>a, <2>7, OverlapStays DEF Advances
  <2>9. TakesUp(r, d)'
    BY <1>b, <2>3, <2>6, <2>8 DEF TakesUp, OnReport, AboutOne
  <2> QED
    BY <2>9 DEF Reopened
<1> QED
  BY <1>1, <1>2, <1>3 DEF ReportStep, NoReport, FindsReport

LEMMA ReportsTypedKept ==
  ASSUME RpInv, NEW r \in Req, Advances(r), ReportStep(r)
  PROVE  ReportsTyped'
<1>a. HInv
  BY DEF RpInv, UInv
<1>1. /\ reports' \subseteq Report /\ RowsDistinct(reports')
      /\ \A x \in reports' : x.id \in Req => pc'[x.id] # "new"
  <2>1. CASE UNCHANGED reports
    BY <1>a, <2>1, OthersPhotos DEF RpInv, ReportsTyped
  <2>2. CASE WritesReport(r)
    <3>1. ASSUME NEW y \in reports'
          PROVE  y \in Report /\ (y.id \in Req => pc'[y.id] # "new")
      BY <1>a, <2>2, WrittenReport, OthersPhotos DEF RpInv, ReportsTyped, SameRow
    <3>2. ASSUME NEW y \in reports', NEW z \in reports', SameRow(y, z)
          PROVE  y = z
      <4> PICK x \in reports :
            y = IF x.user = req[r].row /\ x.id = req[r].report
                THEN [x EXCEPT !.status = StatusAfter(req[r], Was(r), @)] ELSE x
        BY <2>2 DEF WritesReport, ReportAfter
      <4> PICK w \in reports :
            z = IF w.user = req[r].row /\ w.id = req[r].report
                THEN [w EXCEPT !.status = StatusAfter(req[r], Was(r), @)] ELSE w
        BY <2>2 DEF WritesReport, ReportAfter
      <4>1. x \in Report /\ w \in Report
        BY DEF RpInv, ReportsTyped
      <4>2. SameRow(x, y) /\ SameRow(w, z)
        BY <4>1 DEF SameRow, Report
      <4>3. x = w
        BY <3>2, <4>2 DEF RpInv, ReportsTyped, RowsDistinct, SameRow
      <4> QED
        BY <4>3
    <3> QED
      BY <3>1, <3>2 DEF RowsDistinct
  <2>3. ASSUME NEW a \in User, NEW u \in User, CreateReport(r, a, u)
        PROVE  /\ reports' \subseteq Report /\ RowsDistinct(reports')
               /\ \A x \in reports' : x.id \in Req => pc'[x.id] # "new"
    <3> DEFINE new == [id |-> r, user |-> u, status |-> "PENDING"]
    <3>1. pc[r] = "new" /\ pc'[r] = "committed" /\ reports' = reports \cup {new}
      BY <1>a, <2>3, ArrivesFacts DEF CreateReport, Arrives, Answered
    <3>2. new \in Report /\ new.id = r
      BY DEF Report, Id, ReportStatus
    <3> HIDE DEF new
    <3> QED
      BY <1>a, <3>1, <3>2, OthersPhotos DEF RpInv, ReportsTyped, RowsDistinct, SameRow
  <2> QED
    BY <2>1, <2>2, <2>3 DEF ReportStep, NoReport, FindsReport
<1>2. ASSUME NEW q \in Req, OnReport(q)'
      PROVE  /\ req'[q].report \in Req => pc'[req'[q].report] # "new"
             /\ req'[q].to \in ReportStatus
             /\ req'[q].op = "assign" => req'[q].to \notin Decided
             /\ req'[q].op \in ActionOps => req'[q].to \in Decided
  <2>1. CASE req'[q] = req[q]
    BY <1>a, <1>2, <2>1, OthersPhotos DEF RpInv, ReportsTyped, OnReport
  <2>2. CASE q = r /\ FindsReport(r)
    BY <1>a, <2>2, OthersPhotos DEF FindsReport, RpInv, ReportsTyped
  <2>3. CASE q = r /\ IsLost(r)
    BY <1>2, <2>3 DEF IsLost, NoRequest, OnReport, ReportOps
  <2>4. CASE q = r /\ Comes(r) /\ ~FindsReport(r)
    <3>1. ASSUME NEW a \in User, NEW u \in User, CreateReport(r, a, u)
          PROVE  req'[r].op = "report"
      BY <1>a, <3>1, ArrivesFacts DEF CreateReport, Answered
    <3> QED
      BY <1>2, <2>4, <3>1
         DEF ReportStep, NoReport, WritesReport, GoesOn, Comes, Open, OnReport, ReportOps
  <2> QED
    BY <2>1, <2>2, <2>3, <2>4 DEF Advances, Takes, GoesOn
<1> QED
  BY <1>1, <1>2 DEF ReportsTyped

\* What r itself does to a report: it comes, it locks, it commits.
LEMMA OwnReport ==
  ASSUME RpInv, NEW r \in Req, Advances(r), ReportStep(r), OnReport(r)'
  PROVE  \/ FindsReport(r)
         \/ /\ NoReport(r) /\ OnReport(r) /\ GoesOn(r) /\ req'[r] = req[r]
            /\ pc[r] = "read" /\ pc'[r] = "locked" /\ Was(r)' = Was(r)
         \/ WritesReport(r) /\ req'[r] = req[r]
<1>a. HInv
  BY DEF RpInv, UInv
<1>1. ASSUME NEW a \in User, NEW u \in User, CreateReport(r, a, u)
      PROVE  FALSE
  <2>1. req'[r].op = "report"
    BY <1>a, <1>1, ArrivesFacts DEF CreateReport, Answered
  <2> QED
    BY <2>1 DEF OnReport, ReportOps
<1>2. ~IsLost(r)
  BY DEF IsLost, NoRequest, OnReport, ReportOps
<1>3. GoesOn(r) => req'[r] = req[r] /\ OnReport(r)
  BY DEF GoesOn, OnReport
<1>4. CASE NoReport(r)
  BY <1>2, <1>3, <1>4 DEF NoReport, Advances, Was
<1> QED
  BY <1>1, <1>3, <1>4 DEF ReportStep, WritesReport

LEMMA DecidedSawKept ==
  ASSUME RpInv, NEW r \in Req, Advances(r), ReportStep(r)
  PROVE  DecidedSaw'
<1>a. HInv
  BY DEF RpInv, UInv
<1> SUFFICES ASSUME NEW d \in Req, OnReport(d)', pc'[d] \in {"read", "locked"},
                    req'[d].to \in Decided, Was(d)' = req'[d].to
             PROVE  StaysDecided(d)'
  BY DEF DecidedSaw
<1>1. CASE d # r
  <2>1. pc'[d] = pc[d] /\ req'[d] = req[d] /\ Was(d)' = Was(d) /\ OnReport(d)
    BY <1>a, <1>1, OthersPhotos DEF Was, OnReport
  <2>2. StaysDecided(d)
    BY <2>1 DEF RpInv, DecidedSaw
  <2> QED
    BY <2>1, <2>2, DecisionsKeep DEF Open
<1>2. CASE d = r /\ FindsReport(r)
  <2> PICK x \in reports :
        req'[r].report = x.id /\ req'[r].row = x.user /\ loaded'[r].status = x.status
    BY <1>2 DEF FindsReport
  <2>1. x.status \in Decided
    BY <1>2 DEF FindsReport, Was
  <2>2. \A y \in reports' : About(r, y)' => y = x
    BY <1>2 DEF FindsReport, About, RpInv, ReportsTyped, RowsDistinct, SameRow
  <2> QED
    BY <1>2, <2>1, <2>2 DEF StaysDecided, About
<1>3. CASE d = r /\ OnReport(r) /\ req'[r] = req[r] /\ pc[r] = "read" /\ Was(r)' = Was(r)
  <2>1. StaysDecided(r)
    BY <1>3 DEF RpInv, DecidedSaw
  <2> QED
    BY <1>3, <2>1, DecisionsKeep DEF Open
<1> QED
  BY <1>1, <1>2, <1>3, OwnReport DEF WritesReport

LEMMA DecisionsStayKept ==
  ASSUME RpInv, NEW r \in Req, Advances(r), ReportStep(r)
  PROVE  DecisionsStay'
<1>a. HInv
  BY DEF RpInv, UInv
<1> SUFFICES ASSUME NEW d \in Req, Decides(d)'
             PROVE  StaysDecided(d)'
  BY DEF DecisionsStay
<1>1. CASE d # r
  <2>1. pc'[d] = pc[d] /\ req'[d] = req[d]
    BY <1>a, <1>1, OthersPhotos
  <2>2. Decides(d)
    BY <2>1 DEF Decides, Committed, OnReport
  <2>3. StaysDecided(d)
    BY <2>2 DEF RpInv, DecisionsStay
  <2> QED
    BY <2>1, <2>2, <2>3, DecisionsKeep DEF Decides, Committed
<1>2. CASE d = r
  <2>1. WritesReport(r) /\ req'[r] = req[r] /\ req[r].to \in Decided
    BY <1>2, OwnReport DEF Decides, Committed, FindsReport
  <2>2. CASE Was(r) = req[r].to
    <3>1. StaysDecided(r) /\ OnReport(r) /\ pc[r] \in {"read", "locked"}
      BY <2>1, <2>2 DEF RpInv, DecidedSaw, WritesReport
    <3> QED
      BY <1>2, <2>1, <3>1, DecisionsKeep DEF Open
  <2>3. CASE Was(r) # req[r].to
    <3> SUFFICES ASSUME NEW y \in reports', req[r].report = y.id, req[r].row = y.user
                 PROVE  y.status \in Decided
      BY <1>2, <2>1 DEF StaysDecided, About
    <3> PICK x \in reports :
               /\ SameRow(x, y)
               /\ About(r, x) => y.status = StatusAfter(req[r], Was(r), x.status)
      BY <2>1, WrittenReport
    <3>1. y.status = StatusAfter(req[r], Was(r), x.status)
      BY DEF SameRow, About
    <3>2. req[r].op # "assign"
      BY <2>1 DEF RpInv, ReportsTyped, WritesReport
    <3> QED
      BY <2>1, <2>3, <3>1, <3>2 DEF StatusAfter
  <2> QED
    BY <2>2, <2>3
<1> QED
  BY <1>1, <1>2

LEMMA AssignSawKept ==
  ASSUME RpInv, NEW r \in Req, Advances(r), ReportStep(r)
  PROVE  AssignSaw'
<1>a. HInv
  BY DEF RpInv, UInv
<1> SUFFICES ASSUME NEW q \in Req, OnReport(q)', pc'[q] = "read", req'[q].op = "assign",
                    NEW d \in before'[q], Decides(d)', AboutOne(q, d)'
             PROVE  Was(q)' \in Decided \/ Reopened(d)'
  BY DEF AssignSaw
<1>b. d \in Req /\ pc[d] \in Answered
  BY <1>a, OthersPhotos DEF HInv, Comes, Advances, Takes, GoesOn, IsLost
<1>c. d # r /\ Decides(d) /\ req'[d] = req[d] /\ pc[d] # "new"
  <2>1. d # r
    BY <1>b DEF Advances, Comes, GoesOn, IsLost, Open, Answered
  <2> QED
    BY <1>a, <1>b, <2>1, OthersPhotos DEF Decides, Committed, OnReport, Answered
<1>d. Reopened(d) => Reopened(d)'
  BY <1>a, <1>b, <1>c, TakenUpStays DEF Reopened
<1>1. CASE q # r
  <2>1. /\ pc'[q] = pc[q] /\ req'[q] = req[q] /\ before'[q] = before[q]
        /\ Was(q)' = Was(q) /\ OnReport(q)
    BY <1>a, <1>1, OthersPhotos DEF Was, OnReport
  <2>2. AboutOne(q, d)
    BY <1>c, <2>1 DEF AboutOne
  <2> QED
    BY <1>c, <1>d, <2>1, <2>2 DEF RpInv, AssignSaw
<1>2. CASE q = r
  <2>1. FindsReport(r)
    BY <1>2, OwnReport DEF WritesReport
  <2> PICK x \in reports :
        req'[r].report = x.id /\ req'[r].row = x.user /\ loaded'[r].status = x.status
    BY <2>1 DEF FindsReport
  <2>2. About(d, x)
    BY <1>2, <1>c DEF AboutOne, About
  <2>3. x.status \in Decided \/ Reopened(d)
    BY <1>b, <1>c, <2>2 DEF RpInv, DecisionsStay, StaysDecided
  <2>4. Was(r)' = x.status
    BY <2>1 DEF FindsReport, Was
  <2> QED
    BY <1>2, <1>d, <2>3, <2>4
<1> QED
  BY <1>1, <1>2

LEMMA RpInvKept ==
  ASSUME RpInv, [Next]_bvars
  PROVE  RpInv'
<1>1. UInv'
  BY UKeeps DEF RpInv
<1>2. CASE UNCHANGED <<requests, reports>>
  BY <1>1, <1>2
     DEF RpInv, ReportsTyped, DecidedSaw, AssignSaw, DecisionsStay, StaysDecided, Reopened, TakesUp,
         Decides, OnReport, AboutOne, About, Was, Committed, Overlap, requests
<1>3. ASSUME NEW r \in Req, Advances(r), ReportStep(r)
      PROVE  RpInv'
  BY <1>1, <1>3, ReportsTypedKept, DecidedSawKept, DecisionsStayKept, AssignSawKept DEF RpInv
<1> QED
  BY <1>2, <1>3, ReportKinds DEF RpInv

(***************************************************************************)
(* What was decided is taken up again only by a moderator who asks for     *)
(* another status, or by an assignment that was on its way: the commit     *)
(* writes the status only if the request changes what it has loaded.       *)
(***************************************************************************)
THEOREM DecisionsAreKept == Spec => []DecisionsHold
<1>1. RpInv => DecisionsHold
  <2> SUFFICES ASSUME RpInv, NEW r \in Req, NEW x \in reports, Decides(r), About(r, x),
                      x.status \notin Decided
               PROVE  \E q \in Req :
                        /\ Committed(q) /\ q \notin before[r]
                        /\ OnReport(q) /\ req[q].report = x.id /\ req[q].row = x.user
                        /\ req[q].to \notin Decided
                        /\ req[q].op = "assign" => Overlap(q, r)
    BY DEF DecisionsHold, About
  <2>1. Reopened(r)
    BY DEF RpInv, DecisionsStay, StaysDecided
  <2> QED
    BY <2>1 DEF Reopened, TakesUp, AboutOne, About
<1> QED
  BY <1>1, RpInvInit, RpInvKept, PTL DEF Spec
=============================================================================
