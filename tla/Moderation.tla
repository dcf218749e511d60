----------------------------- MODULE Moderation -----------------------------
(***************************************************************************)
(* Photos, reports and profile shares, and what moderators do with them.   *)
(* A request loads the rows it needs and its commit writes the columns it  *)
(* changed in what was loaded.  Suspending or banning a reported user goes *)
(* through the operations of Sessions, with the report in the transaction. *)
(***************************************************************************)
EXTENDS Sessions

VARIABLES
  photos,   \* rows [id, user, profile, by, status, deleted]; by is the request
            \* that made it the profile photo
  reports,  \* rows [id, user, status]
  shares    \* rows [id, owner, with, due, revoked]; due: has expired

files == <<photos, reports, shares>>

PhotoStatus  == {"PENDING", "VERIFIED", "REJECTED"}
ReportStatus == {"PENDING", "UNDER_REVIEW", "RESOLVED", "DISMISSED", "ESCALATED"}
Decided      == {"RESOLVED", "DISMISSED"}

\* Everybody has a profile photo, has been reported and has another photo.
Another == "another"

ASSUME PhotoAssumption == Another \notin Req

People == {u \in User : mix.roles[u] # "NONE"}

ModerationInit ==
  /\ photos = {[id |-> i, user |-> u, profile |-> (i = Old), by |-> Old,
                status |-> "PENDING", deleted |-> FALSE] : i \in {Old, Another}, u \in People}
  /\ reports = {[id |-> Old, user |-> u, status |-> "PENDING"] : u \in People}
  /\ shares = {}

Signed(u) == role[u] # "NONE" /\ CanCall(account[u])

-----------------------------------------------------------------------------
(***************************************************************************)
(* Photos.                                                                 *)
(***************************************************************************)
PhotoOps == {"profile_photo", "delete_photo", "review_photo"}

\* PhotoService.confirm_upload
ConfirmUpload(r, u) ==
  /\ Signed(u)
  /\ Arrives(r, [op |-> "upload", row |-> u], Nothing, "committed")
  /\ photos' = photos \cup {[id |-> r, user |-> u, profile |-> FALSE, by |-> Old,
                             status |-> "PENDING", deleted |-> FALSE]}
  /\ UNCHANGED <<reports, shares>>

Shown(u) == {p \in photos : p.user = u /\ ~p.deleted}

PhotoRead(r, op, a, p, verdict) ==
  /\ op \in PhotoOps
  /\ p \in Shown(p.user)
  /\ IF op = "review_photo" THEN Permitted(a, "photos.moderate") ELSE a = p.user /\ Signed(a)
  /\ (op = "review_photo") = (verdict # "none")
  /\ Arrives(r, [op |-> op, row |-> p.user, photo |-> p.id, verdict |-> verdict],
             [list |-> Shown(p.user)], "read")
  /\ UNCHANGED files

\* What r leaves of a row: update clears every photo it has listed and then
\* sets its own, so that a flag it found set is not written.
PhotoAfter(r, p) ==
  LET q   == req[r]
      old == {x \in loaded[r].list : x.id = p.id /\ x.user = p.user}
      own == p.id = q.photo
  IN
  IF p.user # q.row \/ old = {} THEN p
  ELSE CASE q.op = "profile_photo" ->
              IF \E x \in old : x.profile = own THEN p
              ELSE [p EXCEPT !.profile = own, !.by = IF own THEN r ELSE @]
         [] q.op = "delete_photo" -> IF own THEN [p EXCEPT !.deleted = TRUE] ELSE p
         [] q.op = "review_photo" -> IF own THEN [p EXCEPT !.status = q.verdict] ELSE p

\* Fault: the photos that had the flag keep it.
FaultPhotoCommit(r) ==
  /\ At(r, "read", PhotoOps)
  /\ photos' = {IF p.id = req[r].photo THEN PhotoAfter(r, p) ELSE p : p \in photos}
  /\ Goes(r, "committed")
  /\ UNCHANGED <<reports, shares>>

PhotoCommit(r) ==
  /\ At(r, "read", PhotoOps)
  /\ photos' = {PhotoAfter(r, p) : p \in photos}
  /\ Goes(r, "committed")
  /\ UNCHANGED <<reports, shares>>

-----------------------------------------------------------------------------
(***************************************************************************)
(* Reports.                                                                *)
(***************************************************************************)
ReportOps == {"assign", "transition"}

\* ReportService.create
CreateReport(r, a, u) ==
  /\ Signed(a) /\ role[u] # "NONE" /\ a # u
  /\ Arrives(r, [op |-> "report", row |-> u], Nothing, "committed")
  /\ reports' = reports \cup {[id |-> r, user |-> u, status |-> "PENDING"]}
  /\ UNCHANGED <<photos, shares>>

ReportRead(r, op, a, x, to) ==
  /\ op \in ReportOps
  /\ Permitted(a, "reports.resolve")
  /\ op = "assign" => to = "UNDER_REVIEW"
  /\ Arrives(r, [op |-> op, row |-> x.user, report |-> x.id, to |-> to],
             [status |-> x.status], "read")
  /\ UNCHANGED files

\* POST /reports/{id}/suspend and /ban: the rest is Sessions'.
ReportAction(r, op, a, x) ==
  /\ op \in {"suspend", "ban"}
  /\ Permitted(a, "reports.resolve")
  /\ MayTarget(op, a, x.user)
  /\ Arrives(r, [op |-> op, by |-> a, row |-> x.user, report |-> x.id, to |-> "RESOLVED"],
             [account |-> account[x.user], status |-> x.status], "read")
  /\ UNCHANGED files

\* Fault: an assignment takes any report under review.
FaultStatusAfter(q, was, is) == IF was = q.to THEN is ELSE q.to

\* The column is written if the request changes what it loaded.
StatusAfter(q, was, is) ==
  IF was = q.to \/ (q.op = "assign" /\ was # "PENDING") THEN is ELSE q.to

ReportAfter(r, was) ==
  {IF x.user = req[r].row /\ x.id = req[r].report
   THEN [x EXCEPT !.status = StatusAfter(req[r], was, @)] ELSE x : x \in reports}

ReportCommit(r) ==
  /\ At(r, "read", ReportOps)
  /\ reports' = ReportAfter(r, loaded[r].status)
  /\ Goes(r, "committed")
  /\ UNCHANGED <<photos, shares>>

\* Sessions' steps, and the report in the commit that ends a report's ban.
SessionsWithReport(r) ==
  /\ SessionArrive(r) \/ SessionContinue(r)
  /\ reports' = IF At(r, "locked", {"suspend", "ban"}) /\ "report" \in DOMAIN req[r]
                THEN ReportAfter(r, loaded[r].was.status) ELSE reports
  /\ UNCHANGED <<photos, shares>>

-----------------------------------------------------------------------------
(***************************************************************************)
(* Shares.                                                                 *)
(***************************************************************************)
\* ShareService.create and get_pair
ShareRead(r, u, v) ==
  /\ Signed(u) /\ role[v] # "NONE" /\ u # v
  /\ ~\E s \in shares : s.owner = u /\ s.with = v /\ ~s.revoked
  /\ Arrives(r, [op |-> "share", row |-> u, with |-> v], Nothing, "read")
  /\ UNCHANGED files

\* UNIQUE (owner, with) covers the revoked rows.
ShareCommit(r) ==
  LET q == req[r] IN
  /\ At(r, "read", {"share"})
  /\ IF \E s \in shares : s.owner = q.row /\ s.with = q.with
     THEN Fails(r, "integrity") /\ UNCHANGED shares
     ELSE /\ Goes(r, "committed")
          /\ shares' = shares \cup {[id |-> r, owner |-> q.row, with |-> q.with,
                                     due |-> FALSE, revoked |-> FALSE]}
  /\ UNCHANGED <<photos, reports>>

\* revoke takes a share in any state; the job takes what is due.
Unshare(r) ==
  /\ \/ /\ Arrives(r, [op |-> "sweep_shares"], Nothing, "committed")
        /\ shares' = {[s EXCEPT !.revoked = @ \/ s.due] : s \in shares}
     \/ \E x \in shares :
          /\ Signed(x.owner)
          /\ Arrives(r, [op |-> "unshare", row |-> x.owner], Nothing, "committed")
          /\ shares' = (shares \ {x}) \cup {[x EXCEPT !.revoked = TRUE]}
  /\ UNCHANGED <<photos, reports>>

\* expires_at passes.
ShareLapses ==
  \E s \in shares :
    /\ ~s.due
    /\ shares' = (shares \ {s}) \cup {[s EXCEPT !.due = TRUE]}
    /\ UNCHANGED <<photos, reports>>

-----------------------------------------------------------------------------
\* Steps that leave Roles and Sessions alone.
ModerationStep(r) ==
  \/ \E u \in User : ConfirmUpload(r, u)
  \/ \E op \in PhotoOps \cap mix.ops, a \in User, p \in photos, v \in PhotoStatus \cup {"none"} :
       v # "PENDING" /\ PhotoRead(r, op, a, p, v)
  \/ \E a, u \in User : CreateReport(r, a, u) \/ ShareRead(r, a, u)
  \/ \E a \in User, x \in reports :
       \/ \E op \in ReportOps \cap mix.ops, to \in ReportStatus : ReportRead(r, op, a, x, to)
       \/ \E op \in {"suspend", "ban"} \cap mix.ops : ReportAction(r, op, a, x)
  \/ PhotoCommit(r) \/ ReportCommit(r) \/ ShareCommit(r) \/ Unshare(r)

-----------------------------------------------------------------------------
\* Somebody has two profile photos only if two requests that set them
\* overlapped: one that came later clears what it finds.
OneProfilePhoto ==
  \A p, q \in photos :
    /\ p # q /\ p.user = q.user
    /\ p.profile /\ q.profile /\ ~p.deleted /\ ~q.deleted
    => {p.by, q.by} \subseteq Req /\ Overlap(p.by, q.by)

OnReport(r) ==
  req[r].op \in ReportOps \/ (req[r].op \in {"suspend", "ban"} /\ "report" \in DOMAIN req[r])

Decides(r) == Committed(r) /\ OnReport(r) /\ req[r].to \in Decided

\* What was decided, be it by a suspension or a ban, is taken up again only
\* by a moderator who asks for another status, or by an assignment on its
\* way when the decision was made.
DecisionsHold ==
  \A r \in Req, x \in reports :
    /\ Decides(r) /\ x.id = req[r].report /\ x.user = req[r].row
    => \/ x.status \in Decided
       \/ \E q \in Req :
            /\ Committed(q) /\ q \notin before[r]
            /\ OnReport(q) /\ req[q].report = x.id /\ req[q].row = x.user
            /\ req[q].to \notin Decided
            /\ req[q].op = "assign" => Overlap(q, r)
=============================================================================
