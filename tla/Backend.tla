------------------------------ MODULE Backend ------------------------------
(***************************************************************************)
(* The requests of people and administrators, and the jobs, over one       *)
(* database and one Redis: accounts, roles, sessions, photos, reports,     *)
(* shares, configuration and campaigns.                                    *)
(***************************************************************************)
EXTENDS Moderation, Settings, Campaigns

secrets == <<redis, kept>>
bvars   == <<requests, staff, keys, secrets, files, settings, news>>

Init ==
  /\ SessionsInit
  /\ ModerationInit
  /\ SettingsInit
  /\ CampaignsInit

Next ==
  \/ \E r \in Req :
       \/ SessionsWithReport(r) /\ UNCHANGED <<settings, news>>
       \/ RolesStep(r) /\ UNCHANGED <<keys, secrets, files, settings, news>>
       \/ ModerationStep(r) /\ UNCHANGED <<staff, keys, secrets, settings, news>>
       \/ SettingsStep(r) /\ UNCHANGED <<staff, keys, secrets, files, news>>
       \/ CampaignStep(r) /\ UNCHANGED <<staff, keys, secrets, files, settings>>
       \/ Rollback(r) /\ UNCHANGED <<staff, keys, secrets, files, settings, news>>
  \/ ShareLapses /\ UNCHANGED <<requests, staff, keys, secrets, settings, news>>
  \/ CacheExpires /\ UNCHANGED <<requests, staff, keys, secrets, files, news>>

Spec == Init /\ [][Next]_bvars
=============================================================================
