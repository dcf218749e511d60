----------------------------- MODULE Migrations -----------------------------
(***************************************************************************)
(* The three Alembic revisions, in the order in which they apply, as the   *)
(* statements that decide what may be stored: tables with their columns,   *)
(* foreign keys and unique keys, the width of the configuration keys and   *)
(* the roles that a CHECK admits.  Every table has a primary key "id".     *)
(* Column types, other indexes and server defaults are left out.           *)
(***************************************************************************)
EXTENDS Sequences, SequencesExt, Schema

Lookups ==
  << Tab("app_config", {"key", "value", "description"}, {}, {{"key"}}),
     Tab("castes", {"religion", "name", "is_active"}, {}, {{"religion", "name"}}),
     Stamped("conversations", {"last_message_at"}, {}, {}),
     Tab("countries", {"code", "name", "is_active"}, {}, {{"name"}, {"code"}}),
     Tab("education_levels", {"name", "is_active"}, {}, {{"name"}}),
     Tab("interests", {"slug", "name", "is_active"}, {}, {{"slug"}}),
     Tab("languages", {"code", "name", "is_active"}, {}, {{"code"}}),
     Tab("occupations", {"name", "is_active"}, {}, {{"name"}}),
     Tab("religions", {"name", "is_active"}, {}, {{"name"}}),
     Tab("states", {"country_code", "name", "is_active"},
         {}, {{"country_code", "name"}}),
     Stamped("subscription_plans",
         {"name", "description", "price", "currency", "duration_days", "features",
          "is_active"}, {}, {}) >>

Users ==
  << Stamped("users",
         {"phone_number", "email", "password_hash", "phone_verified_at",
          "email_verified_at", "account_status", "role", "is_banned", "banned_at",
          "last_login_at", "last_active_at", "deleted_at"},
         {}, {{"email"}, {"phone_number"}}) >>

Astrology ==
  << Stamped("astrology_profiles",
         {"user_id", "time_of_birth", "place_of_birth", "birth_lat", "birth_lng",
          "birth_timezone", "rashi", "nakshatra", "gothram", "dosham", "horoscope_data",
          "horoscope_verified"}, {Cascade("user_id", "users")}, {{"user_id"}}) >>

Pairs ==
  << Tab("audit_logs",
         {"actor_user_id", "action", "entity_type", "entity_id", "metadata",
          "ip_address", "user_agent", "created_at"},
         {SetNull("actor_user_id", "users")}, {}),
     Stamped("blocks", {"blocker_id", "blocked_id"},
         {Cascade("blocked_id", "users"), Cascade("blocker_id", "users")},
         {{"blocker_id", "blocked_id"}}),
     Tab("conversation_participants", {"conversation_id", "user_id", "joined_at"},
         {Cascade("conversation_id", "conversations"), Cascade("user_id", "users")},
         {{"conversation_id", "user_id"}}) >>

Families ==
  << Stamped("families",
         {"user_id", "family_type", "family_values", "about_family", "family_location"},
         {Cascade("user_id", "users")}, {{"user_id"}}),
     Stamped("family_members",
         {"user_id", "relationship", "name", "occupation", "education", "marital_status"},
         {Cascade("user_id", "users")}, {{"user_id", "relationship"}}),
     Stamped("matches",
         {"user1_id", "user2_id", "status", "matched_at", "unmatched_at"},
         {Cascade("user1_id", "users"), Cascade("user2_id", "users")},
         {{"user1_id", "user2_id"}}) >>

Talk ==
  << Stamped("messages",
         {"conversation_id", "sender_id", "message_type", "body", "media_url",
          "delivered_at", "read_at", "deleted_at"},
         {Cascade("conversation_id", "conversations"), Cascade("sender_id", "users")},
         {}),
     Tab("notifications",
         {"user_id", "type", "title", "body", "data", "is_read", "read_at", "created_at"},
         {Cascade("user_id", "users")}, {}),
     Stamped("partner_preferences",
         {"user_id", "age_min", "age_max", "height_min_cm", "height_max_cm",
          "preferred_marital_status", "preferred_physical_status",
          "preferred_family_values", "preferred_education", "preferred_employed_in",
          "religion_level", "caste_level", "language_level", "country_level",
          "state_level", "diet_level"}, {Cascade("user_id", "users")}, {{"user_id"}}) >>

Shown ==
  << Stamped("payments",
         {"user_id", "amount", "currency", "payment_type", "status", "provider",
          "provider_payment_id", "metadata", "paid_at"},
         {Cascade("user_id", "users")}, {{"provider_payment_id"}}),
     Stamped("photos",
         {"user_id", "url", "thumbnail_url", "position", "is_profile_photo",
          "verification_status", "visibility", "mime_type", "file_size", "uploaded_at",
          "deleted_at"}, {Cascade("user_id", "users")}, {}),
     Stamped("profile_shares",
         {"owner_user_id", "shared_with_user_id", "permission", "expires_at",
          "revoked_at"},
         {Cascade("owner_user_id", "users"), Cascade("shared_with_user_id", "users")},
         {{"owner_user_id", "shared_with_user_id"}}) >>

Profiles ==
  << Stamped("profiles",
         {"user_id", "first_name", "last_name", "date_of_birth", "gender", "bio",
          "intent", "marital_status", "height_cm", "body_type", "complexion",
          "physical_status", "diet", "drinking", "smoking", "mother_tongue",
          "preferred_language", "religion", "caste", "sub_caste", "education",
          "college", "field_of_study", "graduation_year", "employment_status",
          "occupation", "job_title", "workplace", "industry", "annual_income",
          "income_currency", "country", "state", "city", "hometown", "location_lat",
          "location_lng", "location_updated_at", "profile_created_by"},
         {Cascade("user_id", "users")}, {{"user_id"}}) >>

Trust ==
  << Tab("refresh_tokens",
         {"user_id", "jti", "expires_at", "revoked_at", "replaced_by_jti", "created_at"},
         {Cascade("user_id", "users")}, {{"jti"}}),
     Stamped("reports",
         {"reporter_id", "reported_user_id", "reason", "description", "status",
          "reviewed_by", "reviewed_at"},
         {Cascade("reported_user_id", "users"), Cascade("reporter_id", "users"),
          SetNull("reviewed_by", "users")},
         {}),
     Stamped("subscriptions",
         {"user_id", "plan_id", "status", "starts_at", "expires_at", "auto_renew",
          "provider", "provider_subscription_id"},
         {Protect("plan_id", "subscription_plans"), Cascade("user_id", "users")}, {}) >>

ChoiceTables ==
  << Stamped("swipes", {"from_user_id", "to_user_id", "action"},
         {Cascade("from_user_id", "users"), Cascade("to_user_id", "users")},
         {{"from_user_id", "to_user_id", "action"}}),
     Tab("user_interests", {"user_id", "interest_id"},
         {Cascade("interest_id", "interests"), Cascade("user_id", "users")},
         {{"user_id", "interest_id"}}),
     Tab("user_languages", {"user_id", "language_id", "is_native", "proficiency"},
         {Cascade("language_id", "languages"), Cascade("user_id", "users")},
         {{"user_id", "language_id"}}),
     Stamped("user_privacy_settings",
         {"user_id", "show_online_status", "show_distance", "show_last_seen",
          "profile_visibility", "photo_visibility", "phone_visibility",
          "email_visibility", "allow_messages_from", "allow_match_requests"},
         {Cascade("user_id", "users")}, {{"user_id"}}),
     Stamped("job_verifications",
         {"user_id", "employment_type", "employer_name", "job_title", "country",
          "verification_status", "amount_paid", "currency", "payment_id",
          "submitted_at", "verified_at", "expires_at", "reviewer_id", "rejection_reason"},
         {SetNull("payment_id", "payments"), SetNull("reviewer_id", "users"),
          Cascade("user_id", "users")},
         {}) >>

Preferred ==
  << Tab("preferred_castes", {"preference_id", "caste", "level"},
         {Cascade("preference_id", "partner_preferences")},
         {{"preference_id", "caste"}}),
     Tab("preferred_countries", {"preference_id", "country", "level"},
         {Cascade("preference_id", "partner_preferences")},
         {{"preference_id", "country"}}),
     Tab("preferred_diets", {"preference_id", "diet", "level"},
         {Cascade("preference_id", "partner_preferences")}, {{"preference_id", "diet"}}),
     Tab("preferred_languages", {"preference_id", "language", "level"},
         {Cascade("preference_id", "partner_preferences")},
         {{"preference_id", "language"}}),
     Tab("preferred_religions", {"preference_id", "religion", "level"},
         {Cascade("preference_id", "partner_preferences")},
         {{"preference_id", "religion"}}),
     Tab("preferred_states", {"preference_id", "state", "level"},
         {Cascade("preference_id", "partner_preferences")},
         {{"preference_id", "state"}}) >>

\* Revision ed1fc2a55f8d.  It has no CHECK on users.role.
InitialTables ==
  Lookups \o Users \o Astrology \o Pairs \o Families \o Talk \o Shown \o Profiles
    \o Trust \o ChoiceTables \o Preferred

InitialUp == [i \in DOMAIN InitialTables |-> CreateTable(InitialTables[i])]

\* Fault: in the order of creation.
FaultInitialDown ==
  [i \in DOMAIN InitialTables |-> DropTable(InitialTables[i].name)]

InitialDown ==
  [i \in DOMAIN InitialTables |-> DropTable(Reverse(InitialTables)[i].name)]

\* Revision 2f5a9c32816d.
RemoteConfigColumns ==
  {"value_type", "category", "is_public", "is_active", "updated_by", "created_at",
   "updated_at"}

RemoteConfigUp ==
  << AddColumns("app_config", RemoteConfigColumns, {SetNull("updated_by", "users")}),
     KeyWidth(120) >>

RemoteConfigDown ==
  << KeyWidth(100), DropColumns("app_config", RemoteConfigColumns) >>

-----------------------------------------------------------------------------
(***************************************************************************)
(* Revision 6eb6cb471fac.                                                  *)
(***************************************************************************)
FirstRoles == {"USER", "MODERATOR", "VERIFIER", "ADMIN", "SUPER_ADMIN"}
NewRoles   == {"SUPPORT", "FINANCE", "ANALYST"}

\* Fault: the new roles stay forbidden.
FaultRoleCheck(allowNewRoles) == CheckRoles(FirstRoles)

\* _recreate_user_role_check
RoleCheck(allowNewRoles) ==
  CheckRoles(IF allowNewRoles THEN FirstRoles \cup NewRoles ELSE FirstRoles)

Dashboard ==
  << Stamped("role_permissions", {"role", "permission"}, {}, {{"role", "permission"}}),
     Stamped("user_totp_secrets", {"user_id", "secret", "is_enabled", "last_used_at"},
         {Cascade("user_id", "users")}, {{"user_id"}}),
     Tab("totp_recovery_codes", {"user_id", "code_hash", "used_at", "created_at"},
         {Cascade("user_id", "users")}, {}),
     Tab("notification_campaigns",
         {"title", "message", "channel", "audience", "status", "target_count",
          "delivered_count", "scheduled_at", "started_at", "completed_at", "created_by",
          "created_at"}, {SetNull("created_by", "users")}, {}) >>

ReviewColumns == {"review_status", "reviewed_by", "reviewed_at", "review_reason"}
SuspensionColumns ==
  {"suspended_at", "suspended_until", "suspended_reason", "suspended_by"}

DashboardUp ==
  << RoleCheck(TRUE) >>
    \o [i \in DOMAIN Dashboard |-> CreateTable(Dashboard[i])]
    \o << AddColumns("profiles", ReviewColumns, {SetNull("reviewed_by", "users")}),
          AddColumns("job_verifications", {"reviewer_notes"}, {}),
          AddColumns("users", SuspensionColumns, {SetNull("suspended_by", "users")}) >>

\* Fault: reviewer_notes stays.
FaultDashboardDown ==
  << DropColumns("users", SuspensionColumns), DropColumns("profiles", ReviewColumns) >>
    \o [i \in DOMAIN Dashboard |-> DropTable(Reverse(Dashboard)[i].name)]
    \o << RoleCheck(FALSE) >>

DashboardDown ==
  << DropColumns("users", SuspensionColumns),
     DropColumns("job_verifications", {"reviewer_notes"}),
     DropColumns("profiles", ReviewColumns) >>
    \o [i \in DOMAIN Dashboard |-> DropTable(Reverse(Dashboard)[i].name)]
    \o << RoleCheck(FALSE) >>

-----------------------------------------------------------------------------
\* down_revision chains them.
Revision == << [up |-> InitialUp,      down |-> InitialDown],
               [up |-> RemoteConfigUp, down |-> RemoteConfigDown],
               [up |-> DashboardUp,    down |-> DashboardDown] >>
Latest == Len(Revision)

\* alembic upgrade head, and downgrade to an earlier revision.
Upgrade(from) ==
  FlattenSeq([i \in 1 .. Latest - from |-> Revision[from + i].up])
Downgrade(from, to) ==
  FlattenSeq([i \in 1 .. from - to |-> Revision[from + 1 - i].down])

\* What a fresh database looks like at each revision.
SchemaAt ==
  [n \in 0 .. Latest |->
     FoldLeft(Apply, EmptyDatabase, FlattenSeq([i \in 1 .. n |-> Revision[i].up]))]
=============================================================================
