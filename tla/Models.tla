------------------------------- MODULE Models -------------------------------
(***************************************************************************)
(* The SQLAlchemy models: the tables that the API and the worker expect.   *)
(***************************************************************************)
EXTENDS Schema

\* models/admin.py
ModelAdmin ==
  { Stamped("role_permissions", {"role", "permission"}, {}, {{"role", "permission"}}),
    Stamped("user_totp_secrets", {"user_id", "secret", "is_enabled", "last_used_at"},
        {Cascade("user_id", "users")}, {{"user_id"}}),
    Tab("totp_recovery_codes", {"user_id", "code_hash", "used_at", "created_at"},
        {Cascade("user_id", "users")}, {}) }

\* models/astrology.py
ModelAstrology ==
  { Stamped("astrology_profiles",
        {"user_id", "time_of_birth", "place_of_birth", "birth_lat", "birth_lng",
         "birth_timezone", "rashi", "nakshatra", "gothram", "dosham", "horoscope_data",
         "horoscope_verified"}, {Cascade("user_id", "users")}, {{"user_id"}}) }

\* models/audit.py
ModelAudit ==
  { Tab("audit_logs",
        {"actor_user_id", "action", "entity_type", "entity_id", "metadata",
         "ip_address", "user_agent", "created_at"},
        {SetNull("actor_user_id", "users")}, {}) }

\* models/billing.py
ModelBilling ==
  { Stamped("subscription_plans",
        {"name", "description", "price", "currency", "duration_days", "features",
         "is_active"}, {}, {}),
    Stamped("subscriptions",
        {"user_id", "plan_id", "status", "starts_at", "expires_at", "auto_renew",
         "provider", "provider_subscription_id"},
        {Cascade("user_id", "users"), Protect("plan_id", "subscription_plans")}, {}),
    Stamped("payments",
        {"user_id", "amount", "currency", "payment_type", "status", "provider",
         "provider_payment_id", "metadata", "paid_at"},
        {Cascade("user_id", "users")}, {{"provider_payment_id"}}) }

\* models/family.py
ModelFamily ==
  { Stamped("families",
        {"user_id", "family_type", "family_values", "about_family", "family_location"},
        {Cascade("user_id", "users")}, {{"user_id"}}),
    Stamped("family_members",
        {"user_id", "relationship", "name", "occupation", "education", "marital_status"},
        {Cascade("user_id", "users")}, {{"user_id", "relationship"}}) }

\* models/lookups.py
ModelLookups ==
  { Tab("languages", {"code", "name", "is_active"}, {}, {{"code"}}),
    Tab("user_languages", {"user_id", "language_id", "is_native", "proficiency"},
        {Cascade("user_id", "users"), Cascade("language_id", "languages")},
        {{"user_id", "language_id"}}),
    Tab("interests", {"slug", "name", "is_active"}, {}, {{"slug"}}),
    Tab("user_interests", {"user_id", "interest_id"},
        {Cascade("user_id", "users"), Cascade("interest_id", "interests")},
        {{"user_id", "interest_id"}}),
    Tab("religions", {"name", "is_active"}, {}, {{"name"}}),
    Tab("castes", {"religion", "name", "is_active"}, {}, {{"religion", "name"}}),
    Tab("countries", {"code", "name", "is_active"}, {}, {{"code"}, {"name"}}),
    Tab("states", {"country_code", "name", "is_active"}, {}, {{"country_code", "name"}}),
    Tab("education_levels", {"name", "is_active"}, {}, {{"name"}}),
    Tab("occupations", {"name", "is_active"}, {}, {{"name"}}),
    Stamped("app_config",
        {"key", "value", "value_type", "category", "is_public", "is_active",
         "description", "updated_by"}, {SetNull("updated_by", "users")}, {{"key"}}) }

\* models/match.py
ModelMatch ==
  { Stamped("matches",
        {"user1_id", "user2_id", "status", "matched_at", "unmatched_at"},
        {Cascade("user1_id", "users"), Cascade("user2_id", "users")},
        {{"user1_id", "user2_id"}}) }

\* models/message.py
ModelMessage ==
  { Stamped("conversations", {"last_message_at"}, {}, {}),
    Tab("conversation_participants", {"conversation_id", "user_id", "joined_at"},
        {Cascade("conversation_id", "conversations"), Cascade("user_id", "users")},
        {{"conversation_id", "user_id"}}),
    Stamped("messages",
        {"conversation_id", "sender_id", "message_type", "body", "media_url",
         "delivered_at", "read_at", "deleted_at"},
        {Cascade("conversation_id", "conversations"), Cascade("sender_id", "users")},
        {}) }

\* models/moderation.py
ModelModeration ==
  { Stamped("blocks", {"blocker_id", "blocked_id"},
        {Cascade("blocker_id", "users"), Cascade("blocked_id", "users")},
        {{"blocker_id", "blocked_id"}}),
    Stamped("reports",
        {"reporter_id", "reported_user_id", "reason", "description", "status",
         "reviewed_by", "reviewed_at"},
        {Cascade("reporter_id", "users"), Cascade("reported_user_id", "users"),
         SetNull("reviewed_by", "users")},
        {}) }

\* models/notification.py
ModelNotification ==
  { Tab("notifications",
        {"user_id", "type", "title", "body", "data", "is_read", "read_at", "created_at"},
        {Cascade("user_id", "users")}, {}),
    Tab("notification_campaigns",
        {"title", "message", "channel", "audience", "status", "target_count",
         "delivered_count", "scheduled_at", "started_at", "completed_at", "created_by",
         "created_at"}, {SetNull("created_by", "users")}, {}) }

\* models/photo.py
ModelPhoto ==
  { Stamped("photos",
        {"user_id", "url", "thumbnail_url", "position", "is_profile_photo",
         "verification_status", "visibility", "mime_type", "file_size", "uploaded_at",
         "deleted_at"}, {Cascade("user_id", "users")}, {}) }

\* models/preference.py
ModelPreference ==
  { Stamped("partner_preferences",
        {"user_id", "age_min", "age_max", "height_min_cm", "height_max_cm",
         "preferred_marital_status", "preferred_physical_status",
         "preferred_family_values", "preferred_education", "preferred_employed_in",
         "religion_level", "caste_level", "language_level", "country_level",
         "state_level", "diet_level"}, {Cascade("user_id", "users")}, {{"user_id"}}),
    Tab("preferred_religions", {"religion", "preference_id", "level"},
        {Cascade("preference_id", "partner_preferences")},
        {{"preference_id", "religion"}}),
    Tab("preferred_castes", {"caste", "preference_id", "level"},
        {Cascade("preference_id", "partner_preferences")}, {{"preference_id", "caste"}}),
    Tab("preferred_languages", {"language", "preference_id", "level"},
        {Cascade("preference_id", "partner_preferences")},
        {{"preference_id", "language"}}),
    Tab("preferred_countries", {"country", "preference_id", "level"},
        {Cascade("preference_id", "partner_preferences")},
        {{"preference_id", "country"}}),
    Tab("preferred_states", {"state", "preference_id", "level"},
        {Cascade("preference_id", "partner_preferences")}, {{"preference_id", "state"}}),
    Tab("preferred_diets", {"diet", "preference_id", "level"},
        {Cascade("preference_id", "partner_preferences")}, {{"preference_id", "diet"}}) }

\* models/profile.py
ModelProfile ==
  { Stamped("profiles",
        {"user_id", "first_name", "last_name", "date_of_birth", "gender", "bio",
         "intent", "marital_status", "height_cm", "body_type", "complexion",
         "physical_status", "diet", "drinking", "smoking", "mother_tongue",
         "preferred_language", "religion", "caste", "sub_caste", "education", "college",
         "field_of_study", "graduation_year", "employment_status", "occupation",
         "job_title", "workplace", "industry", "annual_income", "income_currency",
         "country", "state", "city", "hometown", "location_lat", "location_lng",
         "location_updated_at", "profile_created_by", "review_status", "reviewed_by",
         "reviewed_at", "review_reason"},
        {Cascade("user_id", "users"), SetNull("reviewed_by", "users")}, {{"user_id"}}),
    Stamped("user_privacy_settings",
        {"user_id", "show_online_status", "show_distance", "show_last_seen",
         "profile_visibility", "photo_visibility", "phone_visibility",
         "email_visibility", "allow_messages_from", "allow_match_requests"},
        {Cascade("user_id", "users")}, {{"user_id"}}) }

\* models/share.py
ModelShare ==
  { Stamped("profile_shares",
        {"owner_user_id", "shared_with_user_id", "permission", "expires_at",
         "revoked_at"},
        {Cascade("owner_user_id", "users"), Cascade("shared_with_user_id", "users")},
        {{"owner_user_id", "shared_with_user_id"}}) }

\* models/swipe.py
ModelSwipe ==
  { Stamped("swipes", {"from_user_id", "to_user_id", "action"},
        {Cascade("from_user_id", "users"), Cascade("to_user_id", "users")},
        {{"from_user_id", "to_user_id", "action"}}) }

\* models/user.py
ModelUser ==
  { Stamped("users",
        {"phone_number", "email", "password_hash", "phone_verified_at",
         "email_verified_at", "account_status", "role", "is_banned", "banned_at",
         "suspended_at", "suspended_until", "suspended_reason", "suspended_by",
         "last_login_at", "last_active_at", "deleted_at"},
        {SetNull("suspended_by", "users")}, {{"phone_number"}, {"email"}}),
    Tab("refresh_tokens",
        {"user_id", "jti", "expires_at", "revoked_at", "replaced_by_jti", "created_at"},
        {Cascade("user_id", "users")}, {{"jti"}}) }

\* models/verification.py
ModelVerification ==
  { Stamped("job_verifications",
        {"user_id", "employment_type", "employer_name", "job_title", "country",
         "verification_status", "amount_paid", "currency", "payment_id", "submitted_at",
         "verified_at", "expires_at", "reviewer_id", "rejection_reason",
         "reviewer_notes"},
        {Cascade("user_id", "users"), SetNull("payment_id", "payments"),
         SetNull("reviewer_id", "users")},
        {}) }

Model ==
  UNION {ModelAdmin, ModelAstrology, ModelAudit, ModelBilling, ModelFamily, ModelLookups,
         ModelMatch, ModelMessage, ModelModeration, ModelNotification, ModelPhoto,
         ModelPreference, ModelProfile, ModelShare, ModelSwipe, ModelUser,
         ModelVerification}
=============================================================================
