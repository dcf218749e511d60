----------------------------- MODULE ConfigKeys -----------------------------
(***************************************************************************)
(* The registry of configuration keys.  A key is the part before its first *)
(* dot, the prefix enable_ if the rest has it, and what is left of it.     *)
(***************************************************************************)
EXTENDS Integers

Key(part, enable, name) == [part |-> part, enable |-> enable, name |-> name]
Plain(part, names) == {Key(part, FALSE, n) : n \in names}

\* ConfigKeySpec: type and category of keys, and whether they have a default.
Specs(category, type, default, keySet) ==
  {[key |-> k, category |-> category, type |-> type, default |-> default] : k \in keySet}

Branding ==
  Specs("branding", "STRING", TRUE,
        Plain("branding", {"app_name", "tagline", "primary_color", "secondary_color",
                           "background_color", "text_color", "accent_color"}))
  \cup Specs("branding", "STRING", FALSE, Plain("branding", {"logo_url", "dark_logo_url"}))

Maintenance ==
  Specs("app", "BOOLEAN", TRUE, Plain("app", {"maintenance_mode"}))
  \cup Specs("app", "STRING", FALSE, Plain("app", {"maintenance_message"}))

Features ==
  Specs("features", "BOOLEAN", TRUE,
        {Key("features", TRUE, n) :
           n \in {"registration", "swiping", "messaging", "astrology", "job_verification",
                  "family_sharing", "video_calls", "premium"}})

Limits ==
  Specs("limits", "INTEGER", TRUE,
        Plain("limits", {"max_photos", "max_daily_swipes", "max_profile_images"}))

Pricing ==
  Specs("pricing", "INTEGER", TRUE,
        Plain("pricing", {"local_job_verification", "nri_job_verification"}))

Versions ==
  Specs("versions", "STRING", TRUE,
        Plain("app", {"minimum_ios_version", "minimum_android_version",
                      "latest_ios_version", "latest_android_version"}))
  \cup Specs("versions", "BOOLEAN", TRUE,
             Plain("app", {"force_update_ios", "force_update_android"}))

Legal ==
  Specs("legal", "STRING", FALSE, Plain("app", {"privacy_url", "terms_url", "contact_url"}))

Support ==
  Specs("support", "STRING", FALSE, Plain("app", {"support_email", "support_phone"}))

CONFIG_KEY_SPECS ==
  Branding \cup Maintenance \cup Features \cup Limits \cup Pricing \cup Versions
    \cup Legal \cup Support

\* The seed skips specs without a default.
SeededKeys == {s.key : s \in {x \in CONFIG_KEY_SPECS : x.default}}

\* public_name_for
PublicName(k) ==
  CASE k.part = "features"                 -> Key("", FALSE, k.name)
    [] k \in Plain("app", {"support_email"}) -> Key("", FALSE, "email")
    [] k \in Plain("app", {"support_phone"}) -> Key("", FALSE, "phone")
    [] OTHER                               -> Key("", k.enable, k.name)
=============================================================================
