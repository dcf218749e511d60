------------------------------ MODULE MCAccess ------------------------------
(***************************************************************************)
(* Constants for model-checking Backend.                                   *)
(***************************************************************************)
EXTENDS Backend, TLC

CONSTANTS r1, r2, r3, boss, helper, guest

MCReq == {r1, r2, r3}
MCUser == {boss, helper, guest}
Symmetry == Permutations(MCReq)

\* The roles of boss and helper; guest is an address without account.
Roles2(x, y) == [u \in MCUser |-> CASE u = boss -> x [] u = helper -> y [] OTHER -> "NONE"]

Mix(ops, x, y, on) == [ops |-> ops, roles |-> Roles2(x, y), twofactor |-> on]

\* Requests that touch the same state, from a start that matters to them.
Mix1 == {Mix({"register", "login", "mfa"}, "NONE", "USER", on) : on \in BOOLEAN}
Mix2 == {Mix({"login", "mfa", "setup", "enable_totp", "disable_totp"}, "NONE", "USER", TRUE),
         Mix({"setup", "enable_totp", "reset_2fa"}, "ADMIN", "NONE", FALSE)}
Mix3 == {Mix({"refresh", "logout", "suspend", "revoke_sessions"}, "ADMIN", "USER", FALSE)}
Mix4 == {Mix({"send", "reset"}, "NONE", "USER", FALSE)}
Mix5 == {Mix({"register", "verify", "verify_user"}, "ADMIN", "NONE", FALSE),
         Mix({"send", "verify"}, "NONE", "USER", FALSE)}
Mix6 == {Mix({"change_role", "create_admin"}, "SUPER_ADMIN", "ADMIN", FALSE),
         Mix({"register", "create_admin", "seed"}, "ADMIN", "NONE", FALSE)}
Mix7 == {Mix({"set_permissions", "seed"}, "ADMIN", "NONE", FALSE)}
Mix8 == {Mix({"ban", "unban", "delete", "restore"}, "ADMIN", "USER", FALSE),
         Mix({"suspend", "ban", "disable", "enable"}, "ADMIN", "USER", FALSE)}
Mix9 == {Mix({"reset", "login", "refresh", "change_password"}, "NONE", "USER", FALSE)}

Mix10 == {Mix({"upload", "profile_photo", "delete_photo", "review_photo"},
              "ADMIN", "NONE", FALSE)}
Mix11 == {Mix({"assign", "transition", "ban"}, "ADMIN", "USER", FALSE),
          Mix({"report", "suspend", "assign"}, "ADMIN", "USER", FALSE)}
Mix12 == {Mix({"share", "unshare", "sweep_shares"}, "USER", "USER", FALSE)}
Mix13 == {Mix({"create_config", "update_config", "deactivate_config", "read_config"},
              "ADMIN", "NONE", FALSE)}
Mix14 == {Mix({"campaign", "fanout", "delete"}, "ADMIN", "USER", FALSE)}

MCMixes == Mix1 \cup Mix2 \cup Mix3 \cup Mix4 \cup Mix5 \cup Mix6 \cup Mix7 \cup Mix8
             \cup Mix9 \cup Mix10 \cup Mix11 \cup Mix12 \cup Mix13 \cup Mix14

\* The roles that are given, and the permission sets that are written.
MCGiven == {"USER", "ADMIN", "SUPER_ADMIN"}
MCEdits == {{}, {"other"}, {"admin_users.manage"}}

\* A key that is seeded and one that is not.
MCConfigKey == {Key("features", TRUE, "swiping"), Key("banner", FALSE, "text")}

\* One batch, and two.
MCAudience == {{helper}, {boss, helper}}
=============================================================================
