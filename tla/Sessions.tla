------------------------------ MODULE Sessions ------------------------------
(***************************************************************************)
(* Registration, login, refresh tokens, two-factor codes, the one-time     *)
(* secrets that are kept in Redis beside the transactions, and the         *)
(* administrators' operations that end a user's sessions.                  *)
(*                                                                         *)
(* Passwords that do not match, forged tokens and wrong codes are refused  *)
(* without a change and are left out; a secret or token that expired, or a *)
(* write that Redis lost, is like a secret nobody uses.  A setup issues    *)
(* eight recovery codes; one stands for them.                              *)
(***************************************************************************)
EXTENDS Roles

CONSTANT Old   \* stands for the request that made what exists initially

Id    == Req \cup {Old}
Never == "never"

ASSUME IdAssumption     == Old \notin Req /\ Never \notin Id
ASSUME FactorAssumption == \A m \in Mixes : m.twofactor \in BOOLEAN

VARIABLES
  password, \* the request that set each user's password
  tokens,   \* rows [id, user, parent, revoked] of refresh_tokens
  totp,     \* user_totp_secrets: [secret, enabled] of each user
  codes,    \* rows [id, user, used] of totp_recovery_codes
  verified, \* pairs <<kind, user>>: e-mail or phone verified
  redis,    \* one-time secrets [kind, user, value]
  kept      \* secrets that Redis failed to delete

keys == <<password, tokens, totp, codes, verified>>

Kind == {"reset", "email", "otp"}

\* What a person with sessions, a code and a reset link already has.
SessionsInit ==
  /\ RolesInit
  /\ password = [u \in User |-> Old]
  /\ tokens = {[id |-> Old, user |-> u, parent |-> Never, revoked |-> FALSE] :
                 u \in {v \in User : role[v] # "NONE"}}
  /\ totp = [u \in User |-> [secret |-> IF mix.twofactor THEN Old ELSE Never,
                              enabled |-> mix.twofactor]]
  /\ codes = {[id |-> Old, user |-> u, used |-> FALSE] :
                u \in {v \in User : totp[v].enabled}}
  /\ verified = {}
  /\ redis = {[kind |-> "reset", user |-> u, value |-> Old] :
                u \in {v \in User : role[v] # "NONE"}}
  /\ kept = {}

Active(u) == {t \in tokens : t.user = u /\ ~t.revoked}

\* create_token_pair
Minted(r, u, parent) == [id |-> r, user |-> u, parent |-> parent, revoked |-> FALSE]

Revoke(T) == [t \in tokens |-> IF t \in T THEN [t EXCEPT !.revoked = TRUE] ELSE t]
Revoked(T) == {Revoke(T)[t] : t \in tokens}

-----------------------------------------------------------------------------
(***************************************************************************)
(* register, login and the second step of a login with two factors.        *)
(***************************************************************************)
RegisterCheck(r, u) ==
  /\ ~Found(u)
  /\ Arrives(r, [op |-> "register", row |-> u], Nothing, "read")
  /\ UNCHANGED <<staff, keys, redis, kept>>

\* The INSERT waits for an open one with the same address; the verification
\* link is in Redis before the commit.
RegisterInsert(r) ==
  LET u == req[r].row IN
  /\ At(r, "read", {"register"})
  /\ ~AddressLocked(r, u)
  /\ IF role[u] # "NONE"
     THEN Fails(r, "integrity") /\ UNCHANGED redis
     ELSE /\ Goes(r, "flushed")
          /\ redis' = redis \cup {[kind |-> "email", user |-> u, value |-> r]}
  /\ UNCHANGED <<staff, keys, kept>>

RegisterCommit(r) ==
  LET u == req[r].row IN
  /\ At(r, "flushed", {"register"})
  /\ role' = [role EXCEPT ![u] = "USER"]
  /\ account' = [account EXCEPT ![u] = ActiveAccount]
  /\ password' = [password EXCEPT ![u] = r]
  /\ tokens' = tokens \cup {Minted(r, u, Never)}
  /\ Goes(r, "committed")
  /\ UNCHANGED <<grants, totp, codes, verified, redis, kept>>

\* _assert_login_allowed
LoginAllowed(a) == ~IsDeleted(a) /\ ~IsBanned(a) /\ a.status # "SUSPENDED"

\* TotpService.is_enabled
MfaRequired(u) == totp[u].enabled

LoginRead(r, u) ==
  /\ Found(u)
  /\ LoginAllowed(account[u])
  /\ Arrives(r, [op |-> "login", row |-> u], [mfa |-> MfaRequired(u)], "read")
  /\ UNCHANGED <<staff, keys, redis, kept>>

\* last_login_at is an UPDATE of the row.
LoginCommit(r) ==
  LET u == req[r].row IN
  /\ At(r, "read", {"login"})
  /\ ~RowLocked(r, u)
  /\ tokens' = IF loaded[r].mfa THEN tokens ELSE tokens \cup {Minted(r, u, Never)}
  /\ Goes(r, "committed")
  /\ UNCHANGED <<staff, password, totp, codes, verified, redis, kept>>

\* The logins whose answer was an mfa token, good for five minutes.
MfaTokens == {r \in Req : Committed(r) /\ req[r].op = "login" /\ loaded[r].mfa}

Unused(u) == {c \in codes : c.user = u /\ ~c.used}

\* Fault: a code that was used still opens.
FaultCodeValid(u, c) == c = Never \/ \E x \in codes : x.user = u /\ x.id = c

\* TotpService.verify: a live code (Never), or an unused recovery code.
CodeValid(u, c) == c = Never \/ \E x \in Unused(u) : x.id = c

\* complete_mfa_login does not look at the account's status.
MfaRead(r, m, c) ==
  LET u == req[m].row IN
  /\ totp[u].enabled
  /\ CodeValid(u, c)
  /\ Arrives(r, [op |-> "mfa", row |-> u, code |-> c], Nothing, "read")
  /\ UNCHANGED <<staff, keys, redis, kept>>

\* The UPDATE of a code's row finds none when a setup has replaced it.
MfaCommit(r) ==
  LET u   == req[r].row
      own == {x \in codes : x.user = u /\ x.id = req[r].code}
  IN
  /\ At(r, "read", {"mfa"})
  /\ IF req[r].code # Never /\ own = {}
     THEN Fails(r, "failed") /\ UNCHANGED keys
     ELSE /\ codes' = (codes \ own) \cup {[x EXCEPT !.used = TRUE] : x \in own}
          /\ tokens' = tokens \cup {Minted(r, u, Never)}
          /\ Goes(r, "committed")
          /\ UNCHANGED <<password, totp, verified>>
  /\ UNCHANGED <<staff, redis, kept>>

-----------------------------------------------------------------------------
(***************************************************************************)
(* Rotation and logout.                                                    *)
(***************************************************************************)
RefreshRead(r, t) ==
  /\ ~t.revoked
  /\ \E op \in {"refresh", "logout"} :
       Arrives(r, [op |-> op, row |-> t.user, token |-> t.id], Nothing, "read")
  /\ UNCHANGED <<staff, keys, redis, kept>>

\* Fault: the old token stays.
FaultRefreshCommit(r) ==
  /\ At(r, "read", {"refresh", "logout"})
  /\ tokens' = tokens \cup {Minted(r, req[r].row, req[r].token)}
  /\ Goes(r, "committed")
  /\ UNCHANGED <<staff, password, totp, codes, verified, redis, kept>>

\* refresh: the new row, and the old one revoked; logout: the latter alone.
RefreshCommit(r) ==
  LET old == {t \in tokens : t.user = req[r].row /\ t.id = req[r].token} IN
  /\ At(r, "read", {"refresh", "logout"})
  /\ tokens' = Revoked(old) \cup
       {Minted(r, t.user, t.id) : t \in {x \in old : req[r].op = "refresh"}}
  /\ Goes(r, "committed")
  /\ UNCHANGED <<staff, password, totp, codes, verified, redis, kept>>

-----------------------------------------------------------------------------
(***************************************************************************)
(* Operations that revoke every token of a user: the administrators'       *)
(* suspend, ban, delete, disable and revoke-sessions, and a password       *)
(* reset.  The SELECT of the tokens flushes what was written to the user   *)
(* before, which locks the row.                                            *)
(***************************************************************************)
StatusOps == {"suspend", "ban", "delete", "disable"}
RevokeOps == StatusOps \cup {"revoke_sessions", "reset"}

\* The guards of the services on the target.
MayTarget(op, a, u) ==
  LET admin == role[u] \in {"ADMIN", "SUPER_ADMIN"} IN
  CASE op = "suspend" -> (admin => a = u) /\ account[u].status # "DELETED"
    [] op = "ban"     -> admin => a = u
    [] op = "delete"  -> ~admin
    [] op = "disable" -> a # u /\ (role[u] = "SUPER_ADMIN" => role[a] = "SUPER_ADMIN")
    [] OTHER          -> TRUE

TargetRead(r, op, a, u) ==
  /\ op \in RevokeOps \ {"reset"}
  /\ role[u] # "NONE"
  /\ Permitted(a, Needs(op))
  /\ MayTarget(op, a, u)
  /\ Arrives(r, [op |-> op, by |-> a, row |-> u], [account |-> account[u]], "read")
  /\ UNCHANGED <<staff, keys, redis, kept>>

\* Fault: forgets the tokens when the account is suspended.
FaultListed(r) == IF req[r].op = "suspend" THEN {} ELSE Active(req[r].row)

\* revoke_all_for_user: the rows the SELECT returns.
Listed(r) == Active(req[r].row)

RevokeList(r) ==
  /\ \/ At(r, "read", StatusOps \cup {"revoke_sessions"})
     \/ At(r, "dropped", {"reset"})
  /\ ~RowLocked(r, req[r].row)
  /\ Keeps(r, [list |-> Listed(r), was |-> loaded[r]], "locked")
  /\ UNCHANGED <<staff, keys, redis, kept>>

RevokeCommit(r) ==
  LET q   == req[r]
      ids == {t.id : t \in loaded[r].list}
  IN
  /\ At(r, "locked", RevokeOps)
  /\ account' = IF q.op \in StatusOps
                THEN [account EXCEPT ![q.row] = Written(q.op, loaded[r].was.account, @)]
                ELSE account
  /\ password' = IF q.op = "reset" THEN [password EXCEPT ![q.row] = r] ELSE password
  /\ tokens' = Revoked({t \in tokens : t.user = q.row /\ t.id \in ids})
  /\ Goes(r, "committed")
  /\ UNCHANGED <<role, grants, totp, codes, verified, redis, kept>>

-----------------------------------------------------------------------------
(***************************************************************************)
(* One-time secrets.  Redis calls are best effort: a write or a delete may *)
(* not happen.  A code for a phone is kept under the phone, so that a new  *)
(* one replaces it; links are kept under their token.                      *)
(***************************************************************************)
SameKey(k, kind, u, v) ==
  k.kind = kind /\ k.user = u /\ (kind # "otp" => k.value = v)

\* forgot_password and send_otp.
SendSecret(r, kind, u) ==
  /\ kind \in {"reset", "otp"}
  /\ Found(u)
  /\ Arrives(r, [op |-> "send", row |-> u, kind |-> kind], Nothing, "committed")
  /\ redis' = {k \in redis : ~SameKey(k, kind, u, r)}
                \cup {[kind |-> kind, user |-> u, value |-> r]}
  /\ UNCHANGED <<staff, keys, kept>>

\* reset_password, verify_email, verify_otp: GET ...
UseGet(r, kind, u, v) ==
  /\ [kind |-> kind, user |-> u, value |-> v] \in redis
  /\ Arrives(r, [op |-> IF kind = "reset" THEN "reset" ELSE "verify",
                 row |-> u, kind |-> kind, value |-> v], Nothing, "got")
  /\ UNCHANGED <<staff, keys, redis, kept>>

\* ... and DELETE, which takes whatever is under the key by then.
UseDelete(r) ==
  LET q == req[r] IN
  /\ At(r, "got", {"reset", "verify"})
  /\ \/ redis' = {k \in redis : ~SameKey(k, q.kind, q.row, q.value)} /\ UNCHANGED kept
     \/ /\ kept' = kept \cup {[kind |-> q.kind, user |-> q.row, value |-> q.value]}
        /\ UNCHANGED redis
  /\ Goes(r, "dropped")
  /\ UNCHANGED <<staff, keys>>

\* AdminUserService.verify
VerifyRead(r, a, u, kind) ==
  /\ kind \in {"email", "otp"}
  /\ role[u] # "NONE"
  /\ Permitted(a, Needs("verify_user"))
  /\ Arrives(r, [op |-> "verify_user", by |-> a, row |-> u, kind |-> kind], Nothing, "read")
  /\ UNCHANGED <<staff, keys, redis, kept>>

\* verify_email finds the user by id, verify_otp by phone; who is not found
\* is not verified, and the answer is the same.
VerifyCommit(r) ==
  LET q == req[r] IN
  /\ At(r, "dropped", {"verify"}) \/ At(r, "read", {"verify_user"})
  /\ ~RowLocked(r, q.row)
  /\ verified' = IF role[q.row] # "NONE" /\ (q.op = "verify" /\ q.kind = "otp" => Found(q.row))
                 THEN verified \cup {<<q.kind, q.row>>} ELSE verified
  /\ Goes(r, "committed")
  /\ UNCHANGED <<staff, password, tokens, totp, codes, redis, kept>>

-----------------------------------------------------------------------------
(***************************************************************************)
(* Two factors: setup, enable, disable and the administrators' reset, and  *)
(* change_password.  They load the row and write the columns that changed. *)
(***************************************************************************)
TotpOps == {"setup", "enable_totp", "disable_totp", "reset_2fa", "change_password"}

TotpRead(r, op, a, u) ==
  /\ op \in TotpOps
  /\ role[u] # "NONE"
  /\ op # "reset_2fa" => a = u
  /\ IF op = "reset_2fa" THEN Permitted(a, Needs(op)) ELSE CanCall(account[u])
  /\ op = "enable_totp" => totp[u].secret # Never
  /\ Arrives(r, [op |-> op, row |-> u], [totp |-> totp[u]], "read")
  /\ UNCHANGED <<staff, keys, redis, kept>>

\* The column is written if the operation changes what was loaded.
Enabled(r, u, on) == IF loaded[r].totp.enabled = on THEN totp[u].enabled ELSE on

\* Fault: the secret that was in use stays enabled.
FaultSetupCommit(r) ==
  LET u == req[r].row IN
  /\ At(r, "read", {"setup"})
  /\ totp' = [totp EXCEPT ![u].secret = r]
  /\ codes' = {c \in codes : c.user # u} \cup {[id |-> r, user |-> u, used |-> FALSE]}
  /\ Goes(r, "committed")
  /\ UNCHANGED <<staff, password, tokens, verified, redis, kept>>

\* A secret inserted twice violates its unique user.
SetupCommit(r) ==
  LET u == req[r].row IN
  /\ At(r, "read", {"setup"})
  /\ IF loaded[r].totp.secret = Never /\ totp[u].secret # Never
     THEN Fails(r, "integrity") /\ UNCHANGED <<totp, codes>>
     ELSE /\ Goes(r, "committed")
          /\ totp' = [totp EXCEPT ![u] = [secret |-> r, enabled |-> Enabled(r, u, FALSE)]]
          /\ codes' = {c \in codes : c.user # u}
                        \cup {[id |-> r, user |-> u, used |-> FALSE]}
  /\ UNCHANGED <<staff, password, tokens, verified, redis, kept>>

TotpCommit(r) ==
  LET u == req[r].row op == req[r].op IN
  /\ At(r, "read", TotpOps \ {"setup"})
  /\ op = "change_password" => ~RowLocked(r, u)
  /\ password' = IF op = "change_password" THEN [password EXCEPT ![u] = r] ELSE password
  /\ totp' = IF op = "change_password" \/ loaded[r].totp.secret = Never THEN totp
             ELSE [totp EXCEPT ![u].enabled = Enabled(r, u, op = "enable_totp")]
  /\ codes' = IF op # "reset_2fa" THEN codes
              ELSE {c \in codes : c.user # u} \cup {[id |-> r, user |-> u, used |-> FALSE]}
  /\ Goes(r, "committed")
  /\ UNCHANGED <<staff, tokens, verified, redis, kept>>

-----------------------------------------------------------------------------
SessionArrive(r) ==
  \/ \E u \in User : RegisterCheck(r, u) \/ LoginRead(r, u)
  \/ \E m \in MfaTokens, c \in Id \cup {Never} : MfaRead(r, m, c)
  \/ \E t \in tokens : RefreshRead(r, t)
  \/ \E a, u \in User, op \in RevokeOps \cap mix.ops : TargetRead(r, op, a, u)
  \/ \E u \in User, k \in Kind : SendSecret(r, k, u) \/ \E v \in Id : UseGet(r, k, u, v)
  \/ \E a, u \in User, k \in Kind : VerifyRead(r, a, u, k)
  \/ \E a, u \in User, op \in TotpOps \cap mix.ops : TotpRead(r, op, a, u)

SessionContinue(r) ==
  \/ RegisterInsert(r) \/ RegisterCommit(r) \/ LoginCommit(r) \/ MfaCommit(r)
  \/ RefreshCommit(r) \/ RevokeList(r) \/ RevokeCommit(r)
  \/ UseDelete(r) \/ VerifyCommit(r) \/ SetupCommit(r) \/ TotpCommit(r)

-----------------------------------------------------------------------------
\* Rows have their types.
SessionsTypeOK ==
  /\ account \in [User -> Account]
  /\ role \in [User -> Role \cup {"NONE"}]
  /\ grants \subseteq AdminRole \X Permission \X Req
  /\ password \in [User -> Id]
  /\ tokens \subseteq [id : Id, user : User, parent : Id \cup {Never}, revoked : BOOLEAN]
  /\ totp \in [User -> [secret : Id \cup {Never}, enabled : BOOLEAN]]
  /\ codes \subseteq [id : Id, user : User, used : BOOLEAN]
  /\ redis \subseteq [kind : Kind, user : User, value : Id]
  /\ pc \in [Req -> {"new"} \cup Open \cup Answered]

\* A refresh token that was rotated is revoked as soon as its successor
\* exists, a revoked one never works again, and two successors of one token
\* come only from requests that overlapped.
RotationIsAtomic ==
  \A t \in tokens :
    /\ \A p \in tokens : p.user = t.user /\ p.id = t.parent => p.revoked
    /\ \A s \in tokens \ {t} :
         t.parent # Never /\ s.user = t.user /\ s.parent = t.parent => Overlap(s.id, t.id)

\* Suspending, banning, deleting or disabling somebody, revoking his
\* sessions and resetting his password end every session that existed when
\* the request arrived; what is still active was made by a request that
\* overlapped it or came later.
SessionsEnd ==
  \A r \in Req :
    Committed(r) /\ req[r].op \in RevokeOps =>
      \A t \in Active(req[r].row) : t.id \notin before[r] \cup {Old}

Uses(r) ==
  IF ~Committed(r) THEN {}
  ELSE CASE req[r].op \in {"reset", "verify"} ->
              {[kind |-> req[r].kind, user |-> req[r].row, value |-> req[r].value]}
         [] req[r].op = "mfa" /\ req[r].code # Never ->
              {[kind |-> "recovery", user |-> req[r].row, value |-> req[r].code]}
         [] OTHER -> {}

\* A reset link, a verification link, an OTP and a recovery code work once,
\* unless Redis failed to delete it or the two uses overlapped.
SecretsWorkOnce ==
  \A q, r \in Req :
    q # r => \A k \in Uses(q) \cap Uses(r) : k \in kept \/ Overlap(q, r)

\* Two factors are never required with a secret whose owner has not shown
\* that he has it, unless the setup that made the secret overlapped the
\* request that confirmed the one before.
EnabledMeansConfirmed ==
  \A u \in User :
    totp[u].enabled /\ totp[u].secret # Old =>
      \E r \in Req :
        /\ Committed(r) /\ req[r].op = "enable_totp" /\ req[r].row = u
        /\ loaded[r].totp.secret = totp[u].secret \/ Overlap(r, totp[u].secret)
=============================================================================
